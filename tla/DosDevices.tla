----------------------------- MODULE DosDevices -----------------------------
(***************************************************************************)
(* The devices dosrun puts before a DOS program: the interval timer, the   *)
(* keyboard and the text screen.                                           *)
(***************************************************************************)
EXTENDS Integers, SequencesExt

-----------------------------------------------------------------------------
(* Time in the DOS machine (userland/dosrun/dosapi.c): channels 0 and 2 of the *)
(* timer as the program sees them through ports 40h, 42h, 43h and 61h, the     *)
(* interrupt controller in front of IRQ 0, the BIOS tick count, and the        *)
(* conversion of the runner's milliseconds to timer clocks.  A byte holds      *)
(* 0..Byte - 1.  A behaviour programs one channel, `chan`.  A byte or a latch  *)
(* that the code keeps but never reads again is 0 here.                        *)

CONSTANTS Byte,            \* 256
          Hz, PerMs,       \* 1193182 clocks in 1000 ms
          Day,             \* 1800B0h ticks
          MaxTime          \* bound on the milliseconds, or instructions, that pass

VARIABLES chan, pit, pic, bda, clock,
          elapsed,         \* clocks since the count was loaded (channel 2: with the gate open)
          raised           \* interrupts requested since then

timerVars == <<chan, pit, pic, bda, clock, elapsed, raised>>

\* dos_new: channel 0 runs in mode 3 with the divisor 0, that is 65536.
TimerInit == /\ chan \in {0, 2}
             /\ pit = [divisor |-> IF chan = 0 THEN Byte * Byte ELSE 1, loaded |-> chan = 0, mode |-> 3, phase |-> 0,
                       low |-> 0, write_high |-> FALSE, read_high |-> FALSE,
                       latched |-> FALSE, latch |-> 0, latch_high |-> FALSE,
                       configured |-> chan = 0, gate |-> chan = 0]
             /\ pic = [irr |-> FALSE, isr |-> FALSE, mask |-> FALSE]
             /\ bda = [ticks |-> 0, rolled |-> FALSE, served |-> 0, handler |-> FALSE]
             /\ clock = [ms |-> 0, fraction |-> 0, clocks |-> 0]
             /\ elapsed = 0 /\ raised = 0

\* Mutant: the first half of an odd count is not the longer one.
CountShort(p) ==
    IF ~p.loaded THEN 0
    ELSE IF p.mode = 3 THEN IF p.phase >= p.divisor \div 2 THEN 2 * (p.divisor - p.phase)
                            ELSE p.divisor + (IF p.divisor % 2 = 1 /\ p.phase > 0 THEN 1 ELSE 0) - 2 * p.phase
    ELSE IF p.phase < p.divisor THEN p.divisor - p.phase ELSE 0

\* pit0_count and pit2_count: mode 3 counts by two, once high and once low.
Count(p) ==
    IF ~p.loaded THEN 0
    ELSE IF p.mode = 3 THEN IF p.phase >= (p.divisor + 1) \div 2 THEN 2 * (p.divisor - p.phase)
                            ELSE p.divisor + (IF p.divisor % 2 = 1 /\ p.phase > 0 THEN 1 ELSE 0) - 2 * p.phase
    ELSE IF p.phase < p.divisor THEN p.divisor - p.phase ELSE 0
Word(n) == n % (Byte * Byte)            \* a count is 16 bits wide

\* dos_timer_advance: the edges of one advance are one request, and mode 0 makes
\* a request only once.
DosTimerAdvance(p, clocks) ==
    LET n    == p.divisor
        left == n - p.phase
    IN IF ~p.loaded \/ clocks = 0 THEN [pit |-> p, edge |-> FALSE]
       ELSE IF p.mode = 0
       THEN [pit |-> [p EXCEPT !.phase = @ + (IF clocks < left THEN clocks ELSE left)], edge |-> left > 0 /\ clocks >= left]
       ELSE [pit |-> [p EXCEPT !.phase = (@ + clocks) % n], edge |-> p.phase + clocks >= n]

\* Mutant: the fraction of a clock is dropped.
DosClockAdvanceDrops(ms) ==
    LET units  == ms * Hz
        clocks == units \div PerMs
        t      == DosTimerAdvance(pit, clocks)
    IN /\ chan = 0 /\ clock.ms + ms <= MaxTime
       /\ clock' = [ms |-> clock.ms + ms, fraction |-> units % PerMs, clocks |-> clock.clocks + clocks]
       /\ pit' = t.pit /\ pic' = [pic EXCEPT !.irr = @ \/ t.edge]
       /\ elapsed' = IF pit.loaded THEN elapsed + clocks ELSE elapsed
       /\ raised' = IF t.edge THEN raised + 1 ELSE raised
       /\ UNCHANGED <<chan, bda>>

\* dos_clock_advance: the part of a clock that is left counts next time.
DosClockAdvance(ms) ==
    LET units  == ms * Hz + clock.fraction
        clocks == units \div PerMs
        t      == DosTimerAdvance(pit, clocks)
    IN /\ chan = 0 /\ clock.ms + ms <= MaxTime
       /\ clock' = [ms |-> clock.ms + ms, fraction |-> units % PerMs, clocks |-> clock.clocks + clocks]
       /\ pit' = t.pit /\ pic' = [pic EXCEPT !.irr = @ \/ t.edge]
       /\ elapsed' = IF pit.loaded THEN elapsed + clocks ELSE elapsed
       /\ raised' = IF t.edge THEN raised + 1 ELSE raised
       /\ UNCHANGED <<chan, bda>>

\* pit2_sync: an instruction is a clock of channel 2 while its gate is open.
Pit2Sync ==
    /\ chan = 2 /\ clock.ms < MaxTime
    /\ clock' = [clock EXCEPT !.ms = @ + 1]
    /\ IF pit.loaded /\ pit.gate
       THEN pit' = [pit EXCEPT !.phase = (@ + 1) % pit.divisor] /\ elapsed' = elapsed + 1
       ELSE UNCHANGED <<pit, elapsed>>
    /\ UNCHANGED <<chan, pic, bda, raised>>

\* pit0_command, and port 43h for channel 2, which knows mode 3 only.
Command(mode) ==
    /\ chan = 2 => mode = 3
    /\ pit' = [pit EXCEPT !.mode = mode, !.phase = 0, !.loaded = FALSE, !.configured = TRUE,
                          !.write_high = FALSE, !.read_high = FALSE, !.latched = FALSE, !.latch = 0]
    /\ elapsed' = 0 /\ raised' = 0
    /\ UNCHANGED <<chan, pic, bda, clock>>

\* The latch command: a count that is latched is not latched again.
Latch == /\ pit.configured /\ ~pit.latched
         /\ pit' = [pit EXCEPT !.latch = Word(Count(pit)), !.latched = TRUE, !.latch_high = FALSE]
         /\ UNCHANGED <<chan, pic, bda, clock, elapsed, raised>>

\* pit0_out, and port 42h: the second byte loads the count.
Out(byte) ==
    LET reload == pit.low + Byte * byte
    IN /\ pit.configured
       /\ pit' = IF ~pit.write_high THEN [pit EXCEPT !.low = byte, !.write_high = TRUE]
                 ELSE [pit EXCEPT !.divisor = IF reload = 0 THEN Byte * Byte ELSE reload,
                                  !.phase = 0, !.loaded = TRUE, !.write_high = FALSE, !.low = 0]
       /\ IF pit.write_high THEN elapsed' = 0 /\ raised' = 0 ELSE UNCHANGED <<elapsed, raised>>
       /\ UNCHANGED <<chan, pic, bda, clock>>

\* pit0_in, and port 42h: low and high byte in turn, of the latch while it holds.
In == /\ IF chan = 0 THEN pit.loaded ELSE pit.configured
      /\ pit' = IF pit.latched THEN [pit EXCEPT !.latch_high = ~@, !.latched = ~pit.latch_high, !.latch = IF pit.latch_high THEN 0 ELSE @]
                ELSE [pit EXCEPT !.read_high = ~@]
      /\ UNCHANGED <<chan, pic, bda, clock, elapsed, raised>>

\* Port 61h: a gate that opens restarts the count.
Gate(open) ==
    /\ chan = 2
    /\ pit' = [pit EXCEPT !.gate = open, !.phase = IF open /\ ~pit.gate THEN 0 ELSE @]
    /\ elapsed' = IF open /\ ~pit.gate THEN 0 ELSE elapsed
    /\ UNCHANGED <<chan, pic, bda, clock, raised>>

\* Ports 20h and 21h.
Eoi     == chan = 0 /\ pic' = [pic EXCEPT !.isr = FALSE] /\ UNCHANGED <<chan, pit, bda, clock, elapsed, raised>>
Mask(m) == chan = 0 /\ pic' = [pic EXCEPT !.mask = m] /\ UNCHANGED <<chan, pit, bda, clock, elapsed, raised>>

\* dos_irq_ack: the processor takes IRQ 0, and its handler will run INT F1h.
DosIrqAck ==
    /\ pic.irr /\ ~pic.mask /\ ~pic.isr /\ ~bda.handler
    /\ pic' = [pic EXCEPT !.irr = FALSE, !.isr = TRUE]
    /\ bda' = [bda EXCEPT !.handler = TRUE, !.served = (@ + 1) % Day]
    /\ raised' = 0
    /\ UNCHANGED <<chan, pit, clock, elapsed>>

\* INT F1h: the tick count, which starts again at midnight.
TimerTick ==
    /\ bda.handler
    /\ bda' = [bda EXCEPT !.handler = FALSE, !.ticks = (@ + 1) % Day, !.rolled = @ \/ bda.ticks + 1 = Day]
    /\ UNCHANGED <<chan, pit, pic, clock, elapsed, raised>>

\* INT 1Ah AH=00h.
Bios1a == chan = 0 /\ bda' = [bda EXCEPT !.rolled = FALSE] /\ UNCHANGED <<chan, pit, pic, clock, elapsed, raised>>

TimerNext == \/ \E ms \in 1..2 : DosClockAdvance(ms)
             \/ \E mode \in {0, 2, 3} : Command(mode)
             \/ \E byte \in 0..(Byte - 1) : Out(byte)
             \/ \E on \in BOOLEAN : Gate(on) \/ Mask(on)
             \/ Pit2Sync \/ Latch \/ In \/ Eoi \/ DosIrqAck \/ TimerTick \/ Bios1a

TimerSpec == TimerInit /\ [][TimerNext]_timerVars

-----------------------------------------------------------------------------
\* However the program loads, latches, reads, gates and masks, and however the
\* runner slices time: no fraction of a clock is lost or counted twice; the phase
\* is the time since the count was loaded, in a one-shot up to its end; the
\* count a program reads is between 1 and the divisor while it runs; a period
\* that ended has requested an interrupt, which a one-shot does once, and the
\* request stands until it is taken; and every one taken is a tick of the day.
TimerTrue ==
    LET n == pit.divisor
    IN /\ chan = 0 => clock.clocks * PerMs + clock.fraction = clock.ms * Hz
       /\ pit.loaded => pit.phase = IF pit.mode = 0 THEN IF elapsed < n THEN elapsed ELSE n ELSE elapsed % n
       /\ pit.loaded => Count(pit) \in (IF pit.mode = 0 THEN 0 ELSE 1)..n
       /\ pit.loaded /\ pit.mode = 3 /\ pit.phase > 0 => Count(pit) % 2 = 0
       /\ pit.mode = 0 => raised <= 1
       /\ raised > 0 => pic.irr
       /\ bda.served = (bda.ticks + (IF bda.handler THEN 1 ELSE 0)) % Day

-----------------------------------------------------------------------------
(* Keys on their way to a DOS program (userland/dosrun/dosapi.c).  A key is    *)
(* read from the keyboard device or the serial console and may wait in         *)
(* pending_key, pending_key2, pending_bios_key, pending_dos_scan, the mirror   *)
(* in the BIOS data area or the keyboard controller's port, until the program  *)
(* takes it: through INT 16h ("bios"), INT 21h ("dos"), port 60h ("port") or   *)
(* the buffer at 40:1E ("bda").  Raw input is a sequence of symbols; on the    *)
(* serial line a cursor key is the three symbols esc [ A, on the keyboard      *)
(* device it is one, and alt is a prefix.                                      *)

CONSTANT MaxTyped          \* bound on the symbols typed

VARIABLES use, src,        \* the program's interface; "kbd" or "serial"
          k,               \* what waits where
          typed, got       \* all that was typed; the keys the program has taken

keyboardVars == <<use, src, k, typed, got>>

None == "none"
Symbols == IF src = "kbd" THEN {"a", "esc", "up", "alt"} ELSE {"a", "esc", "[", "A"}
Extended == {"up", "alt-a"}             \* the keys above FFh: no character

KeyboardInit == /\ use \in {"bios", "dos", "port", "bda"} /\ src \in {"kbd", "serial"}
                /\ k = [queue |-> <<>>, alt |-> FALSE, key |-> None, key2 |-> None, bios |-> None, scan |-> None,
                        word |-> None, pending |-> FALSE,  \* the word at 40:1E; keyboard_bda_pending
                        mirrored |-> None, port |-> 0]     \* keyboard_bda_word; keyboard_port_count
                /\ typed = <<>> /\ got = <<>>

\* keyboard_event, for the key after an alt that was seen.
KeyboardEvent(alt, s) == IF alt /\ s = "a" THEN "alt-a" ELSE s

\* con_read_input: a prefix is remembered and the next symbol read.
RECURSIVE ConReadInput(_)
ConReadInput(s) ==
    IF s.queue = <<>> THEN [k |-> s, ch |-> None]
    ELSE LET c == Head(s.queue)
             r == [s EXCEPT !.queue = Tail(@), !.alt = (c = "alt")]
         IN IF c = "alt" THEN ConReadInput(r) ELSE [k |-> r, ch |-> KeyboardEvent(s.alt, c)]

\* keyboard_bda_sync: the program may have taken the mirrored word itself.
BdaSync(s) == IF s.pending /\ s.word = None
              THEN [s EXCEPT !.key = IF @ = s.mirrored THEN None ELSE @, !.pending = FALSE, !.mirrored = None]
              ELSE s

\* keyboard_bda_consume.
BdaConsume(s) == LET t == BdaSync(s)
                 IN IF t.pending THEN [t EXCEPT !.word = None, !.pending = FALSE, !.mirrored = None] ELSE t

\* con_peek: a polled key is kept.
ConPeek(s) ==
    LET t == BdaSync(s)
        r == ConReadInput(t)
    IN IF t.scan # None THEN [k |-> t, ch |-> t.scan]
       ELSE IF t.key # None THEN [k |-> t, ch |-> t.key]
       ELSE [k |-> [r.k EXCEPT !.key = r.ch], ch |-> r.ch]

\* con_get_rawc: without a key that was polled it waits for one; ch is None
\* where the program still waits.
ConGetRawc(s, reading) ==
    LET taken == BdaConsume([s EXCEPT !.key = s.key2, !.key2 = None])
        r     == IF s.key # None THEN [k |-> taken, ch |-> s.key] ELSE ConReadInput(s)
    IN [r EXCEPT !.k.port = IF reading THEN @ ELSE 0]

\* Mutant: the symbol after esc [ is dropped when it is no cursor key.
BiosKeySequenceDrops(r) ==
    LET q == r.k.queue
    IN IF r.ch # "esc" \/ src # "serial" \/ q = <<>> THEN r
       ELSE IF q[1] # "[" THEN [k |-> [r.k EXCEPT !.queue = Tail(q), !.key = q[1]], ch |-> "esc"]
       ELSE IF Len(q) = 1 THEN [k |-> [r.k EXCEPT !.queue = <<>>, !.key = "["], ch |-> "esc"]
       ELSE IF q[2] # "A" THEN [k |-> [r.k EXCEPT !.queue = SubSeq(q, 3, Len(q)), !.key = "["], ch |-> "esc"]
       ELSE [k |-> [r.k EXCEPT !.queue = SubSeq(q, 3, Len(q))], ch |-> "up"]

\* bios_key_sequence: what follows esc on the serial line within 25 ms makes a
\* cursor key of it, or waits as the next keys.
BiosKeySequence(r) ==
    LET q == r.k.queue
    IN IF r.ch # "esc" \/ src # "serial" \/ q = <<>> THEN r
       ELSE IF q[1] # "[" THEN [k |-> [r.k EXCEPT !.queue = Tail(q), !.key = q[1]], ch |-> "esc"]
       ELSE IF Len(q) = 1 THEN [k |-> [r.k EXCEPT !.queue = <<>>, !.key = "["], ch |-> "esc"]
       ELSE IF q[2] # "A" THEN [k |-> [r.k EXCEPT !.queue = SubSeq(q, 3, Len(q)), !.key = "[", !.key2 = q[2]], ch |-> "esc"]
       ELSE [k |-> [r.k EXCEPT !.queue = SubSeq(q, 3, Len(q))], ch |-> "up"]

\* bios_key_peek and bios_key_get.
BiosKeyPeek(s) ==
    LET p == ConPeek(s)
        r == BiosKeySequence(ConGetRawc(p.k, FALSE))
    IN IF s.bios # None THEN s ELSE IF p.ch = "esc" THEN [r.k EXCEPT !.bios = r.ch] ELSE p.k
BiosKeyGet(s) ==
    IF s.bios # None THEN [k |-> BdaConsume([s EXCEPT !.bios = None]), ch |-> s.bios]
    ELSE BiosKeySequence(ConGetRawc(s, FALSE))

\* keyboard_port_fill: an extended key is two bytes, and a key without a scan
\* code stays where it is.
PortFill(s) ==
    LET p == ConPeek(s)
    IN IF s.port > 0 THEN s
       ELSE [p.k EXCEPT !.port = CASE p.ch \in {None, "["} -> 0 [] p.ch \in Extended -> 2 [] OTHER -> 1]

-----------------------------------------------------------------------------
Take(r) == r.ch # None /\ k' = r.k /\ got' = Append(got, r.ch) /\ UNCHANGED <<use, src, typed>>
Look(s) == k' = s /\ UNCHANGED <<use, src, typed, got>>

Type(s) == /\ Len(typed) < MaxTyped
           /\ typed' = Append(typed, s) /\ k' = [k EXCEPT !.queue = Append(@, s)]
           /\ UNCHANGED <<use, src, got>>

\* dos_keyboard_poll, which the runner calls between two slices of the program.
DosKeyboardPoll ==
    LET s == BdaSync(k)
        r == ConReadInput(s)
    IN IF s.key # None \/ s.bios # None \/ s.scan # None \/ r.ch = None
       THEN Look(IF s.key # None \/ s.bios # None \/ s.scan # None THEN s ELSE r.k)
       ELSE Look(IF s.word # None THEN [r.k EXCEPT !.key = r.ch]
                 ELSE [r.k EXCEPT !.key = r.ch, !.word = r.ch, !.pending = TRUE, !.mirrored = r.ch])

\* INT 16h: AH=01h looks, AH=00h takes.
BiosPeek == use = "bios" /\ Look(BiosKeyPeek(k))
BiosGet  == use = "bios" /\ Take(BiosKeyGet(k))

\* INT 21h: AH=0Bh looks; con_getc gives an extended key as two bytes, and the
\* key counts as taken with the second.
DosPeek == use = "dos" /\ Look(ConPeek(k).k)
DosGet  == LET r == BiosKeySequence(ConGetRawc(k, FALSE))
           IN /\ use = "dos"
              /\ IF k.scan # None THEN Take([k |-> [k EXCEPT !.scan = None], ch |-> k.scan])
                 ELSE IF r.ch \in Extended THEN Look([r.k EXCEPT !.scan = r.ch])
                 ELSE Take(r)

\* Ports 64h and 60h: the key is taken with its last byte.
PortStatus == use = "port" /\ Look(PortFill(k))
PortRead == LET s == PortFill(k)
            IN /\ use = "port" /\ s.port > 0
               /\ IF s.port = 2 THEN Look([s EXCEPT !.port = 1])
                  ELSE Take(ConGetRawc([s EXCEPT !.port = 0], TRUE))

\* A program that takes the word at 40:1E and advances 40:1A.
BdaRead == use = "bda" /\ k.word # None /\ Take([k |-> [k EXCEPT !.word = None], ch |-> k.word])

KeyboardNext == \/ \E s \in Symbols : Type(s)
                \/ DosKeyboardPoll \/ BiosPeek \/ BiosGet \/ DosPeek \/ DosGet \/ PortStatus \/ PortRead \/ BdaRead

KeyboardSpec == KeyboardInit /\ [][KeyboardNext]_keyboardVars

-----------------------------------------------------------------------------
\* The symbols a key stands for.
Raw(key) == CASE key = None -> <<>>
              [] key = "up" /\ src = "serial" -> <<"esc", "[", "A">>
              [] key = "alt-a" -> <<"alt", "a">>
              [] OTHER -> <<key>>

\* Through whichever interface the program reads, however it mixes looking and
\* taking, and wherever the runner's own poll comes between, no key is lost,
\* doubled or overtaken: what the program took, followed by what still waits in
\* the places a key can wait in, is what was typed.  An alt that no key it
\* changes has followed leaves no trace.
KeysInOrder ==
    LET key   == IF k.pending /\ k.word = None /\ k.key = k.mirrored THEN None ELSE k.key
        line  == FlattenSeq([i \in 1..Len(got) |-> Raw(got[i])]) \o Raw(k.scan) \o Raw(k.bios) \o Raw(key) \o Raw(k.key2)
                 \o k.queue
        NoAlt(s) == SelectSeq(s, LAMBDA x : x # "alt")
    IN NoAlt(line) = NoAlt(typed)

-----------------------------------------------------------------------------
(* The text screen of the DOS machine (userland/dosrun/dosapi.c) on the        *)
(* kernel's text console (zkt/drivers/vga_text.c).  A program changes the      *)
(* cells of a page directly, through INT 10h, or as a teletype (con_putc); the *)
(* machine keeps in text_seen what it believes the console shows and sends the *)
(* console characters, positions and erasures.  A cell is a character: colours *)
(* are left out.  Positions count cells from the top left.                     *)

CONSTANTS Rows, Cols, Pages, Chars,
          Poked,           \* the cells the program writes itself
          AnyOrder         \* TRUE: the teletype is used in every way, not InStep only

VARIABLES mem,             \* per page, its cells
          cursor,          \* per page
          active,
          text_seen,
          con              \* the console: cells, its position, wrap_pending

screenVars == <<mem, cursor, active, text_seen, con>>

Blank == " "
Cells == 0..(Rows * Cols - 1)
Row(p) == p \div Cols
Col(p) == p % Cols

-----------------------------------------------------------------------------
\* vga_scroll and newline.
VgaScroll(cells) == [p \in Cells |-> IF p + Cols \in Cells THEN cells[p + Cols] ELSE Blank]
Newline(c) == IF Row(c.at) = Rows - 1 THEN [cells |-> VgaScroll(c.cells), at |-> (Rows - 1) * Cols, wrap |-> FALSE]
              ELSE [c EXCEPT !.at = (Row(@) + 1) * Cols, !.wrap = FALSE]

\* Mutant: the console wraps as soon as a line is full.
VgaPutcWraps(c, ch) ==
    LET put == [c EXCEPT !.cells[c.at] = ch]
    IN IF Col(put.at) = Cols - 1 THEN Newline(put) ELSE [put EXCEPT !.at = @ + 1]

\* vga_putc: the character, and what it does at the end of a line waits for the
\* next one.
VgaPutc(c, ch) ==
    LET w   == IF c.wrap THEN Newline(c) ELSE c
        put == [w EXCEPT !.cells[w.at] = ch]
    IN IF Col(put.at) = Cols - 1 THEN [put EXCEPT !.wrap = TRUE] ELSE [put EXCEPT !.at = @ + 1]
VgaControl(c, ch) ==
    CASE ch = "lf" -> Newline(c)
      [] ch = "cr" -> [c EXCEPT !.at = Row(@) * Cols, !.wrap = FALSE]
      [] ch = "bs" -> [c EXCEPT !.at = IF Col(@) > 0 THEN @ - 1 ELSE @, !.wrap = FALSE]
\* control_sequence: CSI H and CSI 2 J.
Position(c, p) == [c EXCEPT !.at = p, !.wrap = FALSE]
EraseAll(c) == [c EXCEPT !.cells = [p \in Cells |-> Blank]]

\* Characters written one after the other from a position.
Written(c, p, s) ==
    LET W[i \in 0..Len(s)] == IF i = 0 THEN Position(c, p) ELSE VgaPutc(W[i - 1], s[i])
    IN W[Len(s)]

-----------------------------------------------------------------------------
\* text_present: the spans that differ from text_seen, and then the cursor.
TextPresent(c, cells, seen, cur) ==
    LET P[p \in 0..(Rows * Cols)] ==
            IF p = 0 THEN c
            ELSE IF cells[p - 1] = seen[p - 1] THEN P[p - 1]
            ELSE IF p > 1 /\ Col(p - 1) > 0 /\ cells[p - 2] # seen[p - 2]
                 THEN VgaPutc(P[p - 1], cells[p - 1])               \* the span goes on
                 ELSE VgaPutc(Position(P[p - 1], p - 1), cells[p - 1])
    IN IF cells = seen THEN c ELSE Position(P[Rows * Cols], cur)

\* text_scroll over the whole width: lines 0 clears the window, and so does any
\* number of lines that is at least its height.
Scrolled(cells, top, bottom, lines, down) ==
    [p \in Cells |-> IF Row(p) \notin top..bottom THEN cells[p]
                     ELSE LET from == IF down THEN p - lines * Cols ELSE p + lines * Cols
                          IN IF lines > 0 /\ from \in Cells /\ Row(from) \in top..bottom THEN cells[from] ELSE Blank]
TextScroll(m, seen, c, cur, top, bottom, lines, down) ==
    LET cells == Scrolled(m[active], top, bottom, lines, down)
        all   == (lines = 0 \/ lines > bottom - top) /\ top = 0 /\ bottom = Rows - 1
        e     == IF all THEN Position(EraseAll(c), cur) ELSE c
    IN /\ mem' = [m EXCEPT ![active] = cells]
       /\ con' = TextPresent(e, cells, seen, cur)
       /\ text_seen' = cells

ScreenInit == /\ mem = [p \in Pages |-> [c \in Cells |-> Blank]] /\ cursor = [p \in Pages |-> 0] /\ active = 0
              /\ text_seen = [c \in Cells |-> Blank]
              /\ con = [cells |-> [c \in Cells |-> Blank], at |-> 0, wrap |-> FALSE]

\* The uses of the teletype that keep the console in step: its next character
\* goes where the program's cursor is (after a full line, or a change of the page
\* that repaints nothing, it does not, until the cursor is set); LF comes in
\* column 0, where the console's LF also goes; and no blank is put over a
\* character in the last cell, which text_seen notes and nothing sends.
InStep(ch) ==
    LET p == cursor[active]
    IN /\ IF con.wrap THEN ch \in Chars \cup {Blank} /\ p = con.at + 1 ELSE p = con.at
       /\ ch = "lf" => Col(p) = 0
       /\ ch = Blank => p + 1 \in Cells \/ text_seen[p] = Blank

\* con_putc.
ConPutc(ch) ==
    LET p   == cursor[active]
        new == CASE ch = "cr" -> Row(p) * Cols
                 [] ch = "bs" -> IF Col(p) > 0 THEN p - 1 ELSE p
                 [] ch = "lf" -> p + Cols
                 [] OTHER -> p + 1
        m    == IF ch \in Chars \cup {Blank} THEN [mem EXCEPT ![active][p] = ch] ELSE mem
        seen == IF ch \in Chars \cup {Blank} THEN [text_seen EXCEPT ![p] = ch] ELSE text_seen
        \* past the last line the page scrolls, and the console gets the repaint only
        last == IF ch = "lf" THEN p ELSE (Rows - 1) * Cols
    IN /\ AnyOrder \/ InStep(ch)
       /\ IF new \in Cells
          THEN /\ mem' = m /\ text_seen' = seen
               /\ con' = IF ch \in Chars \cup {Blank} THEN VgaPutc(con, ch) ELSE VgaControl(con, ch)
               /\ cursor' = [cursor EXCEPT ![active] = new]
          ELSE /\ cursor' = [cursor EXCEPT ![active] = last]
               /\ TextScroll(m, seen, con, last, 0, Rows - 1, 1, FALSE)
       /\ UNCHANGED active

\* INT 10h 02h, 05h, 06h and 07h, 09h and 0Ah, and 00h.
SetCursor(page, p) ==
    /\ cursor' = [cursor EXCEPT ![page] = p]
    /\ con' = IF page = active THEN Position(con, p) ELSE con
    /\ UNCHANGED <<mem, active, text_seen>>
SetPage(page) ==
    /\ active' = page
    /\ con' = TextPresent(con, mem[page], text_seen, cursor[page]) /\ text_seen' = mem[page]
    /\ UNCHANGED <<mem, cursor>>
Scroll(top, bottom, lines, down) ==
    /\ top <= bottom
    /\ TextScroll(mem, text_seen, con, cursor[active], top, bottom, lines, down)
    /\ UNCHANGED <<cursor, active>>
WriteChars(page, ch, n) ==
    LET p    == cursor[page]
        m    == IF n > Rows * Cols - p THEN Rows * Cols - p ELSE n
        Put(cells) == [c \in Cells |-> IF c \in p..(p + m - 1) THEN ch ELSE cells[c]]
    IN /\ mem' = [mem EXCEPT ![page] = Put(@)]
       /\ IF page = active
          THEN text_seen' = Put(text_seen) /\ con' = Position(Written(con, p, [i \in 1..m |-> ch]), p)
          ELSE UNCHANGED <<text_seen, con>>
       /\ UNCHANGED <<cursor, active>>
ModeReset ==
    /\ mem' = [p \in Pages |-> [c \in Cells |-> Blank]] /\ cursor' = [p \in Pages |-> 0] /\ active' = 0
    /\ text_seen' = [c \in Cells |-> Blank] /\ con' = Position(EraseAll(con), 0)

\* The program writes a cell itself; the runner shows it between two slices.
Poke(page, p, ch) == mem' = [mem EXCEPT ![page][p] = ch] /\ UNCHANGED <<cursor, active, text_seen, con>>
DosVideoPresent == /\ con' = TextPresent(con, mem[active], text_seen, cursor[active]) /\ text_seen' = mem[active]
                   /\ UNCHANGED <<mem, cursor, active>>

ScreenNext == \/ \E ch \in Chars \cup {Blank, "cr", "lf", "bs"} : ConPutc(ch)
              \/ \E page \in Pages : \/ SetPage(page)
                                     \/ \E p \in Cells : SetCursor(page, p)
                                     \/ \E p \in Poked, ch \in Chars : Poke(page, p, ch)
                                     \/ \E ch \in Chars, n \in {1, 3} : WriteChars(page, ch, n)
              \/ \E top, bottom \in 0..(Rows - 1), lines \in 0..1, down \in BOOLEAN : Scroll(top, bottom, lines, down)
              \/ ModeReset \/ DosVideoPresent

ScreenSpec == ScreenInit /\ [][ScreenNext]_screenVars

-----------------------------------------------------------------------------
\* Through every mixture of teletype output, INT 10h, direct writes and changes
\* of the page, the console shows what text_seen says it shows: so what
\* text_present leaves out needs no repaint.  It holds for programs that use the
\* teletype InStep, not for all.
ConsoleShowsSeen == con.cells = text_seen
=============================================================================
