----------------------------- MODULE CharDevices -----------------------------
(***************************************************************************)
(* The devices that carry streams: the console, serial lines, the keyboard *)
(* and the mouse, and sound.                                               *)
(***************************************************************************)
EXTENDS Integers, SequencesExt

-----------------------------------------------------------------------------
(* /dev/cons (zkt/kernel/kconsole.c): characters come from interrupts into a *)
(* ring, readers edit lines out of it one at a time, and pollers wait for a  *)
(* line (zkt/kernel/poll.c).  Echo is left out.                              *)

CONSTANTS Reader,
          RingSize,
          LineMax,     \* CONSOLE_LINE_MAX
          Lens,        \* how much a read asks for
          MaxTyped     \* bound: characters typed

VARIABLES ring, line, pos, after_cr,
          holder,      \* who has reader_lock
          pc, want, cur,
          poller,      \* "run", "asleep" or "told"
          typed, got

consoleVars == <<ring, line, pos, after_cr, holder, pc, want, cur, poller, typed, got>>

Chars == {"x", "cr", "lf", "eof", "bs", "kill"}

None == "none"

(* What one character does to the line being edited: the line, and whether   *)
(* edit_line returns, with true or at end of file.                           *)
EditNoReserve(l, cr, c) ==
  CASE c = "lf" /\ cr -> [line |-> l, end |-> "no"]
    [] c \in {"cr", "lf"} -> [line |-> Append(l, "nl"), end |-> "line"]
    [] c = "eof" -> [line |-> l, end |-> IF l = <<>> THEN "eof" ELSE "line"]
    [] c = "bs" -> [line |-> IF l = <<>> THEN l ELSE Front(l), end |-> "no"]
    [] c = "kill" -> [line |-> <<>>, end |-> "no"]
    [] OTHER -> [line |-> IF Len(l) < LineMax THEN Append(l, c) ELSE l, end |-> "no"]

Edit(l, cr, c) ==
  CASE c = "lf" /\ cr -> [line |-> l, end |-> "no"]
    [] c \in {"cr", "lf"} -> [line |-> Append(l, "nl"), end |-> "line"]
    [] c = "eof" -> [line |-> l, end |-> IF l = <<>> THEN "eof" ELSE "line"]
    [] c = "bs" -> [line |-> IF l = <<>> THEN l ELSE Front(l), end |-> "no"]
    [] c = "kill" -> [line |-> <<>>, end |-> "no"]
    [] OTHER -> [line |-> IF Len(l) + 1 < LineMax THEN Append(l, c) ELSE l, end |-> "no"]

(* cons_poll.                                                                *)
Ends(c, cr) == c \in {"cr", "eof"} \/ (c = "lf" /\ ~cr)

Ready ==
  \/ pos < Len(line)
  \/ \E i \in 1 .. Len(ring) : Ends(ring[i], after_cr /\ i = 1)

Woken == [r \in Reader |-> IF pc[r] = "asleep" THEN "edit" ELSE pc[r]]

-----------------------------------------------------------------------------
(* console_input, from an interrupt: dropped when the ring is full.          *)
Type(c) ==
  /\ Len(typed) < MaxTyped
  /\ \/ /\ Len(ring) < RingSize
        /\ ring' = Append(ring, c) /\ typed' = Append(typed, c)
     \/ Len(ring) = RingSize /\ UNCHANGED <<ring, typed>>
  /\ pc' = Woken
  /\ poller' = IF poller = "asleep" THEN "run" ELSE poller
  /\ UNCHANGED <<line, pos, after_cr, holder, want, cur, got>>

(* cons_read: the lock, then a new line only when the last one is used up.   *)
ConsRead(r, n) ==
      /\ pc[r] = "idle" /\ holder = None
      /\ holder' = r /\ want' = [want EXCEPT ![r] = n]
      /\ IF pos = Len(line)
         THEN pos' = 0 /\ line' = <<>> /\ pc' = [pc EXCEPT ![r] = "edit"]
         ELSE pc' = [pc EXCEPT ![r] = "copy"] /\ UNCHANGED <<pos, line>>
      /\ UNCHANGED <<ring, after_cr, cur, poller, typed, got>>

(* raw_getc.                                                                 *)
RawGetc(r) ==
  /\ pc[r] = "edit"
  /\ \/ /\ ring = <<>>
        /\ pc' = [pc EXCEPT ![r] = "asleep"] /\ UNCHANGED <<ring, cur>>
     \/ /\ ring # <<>>
        /\ cur' = Head(ring) /\ ring' = Tail(ring) /\ pc' = [pc EXCEPT ![r] = "got"]
  /\ UNCHANGED <<line, pos, after_cr, holder, want, poller, typed, got>>

EditLine(r) ==
  /\ pc[r] = "got"
  /\ LET e == Edit(line, after_cr, cur)
     IN /\ after_cr' = (cur = "cr")
        /\ line' = e.line
        /\ IF e.end = "eof"
           THEN pc' = [pc EXCEPT ![r] = "idle"] /\ holder' = None /\ got' = Append(got, "eof")
           ELSE /\ pc' = [pc EXCEPT ![r] = IF e.end = "line" THEN "copy" ELSE "edit"]
                /\ UNCHANGED <<holder, got>>
  /\ UNCHANGED <<ring, pos, want, cur, poller, typed>>

ConsCopy(r) ==
      /\ pc[r] = "copy"
      /\ LET n == IF Len(line) - pos < want[r] THEN Len(line) - pos ELSE want[r]
         IN got' = got \o SubSeq(line, pos + 1, pos + n) /\ pos' = pos + n
      /\ holder' = None /\ pc' = [pc EXCEPT ![r] = "idle"]
      /\ UNCHANGED <<ring, line, after_cr, want, cur, poller, typed>>

(* poll_files on the console, with interrupts off from the look to the sleep. *)
Poll ==
  /\ poller = "run"
  /\ poller' = IF Ready THEN "told" ELSE "asleep"
  /\ UNCHANGED <<ring, line, pos, after_cr, holder, pc, want, cur, typed, got>>

ConsoleInit ==
         /\ ring = <<>> /\ line = <<>> /\ pos = 0 /\ after_cr = FALSE /\ holder = None
         /\ pc = [r \in Reader |-> "idle"] /\ want = [r \in Reader |-> 1] /\ cur = "x"
         /\ poller = "run" /\ typed = <<>> /\ got = <<>>

ConsoleNext ==
         \/ \E c \in Chars : Type(c)
         \/ \E r \in Reader : RawGetc(r) \/ EditLine(r) \/ ConsCopy(r) \/ \E n \in Lens : ConsRead(r, n)
         \/ Poll

ConsoleSpec == ConsoleInit /\ [][ConsoleNext]_consoleVars

-----------------------------------------------------------------------------
(* The lines of what was typed, edited without any of the machinery.         *)
CookedOf == LET step(s, c) ==
               LET erase == c \in {"bs", "kill"} /\ s.open # <<>>
                   skip == c = "lf" /\ s.last = "cr"
               IN [out |-> IF skip THEN s.out
                           ELSE IF c \in {"cr", "lf"} THEN s.out \o s.open \o <<"nl">>
                           ELSE IF c = "eof" THEN s.out \o (IF s.open = <<>> THEN <<"eof">> ELSE s.open)
                           ELSE s.out,
                   open |-> IF skip THEN s.open
                            ELSE IF c \in {"cr", "lf", "eof", "kill"} THEN <<>>
                            ELSE IF erase THEN Front(s.open)
                            ELSE IF c = "x" /\ Len(s.open) < LineMax - 1 THEN Append(s.open, c)
                            ELSE s.open,
                   last |-> c]
            IN FoldLeft(step, [out |-> <<>>, open |-> <<>>, last |-> "x"], typed).out

(* However the reads of several processes fall, what they are given is what  *)
(* was typed, line by line, each character to one of them and in order; a    *)
(* line never outgrows its buffer; and a reader sleeps only while there is   *)
(* nothing to read (cons_read, edit_line, raw_getc, console_input).          *)
LinesDelivered ==
  /\ IsPrefix(got, CookedOf)
  /\ Len(line) <= LineMax
  /\ \A r \in Reader : pc[r] = "asleep" => ring = <<>>

(* poll.h: whatever a poller might wait for calls poll_notify after the      *)
(* change, so none sleeps over a line that waits while nobody edits.         *)
PollersTold == (poller = "asleep" /\ holder = None) => ~Ready

(* The comment over cons_poll: a read would not block once poll says ready.  *)
PollMeansNoWait ==
  Ready => \A r \in Reader : pc[r] \in {"edit", "asleep"} =>
              \E i \in 1 .. Len(ring) : Ends(ring[i], after_cr /\ i = 1)

-----------------------------------------------------------------------------
(***************************************************************************)
(* The serial lines: serial.c (COM1, the console's) and uart.c (COM2 to    *)
(* COM4).  Writers push into a ring under interrupts-off and sleep when it *)
(* is full; the transmitter's interrupt, on only while there is something  *)
(* to send, moves the ring into the UART's FIFO.  Before the scheduler     *)
(* runs, and from a panic, COM1 is written by polling, which first drains  *)
(* the ring.  A received byte goes to the console or to com_read's ring.   *)
(***************************************************************************)

CONSTANTS Kinds,     \* "com1" (serial.c) or "com" (uart.c)
          Writer,
          ComRingSize,  \* the transmit and receive rings
          FifoDepth, \* tx_fifo_depth, p->fifo
          Texts,     \* what is written: sequences of bytes
          MaxIn      \* bytes received

VARIABLES kind,
          tx,       \* the transmit ring
          fifo,     \* the UART's transmit FIFO
          ier,      \* is the transmitter's interrupt on?
          w,        \* each writer: [state, left], asleep on tx_space or tx_wait, or not
          rx,       \* the receive ring
          reader,   \* com_read: "idle", "asleep", "ready"
          taken,    \* what writers pushed and the line has not carried, oldest first
          count,    \* [in, out, dropped]: bytes received, read, overrun
          ok

serialVars == <<kind, tx, fifo, ier, w, rx, reader, taken, count, ok>>

SerialInit == /\ kind \in Kinds /\ tx = <<>> /\ fifo = <<>> /\ ier = FALSE
              /\ w = [t \in Writer |-> [state |-> "idle", left |-> <<>>]]
              /\ rx = <<>> /\ reader = "idle" /\ taken = <<>>
              /\ count = [in |-> 0, out |-> 0, dropped |-> 0] /\ ok = TRUE

(* COM1 sends a newline as a carriage return and a newline.                *)
RECURSIVE Cooked(_)
Cooked(s) == IF s = <<>> THEN <<>>
             ELSE (IF Head(s) = "nl" THEN <<"cr", "nl">> ELSE <<Head(s)>>) \o Cooked(Tail(s))

(* com1_write, com_write: a writer comes with its text.                    *)
ComWrite(t, text) ==
     /\ w[t].state = "idle"
     /\ w' = [w EXCEPT ![t] = [state |-> "run", left |-> IF kind = "com1" THEN Cooked(text) ELSE text]]
     /\ UNCHANGED <<kind, tx, fifo, ier, rx, reader, taken, count, ok>>

Push(t, on) ==
  LET room == ComRingSize - Len(tx)
      k == IF room < Len(w[t].left) THEN room ELSE Len(w[t].left)
      rest == SubSeq(w[t].left, k + 1, Len(w[t].left))
  IN /\ w[t].state = "run"
     /\ tx' = tx \o SubSeq(w[t].left, 1, k) /\ taken' = taken \o SubSeq(w[t].left, 1, k)
     /\ ier' = on
     /\ w' = [w EXCEPT ![t] = [state |-> IF rest = <<>> THEN "idle" ELSE "asleep", left |-> rest]]
     /\ UNCHANGED <<kind, fifo, rx, reader, count, ok>>

PushLate(t) == Push(t, ier \/ Len(w[t].left) <= ComRingSize - Len(tx))

(* serial_write_buffered, push_blocking, start_tx; com_write: with         *)
(* interrupts off, until the text is done or the ring is full; either way  *)
(* the transmitter's interrupt is on when the writer sleeps or leaves.     *)
PushAll(t) == Push(t, TRUE)

(* serial_write_polled: the ring first, then the text, byte by byte into   *)
(* an empty transmitter; sleepers for space are woken.                     *)
WritePolled(t) ==
  /\ kind = "com1" /\ w[t].state = "run"
  /\ tx' = <<>> /\ fifo' = <<>> /\ taken' = <<>>
  /\ ok' = (ok /\ fifo \o tx = taken)
  /\ w' = [u \in Writer |-> IF u = t THEN [state |-> "idle", left |-> <<>>]
                            ELSE IF tx # <<>> /\ w[u].state = "asleep" THEN [w[u] EXCEPT !.state = "run"]
                            ELSE w[u]]
  /\ UNCHANGED <<kind, ier, rx, reader, count>>

(* The line carries a byte: external.                                      *)
Carry == /\ fifo # <<>> /\ fifo' = Tail(fifo) /\ taken' = Tail(taken)
         /\ ok' = (ok /\ Head(fifo) = Head(taken))
         /\ UNCHANGED <<kind, tx, ier, w, rx, reader, count>>

(* serial_irq, service: the transmitter is empty and its interrupt on.     *)
TxIrq == /\ ier /\ fifo = <<>>
         /\ LET k == IF FifoDepth < Len(tx) THEN FifoDepth ELSE Len(tx)
            IN /\ fifo' = SubSeq(tx, 1, k) /\ tx' = SubSeq(tx, k + 1, Len(tx))
         /\ ier' = (tx' # <<>>)
         /\ w' = [t \in Writer |-> IF w[t].state = "asleep" THEN [w[t] EXCEPT !.state = "run"] ELSE w[t]]
         /\ UNCHANGED <<kind, rx, reader, taken, count, ok>>

(* A byte is received (on COM1 it goes to console_input): into the ring or *)
(* counted as an overrun, and the reader is woken.                         *)
RxIrq == /\ kind = "com" /\ count.in < MaxIn
         /\ LET drop == Len(rx) = ComRingSize
            IN /\ rx' = IF drop THEN rx ELSE Append(rx, count.in + 1)
               /\ count' = [count EXCEPT !.in = @ + 1, !.dropped = IF drop THEN @ + 1 ELSE @]
         /\ reader' = IF reader = "asleep" THEN "ready" ELSE reader
         /\ UNCHANGED <<kind, tx, fifo, ier, w, taken, ok>>

(* com_read: sleeps while the ring is empty, then takes what there is.     *)
ComRead(max) == /\ kind = "com" /\ reader \in {"idle", "ready"}
                /\ IF rx = <<>> THEN reader' = "asleep" /\ UNCHANGED <<rx, count>>
                   ELSE LET k == IF max < Len(rx) THEN max ELSE Len(rx)
                        IN /\ rx' = SubSeq(rx, k + 1, Len(rx)) /\ reader' = "idle"
                           /\ count' = [count EXCEPT !.out = @ + k]
                /\ UNCHANGED <<kind, tx, fifo, ier, w, taken, ok>>

SerialNext == \/ \E t \in Writer : (\E text \in Texts : ComWrite(t, text)) \/ PushAll(t) \/ WritePolled(t)
              \/ Carry \/ TxIrq \/ RxIrq \/ \E max \in {1, ComRingSize} : ComRead(max)

SerialSpec == SerialInit /\ [][SerialNext]_serialVars

(***************************************************************************)
(* The line carries the bytes in the order they were pushed, with none     *)
(* lost or sent twice (whichever of the two paths sends them); bytes in    *)
(* the ring and writers asleep for room always have the transmitter's      *)
(* interrupt on to move them, so nothing is stuck in a ring (start_tx      *)
(* before waitq_sleep); the reader never sleeps on bytes, and every byte   *)
(* received was read, is in the ring, or is counted an overrun.            *)
(***************************************************************************)
SerialTrue ==
  /\ ok /\ fifo \o tx = taken
  /\ (tx # <<>> \/ \E t \in Writer : w[t].state = "asleep") => ier
  /\ ~(reader = "asleep" /\ rx # <<>>)
  /\ kind = "com" => count.in = count.out + Len(rx) + count.dropped

-----------------------------------------------------------------------------
(***************************************************************************)
(* The keyboard and the mouse: ps2kbd.c decodes scan codes, ps2mouse.c     *)
(* assembles three-byte reports, input.c queues them for /dev/kbd and      *)
(* /dev/mouse, whose readers sleep while there is nothing.  Both handlers  *)
(* share the controller's data port; a byte is the mouse's if the status   *)
(* says so.  The two halves share nothing else: a behaviour uses one.      *)
(***************************************************************************)

CONSTANTS QueueSize,  \* kbd_storage, MOUSE_QUEUE
          First, Data,\* first and movement bytes a mouse sends
          Int16,      \* half the range of a queued move: 2^15
          MaxEvents, MaxBytes  \* scan codes, mouse bytes

VARIABLES use,      \* "kbd" or "mouse"
          mods,     \* kbd: [shift, ctrl, alt, caps, extended]; mouse: report so far
          held,     \* kbd: the keys held down; mouse: bytes of the report being sent
          queue,
          opens,    \* kbd_opens
          sleeping, \* a reader sleeps
          seen,     \* kbd: [half, right, twins]; mouse: [sent, read, buttons, dropped]
          events

inputVars == <<use, mods, held, queue, opens, sleeping, seen, events>>

Modifier == [lctrl |-> "ctrl", rctrl |-> "ctrl", lalt |-> "alt", ralt |-> "alt",
             lshift |-> "shift", rshift |-> "shift"]
Extended == {"rctrl", "ralt", "enter", "up"}   \* keys that send E0 first

InputInit == /\ use \in {"kbd", "mouse"} /\ queue = <<>> /\ opens = 0 /\ sleeping = FALSE /\ events = 0
             /\ IF use = "kbd"
                THEN /\ mods = [shift |-> FALSE, ctrl |-> FALSE, alt |-> FALSE, caps |-> FALSE, extended |-> FALSE]
                     /\ held = {} /\ seen = [half |-> FALSE, right |-> TRUE, twins |-> FALSE]
                ELSE /\ mods = <<>> /\ held = <<>>
                     /\ seen = [sent |-> 0, read |-> 0, buttons |-> 0, dropped |-> FALSE]

(* What a key gives: a letter by Shift and Caps Lock, or a control letter; *)
(* other keys one code.                                                    *)
Decode(code, m) ==
  IF code # "letter" THEN code
  ELSE IF m.ctrl THEN "control" ELSE IF m.shift # m.caps THEN "LETTER" ELSE "letter"

(* input_key: to /dev/kbd if anyone has it open, Alt and key together or   *)
(* not at all; else to the console (above), which never sees Alt.          *)
InputKey(key, alt) ==
  IF opens > 0
  THEN queue' = (IF Len(queue) + (IF alt THEN 2 ELSE 1) > QueueSize THEN queue
                 ELSE queue \o (IF alt THEN <<"ALT", key>> ELSE <<key>>))
       /\ sleeping' = FALSE
  ELSE UNCHANGED <<queue, sleeping>>

Holds(m, h) == \E k \in h : k \in DOMAIN Modifier /\ Modifier[k] = m

(* kbd_irq: one scan code; key is the key it stands for.  E0 is remembered *)
(* for the next code; an extended code that is neither Ctrl nor Alt nor a  *)
(* known key is dropped, E0 Shift among them.                              *)
KbdIrq(key, released) ==
  LET m == [mods EXCEPT !.extended = FALSE]
      code == IF key \in DOMAIN Modifier THEN Modifier[key] ELSE key
  IN IF code \in {"ctrl", "alt"} \/ (code = "shift" /\ ~mods.extended)
     THEN mods' = [m EXCEPT ![code] = ~released] /\ UNCHANGED <<queue, sleeping>>
     ELSE IF code = "caps" /\ ~mods.extended
     THEN mods' = (IF released THEN m ELSE [m EXCEPT !.caps = ~@]) /\ UNCHANGED <<queue, sleeping>>
     ELSE /\ mods' = m
          /\ IF released \/ code = "shift" THEN UNCHANGED <<queue, sleeping>>
             ELSE InputKey(Decode(code, m), m.alt)

(* The keyboard: a key goes down or up, after an E0 if it is an extended   *)
(* one; E0 Shift comes around some keys' codes.  External.                 *)
Prefix == /\ use = "kbd" /\ events < MaxEvents /\ ~mods.extended
          /\ mods' = [mods EXCEPT !.extended = TRUE] /\ events' = events + 1
          /\ UNCHANGED <<use, held, queue, opens, sleeping, seen>>

Key(key) ==
  LET up == key \in held
      now == IF up THEN held \ {key} ELSE held \cup {key}
  IN /\ use = "kbd" /\ events < MaxEvents /\ events' = events + 1
     /\ mods.extended = (key \in Extended)
     /\ KbdIrq(key, up) /\ held' = now
     /\ seen' = [seen EXCEPT
          !.twins = @ \/ \E k \in now : k \in DOMAIN Modifier /\ \E j \in now \ {k} :
                             j \in DOMAIN Modifier /\ Modifier[j] = Modifier[k],
          !.right = @ /\ (seen.twins \/ Len(queue') = Len(queue)
                          \/ (Len(queue') = Len(queue) + 2) = Holds("alt", held))]
     /\ UNCHANGED <<use, opens>>

FakeShift == /\ use = "kbd" /\ mods.extended /\ events < MaxEvents /\ events' = events + 1
             /\ KbdIrq("lshift", FALSE) /\ UNCHANGED <<use, held, opens, seen>>

(* kbd_open, kbd_close: the last close empties the queue.                  *)
KbdOpen == /\ use = "kbd" /\ opens < 2 /\ opens' = opens + 1
           /\ UNCHANGED <<use, mods, held, queue, sleeping, seen, events>>

KbdClose == /\ use = "kbd" /\ opens > 0 /\ ~(opens = 1 /\ sleeping) /\ opens' = opens - 1
            /\ queue' = IF opens = 1 THEN <<>> ELSE queue
            /\ seen' = IF opens = 1 THEN [seen EXCEPT !.half = FALSE] ELSE seen
            /\ UNCHANGED <<use, mods, held, sleeping, events>>

(* kbd_read: whole bytes, so a short buffer may take Alt without its key.  *)
KbdRead(len) ==
  /\ use = "kbd" /\ opens > 0 /\ ~sleeping
  /\ IF queue = <<>> THEN sleeping' = TRUE /\ UNCHANGED <<queue, seen>>
     ELSE LET n == IF len < Len(queue) THEN len ELSE Len(queue)
          IN /\ queue' = SubSeq(queue, n + 1, Len(queue)) /\ UNCHANGED sleeping
             /\ seen' = [seen EXCEPT !.half = queue[n] = "ALT"]
  /\ UNCHANGED <<use, mods, held, opens, events>>

Bit(b, k) == (b \div k) % 2
Wrapped(x) == ((x + Int16) % (2 * Int16)) - Int16

Move(r) == [dx |-> r[2] - 256 * Bit(r[1], 16), dy |-> -(r[3] - 256 * Bit(r[1], 32)), buttons |-> r[1] % 8]

FoldNewest(e) == [queue EXCEPT ![Len(queue)] = [@ EXCEPT !.dx = Wrapped(e.dx), !.dy = Wrapped(e.dy)]]

(* input_mouse: a full queue folds the move into its newest report.        *)
Fold(e) == [queue EXCEPT ![Len(queue)] = [@ EXCEPT !.dx = Wrapped(@ + e.dx), !.dy = Wrapped(@ + e.dy)]]

InputMouse(e) ==
  LET full == Len(queue) = QueueSize
      same == queue # <<>> /\ queue[Len(queue)].buttons = e.buttons
  IN /\ queue' = (IF full THEN IF same THEN Fold(e) ELSE queue ELSE Append(queue, e))
     /\ sleeping' = FALSE
     /\ seen' = [seen EXCEPT !.sent = @ + e.dx, !.buttons = e.buttons, !.dropped = @ \/ (full /\ ~same)]

(* mouse_irq: a byte of the mouse's; a first byte without its sync bit is  *)
(* skipped, and a report with an overflow bit.                             *)
MouseIrq(b) ==
  IF mods = <<>> /\ Bit(b, 8) = 0 THEN UNCHANGED <<mods, queue, sleeping, seen>>
  ELSE IF Len(mods) < 2 THEN mods' = Append(mods, b) /\ UNCHANGED <<queue, sleeping, seen>>
  ELSE /\ mods' = <<>>
       /\ IF mods[1] >= 64 THEN UNCHANGED <<queue, sleeping, seen>>
          ELSE InputMouse(Move(Append(mods, b)))

(* The mouse sends the bytes of its report: external.                      *)
Send(b) == /\ use = "mouse" /\ events < MaxBytes /\ events' = events + 1
           /\ b \in IF held = <<>> THEN First ELSE Data
           /\ held' = IF Len(held) = 2 THEN <<>> ELSE Append(held, b)
           /\ MouseIrq(b) /\ UNCHANGED <<use, opens>>

(* mouse_read: as many whole records as fit.                               *)
MouseRead(k) ==
  /\ use = "mouse" /\ ~sleeping
  /\ IF queue = <<>> THEN sleeping' = TRUE /\ UNCHANGED <<queue, seen>>
     ELSE /\ queue' = SubSeq(queue, k + 1, Len(queue)) /\ UNCHANGED sleeping
          /\ seen' = [seen EXCEPT !.read = @ + queue[1].dx + (IF k = 2 /\ Len(queue) > 1 THEN queue[2].dx ELSE 0)]
  /\ UNCHANGED <<use, mods, held, opens, events>>

InputNext == \/ \E key \in DOMAIN Modifier \cup Extended \cup {"letter", "caps"} : Key(key)
             \/ Prefix \/ FakeShift \/ KbdOpen \/ KbdClose \/ (\E len \in 1 .. 2 : KbdRead(len))
             \/ \E b \in First \cup Data : Send(b)
             \/ \E k \in 1 .. 2 : MouseRead(k)

InputSpec == InputInit /\ [][InputNext]_inputVars

(***************************************************************************)
(* Nobody sleeps on a queue with something in it.  Keys: an Alt byte       *)
(* (queued, or just read) is always followed by its key, and as long as    *)
(* the two keys of one modifier were never down together, the modifiers    *)
(* are those held and a key is given with Alt exactly if Alt is down.      *)
(* Mouse: no report is put together out of two, the moves read and queued  *)
(* add up to those reported (as 16-bit numbers), and the newest report     *)
(* queued has the buttons as they are, unless a change of buttons met a    *)
(* full queue.                                                             *)
(***************************************************************************)
InputTrue ==
  /\ sleeping => queue = <<>>
  /\ use = "kbd" =>
       /\ \A k \in 1 .. Len(queue) : queue[k] = "ALT" => k < Len(queue) /\ queue[k + 1] # "ALT"
       /\ seen.half => queue # <<>> /\ queue[1] # "ALT"
       /\ ~seen.twins => \A m \in {"ctrl", "alt", "shift"} : mods[m] = Holds(m, held)
       /\ seen.right
  /\ use = "mouse" =>
       /\ mods = held
       /\ ~seen.dropped =>
            /\ (LET S[k \in 0 .. Len(queue)] == IF k = 0 THEN 0 ELSE S[k - 1] + queue[k].dx
                IN (seen.sent - seen.read - S[Len(queue)]) % (2 * Int16) = 0)
            /\ queue # <<>> => queue[Len(queue)].buttons = seen.buttons

-----------------------------------------------------------------------------
(***************************************************************************)
(* /dev/audio (audio.c) over a card that plays a ring of fragments round   *)
(* and round and interrupts after each (ac97.c, sb16.c).  Positions are    *)
(* counted: started fragments begun by the card, filled ones completed by  *)
(* the writer, offset parts of fragment `filled` written.  The writer      *)
(* copies with interrupts on: the card may move between its steps.         *)
(***************************************************************************)

CONSTANTS N,        \* AUDIO_FRAGMENTS
          B,        \* parts of a fragment
          MaxParts, \* parts written
          MaxWrite  \* parts of one write

VARIABLES fragments,     \* [0..N-1 -> sequence of B parts; 0 is silence]
          started, filled, offset, running, underruns,
          writer_pc,       \* the writer: "idle", "room", "copy", "closing", "closed"
          left,     \* parts of the write still to copy
          written,  \* parts written so far: part k is the k-th
          played,   \* the last part heard
          fit,      \* has every part been heard, in order, once?
          caught    \* has the card begun a fragment the writer was filling?

soundVars == <<fragments, started, filled, offset, running, underruns, writer_pc, left, written, played, fit, caught>>

Silence == [i \in 1 .. B |-> 0]
Quiet == [n \in 0 .. N - 1 |-> Silence]

SoundInit == /\ fragments = Quiet /\ started = 0 /\ filled = 0 /\ offset = 0 /\ running = FALSE
             /\ underruns = 0 /\ writer_pc = "idle" /\ left = 0 /\ written = 0 /\ played = 0 /\ fit = TRUE /\ caught = FALSE

(* The parts of the fragment now ending, heard in order after the last.    *)
Heard(f) == SelectSeq(f, LAMBDA x : x # 0)
InOrder(f) == \A i \in DOMAIN Heard(f) : Heard(f)[i] = played + i

(* ac97_irq, sb16_irq, audio_fragment_done: fragment started - 1 has been  *)
(* played, as the ring holds it; what the writer put there while it was    *)
(* playing is taken to have come in time.                                  *)
FragmentDone ==
  /\ running
  /\ LET k == (started - 1) % N
     IN /\ fit' = (fit /\ InOrder(fragments[k]))
        /\ played' = IF Heard(fragments[k]) = <<>> THEN played ELSE Heard(fragments[k])[Len(Heard(fragments[k]))]
        /\ fragments' = [fragments EXCEPT ![k] = Silence]
  /\ started' = started + 1
  /\ started <= filled + 1     \* a bound: the card at most one fragment past the writer
  /\ underruns' = IF filled < started THEN 1 ELSE underruns
  /\ caught' = (caught \/ (filled = started /\ (offset > 0 \/ writer_pc = "copy")))
  /\ UNCHANGED <<filled, offset, running, writer_pc, left, written>>

(* audio_write, and audio_open before it.                                  *)
AudioWrite(k) == /\ writer_pc = "idle" /\ written + k <= MaxParts /\ left' = k /\ writer_pc' = "room"
                 /\ UNCHANGED <<fragments, started, filled, offset, running, underruns, written, played, fit, caught>>

(* Room, at most a ring ahead of the fragment playing (it waits until      *)
(* then); a writer the card has caught up carries its partial fragment to  *)
(* the next one the card will play.                                        *)
RoomTooMuch ==
  /\ writer_pc = "room" /\ (running => filled < started + N)
  /\ IF running /\ filled < started
     THEN /\ fragments' = IF offset > 0 /\ filled % N # started % N
                          THEN [fragments EXCEPT ![started % N] = [i \in 1 .. B |->
                                       IF i <= offset THEN fragments[filled % N][i] ELSE fragments[started % N][i]]]
                          ELSE fragments
          /\ filled' = started
     ELSE UNCHANGED <<fragments, filled>>
  /\ writer_pc' = "copy" /\ UNCHANGED <<started, offset, running, underruns, left, written, played, fit, caught>>

AudioRoom ==
       /\ writer_pc = "room" /\ (running => filled < (started + N) - 1)
       /\ IF running /\ filled < started
          THEN /\ fragments' = IF offset > 0 /\ filled % N # started % N
                               THEN [fragments EXCEPT ![started % N] = [i \in 1 .. B |->
                                            IF i <= offset THEN fragments[filled % N][i] ELSE fragments[started % N][i]]]
                               ELSE fragments
               /\ filled' = started
          ELSE UNCHANGED <<fragments, filled>>
       /\ writer_pc' = "copy" /\ UNCHANGED <<started, offset, running, underruns, left, written, played, fit, caught>>

(* The copy, and a fragment complete: the first one starts the card        *)
(* (ac97_start, sb16_start, isa_dma_start).                                *)
AudioCopy ==
       /\ writer_pc = "copy"
       /\ LET chunk == IF B - offset < left THEN B - offset ELSE left
              whole == offset + chunk = B
          IN /\ fragments' = [fragments EXCEPT ![filled % N] = [i \in 1 .. B |->
                                     IF i > offset /\ i <= offset + chunk THEN written + (i - offset) ELSE @[i]]]
             /\ written' = written + chunk /\ left' = left - chunk
             /\ filled' = IF whole THEN filled + 1 ELSE filled
             /\ offset' = IF whole THEN 0 ELSE offset + chunk
             /\ running' = (running \/ whole) /\ started' = IF whole /\ ~running THEN 1 ELSE started
       /\ writer_pc' = IF left' = 0 THEN "idle" ELSE "room"
       /\ UNCHANGED <<underruns, played, fit, caught>>

(* audio_close, the last one: the partial fragment is ended with silence,  *)
(* and the close waits until the card has begun the fragment after it.     *)
AudioClose ==
       /\ writer_pc = "idle" /\ (running \/ offset > 0)
       /\ filled' = IF offset > 0 THEN filled + 1 ELSE filled
       /\ fragments' = IF offset > 0
                       THEN [fragments EXCEPT ![filled % N] = [i \in 1 .. B |-> IF i > offset THEN 0 ELSE @[i]]]
                       ELSE fragments
       /\ offset' = 0 /\ running' = TRUE /\ started' = IF running THEN started ELSE 1
       /\ writer_pc' = "closing" /\ UNCHANGED <<underruns, left, written, played, fit, caught>>

PlayedOutEarly == started >= filled

(* Has the card begun the fragment after the last?                         *)
PlayedOut == started > filled

(* stop: at the end of the last close, or when a writer has waited         *)
(* FRAGMENT_TIMEOUT_TICKS for a card that no longer interrupts.            *)
Stop == /\ \/ writer_pc = "closing" /\ PlayedOut /\ fit' = (fit /\ played = written)
           \/ writer_pc = "room" /\ running /\ filled >= (started + N) - 1 /\ fit' = fit
        /\ running' = FALSE /\ started' = 0 /\ filled' = 0 /\ offset' = 0 /\ fragments' = Quiet
        /\ writer_pc' = "closed" /\ UNCHANGED <<underruns, left, written, played, caught>>

SoundNext == FragmentDone \/ (\E k \in 1 .. MaxWrite : AudioWrite(k)) \/ AudioRoom \/ AudioCopy \/ AudioClose \/ Stop

SoundSpec == SoundInit /\ [][SoundNext]_soundVars

(***************************************************************************)
(* Unless the card begins a fragment the writer has not finished, every    *)
(* part written is heard, once and in order: no fragment is overwritten    *)
(* before it has played nor silenced after it was refilled (audio_write's  *)
(* room, audio_fragment_done), and when the last close stops the card all  *)
(* of it has been heard (audio_close).                                     *)
(***************************************************************************)
SoundInOrder == caught \/ fit

(* "the writer's partial fragment moves on to the next one the card will   *)
(* play" (audio.c:6-8): no part is heard twice.                            *)
HeardOnce == running => \A i \in DOMAIN Heard(fragments[(started - 1) % N]) :
                          Heard(fragments[(started - 1) % N])[i] > played
=============================================================================
