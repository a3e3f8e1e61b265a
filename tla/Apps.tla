-------------------------------- MODULE Apps --------------------------------
(***************************************************************************)
(* Two applications of the desktop: the terminal and the calculator.       *)
(***************************************************************************)
EXTENDS Integers, Sequences, FiniteSets

-----------------------------------------------------------------------------
(* The terminal window (desktop/apps/term.c): the cells and the ring of lines  *)
(* that scrolled off, the escape sequences byte by byte, the line being typed, *)
(* and the rows marked for drawing.  Colours are left out.  An action is one   *)
(* byte of output, one key, one event of the window, or the flush that ends    *)
(* every round of main's loop.                                                 *)

CONSTANTS MAX_COLS, MAX_ROWS, HISTORY, LINE_MAX, PARAMS, TabStop,
          Sizes,                      \* the sizes in cells the pane may have: <<rows, cols>>
          Before,                     \* what was printed before
          MaxSteps                    \* bound: bytes, keys and events

VARIABLES scr,      \* rows, cols, cells, row, col, the view and the line being typed
          hist,     \* the ring of lines: history, history_next, history_count
          esc,      \* the escape sequence being read: its state, params, private_mode
          dirty,    \* dirty_first, dirty_last, redraw_all
          stale,    \* rows of the window that do not show what they should
          gone,     \* the last HISTORY lines that scrolled off, oldest first
          steps

termVars == <<scr, hist, esc, dirty, stale, gone, steps>>

Blank == " "
Line == [0 .. MAX_COLS - 1 -> {Blank, "x"}]
BlankLine == [c \in 0 .. MAX_COLS - 1 |-> Blank]
Clean == [first |-> MAX_ROWS, last |-> -1, all |-> FALSE]
Text == [state |-> "text", params |-> <<>>, private |-> FALSE]

\* Where everything that a byte or a key may change is kept while it is handled.
State == [scr |-> scr, hist |-> hist, esc |-> esc, dirty |-> dirty, gone |-> gone]

DirtyRow(s, r) == [s EXCEPT !.dirty.first = IF r < @ THEN r ELSE @, !.dirty.last = IF r > @ THEN r ELSE @]
DirtyAll(s) == DirtyRow(DirtyRow(s, 0), s.scr.rows - 1)
Here(s) == DirtyRow(s, s.scr.row)

\* The ring, read the way view_row reads it: line i of the n newest.
FromHistory(s, back, r) ==
    LET oldest == (s.hist.next - s.hist.count + HISTORY) % HISTORY
    IN s.hist.line[(oldest + s.hist.count - back + r) % HISTORY]
ViewRow(s, r) == IF r < s.scr.back THEN FromHistory(s, s.scr.back, r) ELSE s.scr.cells[r - s.scr.back]

\* What draw_row puts into row r of the window.
Picture(s, r) == [text |-> [c \in 0 .. s.scr.cols - 1 |-> ViewRow(s, r)[c]],
                  mark |-> IF r = 0 THEN s.scr.back ELSE 0,
                  cursor |-> IF s.scr.back = 0 /\ s.scr.cursor_shown /\ r = s.scr.row /\ s.scr.col < s.scr.cols
                             THEN <<s.scr.col, s.scr.focused>> ELSE <<>>]

Becomes(s) ==
    /\ steps < MaxSteps /\ steps' = steps + 1
    /\ scr' = s.scr /\ hist' = s.hist /\ esc' = s.esc /\ dirty' = s.dirty /\ gone' = s.gone
    /\ stale' = IF s.dirty.all THEN 0 .. s.scr.rows - 1
                ELSE stale \cup {r \in 0 .. s.scr.rows - 1 : Picture(State, r) # Picture(s, r)}

-----------------------------------------------------------------------------
(* The screen. *)

\* n cells of row r from column c on.
ClearCells(s, r, c, n) == [s EXCEPT !.scr.cells[r] = [k \in DOMAIN @ |-> IF k \in c .. c + n - 1 THEN Blank ELSE @[k]]]
ClearRows(s, rs) == [s EXCEPT !.scr.cells = [r \in DOMAIN @ |-> IF r \in rs THEN BlankLine ELSE @[r]]]

\* The top line goes into the ring, the others move up.
ScrollUp(s) ==
    LET top  == s.scr.cells[0]
        last == s.scr.rows - 1
    IN DirtyAll([s EXCEPT !.hist = [line |-> [@.line EXCEPT ![s.hist.next] = top], next |-> (@.next + 1) % HISTORY,
                                    count |-> IF @.count < HISTORY THEN @.count + 1 ELSE @.count],
                          !.scr.cells = [r \in DOMAIN @ |-> IF r < last THEN @[r + 1] ELSE IF r = last THEN BlankLine ELSE @[r]],
                          !.gone = IF Len(@) = HISTORY THEN Append(Tail(@), top) ELSE Append(@, top)])

Newline(s) == LET t == [s EXCEPT !.scr.col = 0]
              IN IF s.scr.row < s.scr.rows - 1 THEN [t EXCEPT !.scr.row = @ + 1] ELSE ScrollUp(t)

ScrollTo(s, lines) ==
    LET to == IF lines < 0 THEN 0 ELSE IF lines > s.hist.count THEN s.hist.count ELSE lines
    IN IF to = s.scr.back THEN s ELSE DirtyAll([s EXCEPT !.scr.back = to])

RECURSIVE ScrollFor(_, _)
ScrollFor(s, rows) == IF s.scr.row < rows THEN s ELSE ScrollFor([ScrollUp(s) EXCEPT !.scr.row = @ - 1], rows)

\* The cursor's line stays on the screen, the lines above it go into the ring.
ResizeTo(s, size) ==
    LET t == ClearRows(ScrollFor(s, size[1]), s.scr.rows .. size[1] - 1)
    IN [t EXCEPT !.scr.rows = size[1], !.scr.cols = size[2], !.scr.col = IF @ > size[2] THEN size[2] ELSE @,
                 !.scr.back = 0, !.dirty.all = TRUE]

-----------------------------------------------------------------------------
(* Output: escape sequences and text. *)

Param(s, i, fallback) == IF i <= Len(s.esc.params) /\ s.esc.params[i] > 0 THEN s.esc.params[i] ELSE fallback
Least(a, b) == IF a < b THEN a ELSE b
Most(a, b) == IF a > b THEN a ELSE b

EraseScreen(s) ==
    LET p == Param(s, 1, 0)
        row == s.scr.row
    IN DirtyAll(IF p = 0 THEN ClearRows(ClearCells(s, row, s.scr.col, MAX_COLS - s.scr.col), row + 1 .. s.scr.rows - 1)
                ELSE IF p = 1 THEN ClearCells(ClearRows(s, 0 .. row - 1), row, 0, s.scr.col + 1)
                ELSE ClearRows(s, 0 .. s.scr.rows - 1))

EraseLine(s) ==
    LET p == Param(s, 1, 0)
    IN IF p = 0 THEN ClearCells(s, s.scr.row, s.scr.col, MAX_COLS - s.scr.col)
       ELSE ClearCells(s, s.scr.row, 0, IF p = 1 THEN s.scr.col + 1 ELSE MAX_COLS)

\* The two queries change nothing here: the answer goes to the shell.
ControlSequence(s, final) ==
    LET n == Param(s, 1, 1)
        rows == s.scr.rows
        cols == s.scr.cols
    IN IF s.esc.private
       THEN IF final \in {"h", "l"} /\ Param(s, 1, 0) = 2 THEN Here([s EXCEPT !.scr.cursor_shown = final = "h"]) ELSE s
       ELSE CASE final = "H" -> Here([s EXCEPT !.scr.row = Least(n, rows) - 1, !.scr.col = Least(Param(s, 2, 1), cols) - 1])
              [] final = "A" -> Here([s EXCEPT !.scr.row = Most(@ - n, 0)])
              [] final = "B" -> Here([s EXCEPT !.scr.row = Least(@ + n, rows - 1)])
              [] final = "C" -> Here([s EXCEPT !.scr.col = Least(@ + n, cols - 1)])
              [] final = "D" -> Here([s EXCEPT !.scr.col = Most(@ - n, 0)])
              [] final = "G" -> Here([s EXCEPT !.scr.col = Least(n, cols) - 1])
              [] final = "J" -> EraseScreen(s)
              [] final = "K" -> Here(EraseLine(s))
              [] OTHER -> s

Finals == {"H", "A", "B", "C", "D", "G", "J", "K", "h", "l", "m"}

WithParam(s) == IF s.esc.params = <<>> THEN [s EXCEPT !.esc.params = <<0>>] ELSE s

EscapeMarksNew(s, ch) ==
    CASE s.esc.state = "text" -> [s EXCEPT !.esc.state = "escape"]
      [] s.esc.state = "escape" -> [s EXCEPT !.esc = [Text EXCEPT !.state = IF ch = "[" THEN "csi" ELSE "text"]]
      [] ch = "2" -> LET t == WithParam(s) IN [t EXCEPT !.esc.params[Len(t.esc.params)] = 2]
      [] ch = ";" -> LET t == WithParam(s) IN IF Len(t.esc.params) < PARAMS THEN [t EXCEPT !.esc.params = Append(@, 0)] ELSE t
      [] ch = "?" -> [s EXCEPT !.esc.private = TRUE]
      [] ch \in Finals -> [Here(ControlSequence(s, ch)) EXCEPT !.esc = Text]
      [] OTHER -> [s EXCEPT !.esc = Text]

\* A byte that belongs to a sequence; the digit is always 2, which stands for 25
\* after a question mark.
Escape(s, ch) ==
    CASE s.esc.state = "text" -> [s EXCEPT !.esc.state = "escape"]
      [] s.esc.state = "escape" -> [s EXCEPT !.esc = [Text EXCEPT !.state = IF ch = "[" THEN "csi" ELSE "text"]]
      [] ch = "2" -> LET t == WithParam(s) IN [t EXCEPT !.esc.params[Len(t.esc.params)] = 2]
      [] ch = ";" -> LET t == WithParam(s) IN IF Len(t.esc.params) < PARAMS THEN [t EXCEPT !.esc.params = Append(@, 0)] ELSE t
      [] ch = "?" -> [s EXCEPT !.esc.private = TRUE]
      [] ch \in Finals -> [Here(ControlSequence(Here(s), ch)) EXCEPT !.esc = Text]
      [] OTHER -> [s EXCEPT !.esc = Text]

PutText(s, ch) ==
    CASE ch = "nl" -> Newline(s)
      [] ch = "cr" -> [s EXCEPT !.scr.col = 0]
      [] ch = "bs" -> [s EXCEPT !.scr.col = Most(@ - 1, 0)]
      [] ch = "tab" -> LET c == (s.scr.col \div TabStop + 1) * TabStop
                       IN IF c >= s.scr.cols THEN Newline(s) ELSE [s EXCEPT !.scr.col = c]
      [] ch \in {"x", " "} -> LET t == IF s.scr.col >= s.scr.cols THEN Newline(s) ELSE s
                              IN [t EXCEPT !.scr.cells[t.scr.row][t.scr.col] = ch, !.scr.col = @ + 1]
      [] OTHER -> s

Put(s, ch) ==
    LET t == ScrollTo(s, 0)
    IN IF t.esc.state # "text" \/ ch = "esc" THEN Escape(t, ch) ELSE Here(PutText(Here(t), ch))

-----------------------------------------------------------------------------
(* Keys, and the rounds of main. *)

RubOut(s) == Put(Put(Put([s EXCEPT !.scr.line_len = @ - 1], "bs"), " "), "bs")
RECURSIVE KillLine(_)
KillLine(s) == IF s.scr.line_len = 0 THEN s ELSE KillLine(RubOut(s))

KeyOf(s, k) ==
    LET t == ScrollTo(s, 0)
        half == s.scr.rows \div 2
    IN CASE k = "pgup" -> ScrollTo(s, s.scr.back + half)
         [] k = "pgdn" -> ScrollTo(s, s.scr.back - half)
         [] k = "rub" -> IF t.scr.line_len > 0 THEN RubOut(t) ELSE t
         [] k = "kill" -> KillLine(t)
         [] k = "enter" -> [Put(t, "nl") EXCEPT !.scr.line_len = 0]
         [] OTHER -> IF t.scr.line_len < LINE_MAX - 1 THEN Put([t EXCEPT !.scr.line_len = @ + 1], k) ELSE t

Bytes == {"x", "nl", "cr", "bs", "tab", "esc", "[", "2", ";", "?"} \cup Finals
TermKeys == {"x", "2", "pgup", "pgdn", "rub", "kill", "enter"}

Output(ch) == Becomes(Put(State, ch))
Key(k) == Becomes(KeyOf(State, k))
Focus == Becomes(Here([State EXCEPT !.scr.focused = ~@]))
Resize(size) == Becomes(ResizeTo(State, size))

\* Draws the rows that are marked, or all.
Flush == /\ dirty # Clean
         /\ stale' = IF dirty.all THEN {} ELSE stale \ (dirty.first .. dirty.last)
         /\ dirty' = Clean
         /\ UNCHANGED <<scr, hist, esc, gone, steps>>

Begin(size) ==
    [scr |-> [rows |-> size[1], cols |-> size[2], cells |-> [r \in 0 .. MAX_ROWS - 1 |-> BlankLine],
              row |-> 0, col |-> 0, back |-> 0, cursor_shown |-> TRUE, focused |-> TRUE, line_len |-> 0],
     hist |-> [line |-> [i \in 0 .. HISTORY - 1 |-> BlankLine], next |-> 0, count |-> 0],
     esc |-> Text, dirty |-> Clean, gone |-> <<>>]

RECURSIVE Printed(_, _)
Printed(s, chs) == IF chs = <<>> THEN s ELSE Printed(Put(s, Head(chs)), Tail(chs))

\* The terminal has printed something already, and drawn it.
TermInit == /\ \E size \in Sizes, chs \in Before :
                  LET s == Printed(Begin(size), chs)
                  IN scr = s.scr /\ hist = s.hist /\ esc = s.esc /\ gone = s.gone
            /\ dirty = Clean /\ stale = {} /\ steps = 0

TermNext == \/ \E ch \in Bytes : Output(ch)
            \/ \E k \in TermKeys : Key(k)
            \/ Focus \/ \E size \in Sizes : Resize(size)
            \/ Flush

TermSpec == TermInit /\ [][TermNext]_termVars

-----------------------------------------------------------------------------
\* Whatever is printed, typed or resized: the cursor is on the screen (or just
\* behind the last column), the view never looks further back than there are
\* lines, the ring holds the last HISTORY lines that scrolled off in their order,
\* the line being typed fits its buffer with its newline, and every row of the
\* window that shows something else than it should is marked, so that the flush
\* that ends the round draws it.
TerminalTrue ==
    /\ scr.row \in 0 .. scr.rows - 1 /\ scr.col \in 0 .. scr.cols
    /\ scr.back \in 0 .. hist.count /\ scr.line_len < LINE_MAX
    /\ hist.count = Len(gone) /\ \A i \in 1 .. Len(gone) : FromHistory(State, hist.count, i - 1) = gone[i]
    /\ dirty.all \/ stale \subseteq dirty.first .. dirty.last

-----------------------------------------------------------------------------
(* The calculator (desktop/apps/calc.c): its fixed-point arithmetic in        *)
(* machine words, and what a key does to the number being typed, the pending  *)
(* operator and what is shown.                                                *)

CONSTANTS INT_DIGITS, FRAC_DIGITS,
          Word,             \* the modulus of unsigned long long
          Operands,         \* the pairs the arithmetic is tried on
          Digits, MaxKeys   \* bound: the digit keys, the keys pressed

VARIABLES calc,    \* acc, op, entry, typing, shown, error
          sum,     \* an arithmetic operation tried on its own: its operands and result
          keys

calcVars == <<calc, sum, keys>>

SCALE == 10 ^ FRAC_DIGITS
LIMIT == 10 ^ INT_DIGITS * SCALE - 1
Abs(a) == IF a < 0 THEN -a ELSE a
Wrap(a) == a % Word
Signed(a, b, u) == IF (a < 0) # (b < 0) THEN -u ELSE u

\* A result, or none.
Overflow == <<>>
Within(r) == IF r <= LIMIT /\ r >= -LIMIT THEN <<r>> ELSE Overflow

Add(a, b) == Within(a + b)

MulUnchecked(a, b) ==
    LET ai == Abs(a) \div SCALE  af == Abs(a) % SCALE
        bi == Abs(b) \div SCALE  bf == Abs(b) % SCALE
        r  == Wrap(ai * bi * SCALE + ai * bf + af * bi + ((af * bf + (SCALE \div 2)) \div SCALE))
    IN IF r > LIMIT THEN Overflow ELSE <<Signed(a, b, r)>>

\* In parts that stay small, once ai * bi is known to be.
Mul(a, b) ==
    LET ai == Abs(a) \div SCALE  af == Abs(a) % SCALE
        bi == Abs(b) \div SCALE  bf == Abs(b) % SCALE
        r  == Wrap(ai * bi * SCALE + ai * bf + af * bi + ((af * bf + (SCALE \div 2)) \div SCALE))
    IN IF (ai > 0 /\ bi > 0 /\ ai > (LIMIT \div SCALE) \div bi) \/ r > LIMIT THEN Overflow
       ELSE <<Signed(a, b, r)>>

RECURSIVE Decimals(_, _, _, _)
Decimals(r, b, frac, n) ==
    IF n = 0 THEN IF Wrap(r * 10) \div b >= 5 THEN frac + 1 ELSE frac
    ELSE Decimals(Wrap(r * 10) % b, b, frac * 10 + (Wrap(r * 10) \div b), n - 1)

\* Long division, a decimal at a time, then rounded.
Divide(a, b) ==
    LET q == Abs(a) \div Abs(b)
        v == Wrap(q * SCALE + Decimals(Abs(a) % Abs(b), Abs(b), 0, FRAC_DIGITS))
    IN IF q > LIMIT \div SCALE \/ v > LIMIT THEN Overflow ELSE <<Signed(a, b, v)>>

-----------------------------------------------------------------------------
(* The number being typed: sign, whole digits, a point or none, decimals. *)

Entry(neg, whole, dot, frac) == [neg |-> neg, whole |-> whole, dot |-> dot, frac |-> frac]
Zero == Entry(FALSE, <<0>>, FALSE, <<>>)

RECURSIVE Number(_)
Number(ds) == IF ds = <<>> THEN 0 ELSE Number(SubSeq(ds, 1, Len(ds) - 1)) * 10 + ds[Len(ds)]
RECURSIVE DigitsOf(_)
DigitsOf(n) == IF n < 10 THEN <<n>> ELSE Append(DigitsOf(n \div 10), n % 10)
Padded(ds) == [i \in 1 .. FRAC_DIGITS - Len(ds) |-> 0] \o ds
RECURSIVE NoTrailingZeros(_)
NoTrailingZeros(ds) == IF ds # <<>> /\ ds[Len(ds)] = 0 THEN NoTrailingZeros(SubSeq(ds, 1, Len(ds) - 1)) ELSE ds

Format(v) == LET frac == NoTrailingZeros(Padded(DigitsOf(Abs(v) % SCALE)))
             IN Entry(v < 0, DigitsOf(Abs(v) \div SCALE), frac # <<>>, frac)
Parse(e) == LET v == Number(e.whole) * SCALE + Number(e.frac) * 10 ^ (FRAC_DIGITS - Len(e.frac))
            IN IF e.neg THEN -v ELSE v

-----------------------------------------------------------------------------
(* The keys. *)

Clear == [acc |-> 0, op |-> "", entry |-> Zero, typing |-> FALSE, shown |-> 0, error |-> FALSE]
Fail == [Clear EXCEPT !.error = TRUE]
Current(c) == IF c.typing THEN Parse(c.entry) ELSE c.shown

\* The pending operator on acc and a value: the calculator, which may have failed.
Apply(c, value) ==
    LET r == CASE c.op = "+" -> Add(c.acc, value)
               [] c.op = "-" -> Add(c.acc, -value)
               [] c.op = "*" -> Mul(c.acc, value)
               [] c.op = "/" /\ value # 0 -> Divide(c.acc, value)
               [] OTHER -> Overflow
    IN IF r = Overflow THEN Fail ELSE [c EXCEPT !.acc = r[1], !.shown = r[1]]

\* Starts a number, if none is being typed.
Begun(c, first) == IF c.typing THEN c ELSE [c EXCEPT !.acc = IF c.op = "" THEN 0 ELSE @, !.entry = first, !.typing = TRUE]

Digit(c, d) ==
    LET b == Begun(c, Entry(FALSE, <<>>, FALSE, <<>>))
        e == b.entry
    IN IF e.dot THEN (IF Len(e.frac) >= FRAC_DIGITS THEN b ELSE [b EXCEPT !.entry.frac = Append(@, d)])
       ELSE IF Len(e.whole) >= INT_DIGITS THEN b
       ELSE [b EXCEPT !.entry.whole = IF @ = <<0>> THEN <<d>> ELSE Append(@, d)]

Point(c) == [Begun(c, Zero) EXCEPT !.entry.dot = TRUE]

Operator(c, op) ==
    LET done == IF c.op # "" THEN Apply(c, Current(c)) ELSE [c EXCEPT !.acc = Current(c), !.shown = Current(c)]
    IN IF ~(c.typing \/ c.op = "") THEN [c EXCEPT !.op = op]
       ELSE IF done.error THEN done ELSE [done EXCEPT !.typing = FALSE, !.op = op]

Equals(c) ==
    LET done == Apply(c, Current(c))
    IN IF c.op = "" THEN [c EXCEPT !.shown = Current(c), !.acc = Current(c), !.typing = FALSE]
       ELSE IF done.error THEN done ELSE [done EXCEPT !.op = "", !.typing = FALSE]

Hundredth(v) == IF v < 0 THEN -((-v) \div 100) ELSE v \div 100
Percent(c) ==
    LET share == Mul(c.acc, Current(c))
        r == IF c.op \in {"+", "-"} THEN Hundredth(share[1]) ELSE Hundredth(Current(c))
    IN IF c.op \in {"+", "-"} /\ share = Overflow THEN Fail
       ELSE [c EXCEPT !.shown = r, !.entry = Format(r), !.typing = TRUE]

Negate(c) ==
    IF c.typing THEN (IF c.entry = Zero THEN c ELSE [c EXCEPT !.entry.neg = ~@])
    ELSE [c EXCEPT !.shown = -@, !.acc = IF c.op = "" THEN -c.shown ELSE @]

Backspace(c) ==
    LET e == c.entry
        cut == IF e.frac # <<>> THEN [e EXCEPT !.frac = SubSeq(@, 1, Len(@) - 1)]
               ELSE IF e.dot THEN [e EXCEPT !.dot = FALSE]
               ELSE [e EXCEPT !.whole = SubSeq(@, 1, Len(@) - 1)]
    IN IF ~c.typing THEN c ELSE [c EXCEPT !.entry = IF cut.whole = <<>> THEN Zero ELSE cut]

CalcKey(c, key) ==
    LET d == [c EXCEPT !.error = FALSE]
    IN CASE c.error /\ key \notin DOMAIN Digits \cup {"."} -> d
         [] key \in DOMAIN Digits -> Digit(d, Digits[key])
         [] key = "." -> Point(d)
         [] key \in {"+", "-", "*", "/"} -> Operator(d, key)
         [] key = "=" -> Equals(d)
         [] key = "%" -> Percent(d)
         [] key = "c" -> Clear
         [] key = "bs" -> Backspace(d)
         [] OTHER -> Negate(d)

CalcKeys == DOMAIN Digits \cup {".", "+", "-", "*", "/", "=", "%", "c", "bs", "n"}
Nothing == [op |-> "", a |-> 0, b |-> 0, r |-> Overflow]

CalcInit == calc = Clear /\ sum = Nothing /\ keys = 0

Press(key) == /\ sum = Nothing /\ keys < MaxKeys /\ keys' = keys + 1
              /\ calc' = CalcKey(calc, key) /\ UNCHANGED sum

Try(a, b) == /\ sum = Nothing /\ keys = 0
             /\ \E op \in {"+", "*", "/"} :
                   /\ op = "/" => b # 0
                   /\ sum' = [op |-> op, a |-> a, b |-> b,
                              r |-> CASE op = "+" -> Add(a, b) [] op = "*" -> Mul(a, b) [] op = "/" -> Divide(a, b)]
             /\ UNCHANGED <<calc, keys>>

CalcNext == (\E key \in CalcKeys : Press(key)) \/ (\E a, b \in Operands : Try(a, b))

CalcSpec == CalcInit /\ [][CalcNext]_calcVars

-----------------------------------------------------------------------------
\* The exact result, times d: the answer is the nearest number there is, and
\* there is none exactly when that number is out of range.
Nearest(r, n, d) == /\ r # Overflow => 2 * Abs(r[1] * d - n) <= d /\ Abs(r[1]) <= LIMIT
                    /\ r = Overflow <=> 2 * Abs(n) >= (2 * LIMIT + 1) * d

\* No sum, product or quotient is wrong because a machine word wrapped or a digit
\* was cut ("each part small enough for 64 bits once ai*bi is known to be",
\* calc.c:47): it is the nearest number there is, or an overflow when there is
\* none.  And no sequence of keys leaves the range: the operand, what is shown
\* and the number being typed stay within the limits and their digits within
\* their fields, a number that % writes into the entry is read back as itself,
\* and an error leaves nothing behind.
CalculatesTrue ==
    /\ CASE sum.op = "*" -> Nearest(sum.r, sum.a * sum.b, SCALE)
         [] sum.op = "/" -> Nearest(sum.r, Signed(sum.a, sum.b, Abs(sum.a) * SCALE), Abs(sum.b))
         [] sum.op = "+" -> Nearest(sum.r, sum.a + sum.b, 1)
         [] OTHER -> TRUE
    /\ \A v \in {calc.acc, calc.shown, Current(calc)} : Abs(v) <= LIMIT
    /\ Len(calc.entry.whole) \in 1 .. INT_DIGITS /\ Len(calc.entry.frac) <= FRAC_DIGITS
    /\ calc.entry.frac # <<>> => calc.entry.dot
    /\ Parse(Format(calc.shown)) = calc.shown
    /\ calc.error => calc = Fail
=============================================================================
