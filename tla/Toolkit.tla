------------------------------- MODULE Toolkit -------------------------------
(***************************************************************************)
(* libui, the widget toolkit: its tree of widgets, and what the widgets    *)
(* themselves do.                                                          *)
(***************************************************************************)
EXTENDS Integers, SequencesExt, FiniteSets

-----------------------------------------------------------------------------
(***************************************************************************)
(* libui's core (ui.c): the widget tree of a window, the widgets that have *)
(* the focus, are under the pointer or hold it, the message that goes over *)
(* everything, and what is drawn again.  The program's callbacks, run from *)
(* inside the handling of a key or of the pointer, may call anything: hide *)
(* or destroy widgets, the one that called them too, or show a message.    *)
(* The tree is that of a small window; "b" may be made later.              *)
(***************************************************************************)

CONSTANT Parent        \* Parent[w], of every widget; the roots' is None

VARIABLES alive, hidden, disabled, unfocusable,   \* sets of widgets
          ui,      \* focus, hover, grab, before_modal, modal, active, need_layout, buttons
          dirty,   \* widgets to be drawn again
          stale,   \* widgets that no longer look as they were drawn
          made     \* has "b" been made?

uiVars == <<alive, hidden, disabled, unfocusable, ui, dirty, stale, made>>

None == "none"
Widget == DOMAIN Parent
Preorder == <<"root", "box", "a", "b", "msg", "ok">>

(* The whole state, so that callbacks compose with what calls them.        *)
State == [alive |-> alive, hidden |-> hidden, disabled |-> disabled, unfocusable |-> unfocusable,
          ui |-> ui, dirty |-> dirty]
Looks(s, wd) == [focused |-> s.ui.focus = wd /\ s.ui.active, hover |-> s.ui.hover = wd, enabled |-> wd \notin s.disabled]

(* A layout draws everything: until then what is dirty does not matter.    *)
Becomes(s) == /\ alive' = s.alive /\ hidden' = s.hidden /\ disabled' = s.disabled
              /\ unfocusable' = s.unfocusable /\ ui' = s.ui
              /\ dirty' = IF s.ui.need_layout THEN {} ELSE s.dirty
              /\ stale' = IF s.ui.need_layout THEN {}
                          ELSE (stale \cap s.alive) \cup {wd \in s.alive : Looks(s, wd) # Looks(State, wd)}

RECURSIVE Ancestors(_)
Ancestors(wd) == IF wd = None THEN {} ELSE {wd} \cup Ancestors(Parent[wd])
Within(wd, top) == wd # None /\ top \in Ancestors(wd)
Hidden(s, wd) == Ancestors(wd) \cap s.hidden # {}
CanFocus(s, wd) == /\ wd \in s.alive /\ wd \notin s.unfocusable /\ wd \notin s.disabled
                   /\ ~Hidden(s, wd) /\ wd \in {"a", "b", "ok"}

UiInit == /\ alive = {"root", "box", "a"} /\ hidden = {} /\ disabled = {} /\ unfocusable = {}
          /\ ui = [focus |-> None, hover |-> None, grab |-> None, before_modal |-> None,
                   modal |-> FALSE, active |-> TRUE, need_layout |-> TRUE, buttons |-> FALSE]
          /\ dirty = {} /\ stale = {} /\ made = FALSE

Redraw(s, wd) == IF wd # None /\ ~Hidden(s, wd) THEN [s EXCEPT !.dirty = @ \cup {wd}] ELSE s
Relayout(s) == [s EXCEPT !.ui.need_layout = TRUE]
SetFocus(s, wd) == IF s.ui.focus = wd THEN s
                   ELSE Redraw([Redraw(s, s.ui.focus) EXCEPT !.ui.focus = wd], wd)
SetHover(s, wd) == IF s.ui.hover = wd THEN s
                   ELSE Redraw(Redraw([s EXCEPT !.ui.hover = wd], s.ui.hover), wd)
Top(s) == IF s.ui.modal THEN "msg" ELSE "root"

(* Those that can take the focus, in the tree's order, from the one after  *)
(* the focused one round to it.                                            *)
Takers(s) == SelectSeq(Preorder, LAMBDA wd : CanFocus(s, wd) /\ Within(wd, Top(s)))
Place(wd) == CHOOSE i \in DOMAIN Preorder : Preorder[i] = wd
FocusStep(s) ==
  LET ts == Takers(s)
      from == IF Within(s.ui.focus, Top(s)) THEN Place(s.ui.focus) ELSE Place(Top(s))
      later == SelectSeq(ts, LAMBDA wd : Place(wd) > from)
  IN IF ts = <<>> THEN s ELSE SetFocus(s, IF later = <<>> THEN ts[1] ELSE later[1])
-----------------------------------------------------------------------------
(* What the program, or a callback of it, may do.                          *)
NewWidget(s) == Relayout([s EXCEPT !.alive = @ \cup {"b"}])

Forget(s, gone) == [s EXCEPT !.ui.focus = IF @ \in gone THEN None ELSE @,
                             !.ui.hover = IF @ \in gone THEN None ELSE @,
                             !.ui.grab = IF @ \in gone THEN None ELSE @]
Below(s, wd) == {v \in s.alive : Within(v, wd)}

DestroyForgetful(s, wd) == LET gone == Below(s, wd)
                           IN Relayout([Forget(s, gone) EXCEPT !.alive = @ \ gone])

(* ui_destroy: the widget and all below it.                                *)
Destroy(s, wd) == LET gone == Below(s, wd)
                  IN Relayout([Forget(s, gone) EXCEPT !.ui.before_modal = IF @ \in gone THEN None ELSE @,
                                                      !.alive = @ \ gone])

SetVisible(s, wd, visible) ==
  IF (wd \notin s.hidden) = visible THEN s
  ELSE IF visible THEN Relayout([s EXCEPT !.hidden = @ \ {wd}])
  ELSE Relayout([Forget(s, Below(s, wd)) EXCEPT !.hidden = @ \cup {wd}])

SetEnabled(s, wd, enabled) ==
  IF (wd \notin s.disabled) = enabled THEN s
  ELSE IF enabled THEN Redraw([s EXCEPT !.disabled = @ \ {wd}], wd)
  ELSE LET t == [s EXCEPT !.disabled = @ \cup {wd}]
           u == IF s.ui.focus = wd THEN FocusStep(t) ELSE t
       IN Redraw([u EXCEPT !.ui.focus = IF s.ui.focus = wd /\ @ = wd THEN None ELSE @], wd)

SetFocusable(s, wd, focusable) ==
  IF focusable THEN [s EXCEPT !.unfocusable = @ \ {wd}]
  ELSE IF s.ui.focus = wd THEN Relayout([s EXCEPT !.unfocusable = @ \cup {wd}, !.ui.focus = None])
  ELSE [s EXCEPT !.unfocusable = @ \cup {wd}]

UiFocus(s, wd) == IF CanFocus(s, wd) /\ (s.ui.modal => Within(wd, "msg")) THEN SetFocus(s, wd) ELSE s

CloseMessage(s) ==
  IF ~s.ui.modal THEN s
  ELSE LET back == IF s.ui.before_modal # None THEN (IF CanFocus(s, s.ui.before_modal) THEN s.ui.before_modal ELSE None)
                   ELSE None
           t == [s EXCEPT !.ui.modal = FALSE, !.ui.before_modal = None, !.alive = @ \ {"msg", "ok"}]
           u == [Forget(t, {"msg", "ok"}) EXCEPT !.ui.focus = IF Within(s.ui.focus, "msg") THEN back ELSE @]
       IN Relayout(u)

(* ui_message.                                                             *)
Message(s) == LET t == CloseMessage(s)
              IN Relayout([t EXCEPT !.ui.before_modal = t.ui.focus, !.ui.modal = TRUE, !.ui.focus = "ok",
                                    !.ui.hover = None, !.ui.grab = None, !.alive = @ \cup {"msg", "ok"}])

Calls(s) == {s, Message(s)}
            \cup {Destroy(s, wd) : wd \in s.alive \cap {"box", "a", "b"}}
            \cup {SetVisible(s, wd, v) : wd \in s.alive \cap {"box", "a"}, v \in BOOLEAN}
            \cup {SetEnabled(s, wd, e) : wd \in s.alive \cap {"a", "b"}, e \in BOOLEAN}
            \cup {SetFocusable(s, wd, f) : wd \in s.alive \cap {"b"}, f \in BOOLEAN}
            \cup {UiFocus(s, wd) : wd \in s.alive \cap {"a", "b"}}

ProgramCalls == (\E s \in Calls(State) : Becomes(s)) /\ UNCHANGED made
Make == /\ ~made /\ made' = TRUE /\ Becomes(NewWidget(State))
-----------------------------------------------------------------------------
(* key: a message takes every key, and some close it; else the focused     *)
(* widget, whose callback runs, or Tab.                                    *)
UiKey == /\ \/ ui.modal /\ Becomes(CloseMessage(State))
            \/ /\ ~ui.modal /\ ui.focus # None /\ ui.focus \notin disabled
               /\ \E s \in Calls(State) : Becomes(s)
            \/ ~ui.modal /\ Becomes(FocusStep(State))
         /\ UNCHANGED made

(* hit: what the pointer is over; a widget just made, or a message not yet *)
(* placed, has no place on the screen.                                     *)
Hits(s) == {None} \cup {wd \in s.alive \cap {"a", "b", "ok"} : ~Hidden(s, wd) /\ Within(wd, Top(s)) /\ ~(s.ui.need_layout /\ s.ui.modal)}

(* mouse: moved, pressed and released.  A press gives the focus and the    *)
(* pointer; the widget's callback runs on the press (a list's) or on the   *)
(* release (a button's).                                                   *)
MouseMove(h) == /\ h \in Hits(State) /\ ui.grab = None /\ ~ui.buttons
                /\ Becomes(SetHover(State, h)) /\ UNCHANGED made

MousePress(h) ==
  /\ h \in Hits(State) /\ ui.grab = None /\ ~ui.buttons
  /\ LET s == SetHover([State EXCEPT !.ui.buttons = TRUE], h)
         t == [(IF CanFocus(s, h) THEN SetFocus(s, h) ELSE s) EXCEPT !.ui.grab = h]
     IN IF h = None \/ h \in disabled THEN Becomes(s)
        ELSE IF h = "ok" THEN Becomes(t) ELSE \E u \in Calls(t) : Becomes(u)
  /\ UNCHANGED made

MouseRelease ==
  /\ ui.buttons
  /\ LET s == [State EXCEPT !.ui.buttons = FALSE, !.ui.grab = None]
         after == IF ui.grab = None \/ ui.grab \in disabled THEN {s}
                  ELSE IF ui.grab = "ok" THEN {s, CloseMessage(s)} ELSE Calls(s)
     IN \E t \in after : \E h \in Hits(t) : Becomes(SetHover(t, h))
  /\ UNCHANGED made

(* WIN_FOCUS.                                                              *)
WinFocus == LET s == [State EXCEPT !.ui.active = ~@]
            IN Becomes(Redraw(IF s.ui.active THEN s ELSE SetHover(s, None), s.ui.focus)) /\ UNCHANGED made

(* ui_update: the layout, which finds somebody for the focus, and paint.   *)
Update == LET s == IF ui.need_layout /\ ui.focus = None /\ Takers(State) # <<>>
                   THEN [State EXCEPT !.ui.focus = Takers(State)[1]] ELSE State
          IN /\ alive' = s.alive /\ hidden' = s.hidden /\ disabled' = s.disabled /\ unfocusable' = s.unfocusable
             /\ ui' = [s.ui EXCEPT !.need_layout = FALSE] /\ dirty' = {} /\ stale' = stale \ dirty
             /\ UNCHANGED made

UiNext == \/ ProgramCalls \/ Make \/ UiKey \/ MouseRelease \/ WinFocus \/ Update
          \/ \E h \in Widget \cup {None} : MouseMove(h) \/ MousePress(h)

UiSpec == UiInit /\ [][UiNext]_uiVars

(***************************************************************************)
(* Whatever callbacks do, the focus, the hovered widget, the one holding   *)
(* the pointer and the one to go back to after a message are widgets that  *)
(* have not been freed; the focused one can take it and, while a message   *)
(* is up, is the message's; and a widget that no longer looks as it was    *)
(* drawn will be drawn again.                                              *)
(***************************************************************************)
UiSound ==
  /\ {ui.focus, ui.hover, ui.grab, ui.before_modal} \subseteq alive \cup {None}
  /\ ui.focus # None => CanFocus(State, ui.focus) /\ Within(ui.focus, Top(State))
  /\ ui.modal => \A wd \in {ui.hover, ui.grab} \ {None} : Within(wd, "msg")
  /\ \A wd \in stale : Hidden(State, wd) \/ wd \in dirty

-----------------------------------------------------------------------------
(* What the widgets of libui keep: the list (list.c), the text (text.c), the   *)
(* line of text to type (widgets.c), the scroll bar (scroll.c) and the boxes   *)
(* that place their children (layout.c).  A behaviour follows one widget.      *)
(* Sizes are in cells, so that a widget has a number of rows and of columns.   *)

CONSTANTS Kinds,               \* the widgets followed
          TAB_COLS, MinThumb,
          MaxItems, MaxLen,    \* bounds: items of a list, characters of a text
          EntryMax,            \* the characters an entry takes
          Shapes,              \* the sizes the layout may give: [rows, cols]
          Boxes                \* boxes to lay out: [length, spacing, kids]

VARIABLES kind, w, size,
          shown      \* the call before was one that shows the selection or the caret

widgetVars == <<kind, w, size, shown>>

Clamp(v, lo, hi) == IF v < lo THEN lo ELSE IF v > hi THEN hi ELSE v
Most(a, b) == IF a > b THEN a ELSE b
Least(a, b) == IF a < b THEN a ELSE b
Quot(a, b) == IF a < 0 THEN -((-a) \div b) ELSE a \div b

-----------------------------------------------------------------------------
(* The scroll bar, as long as the widget has rows. *)

Bar == 2 * size.rows
ThumbSize(total, visible) == Least(Bar, Most(MinThumb, (Bar * visible) \div total))
Thumb(total, visible, top) ==
    IF total <= visible THEN [y |-> 0, h |-> 0]
    ELSE LET h == ThumbSize(total, visible) IN [y |-> ((Bar - h) * top) \div (total - visible), h |-> h]

\* A press in the bar at y, and a drag to y of a thumb held at `held`.
ScrollPress(total, visible, top, y) ==
    LET t == Thumb(total, visible, top)
    IN IF t.h = 0 \/ y \in t.y .. t.y + t.h - 1 THEN top
       ELSE Clamp(IF y < t.y THEN top - visible ELSE top + visible, 0, Most(0, total - visible))
ScrollDrag(total, visible, top, held, y) ==
    LET t == Thumb(total, visible, top)
        range == Bar - t.h
        last == Most(0, total - visible)
    IN IF range <= 0 \/ t.h = 0 THEN top ELSE Clamp(Quot((y - held) * last + (range \div 2), range), 0, last)

Scrolled(total, visible, top) ==
    {ScrollPress(total, visible, top, y) : y \in 0 .. Bar - 1}
    \cup {ScrollDrag(total, visible, top, held, y) : held \in 0 .. Most(0, Thumb(total, visible, top).h - 1), y \in -1 .. Bar}

-----------------------------------------------------------------------------
(* The list: how many items, which is selected, which is the first shown. *)

ClampTop(l) == [l EXCEPT !.top = Clamp(@, 0, Most(0, l.count - size.rows))]

ShowSelectedLate(l) ==
    ClampTop([l EXCEPT !.top = IF l.selected < @ THEN l.selected
                               ELSE IF l.selected > @ + size.rows THEN l.selected - size.rows + 1 ELSE @])

ShowSelected(l) ==
    ClampTop([l EXCEPT !.top = IF l.selected < @ THEN l.selected
                               ELSE IF l.selected >= @ + size.rows THEN l.selected - size.rows + 1 ELSE @])

SelectRow(l, row) ==
    LET r == Clamp(row, IF l.count > 0 THEN 0 ELSE -1, l.count - 1)
        s == [l EXCEPT !.selected = r]
    IN IF r = l.selected \/ r >= 0 THEN ShowSelected(s) ELSE s

ListKey(l) ==
    LET now == Most(0, l.selected)
    IN {SelectRow(l, row) : row \in {IF l.selected < 0 THEN l.count - 1 ELSE now - 1,
                                     IF l.selected < 0 THEN 0 ELSE now + 1,
                                     now - size.rows, now + size.rows, 0, l.count - 1}}

ListAdd(l) == IF l.count < MaxItems THEN {[l EXCEPT !.count = @ + 1]} ELSE {}
ListClear == [count |-> 0, selected |-> -1, top |-> 0]
ListClick(l) == {SelectRow(l, l.top + y) : y \in {v \in 0 .. size.rows - 1 : l.top + v < l.count}}
ListScroll(l) == {[l EXCEPT !.top = t] : t \in Scrolled(l.count, size.rows, l.top)}

-----------------------------------------------------------------------------
(* The text: its characters, the line starts found, the caret, the view. *)

EmptyText == [buf |-> <<>>, starts |-> <<0>>, cursor |-> 0, top |-> 0, left |-> 0, want_col |-> 0]

\* index_lines; offsets count from 0.
IndexLines(buf) == <<0>> \o SelectSeq([i \in 1 .. Len(buf) |-> IF buf[i] = "nl" THEN i ELSE 0], LAMBDA i : i > 0)
LineEnd(t, line) == IF line + 1 < Len(t.starts) THEN t.starts[line + 2] - 1 ELSE Len(t.buf)

RECURSIVE Bisect(_, _, _, _)
Bisect(starts, offset, lo, hi) ==
    LET mid == (lo + hi + 1) \div 2
    IN IF lo >= hi THEN lo ELSE IF starts[mid + 1] <= offset THEN Bisect(starts, offset, mid, hi) ELSE Bisect(starts, offset, lo, mid - 1)
LineOf(t, offset) == Bisect(t.starts, offset, 0, Len(t.starts) - 1)

Advance(col, ch) == IF ch = "tab" THEN (col \div TAB_COLS + 1) * TAB_COLS ELSE col + 1
ColOf(t, line, offset) == FoldLeft(Advance, 0, SubSeq(t.buf, t.starts[line + 1] + 1, offset))
\* The first place in the line at the column or past it, or the line's end.
OffsetFor(t, line, col) ==
    LET end == LineEnd(t, line)
    IN CHOOSE i \in t.starts[line + 1] .. end : /\ i = end \/ ColOf(t, line, i) >= col
                                                /\ \A j \in t.starts[line + 1] .. i - 1 : ColOf(t, line, j) < col

\* A text that is only looked at has no empty line after its last newline.
ShownLines(t) == LET n == Len(t.starts) IN IF kind = "view" /\ n > 1 /\ t.starts[n] = Len(t.buf) THEN n - 1 ELSE n
LastTop(t) == Most(0, ShownLines(t) - size.rows)
ClampView(t) == [t EXCEPT !.top = Clamp(@, 0, LastTop(t)), !.left = Most(0, @)]
ShowCaret(t) ==
    LET line == LineOf(t, t.cursor)
        col == ColOf(t, line, t.cursor)
    IN ClampView([t EXCEPT !.top = IF line < @ THEN line ELSE IF line >= @ + size.rows THEN line - size.rows + 1 ELSE @,
                           !.left = IF col < @ THEN col ELSE IF col >= @ + size.cols THEN col - size.cols + 1 ELSE @])

Aim(t) == [t EXCEPT !.want_col = ColOf(t, LineOf(t, t.cursor), t.cursor)]
Changed(t, buf, cursor) == Aim(ShowCaret([t EXCEPT !.buf = buf, !.starts = IndexLines(buf), !.cursor = cursor]))
Insert(t, ch) == IF Len(t.buf) < MaxLen
                 THEN {Changed(t, SubSeq(t.buf, 1, t.cursor) \o <<ch>> \o SubSeq(t.buf, t.cursor + 1, Len(t.buf)), t.cursor + 1)}
                 ELSE {}
Erase(t, from, to) ==
    IF from >= to \/ to > Len(t.buf) THEN t
    ELSE Changed(t, SubSeq(t.buf, 1, from) \o SubSeq(t.buf, to + 1, Len(t.buf)), from)
MoveToLine(t, line) == ShowCaret([t EXCEPT !.cursor = OffsetFor(t, Clamp(line, 0, Len(t.starts) - 1), t.want_col)])
MoveTo(t, offset) == ShowCaret(Aim([t EXCEPT !.cursor = offset]))

TextKey(t) ==
    LET line == LineOf(t, t.cursor)
        end  == LineEnd(t, line)
    IN UNION {Insert(t, ch) : ch \in {"x", "tab", "nl"}}
       \cup {MoveToLine(t, l) : l \in {line - 1, line + 1, line - size.rows + 1, line + size.rows - 1}}
       \cup {MoveTo(t, o) : o \in {Most(0, t.cursor - 1), Least(Len(t.buf), t.cursor + 1), t.starts[line + 1], end}}
       \cup {Erase(t, Most(0, t.cursor - 1), t.cursor), Erase(t, t.cursor, t.cursor + 1),
             Erase(t, t.cursor, IF t.cursor = end THEN t.cursor + 1 ELSE end)}

ViewKey(t) ==
    LET moved == {[t EXCEPT !.top = k] : k \in {t.top - 1, t.top + 1, t.top - size.rows + 1, t.top + size.rows - 1, LastTop(t)}}
                 \cup {[t EXCEPT !.top = 0, !.left = 0], [t EXCEPT !.left = Most(0, @ - TAB_COLS)]}
                 \cup (IF t.left < MaxLen THEN {[t EXCEPT !.left = @ + TAB_COLS]} ELSE {})
    IN {[u EXCEPT !.top = Clamp(@, 0, LastTop(t))] : u \in moved}
SetText == {[EmptyText EXCEPT !.buf = b, !.starts = IndexLines(b)] : b \in UNION {[1 .. n -> {"x", "nl"}] : n \in 0 .. MaxLen}}

TextClick(t) == {LET u == [t EXCEPT !.cursor = OffsetFor(t, Clamp(t.top + y, 0, ShownLines(t) - 1), t.left + x)]
                 IN Aim(u) : x \in 0 .. size.cols, y \in 0 .. size.rows - 1}
TextScroll(t) == {[t EXCEPT !.top = k] : k \in Scrolled(ShownLines(t), size.rows, t.top)}
TextGoto(t) == {ClampView([t EXCEPT !.cursor = t.starts[l + 1], !.want_col = 0, !.top = l]) : l \in 0 .. ShownLines(t) - 1}

-----------------------------------------------------------------------------
(* The entry: its length, the caret, the first character shown. *)

ScrollToCaret(e) == [e EXCEPT !.off = IF e.cursor < @ THEN e.cursor
                                      ELSE IF e.cursor > @ + size.cols - 1 THEN e.cursor - (size.cols - 1) ELSE @]
EntryKey(e) ==
    {[e EXCEPT !.cursor = c] : c \in {Most(0, e.cursor - 1), Least(e.len, e.cursor + 1), 0, e.len}}
    \cup {[e EXCEPT !.len = e.cursor], [len |-> 0, cursor |-> 0, off |-> 0]}
    \cup (IF e.cursor > 0 THEN {[e EXCEPT !.cursor = @ - 1, !.len = @ - 1]} ELSE {})
    \cup (IF e.cursor < e.len THEN {[e EXCEPT !.len = @ - 1]} ELSE {})
    \cup (IF e.len < EntryMax THEN {[e EXCEPT !.cursor = @ + 1, !.len = @ + 1]} ELSE {})
EntryClick(e) == {[e EXCEPT !.cursor = Clamp(e.off + x, 0, e.len)] : x \in 0 .. size.cols}
EntrySetText == {[len |-> n, cursor |-> n, off |-> 0] : n \in 0 .. EntryMax}
-----------------------------------------------------------------------------
(* Boxes.  A child is [want, expand]. *)

RECURSIVE Total(_)
Total(ns) == IF ns = <<>> THEN 0 ELSE Head(ns) + Total(Tail(ns))
Wants(kids) == [i \in DOMAIN kids |-> kids[i].want]
Weights(kids) == Total([i \in DOMAIN kids |-> kids[i].expand])
Room(b) == b.length - b.spacing * Most(0, Len(b.kids) - 1)

\* The room left over goes to those that expand, in proportion.
RECURSIVE Grown(_, _)
Grown(kids, left) ==
    IF kids = <<>> THEN <<>>
    ELSE LET share == IF kids[1].expand = 0 THEN 0 ELSE (left * kids[1].expand) \div Weights(kids)
         IN <<kids[1].want + share>> \o Grown(Tail(kids), left - share)

\* A box too small takes room back, in the order given.
RECURSIVE Shrunk(_, _, _)
Shrunk(sizes, order, short) ==
    IF order = <<>> THEN sizes
    ELSE LET take == Least(short, sizes[order[1]])
         IN Shrunk([sizes EXCEPT ![order[1]] = @ - take], Tail(order), short - take)

LastToFirst(kids) ==
    LET back == Reverse([i \in DOMAIN kids |-> i])
    IN SelectSeq(back, LAMBDA i : kids[i].expand > 0) \o SelectSeq(back, LAMBDA i : kids[i].expand = 0)

Sizes(b) == LET extra == Room(b) - Total(Wants(b.kids))
            IN IF extra > 0 THEN Grown(b.kids, extra)
               ELSE Shrunk(Wants(b.kids), LastToFirst(b.kids), -extra)

LineLayout(b) == [i \in DOMAIN b.kids |->
                     [at |-> Total(SubSeq(Sizes(b), 1, i - 1)) + b.spacing * (i - 1), size |-> Sizes(b)[i]]]

\* Cell i of n of a grid.
Cell(b, n, i) == LET room == Most(0, b.length - (n - 1) * b.spacing)
                 IN [at |-> (room * i) \div n + i * b.spacing, size |-> (room * (i + 1)) \div n - (room * i) \div n]
GridLayout(b) == LET n == Len(b.kids) IN [i \in 1 .. n |-> Cell(b, n, i - 1)]

-----------------------------------------------------------------------------

WidgetInit == /\ kind \in Kinds /\ size \in Shapes /\ shown = FALSE
              /\ CASE kind = "list" -> w = ListClear
                   [] kind = "text" -> w = EmptyText
                   [] kind = "view" -> w \in SetText
                   [] kind = "entry" -> w \in EntrySetText
                   [] kind = "box" -> w \in Boxes /\ size = CHOOSE s \in Shapes : TRUE

\* A key, and what else shows the selection or the caret.
Shows == CASE kind = "list" -> ListKey(w) \cup ListClick(w)
           [] kind = "text" -> TextKey(w)
           [] kind = "view" -> ViewKey(w)
           [] kind = "entry" -> {ScrollToCaret(e) : e \in EntryKey(w) \cup EntrySetText \cup EntryClick(w)}
           [] OTHER -> {}
Others == CASE kind = "list" -> ListAdd(w) \cup {ListClear} \cup ListScroll(w)
            [] kind = "text" -> TextClick(w) \cup TextScroll(w) \cup TextGoto(w)
            [] kind = "view" -> SetText \cup TextScroll(w) \cup TextGoto(w)
            [] OTHER -> {}

WidgetKey == w' \in Shows /\ shown' = (shown \/ w' # w) /\ UNCHANGED <<kind, size>>
Other == w' \in Others /\ shown' = FALSE /\ UNCHANGED <<kind, size>>
\* The layout gives the widget another size; its view is put right when it is painted.
Resize == /\ kind # "box" /\ size' \in Shapes \ {size} /\ shown' = FALSE /\ UNCHANGED <<kind, w>>

WidgetNext == WidgetKey \/ Other \/ Resize

WidgetSpec == WidgetInit /\ [][WidgetNext]_widgetVars

-----------------------------------------------------------------------------
Apart(p) == \A i \in 1 .. Len(p) - 1 : p[i].at + p[i].size + w.spacing <= p[i + 1].at
Inside(p) == \A i \in DOMAIN p : p[i].size >= 0 /\ p[i].at >= 0 /\ p[i].at + p[i].size <= w.length

\* Whatever is done to a widget: what is selected exists, and a key or a click
\* leaves it in view; the caret is in the text, on the line that the search finds,
\* a key leaves it in view, and no view looks past the end; an entry's caret is in
\* its text and in view when it is painted.  The children of a box lie inside it,
\* in order and apart, fill it if one of them expands, are as big as they want to
\* be if there is room, and the cells of a grid "differ by at most a pixel"
\* (layout.c:121).
WidgetsSound ==
    CASE kind = "list" -> /\ w.selected \in -1 .. w.count - 1 /\ w.top >= 0
                          /\ shown /\ w.selected >= 0 => w.selected \in w.top .. w.top + size.rows - 1
      [] kind \in {"text", "view"} ->
            LET line == LineOf(w, w.cursor)
            IN /\ w.cursor \in 0 .. Len(w.buf) /\ w.starts = IndexLines(w.buf)
               /\ w.starts[line + 1] <= w.cursor /\ w.cursor <= LineEnd(w, line)
               /\ shown => w.top \in 0 .. LastTop(w)
               /\ shown /\ kind = "text" =>
                     /\ line \in w.top .. w.top + size.rows - 1
                     /\ ColOf(w, line, w.cursor) \in w.left .. w.left + size.cols - 1
      [] kind = "entry" -> /\ 0 <= w.cursor /\ w.cursor <= w.len /\ w.len <= EntryMax
                           /\ shown => w.cursor \in w.off .. w.off + size.cols - 1
      [] kind = "box" ->
            LET line == LineLayout(w)
                grid == GridLayout(w)
                n == Len(w.kids)
            IN Room(w) >= 0 =>
                  /\ Apart(line) /\ Inside(line) /\ Apart(grid) /\ Inside(grid)
                  /\ Room(w) >= Total(Wants(w.kids)) => \A i \in 1 .. n : line[i].size >= w.kids[i].want
                  /\ Weights(w.kids) > 0 \/ Room(w) <= Total(Wants(w.kids)) => line[n].at + line[n].size = w.length
                  /\ \A i, j \in 1 .. n : grid[i].size - grid[j].size <= 1
=============================================================================
