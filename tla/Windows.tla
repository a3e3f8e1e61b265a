------------------------------- MODULE Windows -------------------------------
(***************************************************************************)
(* The window system: the desktop's manager of windows, and libwin on a    *)
(* program's side.                                                         *)
(***************************************************************************)
EXTENDS Integers, Sequences, FiniteSets

-----------------------------------------------------------------------------
(***************************************************************************)
(* ManiDE: the windows its programs make through /dev/wsys (wsys.c), how   *)
(* they are tiled over workspaces and which has the focus (tile.c), and    *)
(* the keys and the mouse (input.c).  One process: an action is one        *)
(* request, key or mouse report.  A window's events are queued for its     *)
(* program, whose blocking read of them may be waiting; the queue has room *)
(* for a few, here EventQueue whole events.                                *)
(***************************************************************************)

CONSTANTS Window, None, Workspaces, MAX_WINDOWS, EventQueue,
          Width, Height, BarH, HeadH, Gap, MinSize,   \* of the screen, in pixels
          MasterStep, \* Alt+l and Alt+h move the boundary by so much, in percent
          MaxSteps,  \* bound: what happens next
          Begun,     \* the windows there may be at first
          Script     \* the session file: lines <<"workspace", n>>, <<"run", w>>

VARIABLES steps,
          d,        \* the desktop: order, focus, ws (in view), place_ws, wss, grab, menu, prompt, quit
          win,      \* each window: ws, shown, pane, told, queue, waiting (a deferred read)
          heard,    \* what its program has read: the last size, the last focus event
          lost,     \* windows for which an event was dropped
          session   \* lines left, the program waited for, the count before it

desktopVars == <<steps, d, win, heard, lost, session>>

Layouts == <<"grid", "tall", "mono">>
Rect(x, y, w, h) == [x |-> x, y |-> y, w |-> w, h |-> h]
NoRect == Rect(0, 0, 0, 0)
NoWindow == [ws |-> 0, shown |-> FALSE, pane |-> NoRect, told |-> <<0, 0>>, queue |-> <<>>, waiting |-> FALSE]

(* The desktop as it starts, and after some programs have made their       *)
(* windows and read their events.                                          *)
Empty == [d |-> [order |-> <<>>, focus |-> None, ws |-> 1, place_ws |-> 1, grab |-> None,
                 wss |-> [i \in Workspaces |-> [layout |-> 1, master |-> 55, focus |-> None]],
                 menu |-> FALSE, prompt |-> FALSE, quit |-> FALSE],
          win |-> [w \in Window |-> NoWindow],
          heard |-> [w \in Window |-> [size |-> <<0, 0>>, focus |-> FALSE]], lost |-> {}]

(* The operations below work on s, which holds every part of the state.    *)
State == [d |-> d, win |-> win, heard |-> heard, lost |-> lost]
Becomes(s) == d' = s.d /\ win' = s.win /\ heard' = s.heard /\ lost' = s.lost

Index(s, w) == IF \E i \in DOMAIN s.d.order : s.d.order[i] = w
               THEN CHOOSE i \in DOMAIN s.d.order : s.d.order[i] = w ELSE 0
On(s, ws) == SelectSeq(s.d.order, LAMBDA w : s.win[w].ws = ws)
-----------------------------------------------------------------------------
(* A program takes events: it notes the sizes and the focus it is told.    *)
LastOf(q, kind) == {i \in DOMAIN q : q[i][1] = kind /\ \A j \in i + 1 .. Len(q) : q[j][1] # kind}
Hear(h, q) == [size |-> IF LastOf(q, "r") = {} THEN h.size ELSE q[CHOOSE i \in LastOf(q, "r") : TRUE][2],
               focus |-> IF LastOf(q, "f") = {} THEN h.focus ELSE q[CHOOSE i \in LastOf(q, "f") : TRUE][2]]

(* deliver: a waiting read is answered with everything queued.             *)
Deliver(s, w) == IF s.win[w].waiting /\ s.win[w].queue # <<>>
                 THEN [s EXCEPT !.heard[w] = Hear(@, s.win[w].queue),
                                !.win[w].waiting = FALSE, !.win[w].queue = <<>>]
                 ELSE s

(* post_event: a pointer move replaces a queued one with the same buttons; *)
(* what has no room is dropped.                                            *)
PostEvent(s, w, e) ==
  LET q == s.win[w].queue
      kept == IF e[1] = "m" /\ q # <<>> /\ q[Len(q)] = e THEN SubSeq(q, 1, Len(q) - 1) ELSE q
  IN IF Len(kept) = EventQueue THEN [s EXCEPT !.lost = @ \cup {w}]
     ELSE Deliver([s EXCEPT !.win[w].queue = Append(kept, e)], w)
-----------------------------------------------------------------------------
TilingArea == Rect(Gap, BarH + Gap, Width - 2 * Gap, Height - BarH - 2 * Gap)

(* share: part i of n, with a gap between parts; the last takes the rest.  *)
Share(start, length, n, i) ==
  LET each == (length - (n - 1) * Gap) \div n  at == start + i * (each + Gap)
  IN <<at, IF i = n - 1 THEN (start + length) - at ELSE each>>

Content(pane) == LET w == pane.w - 2  h == pane.h - HeadH - 1
                 IN Rect(pane.x + 1, pane.y + HeadH, IF w < MinSize THEN MinSize ELSE w,
                         IF h < MinSize THEN MinSize ELSE h)

(* place: the window is told a size it was not told before.                *)
Place(s, w, pane) ==
  LET size == <<Content(pane).w, Content(pane).h>>
      t == [s EXCEPT !.win[w].shown = TRUE, !.win[w].pane = pane, !.win[w].told = size]
  IN IF s.win[w].told = size THEN t ELSE PostEvent(t, w, <<"r", size>>)

(* retile: the pane of each window of the workspace in view.               *)
Grid(a, n) ==
  LET cols == CHOOSE c \in 1 .. n : c * c >= n /\ (c - 1) * (c - 1) < n
      rows(c) == (n \div cols) + (IF c >= cols - (n % cols) THEN 1 ELSE 0)
      before(c) == IF c <= cols - (n % cols) THEN c * (n \div cols)
                   ELSE c * (n \div cols) + (c - (cols - (n % cols)))
      col(k) == CHOOSE c \in 0 .. cols - 1 : before(c) < k /\ k <= before(c) + rows(c)
  IN [k \in 1 .. n |-> LET c == col(k)
                           x == Share(a.x, a.w, cols, c)
                           y == Share(a.y, a.h, rows(c), k - 1 - before(c))
                       IN Rect(x[1], y[1], x[2], y[2])]
Tall(a, n, master) ==
  LET mw == ((a.w - Gap) * master) \div 100
  IN [k \in 1 .. n |-> IF k = 1 THEN Rect(a.x, a.y, mw, a.h)
                       ELSE LET y == Share(a.y, a.h, n - 1, k - 2)
                            IN Rect(a.x + mw + Gap, y[1], a.w - mw - Gap, y[2])]

RECURSIVE PlaceAll(_, _, _, _)
PlaceAll(s, list, panes, k) ==
  IF k > Len(list) THEN s ELSE PlaceAll(Place(s, list[k], panes[k]), list, panes, k + 1)

Retile(s) ==
  LET list == On(s, s.d.ws)
      space == s.d.wss[s.d.ws]
      hidden == [s EXCEPT !.win = [w \in Window |-> [s.win[w] EXCEPT !.shown = FALSE]]]
      alone == IF s.d.focus # None THEN (IF s.win[s.d.focus].ws = s.d.ws THEN s.d.focus ELSE list[1])
               ELSE list[1]
  IN IF list = <<>> THEN hidden
     ELSE IF Layouts[space.layout] = "mono" \/ Len(list) = 1 THEN Place(hidden, alone, TilingArea)
     ELSE PlaceAll(hidden, list, IF Layouts[space.layout] = "tall" THEN Tall(TilingArea, Len(list), space.master)
                                 ELSE Grid(TilingArea, Len(list)), 1)

SetFocus(s, w) ==
  LET s1 == [s EXCEPT !.d.focus = w]
      s2 == IF s.d.focus = None THEN s1 ELSE PostEvent(s1, s.d.focus, <<"f", FALSE>>)
      s3 == IF w = None THEN s2
            ELSE PostEvent([s2 EXCEPT !.d.wss[s.win[w].ws].focus = w], w, <<"f", TRUE>>)
  IN IF s.d.focus = w THEN s
     ELSE IF Layouts[s.d.wss[s.d.ws].layout] = "mono" THEN Retile(s3) ELSE s3

(* step_from: the next window (delta 1) or the previous (-1) on its        *)
(* workspace, round the order.                                             *)
StepFrom(s, w, delta) ==
  LET list == On(s, s.win[w].ws)
      i == CHOOSE k \in DOMAIN list : list[k] = w
      n == Len(list)
  IN list[((i - 1 + delta + n) % n) + 1]

FocusStep(s, delta) == IF s.d.focus = None THEN s ELSE SetFocus(s, StepFrom(s, s.d.focus, delta))

SwapStep(s, delta) ==
  IF s.d.focus = None THEN s
  ELSE LET other == StepFrom(s, s.d.focus, delta)
       IN Retile([s EXCEPT !.d.order[Index(s, s.d.focus)] = other,
                           !.d.order[Index(s, other)] = s.d.focus])

WorkspaceFocus(s, ws) ==
  LET f == s.d.wss[ws].focus
  IN IF f # None /\ Index(s, f) # 0 /\ s.win[f].ws = ws THEN f
     ELSE IF On(s, ws) = <<>> THEN None ELSE On(s, ws)[1]

ShowWorkspace(s, ws) ==
  IF ws = s.d.ws THEN s
  ELSE LET t == [s EXCEPT !.d.ws = ws, !.d.place_ws = ws] IN Retile(SetFocus(t, WorkspaceFocus(t, ws)))

SendKeepsFocus(s, w, ws) ==
  IF s.win[w].ws = ws THEN s
  ELSE Retile([s EXCEPT !.win[w].ws = ws,
                        !.d.wss[ws].focus = IF @ = None THEN w ELSE @,
                        !.d.wss[s.win[w].ws].focus = IF @ = w THEN None ELSE @])

SendToWorkspace(s, w, ws) ==
  IF s.win[w].ws = ws THEN s
  ELSE LET t == [s EXCEPT !.win[w].ws = ws,
                          !.d.wss[ws].focus = IF @ = None THEN w ELSE @,
                          !.d.wss[s.win[w].ws].focus = IF @ = w THEN None ELSE @]
       IN Retile(IF s.d.focus = w THEN SetFocus(t, WorkspaceFocus(t, t.d.ws)) ELSE t)

NextLayout(s) == Retile([s EXCEPT !.d.wss[s.d.ws].layout = (@ % 3) + 1])

GrowMaster(s, delta) ==
  LET m == s.d.wss[s.d.ws].master + delta
      t == [s EXCEPT !.d.wss[s.d.ws].master = IF m < 20 THEN 20 ELSE IF m > 80 THEN 80 ELSE m]
  IN IF Layouts[s.d.wss[s.d.ws].layout] = "tall" THEN Retile(t) ELSE t

AddWindow(s, w) ==
  LET ws == s.d.place_ws
      t == [s EXCEPT !.win[w].ws = ws, !.d.order = Append(@, w)]
  IN Retile(IF ws = s.d.ws THEN SetFocus(t, w)
            ELSE [t EXCEPT !.d.wss[ws].focus = IF @ = None THEN w ELSE @])

RemoveWindow(s, w) ==
  LET step == StepFrom(s, w, -1)
      next == IF step = w THEN None ELSE step
      t == [s EXCEPT !.d.order = SelectSeq(@, LAMBDA v : v # w),
                     !.d.wss[s.win[w].ws].focus = IF @ = w THEN next ELSE @]
  IN Retile(IF s.d.focus = w THEN SetFocus([t EXCEPT !.d.focus = None], next) ELSE t)
-----------------------------------------------------------------------------
(* The file server's side.                                                 *)
Range1(q) == {q[i] : i \in DOMAIN q}
Live == Range1(d.order)

(* create: a program writes a size of its own to `new`; its first read of  *)
(* the events waits.                                                       *)
CreateIn(s, w) == AddWindow([s EXCEPT !.win[w] = [NoWindow EXCEPT !.told = <<1, 1>>, !.waiting = TRUE],
                                      !.heard[w] = [size |-> <<1, 1>>, focus |-> FALSE],
                                      !.lost = @ \ {w}], w)
Create(w) == /\ ~d.quit /\ w \notin Live /\ Len(d.order) < MAX_WINDOWS
             /\ Becomes(CreateIn(State, w)) /\ UNCHANGED session

(* window_destroy, when the program closes `new` or exits: a waiting read  *)
(* gets end of file.                                                       *)
WindowDestroy(s, w) ==
  LET t == RemoveWindow([s EXCEPT !.d.grab = IF @ = w THEN None ELSE @], w)
  IN [t EXCEPT !.win[w] = NoWindow]
Clunk(w) == w \in Live /\ Becomes(WindowDestroy(State, w)) /\ UNCHANGED session

(* wsys_read of `event`: what is queued, or the read waits.                *)
ReadEvents(w) == /\ w \in Live /\ ~win[w].waiting
                 /\ Becomes(Deliver([State EXCEPT !.win[w].waiting = TRUE], w)) /\ UNCHANGED session

(* ctl_write.                                                              *)
CtlTop(w) == w \in Live /\ Becomes(SetFocus(ShowWorkspace(State, win[w].ws), w)) /\ UNCHANGED session
CtlWs(w, ws) == w \in Live /\ Becomes(SendToWorkspace(State, w, ws)) /\ UNCHANGED session
-----------------------------------------------------------------------------
(* Keys.  alt_binding.                                                     *)
AltBinding(key) ==
  /\ CASE key[1] = "show"   -> Becomes(ShowWorkspace(State, key[2]))
       [] key[1] = "send"   -> Becomes(IF d.focus = None THEN State ELSE SendToWorkspace(State, d.focus, key[2]))
       [] key[1] = "focus"  -> Becomes(FocusStep(State, key[2]))
       [] key[1] = "swap"   -> Becomes(SwapStep(State, key[2]))
       [] key[1] = "master" -> Becomes(GrowMaster(State, key[2]))
       [] key[1] = "layout" -> Becomes(NextLayout(State))
       [] key[1] = "prompt" -> Becomes([State EXCEPT !.d.prompt = TRUE, !.d.menu = FALSE])
       [] key[1] = "close"  -> Becomes(IF d.focus = None THEN State ELSE PostEvent(State, d.focus, <<"c">>))
       [] key[1] = "quit"   -> Becomes([State EXCEPT !.d.quit = TRUE])
  /\ UNCHANGED session

Bindings == ({"show", "send"} \X Workspaces) \cup ({"focus", "swap"} \X {1, -1})
            \cup {<<"layout">>, <<"prompt">>, <<"close">>, <<"quit">>, <<"master", MasterStep>>, <<"master", -MasterStep>>}

(* handle_key: the prompt has every key while it is open, then the menu,   *)
(* then the bindings, and the focused window has the rest.                 *)
HandleKey(key) ==
  /\ ~d.quit
  /\ IF d.prompt THEN /\ key \in {<<"enter">>, <<"escape">>}
                      /\ Becomes([State EXCEPT !.d.prompt = FALSE]) /\ UNCHANGED session
     ELSE IF key = <<"f1">> THEN Becomes([State EXCEPT !.d.menu = ~@]) /\ UNCHANGED session
     ELSE IF d.menu THEN /\ key \in {<<"enter">>, <<"escape">>}
                         /\ \E quit \in {FALSE, key = <<"enter">>} :
                              Becomes([State EXCEPT !.d.menu = FALSE, !.d.quit = quit])
                         /\ UNCHANGED session
     ELSE IF key \in Bindings THEN AltBinding(key)
     ELSE /\ d.focus # None /\ key = <<"k">>
          /\ Becomes(PostEvent(State, d.focus, key)) /\ UNCHANGED session

(* The mouse.  click, on a shown window: it has the focus, and the pointer *)
(* while the button is held in its content.                                *)
Click(w, part) ==
  /\ ~d.quit /\ ~d.menu /\ d.grab = None /\ w \in Live /\ win[w].shown
  /\ LET s == SetFocus(State, w)
     IN Becomes(IF part = "close" THEN PostEvent(s, w, <<"c">>)
                ELSE PostEvent([s EXCEPT !.d.grab = w], w, <<"m", 1>>))
  /\ UNCHANGED session

(* handle_mouse: the pointer moves, held or over the focused window, and   *)
(* the button is let go.                                                   *)
HandleMouse(up) ==
  LET to == IF d.grab # None THEN d.grab
            ELSE IF d.focus # None THEN (IF win[d.focus].shown THEN d.focus ELSE None) ELSE None
      s == IF to = None THEN State
           ELSE PostEvent(State, to, <<"m", IF d.grab # None /\ ~up THEN 1 ELSE 0>>)
  IN /\ ~d.quit /\ (up => d.grab # None)
     /\ Becomes([s EXCEPT !.d.grab = IF up THEN None ELSE @]) /\ UNCHANGED session

ClickBar == /\ ~d.quit /\ d.grab = None /\ Becomes([State EXCEPT !.d.menu = ~@]) /\ UNCHANGED session
-----------------------------------------------------------------------------
(* session_step: the lines up to the next program; it is waited for until  *)
(* there is a window more, it has gone, or the time is up.                 *)
SessionStep(gone) ==
  LET ls == session.lines
      runs == {i \in DOMAIN ls : ls[i][1] = "run"}
      n == IF runs = {} THEN Len(ls) ELSE CHOOSE i \in runs : \A j \in runs : i <= j
      spaces == SelectSeq(SubSeq(ls, 1, n), LAMBDA l : l[1] = "workspace")
  IN /\ ~d.quit
     /\ session.pid # None => gone \/ Len(d.order) > session.count
     /\ session' = [lines |-> SubSeq(ls, n + 1, Len(ls)), count |-> Len(d.order),
                    pid |-> IF runs = {} THEN None ELSE ls[n][2]]
     /\ d' = [d EXCEPT !.place_ws = IF runs = {} THEN d.ws
                                    ELSE IF spaces = <<>> THEN @ ELSE spaces[Len(spaces)][2]]
     /\ UNCHANGED <<win, heard, lost>>

(* main's end: every window is closed.                                     *)
Quit == /\ d.quit /\ d.order # <<>> /\ Becomes(WindowDestroy(State, d.order[Len(d.order)]))
        /\ UNCHANGED session

RECURSIVE Opened(_)
Opened(ws) == IF ws = <<>> THEN Empty
              ELSE LET s == CreateIn(Opened(SubSeq(ws, 1, Len(ws) - 1)), ws[Len(ws)])
                   IN [s EXCEPT !.heard = [w \in Window |-> Hear(s.heard[w], s.win[w].queue)],
                                !.win = [w \in Window |-> [s.win[w] EXCEPT !.queue = <<>>]]]

DesktopInit == /\ steps = 0 /\ \E s \in {Opened(o) : o \in Begun} :
                     d = s.d /\ win = s.win /\ heard = s.heard /\ lost = s.lost
               /\ session = [lines |-> Script, pid |-> None, count |-> 0]

Step == \/ \E w \in Window : \/ Create(w) \/ Clunk(w) \/ ReadEvents(w) \/ CtlTop(w)
                             \/ \E ws \in Workspaces : CtlWs(w, ws)
                             \/ \E part \in {"close", "content"} : Click(w, part)
        \/ \E key \in Bindings \cup {<<"f1">>, <<"enter">>, <<"escape">>, <<"k">>} : HandleKey(key)
        \/ \E up \in BOOLEAN : HandleMouse(up)
        \/ ClickBar \/ \E gone \in BOOLEAN : SessionStep(gone) \/ Quit

DesktopNext == steps < MaxSteps /\ steps' = steps + 1 /\ Step

DesktopSpec == DesktopInit /\ [][DesktopNext]_desktopVars
-----------------------------------------------------------------------------
Apart(p, q) == p.x + p.w <= q.x \/ q.x + q.w <= p.x \/ p.y + p.h <= q.y \/ q.y + q.h <= p.y
Within(p, a) == p.w > 0 /\ p.h > 0 /\ p.x >= a.x /\ p.y >= a.y /\ p.x + p.w <= a.x + a.w /\ p.y + p.h <= a.y + a.h
After(w) == Hear(heard[w], win[w].queue)    \* what its program knows once it has read its queue

(***************************************************************************)
(* Whatever is opened, closed, moved, shown or focused, by keys, mouse and *)
(* programs: the window with the focus exists and is on the workspace in   *)
(* view, and so is each workspace's remembered one; exactly the windows of *)
(* the workspace in view are shown (in mono, one: the focused one), in     *)
(* panes inside the tiling area that do not overlap; no read waits while   *)
(* events are queued; and a program that lost no event knows the size of   *)
(* its pane and whether it has the focus.                                  *)
(***************************************************************************)
DesktopSound ==
  /\ d.focus # None => d.focus \in Live /\ win[d.focus].ws = d.ws
  /\ d.grab # None => d.grab \in Live
  /\ \A i \in Workspaces : d.wss[i].focus # None => d.wss[i].focus \in Live /\ win[d.wss[i].focus].ws = i
  /\ LET shown == {w \in Window : win[w].shown}
         here == {w \in Live : win[w].ws = d.ws}
     IN /\ IF Layouts[d.wss[d.ws].layout] = "mono"
           THEN /\ shown \subseteq here /\ (here # {} => Cardinality(shown) = 1)
                /\ d.focus # None => d.focus \in shown
           ELSE shown = here
        /\ \A w \in shown : Within(win[w].pane, TilingArea)
        /\ \A v, w \in shown : v # w => Apart(win[v].pane, win[w].pane)
  /\ \A w \in Live : /\ win[w].waiting => win[w].queue = <<>>
                     /\ w \notin lost => /\ After(w).focus = (d.focus = w)
                                         /\ After(w).size = win[w].told
                                         /\ win[w].shown => win[w].told = <<Content(win[w].pane).w, Content(win[w].pane).h>>

(* "A window is told its new size whenever its pane changes" (tile.c:10),  *)
(* with a program that reads its events late.                              *)
SizeTold == \A w \in Live : win[w].shown => After(w).size = <<Content(win[w].pane).w, Content(win[w].pane).h>>

-----------------------------------------------------------------------------
(* libwin (desktop/libwin/win.c): a window as files under /dev/wsys.  Events  *)
(* come through a helper process (cat) that reads the window's event file and *)
(* writes it to a pipe the program can poll; win_next cuts what arrives into  *)
(* lines.  The desktop (external) puts events on the file while the window    *)
(* exists; the window goes with its clone file, ctl.                          *)

CONSTANTS Sizes,       \* sizes of a window
          Free,        \* how many descriptors the program may have left
          PipeSize,    \* units the pipe holds; a line has two or three
          BufSize,     \* units win_next holds
          MaxEvents

VARIABLES free, fds,   \* descriptors left, and those open, by their field
          out,         \* what descriptor 1 of the program is
          window,         \* the desktop's side: [there, size, queue]
          pump,        \* the helper: [state, rest]
          pipe, buf,
          canvas,      \* the size of the canvas, 0 when there is none
          pc,
          sent, handled \* the events queued, and those win_next took

winVars == <<free, fds, out, window, pump, pipe, buf, canvas, pc, sent, handled>>

First == CHOOSE s \in Sizes : TRUE
NoPump == [state |-> "none", rest |-> <<>>]
NotOpened == [there |-> FALSE, size |-> 0, queue |-> <<>>]
Left == free - Len(fds)
Without(s, names) == SelectSeq(s, LAMBDA x : x \notin names)

(* A line is its event and its newline, the event in one unit or two.         *)
Units(e) == IF e[1] = "r" THEN <<e, <<"more", 0>>, <<"nl", 0>>>> ELSE <<e, <<"nl", 0>>>>
HasLine(s) == \E i \in DOMAIN s : s[i][1] = "nl"
LineEnd(s) == CHOOSE i \in DOMAIN s : s[i][1] = "nl" /\ \A j \in 1 .. i - 1 : s[j][1] # "nl"

(* win_open, step by step, to the label fail or to the window.                *)
Fail(open) ==
  /\ fds' = Without(open, {"image", "ctl"})
  /\ window' = NotOpened /\ canvas' = 0 /\ pc' = "done"

OpenCanvas(ok) ==
  /\ pc = "start"
  /\ IF ok THEN canvas' = First /\ pc' = "ctl" /\ UNCHANGED <<fds, window>> ELSE Fail(fds)
  /\ UNCHANGED <<free, out, pump, pipe, buf, sent, handled>>

OpenCtl(ok) ==
  /\ pc = "ctl"
  /\ IF ok /\ Left > 0
     THEN /\ fds' = Append(fds, "ctl") /\ pc' = "image"
          /\ window' = [there |-> TRUE, size |-> First, queue |-> <<>>]
          /\ UNCHANGED canvas
     ELSE Fail(fds)
  /\ UNCHANGED <<free, out, pump, pipe, buf, sent, handled>>

OpenImage(ok) ==
  /\ pc = "image"
  /\ IF ok /\ Left > 0 THEN fds' = Append(fds, "image") /\ pc' = "pump" /\ UNCHANGED <<window, canvas>>
     ELSE Fail(fds)
  /\ UNCHANGED <<free, out, pump, pipe, buf, sent, handled>>

(* Mutant: descriptor 1 is not put back.                                      *)
StartPumpNotBack(ok) ==
  /\ pc = "pump"
  /\ IF Left < 2 \/ ~ok THEN Fail(fds) /\ UNCHANGED <<out, pump>>
     ELSE /\ fds' = Append(fds, "events") /\ pc' = "open"
          /\ out' = "pipe"
          /\ pump' = [state |-> "reads", rest |-> <<>>]
          /\ UNCHANGED <<window, canvas>>
  /\ UNCHANGED <<free, pipe, buf, sent, handled>>

(* start_pump: the pipe, a copy of descriptor 1 that is put back after spawn. *)
StartPump(ok) ==
  /\ pc = "pump"
  /\ IF Left < 2 THEN Fail(fds) /\ UNCHANGED <<out, pump>>
     ELSE /\ out' = IF Left > 2 THEN out ELSE "pipe"
          /\ IF ~ok THEN Fail(fds) /\ UNCHANGED pump
             ELSE /\ fds' = Append(fds, "events") /\ pc' = "open"
                  /\ pump' = [state |-> "reads", rest |-> <<>>]
                  /\ UNCHANGED <<window, canvas>>
  /\ UNCHANGED <<free, pipe, buf, sent, handled>>

(* The desktop: an event for the window.                                      *)
Post(e) ==
  /\ window.there /\ Len(sent) < MaxEvents
  /\ window' = [window EXCEPT !.queue = Append(@, e)]
  /\ sent' = Append(sent, e)
  /\ UNCHANGED <<free, fds, out, pump, pipe, buf, canvas, pc, handled>>

(* The helper: a line of the event file, or its end; then into the pipe as    *)
(* much as fits, waiting while it is full.                                    *)
PumpReads ==
  /\ pump.state = "reads"
  /\ IF ~window.there THEN pump' = [pump EXCEPT !.state = "ended"] /\ UNCHANGED window
     ELSE /\ window.queue # <<>>
          /\ pump' = [state |-> "writes", rest |-> Units(Head(window.queue))]
          /\ window' = [window EXCEPT !.queue = Tail(@)]
  /\ UNCHANGED <<free, fds, out, pipe, buf, canvas, pc, sent, handled>>

PumpWrites ==
  /\ pump.state = "writes" /\ Len(pipe) < PipeSize
  /\ LET room == PipeSize - Len(pipe)
         n == IF Len(pump.rest) < room THEN Len(pump.rest) ELSE room
     IN  /\ pipe' = pipe \o SubSeq(pump.rest, 1, n)
         /\ pump' = IF n = Len(pump.rest) THEN [state |-> "reads", rest |-> <<>>]
                    ELSE [pump EXCEPT !.rest = SubSeq(@, n + 1, Len(@))]
  /\ UNCHANGED <<free, fds, out, window, buf, canvas, pc, sent, handled>>

(* win_resize: a new canvas, the ctl file opened once, then both together.    *)
WinResize(s, ok) ==
  LET can == ok /\ window.there /\ ("ctlfile" \in {fds[i] : i \in DOMAIN fds} \/ Left > 0)
  IN  IF s = canvas \/ ~can THEN UNCHANGED <<fds, canvas, window>>
      ELSE /\ canvas' = s /\ window' = [window EXCEPT !.size = s]
           /\ fds' = Append(Without(fds, {"ctlfile"}), "ctlfile")

(* win_next, with a line at hand: parse it, and take it from the buffer.      *)
NextLine(ok) ==
  /\ pc = "open" /\ HasLine(buf)
  /\ LET e == buf[1]
     IN  /\ buf' = SubSeq(buf, LineEnd(buf) + 1, Len(buf))
         /\ handled' = Append(handled, e)
         /\ IF e[1] = "r" THEN WinResize(e[2], ok) ELSE UNCHANGED <<fds, canvas, window>>
  /\ UNCHANGED <<free, out, pump, pipe, pc, sent>>

(* ... and without one: read what the pipe has, or see its end.               *)
NextRead(n) ==
  /\ pc = "open" /\ ~HasLine(buf) /\ "events" \in {fds[i] : i \in DOMAIN fds}
  /\ LET held == IF Len(buf) = BufSize THEN <<>> ELSE buf
     IN  IF pipe # <<>>
         THEN /\ n \in 1 .. Len(pipe) /\ n <= BufSize - Len(held)
              /\ buf' = held \o SubSeq(pipe, 1, n) /\ pipe' = SubSeq(pipe, n + 1, Len(pipe))
              /\ UNCHANGED fds
         ELSE /\ pump.state = "ended" /\ n = 1
              /\ fds' = Without(fds, {"events"}) /\ buf' = held /\ UNCHANGED pipe
  /\ UNCHANGED <<free, out, window, pump, canvas, pc, sent, handled>>

(* The desktop closes the window.                                             *)
Gone ==
  /\ window.there /\ pc = "open"
  /\ window' = [window EXCEPT !.there = FALSE, !.queue = <<>>]
  /\ UNCHANGED <<free, fds, out, pump, pipe, buf, canvas, pc, sent, handled>>

(* win_close: first the window goes, then the helper is waited for.           *)
WinClose ==
  /\ pc = "open"
  /\ fds' = Without(fds, {"image", "ctlfile", "ctl"})
  /\ window' = NotOpened /\ pc' = "wait"
  /\ UNCHANGED <<free, out, pump, pipe, buf, canvas, sent, handled>>

Waited ==
  /\ pc = "wait" /\ pump.state = "ended"
  /\ pump' = [pump EXCEPT !.state = "reaped"]
  /\ fds' = Without(fds, {"events"}) /\ canvas' = 0 /\ pc' = "done"
  /\ UNCHANGED <<free, out, window, pipe, buf, sent, handled>>

Events == {<<"k", 1>>, <<"c", 0>>} \cup {<<"r", s>> : s \in Sizes}

WinInit ==
     /\ free \in Free /\ fds = <<>> /\ out = "console"
     /\ window = NotOpened /\ pump = NoPump /\ pipe = <<>> /\ buf = <<>>
     /\ canvas = 0 /\ pc = "start" /\ sent = <<>> /\ handled = <<>>

WinNext ==
     \/ \E ok \in BOOLEAN : OpenCanvas(ok) \/ OpenCtl(ok) \/ OpenImage(ok) \/ StartPump(ok) \/ NextLine(ok)
     \/ \E e \in Events : Post(e)
     \/ \E n \in 1 .. PipeSize : NextRead(n)
     \/ PumpReads \/ PumpWrites \/ Gone \/ WinClose \/ Waited

WinSpec == WinInit /\ [][WinNext]_winVars

-----------------------------------------------------------------------------
(* However the reads cut the lines, a program gets the events of its window   *)
(* in the order the desktop queued them; its canvas has the size the desktop  *)
(* has for the window; its own output is where it was; and when the window is *)
(* closed, or could not be opened, no descriptor, canvas or helper is left.   *)
WindowTrue ==
  /\ handled = SubSeq(sent, 1, Len(handled))
  /\ pc = "open" => canvas = window.size
  /\ out = "console"
  /\ pc = "done" => fds = <<>> /\ canvas = 0 /\ pump.state \in {"none", "reaped"}

(* "The window goes with the clone file; the helper then reads end of file    *)
(* and exits, before its pipe is closed under it" (win.c:244-245): while      *)
(* win_close waits, the helper is not stopped for good at a full pipe.        *)
HelperExits == pc = "wait" => ~(pump.state = "writes" /\ Len(pipe) = PipeSize)
=============================================================================
