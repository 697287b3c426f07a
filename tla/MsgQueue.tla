------------------------------ MODULE MsgQueue ------------------------------
(***************************************************************************)
(* The USER message queue: the ring of posted messages (user_message.c),   *)
(* the system calls that put messages in and take them out                 *)
(* (user_syscalls.c), the WM_PAINT that is made up from the windows' state *)
(* bits, and the SDL quit request that the calls poll.                     *)
(*                                                                         *)
(* A window is named by its handle: WndOf(h) is user_window_from_hwnd.  A  *)
(* message is the pair of a handle and a message number; its parameters,   *)
(* time and cursor position only pass through.  quitPosted, exitCode and   *)
(* the capture window are never read and are left out.  The window tree    *)
(* does not change: UserWindows is about how it does.                      *)
(***************************************************************************)
EXTENDS Integers, Sequences, FiniteSets

CONSTANTS
  Desktop,    \* the handle 0: the desktop; "all windows" in a filter
  Windows,    \* the handles of the other windows
  Gone,       \* handles of windows that were destroyed
  ThreadOnly, \* the handle -1 in a filter
  NoWnd,      \* NULL
  ParentOf, ChildOf, NextOf, \* spwndParent, spwndChild, spwndNext
  InitVisible, \* the windows created with WS_VISIBLE
  Cap,        \* the size of the ring (256)
  Filters     \* the filters the guest uses: [hwnd, min, max]

CONSTANTS \* what the guest calls with
  Posts, ShowArgs, FocusArgs, KeyArgs, ActiveArgs, CloseArgs

Tree == Windows \cup {Desktop}
WndOf(h) == IF h \in Tree THEN h ELSE NoWnd

WM_DESTROY == 2
WM_SIZE == 5
WM_ACTIVATE == 6
WM_SETFOCUS == 7
WM_KILLFOCUS == 8
WM_PAINT == 15
WM_QUIT == 18
WM_SHOWWINDOW == 24
WM_CHAR == 258

Msg(h, n) == [hwnd |-> h, message |-> n]
NoMsg == Msg(NoWnd, 0)
Messages ==
  Posts \cup {Msg(Desktop, WM_QUIT)}
    \cup {Msg(h, n) : h \in ShowArgs, n \in {WM_SHOWWINDOW, WM_SIZE}}
    \cup {Msg(h, n) : h \in FocusArgs, n \in {WM_SETFOCUS, WM_KILLFOCUS}}
    \cup {Msg(h, WM_CHAR) : h \in KeyArgs}
    \cup {Msg(h, WM_ACTIVATE) : h \in ActiveArgs}
    \cup {Msg(h, WM_DESTROY) : h \in CloseArgs}

ASSUME MsgQueueAssumption ==
  /\ Cap \in Nat \ {0}
  /\ Desktop \notin Windows \cup Gone \cup {NoWnd, ThreadOnly}
  /\ NoWnd \notin Windows
  /\ Gone \cap Windows = {}
  /\ NoWnd \notin Gone
  /\ ParentOf \in [Tree -> Tree \cup {NoWnd}]
  /\ ChildOf \in [Tree -> Tree \cup {NoWnd}]
  /\ NextOf \in [Tree -> Tree \cup {NoWnd}]
  /\ InitVisible \subseteq Tree

(* The windows are one tree under the desktop: each is its parent's first  *)
(* child or the next sibling of another, and the links upwards and to the  *)
(* next sibling never lead round in a circle.                              *)
ASSUME TreeAssumption ==
  /\ IsFiniteSet(Windows)
  /\ ParentOf[Desktop] = NoWnd /\ NextOf[Desktop] = NoWnd
  /\ \A w \in Windows :
       /\ ParentOf[w] \in Tree
       /\ ChildOf[ParentOf[w]] = w \/ \E v \in Windows : NextOf[v] = w
  /\ \A w \in Tree :
       /\ ChildOf[w] # NoWnd => ParentOf[ChildOf[w]] = w
       /\ NextOf[w] # NoWnd => ParentOf[NextOf[w]] = ParentOf[w]
  /\ \A circle \in SUBSET Tree : circle # {} =>
       \E w \in circle : ParentOf[w] \notin circle /\ NextOf[w] \notin circle

VARIABLES
  slots, head, tail, count, \* the ring
  focus, active, \* hwndFocus, hwndActive
  visible,       \* the windows with WNDS_VISIBLE
  needPaint,     \* the windows with WNDS_SENDNCPAINT
  display,       \* no display, on, quit_requested, or the machine has stopped
  waiting,       \* the filter GetMessage loops with, or NoFilter
  asked,         \* history: the filter the last call gave, or NoFilter
  answer,        \* the message the last call returned
  refused        \* history: was a message ever lost because the ring was full?

ring == <<slots, head, tail, count>>
vars == <<slots, head, tail, count, focus, active, visible, needPaint, display,
          waiting, asked, answer, refused>>

NoFilter == [hwnd |-> NoWnd, min |-> 0, max |-> 0]
AllMessages == [hwnd |-> Desktop, min |-> 0, max |-> 0]

Init ==
  /\ slots = [i \in 0..(Cap - 1) |-> NoMsg]
  /\ head = 0 /\ tail = 0 /\ count = 0
  /\ focus = Desktop /\ active = Desktop
  /\ visible = InitVisible
  /\ needPaint = {}
  /\ display \in {"none", "on"}
  /\ waiting = NoFilter /\ asked = NoFilter
  /\ answer = NoMsg
  /\ refused = FALSE

---------------------------------------------------------------------------
(* The ring.                                                               *)

Ring == [slots |-> slots, head |-> head, tail |-> tail, count |-> count,
         refused |-> refused]

SetRing(r) ==
  /\ slots' = r.slots
  /\ head' = r.head
  /\ tail' = r.tail
  /\ count' = r.count
  /\ refused' = r.refused

\* msg_queue_post
PostTo(r, m) ==
  IF r.count >= Cap
  THEN [r EXCEPT !.refused = TRUE]
  ELSE [r EXCEPT !.slots[r.tail] = m, !.tail = (@ + 1) % Cap, !.count = @ + 1]

\* The place of the k-th waiting message.
At(r, k) == (r.head + k - 1) % Cap

\* Mutants of Remove: the later messages stay where they are; the tail does.
RemoveWithoutShift(r, k) ==
  IF k = 1
  THEN [r EXCEPT !.head = (@ + 1) % Cap, !.count = @ - 1]
  ELSE [r EXCEPT !.tail = (@ - 1 + Cap) % Cap, !.count = @ - 1]
RemoveKeepsTail(r, k) ==
  IF k = 1
  THEN [r EXCEPT !.head = (@ + 1) % Cap, !.count = @ - 1]
  ELSE [r EXCEPT !.count = @ - 1]

\* Removing the k-th waiting message: the head moves, or the messages after it
\* move down one place each.
Remove(r, k) ==
  IF k = 1
  THEN [r EXCEPT !.head = (@ + 1) % Cap, !.count = @ - 1]
  ELSE [r EXCEPT !.slots = [i \in 0..(Cap - 1) |->
                              IF \E j \in k..(r.count - 1) : i = At(r, j)
                              THEN r.slots[(i + 1) % Cap] ELSE r.slots[i]],
                 !.tail = (@ - 1 + Cap) % Cap,
                 !.count = @ - 1]

---------------------------------------------------------------------------
(* Filters.                                                                *)

\* The windows above w, the desktop included.
Above(w) ==
  LET up[v \in Tree \cup {NoWnd}] ==
        IF v = NoWnd THEN {} ELSE {v} \cup up[ParentOf[v]]
  IN up[ParentOf[w]]

\* msg_matches_filter
Matches(m, f) ==
  /\ \/ f.hwnd \in {Desktop, ThreadOnly, m.hwnd}
     \/ /\ WndOf(f.hwnd) # NoWnd
        /\ WndOf(m.hwnd) # NoWnd
        /\ WndOf(f.hwnd) \in Above(WndOf(m.hwnd))
  /\ (f.min # 0 \/ f.max # 0) => m.message \in f.min..f.max

Hits(r, f) == {k \in 1..r.count : Matches(r.slots[At(r, k)], f)}

\* The place of the first waiting message that passes the filter, if there is one.
FirstMatch(r, f) == {k \in Hits(r, f) : \A j \in Hits(r, f) : k <= j}

---------------------------------------------------------------------------
(* Painting.                                                               *)

NeedsPaint(w) == w \in visible /\ w \in needPaint

\* Mutant of Up: only one level up.
UpOnce(w) == IF ParentOf[w] = Desktop THEN NoWnd ELSE NextOf[ParentOf[w]]

\* Where the walk goes on from w, which has no child and no next sibling: up
\* to the first window below the desktop that has a next sibling.
Up(w) ==
  LET up[v \in Tree] ==
        IF ParentOf[v] \in {NoWnd, Desktop} THEN NoWnd
        ELSE IF NextOf[ParentOf[v]] # NoWnd THEN NextOf[ParentOf[v]]
        ELSE up[ParentOf[v]]
  IN up[w]

Follow(w) ==
  IF ChildOf[w] # NoWnd THEN ChildOf[w]
  ELSE IF NextOf[w] # NoWnd THEN NextOf[w]
  ELSE Up(w)

\* find_window_needing_paint: the walk stops at the first window that needs
\* painting, or at the end.
FindWindowNeedingPaint ==
  LET walk[w \in Tree \cup {NoWnd}] ==
        IF w = NoWnd THEN NoWnd
        ELSE IF NeedsPaint(w) THEN w ELSE walk[Follow(w)]
  IN walk[ChildOf[Desktop]]

\* The WM_PAINT that msg_queue_peek makes up for the filter, or none.
PaintFor(f) ==
  LET w == FindWindowNeedingPaint
  IN IF /\ (f.min = 0 /\ f.max = 0) \/ WM_PAINT \in f.min..f.max
        /\ w \in Windows
        /\ f.hwnd \in {Desktop, w}
     THEN Msg(w, WM_PAINT) ELSE NoMsg

---------------------------------------------------------------------------
(* The system calls.  The guest runs only while no GetMessage loops in the *)
(* host and the machine has not stopped.                                   *)

GuestRuns == waiting = NoFilter /\ display # "stopped"

\* A call that only puts messages in.
Returns == asked' = NoFilter /\ answer' = NoMsg /\ UNCHANGED <<display, waiting>>

PostMessage(m) ==
  /\ GuestRuns
  /\ SetRing(PostTo(Ring, m))
  /\ Returns
  /\ UNCHANGED <<focus, active, visible, needPaint>>

\* For a key that has a character.
TranslateMessage(h) ==
  /\ GuestRuns
  /\ SetRing(PostTo(Ring, Msg(h, WM_CHAR)))
  /\ Returns
  /\ UNCHANGED <<focus, active, visible, needPaint>>

PostQuitMessage ==
  /\ GuestRuns
  /\ SetRing(PostTo(Ring, Msg(Desktop, WM_QUIT)))
  /\ Returns
  /\ UNCHANGED <<focus, active, visible, needPaint>>

\* The default window procedure's WM_CLOSE.
DefWndProcClose(h) ==
  /\ GuestRuns
  /\ SetRing(IF WndOf(h) = NoWnd THEN Ring ELSE PostTo(Ring, Msg(h, WM_DESTROY)))
  /\ Returns
  /\ UNCHANGED <<focus, active, visible, needPaint>>

ShowWindow(h) ==
  LET w == WndOf(h)
      fresh == w # NoWnd /\ w \notin visible
  IN /\ GuestRuns
     /\ IF w = NoWnd THEN UNCHANGED visible ELSE visible' = visible \cup {w}
     /\ SetRing(IF fresh THEN PostTo(PostTo(Ring, Msg(h, WM_SHOWWINDOW)), Msg(h, WM_SIZE))
                ELSE Ring)
     /\ needPaint' = IF fresh THEN needPaint \cup {w} ELSE needPaint
     /\ Returns
     /\ UNCHANGED <<focus, active>>

HideWindow(h) ==
  /\ GuestRuns
  /\ visible' = visible \ {WndOf(h)}
  /\ Returns
  /\ UNCHANGED <<slots, head, tail, count, refused, focus, active, needPaint>>

\* Mutant of Told: the window that loses the focus is not told.
ToldOnlyNew(r, old, new, lose, gain) ==
  IF new # Desktop THEN PostTo(r, Msg(new, gain)) ELSE r

\* What a change of focus posts: one message to the old window, one to the new.
Told(r, old, new, lose, gain) ==
  LET one == IF old # Desktop THEN PostTo(r, Msg(old, lose)) ELSE r
  IN IF new # Desktop THEN PostTo(one, Msg(new, gain)) ELSE one

SetFocus(h) ==
  /\ GuestRuns
  /\ focus' = h
  /\ SetRing(IF focus = h THEN Ring ELSE Told(Ring, focus, h, WM_KILLFOCUS, WM_SETFOCUS))
  /\ Returns
  /\ UNCHANGED <<active, visible, needPaint>>

SetActiveWindow(h) ==
  /\ GuestRuns
  /\ active' = h
  /\ SetRing(IF active = h THEN Ring ELSE Told(Ring, active, h, WM_ACTIVATE, WM_ACTIVATE))
  /\ Returns
  /\ UNCHANGED <<focus, visible, needPaint>>

---------------------------------------------------------------------------
(* Taking messages out.                                                    *)

\* display_poll_events: the user may have asked to quit.
Poll == display' \in IF display = "on" THEN {"on", "quit"} ELSE {display}

\* A quit request is posted again by every call.
Polled(r) == IF display' = "quit" THEN PostTo(r, Msg(Desktop, WM_QUIT)) ELSE r

\* Mutant of Peek: a window that needs painting goes before the ring.
PeekPaintFirst(r, f, remove) ==
  /\ asked' = f
  /\ \/ \E k \in FirstMatch(r, f) :
          /\ PaintFor(f) = NoMsg
          /\ answer' = r.slots[At(r, k)]
          /\ SetRing(IF remove THEN Remove(r, k) ELSE r)
     \/ /\ FirstMatch(r, f) = {} \/ PaintFor(f) # NoMsg
        /\ answer' = PaintFor(f)
        /\ SetRing(r)

\* msg_queue_peek
Peek(r, f, remove) ==
  /\ asked' = f
  /\ \/ \E k \in FirstMatch(r, f) :
          /\ answer' = r.slots[At(r, k)]
          /\ SetRing(IF remove THEN Remove(r, k) ELSE r)
     \/ /\ FirstMatch(r, f) = {}
        /\ answer' = PaintFor(f)
        /\ SetRing(r)

PeekMessage(f, remove) ==
  /\ GuestRuns
  /\ Poll
  /\ Peek(Polled(Ring), f, remove)
  /\ UNCHANGED <<focus, active, visible, needPaint, waiting>>

\* One round of the loop of GetMessage.
Round(f) ==
  /\ Poll
  /\ Peek(Polled(Ring), f, TRUE)
  /\ waiting' = IF answer' = NoMsg THEN f ELSE NoFilter
  /\ UNCHANGED <<focus, active, visible, needPaint>>

GetMessage(f) == GuestRuns /\ Round(f)
GetMessageLoops == waiting # NoFilter /\ Round(waiting)

\* vm_start's loop polls too, whenever the guest runs, and stops the machine.
VmStops ==
  /\ GuestRuns
  /\ display \in {"on", "quit"}
  /\ display' = "stopped"
  /\ asked' = NoFilter /\ answer' = NoMsg
  /\ UNCHANGED <<slots, head, tail, count, refused, focus, active, visible,
                 needPaint, waiting>>

Next ==
  \/ \E m \in Posts : PostMessage(m)
  \/ \E h \in KeyArgs : TranslateMessage(h)
  \/ PostQuitMessage
  \/ \E h \in CloseArgs : DefWndProcClose(h)
  \/ \E h \in ShowArgs : ShowWindow(h) \/ HideWindow(h)
  \/ \E h \in FocusArgs : SetFocus(h)
  \/ \E h \in ActiveArgs : SetActiveWindow(h)
  \/ \E f \in Filters, remove \in BOOLEAN : PeekMessage(f, remove)
  \/ \E f \in Filters : GetMessage(f)
  \/ GetMessageLoops
  \/ VmStops

Spec == Init /\ [][Next]_vars

(* The guest has a message loop: it comes back to GetMessage for all       *)
(* messages again and again, whatever else it does; and the host runs.     *)
FairSpec == Spec /\ SF_vars(GetMessage(AllMessages)) /\ WF_vars(GetMessageLoops)

---------------------------------------------------------------------------
TypeOK ==
  /\ slots \in [0..(Cap - 1) -> Messages \cup {NoMsg}]
  /\ head \in 0..(Cap - 1) /\ tail \in 0..(Cap - 1) /\ count \in 0..Cap
  /\ focus \in FocusArgs \cup {Desktop} /\ active \in ActiveArgs \cup {Desktop}
  /\ visible \subseteq Tree /\ needPaint \subseteq Tree
  /\ display \in {"none", "on", "quit", "stopped"}
  /\ waiting \in Filters \cup {NoFilter} /\ asked \in Filters \cup {NoFilter}
  /\ answer \in Messages \cup {NoMsg} \cup {Msg(w, WM_PAINT) : w \in Windows}
  /\ refused \in BOOLEAN

\* The waiting messages, oldest first.
Contents == [k \in 1..count |-> slots[At(Ring, k)]]

(* head, tail and count are updated apart, by three different branches:    *)
(* they always describe one run of slots of the ring.                      *)
RingSound == tail = (head + count) % Cap

(* The ring stays exact under wrap-around and removals from the middle.    *)
QueueSound == TypeOK /\ RingSound

Abstract == INSTANCE MessageQueue
  WITH queue <- Contents, Quit <- Msg(Desktop, WM_QUIT), None <- NoMsg,
       OnDemand <- {Msg(w, WM_PAINT) : w \in Windows}

(* The ring with its wrap-around and its removals from the middle is the   *)
(* first-in, first-out queue a message loop relies on.                     *)
ImplementsMessageQueue == Abstract!Spec

\* v comes before w in the order of the tree: v is above w, or a window at or
\* above v is an earlier sibling of one at or above w.
Later(v) == LET later[w \in Tree \cup {NoWnd}] ==
                  IF w = NoWnd THEN {} ELSE {w} \cup later[NextOf[w]]
            IN later[NextOf[v]]
Before(v, w) ==
  \/ v \in Above(w)
  \/ \E x \in Above(v) \cup {v}, y \in Above(w) \cup {w} : y \in Later(x)

(* The walk of find_window_needing_paint goes down, right and up by the    *)
(* links; it misses no window that waits for WM_PAINT and stops at the     *)
(* first of them in the order of the tree.                                 *)
PaintsInOrder ==
  LET needy == {w \in Windows : NeedsPaint(w)}
      found == FindWindowNeedingPaint
  IN /\ found = NoWnd <=> needy = {}
     /\ found # NoWnd => found \in needy /\ \A v \in needy \ {found} : ~Before(v, found)

\* A message that tells the window h about the focus.
TellsFocus(m, h) == m.hwnd = h /\ m.message \in {WM_SETFOCUS, WM_KILLFOCUS}

(* NtUserSetFocus posts WM_KILLFOCUS and WM_SETFOCUS and sets hwndFocus:   *)
(* the last one that waits for a window agrees with hwndFocus, as long as  *)
(* no message was lost to a full ring and no filter of the guest parts the *)
(* two numbers.                                                            *)
FocusToldRight ==
  ~refused =>
    \A h \in FocusArgs \ {Desktop}, k \in 1..count :
      TellsFocus(Contents[k], h) /\ (\A j \in (k + 1)..count : ~TellsFocus(Contents[j], h))
        => (Contents[k].message = WM_SETFOCUS <=> focus = h)

QuitWaits == \E k \in 1..count : Contents[k].message = WM_QUIT

(* GetMessage answers the oldest message that fits, and WM_PAINT, which is *)
(* made up again and again while a window needs painting, only after them: *)
(* a WM_QUIT that made it into the ring ends the message loop, unless the  *)
(* machine stops or a GetMessage with another filter never returns.        *)
QuitEndsLoop ==
  QuitWaits ~> \/ answer.message = WM_QUIT
               \/ display = "stopped"
               \/ waiting \notin {NoFilter, AllMessages}

=============================================================================
