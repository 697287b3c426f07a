----------------------------- MODULE MCMsgQueue -----------------------------
(* Instances of MsgQueue for TLC.  The tree: the desktop has the children  *)
(* a and e; b is a's child and d is b's child.  x was destroyed.           *)
EXTENDS MsgQueue, TLC

CONSTANTS desk, a, b, d, e, x

MCParentOf == desk :> NoWnd @@ a :> desk @@ e :> desk @@ b :> a @@ d :> b
MCChildOf == desk :> a @@ a :> b @@ b :> d @@ d :> NoWnd @@ e :> NoWnd
MCNextOf == desk :> NoWnd @@ a :> e @@ b :> NoWnd @@ d :> NoWnd @@ e :> NoWnd

WM_USER == 1024
For(h) == [hwnd |-> h, min |-> 0, max |-> 0]
PaintOnly == [hwnd |-> desk, min |-> WM_PAINT, max |-> WM_PAINT]
UserOnly == [hwnd |-> desk, min |-> WM_USER, max |-> WM_USER]

RingFilters == {For(desk), For(a), For(ThreadOnly), UserOnly}
RingPosts == {Msg(d, WM_USER), Msg(x, WM_USER)}
WindowFilters == {For(desk), For(a), PaintOnly, UserOnly}
=============================================================================
