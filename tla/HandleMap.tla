----------------------------- MODULE HandleMap -----------------------------
(***************************************************************************)
(* What a handle table promises its callers, whatever its representation:  *)
(* it is a map from the handles it has given out to the things they name.  *)
(* A handle it gives out names nothing else, an allocation is refused only *)
(* when the table is full, a lookup answers the thing the handle was given *)
(* out for and nothing once the handle was freed.                          *)
(***************************************************************************)
EXTENDS Naturals, FiniteSets, Functions

CONSTANTS
  Handles,  \* the handle values
  Things,   \* what a handle may name
  NoHandle, \* the value that refuses an allocation
  Nothing,  \* what a lookup that finds nothing answers
  Capacity  \* how many things have a handle at one time

VARIABLES
  live,  \* the map: the handles given out and not freed, and what they name
  answer \* the last call's handle and thing

vars == <<live, answer>>

Init ==
  /\ live = << >>
  /\ answer = [handle |-> NoHandle, thing |-> Nothing]

GiveOut(x) ==
  \E h \in Handles \ (DOMAIN live \cup {NoHandle}) :
    /\ live' = [k \in DOMAIN live \cup {h} |-> IF k = h THEN x ELSE live[k]]
    /\ answer' = [handle |-> h, thing |-> x]

Refuse ==
  /\ Cardinality(DOMAIN live) = Capacity
  /\ answer' = [handle |-> NoHandle, thing |-> Nothing]
  /\ UNCHANGED live

TakeBack(h) ==
  /\ h \in DOMAIN live
  /\ live' = Restrict(live, DOMAIN live \ {h})
  /\ answer' = [handle |-> h, thing |-> live[h]]

Lookup(h) ==
  /\ answer' = [handle |-> h,
                thing |-> IF h \in DOMAIN live THEN live[h] ELSE Nothing]
  /\ UNCHANGED live

Next ==
  \/ \E x \in Things : GiveOut(x)
  \/ Refuse
  \/ \E h \in Handles : TakeBack(h) \/ Lookup(h)

Spec == Init /\ [][Next]_vars
=============================================================================
