---------------------------- MODULE UserHandles ----------------------------
(***************************************************************************)
(* The USER handle table in the hands of its callers: user_window.c        *)
(* allocates a handle for a window it creates and frees it once, when it   *)
(* destroys the window; the guest keeps every handle value it ever saw and *)
(* asks for its window at any time, with user_handle_get_typed behind      *)
(* user_window_from_hwnd.                                                  *)
(*                                                                         *)
(* held is a history variable: the handles given out and not freed, and    *)
(* the windows they were given out for.                                    *)
(***************************************************************************)
EXTENDS HandleTable, Functions

CONSTANTS
  Objects, \* the windows (host addresses)
  MaxFrees \* bound on how often one entry is freed

ASSUME UserHandlesAssumption == MaxFrees \in Nat /\ Nothing \notin Objects

VARIABLES
  table,  \* USER_HANDLE_TABLE
  held,   \* what the owners of the handles rely on
  seen,   \* every handle value the guest was ever given
  frees,  \* how often each entry was freed
  answer  \* the last call's handle and object

vars == <<table, held, seen, frees, answer>>

Init ==
  /\ table = NewTable
  /\ held = << >>
  /\ seen = {}
  /\ frees = [i \in Slots |-> 0]
  /\ answer = [handle |-> NoHandle, thing |-> Nothing]

AllocObject(x) ==
  LET h == AllocHandle(table)
  IN /\ table' = Alloc(table, x, "WINDOW")
     /\ IF h = NoHandle
        THEN /\ answer' = [handle |-> NoHandle, thing |-> Nothing]
             /\ UNCHANGED <<held, seen>>
        ELSE /\ answer' = [handle |-> h, thing |-> x]
             /\ held' = [k \in DOMAIN held \cup {h} |->
                           IF k = h THEN x ELSE held[k]]
             /\ seen' = seen \cup {h}
     /\ UNCHANGED frees

FreeHeld(h) ==
  /\ frees[h.index] < MaxFrees
  /\ table' = Free(table, h)
  /\ held' = Restrict(held, DOMAIN held \ {h})
  /\ frees' = [frees EXCEPT ![h.index] = @ + 1]
  /\ answer' = [handle |-> h, thing |-> held[h]]
  /\ UNCHANGED seen

GetObject(h) ==
  /\ answer' = [handle |-> h, thing |-> GetTyped(table, h, "WINDOW")]
  /\ UNCHANGED <<table, held, seen, frees>>

Next ==
  \/ \E x \in Objects \ {held[h] : h \in DOMAIN held} : AllocObject(x)
  \/ \E h \in DOMAIN held : FreeHeld(h)
  \/ \E h \in seen : GetObject(h)

Spec == Init /\ [][Next]_vars

---------------------------------------------------------------------------
Tables ==
  [type  : [Slots -> {"FREE", "WINDOW"}],
   gen   : [Slots -> 0..(GenSpan - 1)],
   ptr   : [Slots -> Objects \cup {Nothing} \cup (EndOfList..(MaxHandles - 1))],
   first : EndOfList..(MaxHandles - 1),
   count : 0..MaxHandles]

(* The table's fields have their types; entry 0 is never free.             *)
TypeOK ==
  /\ table \in Tables
  /\ table.type[0] = "WINDOW"
  /\ seen \subseteq AllHandles
  /\ frees \in [Slots -> 0..MaxFrees]

(* The links that user_handle_alloc and user_handle_free leave in the      *)
(* pointer fields thread every free entry exactly once, and no entry in    *)
(* use: no allocation can hand out an entry twice or lose one.             *)
FreeListSound ==
  \E n \in 0..MaxHandles : \E q \in [1..n -> Slots] : Lists(table, q)

(* handle_count is the number of entries in use, the desktop's included.   *)
CountSound == table.count = Cardinality(Slots \ FreeSlots(table))

(* After any sequence of calls the table is exact: types, list and count.   *)
TableSound == TypeOK /\ FreeListSound /\ CountSound

(* "Increment generation to invalidate old handles" (user_handle_free): a  *)
(* handle value the guest has seen before is never given out for another   *)
(* window.  The counter has GenSpan values and the list of free entries is *)
(* last in, first out, so this is for MaxFrees below GenSpan: an entry     *)
(* freed 2^16 times gives out its first handle again.                      *)
NeverReissued ==
  [][\A h \in DOMAIN held' \ DOMAIN held : h \notin seen]_vars

Abstract == INSTANCE HandleMap
  WITH Handles <- AllHandles, Things <- Objects, live <- held,
       Capacity <- MaxHandles - 1

(* The table is the map it stands for: what is given out is not in use,    *)
(* only a full table refuses, and a lookup answers what the handle was     *)
(* given out for, or nothing.                                              *)
ImplementsHandleMap == Abstract!Spec
=============================================================================
