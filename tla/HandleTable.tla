---------------------------- MODULE HandleTable ----------------------------
(***************************************************************************)
(* The USER handle table (user/user_handle_table.c) as a record and the    *)
(* functions on it: an array of entries with a type, a generation and a    *)
(* pointer, the free entries linked through the pointer field.             *)
(*                                                                         *)
(* A handle is index | generation << 16; it is the record of the two.  The *)
(* value 0 is the record of two zeros: it is HWND_DESKTOP, and it is what  *)
(* a refused allocation returns.                                           *)
(***************************************************************************)
EXTENDS Integers, FiniteSets, Sequences

CONSTANTS
  MaxHandles, \* USER_MAX_HANDLES
  GenSpan,    \* how many values the generation counter has (2^16)
  Nothing     \* the NULL object

ASSUME HandleTableAssumption ==
  /\ MaxHandles \in Nat /\ MaxHandles >= 2
  /\ GenSpan \in Nat /\ GenSpan >= 2

Slots == 0..(MaxHandles - 1)
AllHandles == [index : Slots, gen : 0..(GenSpan - 1)]
NoHandle == [index |-> 0, gen |-> 0]
EndOfList == -1

NewTable ==
  [type  |-> [i \in Slots |-> IF i = 0 THEN "WINDOW" ELSE "FREE"],
   gen   |-> [i \in Slots |-> 1],
   ptr   |-> [i \in Slots |-> CASE i = 0 -> Nothing
                                [] i = MaxHandles - 1 -> EndOfList
                                [] OTHER -> i + 1],
   first |-> 1,
   count |-> 1]

\* user_handle_alloc: the handle it returns, and the table it leaves.
AllocHandle(t) ==
  IF t.first \in Slots
  THEN [index |-> t.first, gen |-> t.gen[t.first]]
  ELSE NoHandle

Alloc(t, x, ty) ==
  IF t.first \in Slots
  THEN [t EXCEPT !.first = t.ptr[t.first],
                 !.ptr[t.first] = x,
                 !.type[t.first] = ty,
                 !.count = @ + 1]
  ELSE t

\* user_handle_is_valid, for a handle other than HWND_DESKTOP.
IsValid(t, h) == t.gen[h.index] = h.gen /\ t.type[h.index] # "FREE"

\* Mutants of Free: the generation stays; the entry is not linked.
FreeSameGeneration(t, h) ==
  IF h # NoHandle /\ IsValid(t, h)
  THEN [t EXCEPT !.ptr[h.index] = t.first, !.type[h.index] = "FREE",
                 !.first = h.index, !.count = @ - 1]
  ELSE t
FreeUnlinked(t, h) ==
  IF h # NoHandle /\ IsValid(t, h)
  THEN [t EXCEPT !.type[h.index] = "FREE", !.count = @ - 1,
                 !.gen[h.index] = (@ + 1) % GenSpan]
  ELSE t

\* user_handle_free
Free(t, h) ==
  IF h # NoHandle /\ IsValid(t, h)
  THEN [t EXCEPT !.ptr[h.index] = t.first,
                 !.type[h.index] = "FREE",
                 !.gen[h.index] = (@ + 1) % GenSpan,
                 !.first = h.index,
                 !.count = @ - 1]
  ELSE t

\* Mutant of GetTyped: it trusts the index and the type.
GetTypedAnyGeneration(t, h, ty) ==
  IF h = NoHandle /\ ty = "WINDOW" THEN t.ptr[0]
  ELSE IF t.type[h.index] = ty THEN t.ptr[h.index] ELSE Nothing

\* user_handle_get_typed
GetTyped(t, h, ty) ==
  IF h = NoHandle /\ ty = "WINDOW" THEN t.ptr[0]
  ELSE IF t.gen[h.index] = h.gen /\ t.type[h.index] = ty
       THEN t.ptr[h.index] ELSE Nothing

---------------------------------------------------------------------------
(* What the table's fields mean together.                                  *)

FreeSlots(t) == {i \in Slots : t.type[i] = "FREE"}

\* q lists the free entries, in the order the list links them.
Lists(t, q) ==
  /\ \A i \in FreeSlots(t) : \E k \in DOMAIN q : q[k] = i
  /\ \A k \in DOMAIN q : q[k] \in FreeSlots(t)
  /\ \A k, l \in DOMAIN q : q[k] = q[l] => k = l
  /\ t.first = IF q = <<>> THEN EndOfList ELSE q[1]
  /\ \A k \in DOMAIN q :
       t.ptr[q[k]] = IF k = Len(q) THEN EndOfList ELSE q[k + 1]
=============================================================================
