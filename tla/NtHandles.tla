------------------------------ MODULE NtHandles ------------------------------
(* The table of kernel handles: nt/handles.c. An entry holds the type of what
   the handle stands for and, as the case may be, a descriptor of the host or
   an object. file_offset and access_mask are written only and left out.    *)
EXTENDS Integers

CONSTANTS
  MaxHandles,   \* MAX_HANDLES (256): the values are 1 .. MaxHandles - 1
  NoObject

ASSUME HandlesAssumption == MaxHandles \in Nat /\ MaxHandles >= 4

Handle == 1 .. MaxHandles - 1

VARIABLES
  entries,
  nextHandle    \* next_handle

handles == <<entries, nextHandle>>

Entry(type, fd, object) == [type |-> type, fd |-> fd, object |-> object]
Unused == Entry("none", -1, NoObject)

StdIn  == Entry("in", 0, NoObject)
StdOut == Entry("out", 1, NoObject)
StdErr == Entry("err", 2, NoObject)

HandlesInit ==
  /\ entries = [h \in Handle |-> CASE h = 1 -> StdIn [] h = 2 -> StdOut [] h = 3 -> StdErr
                                   [] OTHER -> Unused]
  /\ nextHandle = 4

Vacant(first, last) == { h \in first .. last : entries[h] = Unused }

Ahead == Vacant(nextHandle, MaxHandles - 1)

\* Mutant of Behind: the second search leaves out the standard handles.
BehindPastStd == Vacant(4, nextHandle - 1)

Behind == Vacant(1, nextHandle - 1)

First(S) == { h \in S : \A k \in S : h <= k }

(* The entry that the next handle gets: the search goes from next_handle on,
   then from the start, and may find none.                                  *)
Slot == First(IF Ahead # {} THEN Ahead ELSE Behind)
NoSlot == Ahead = {} /\ Behind = {}

(* handles_add and handles_add_object.                                      *)
HandlesAdd(type, fd, object) ==
  \E h \in Slot :
    /\ entries' = [entries EXCEPT ![h] = Entry(type, fd, object)]
    /\ nextHandle' = h + 1

Get(h) == IF h \in Handle THEN entries[h] ELSE Unused

(* handles_resolve: the pseudo-handles -10, -11 and -12, and 0, 1 and 2,
   stand for the standard streams whatever the table holds.                 *)
Resolve(h) ==
  CASE h \in {-10, 0} -> StdIn
    [] h \in {-11, 1} -> StdOut
    [] h \in {-12, 2} -> StdErr
    [] OTHER -> Get(h)

\* Mutant of HandlesRemove: the entry is cleared with its object only.
HandlesRemoveObject(h) ==
  /\ entries' = IF entries[h].object = NoObject THEN entries
                ELSE [entries EXCEPT ![h] = Unused]
  /\ UNCHANGED nextHandle

HandlesRemove(h) ==
  /\ entries' = [entries EXCEPT ![h] = Unused]
  /\ UNCHANGED nextHandle
=============================================================================
