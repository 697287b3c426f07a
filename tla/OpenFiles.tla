------------------------------ MODULE OpenFiles ------------------------------
(* What the file system calls promise: every open handle has a file and a
   position of its own, which only calls with that handle change, and the
   files change only where a call opens or writes them.                     *)
EXTENDS Integers

CONSTANTS Handles, Closed

VARIABLES
  at,       \* of every handle its file and position, or Closed
  size      \* of every file its size; absent files have a negative one

OpenHandles == { h \in Handles : at[h] # Closed }
Init == /\ at = [h \in Handles |-> Closed]
        /\ size \in [DOMAIN size -> Int]

(* An open may create its file or empty it.                                 *)
Touched(f) == size' \in {size} \cup (IF f \in DOMAIN size THEN {[size EXCEPT ![f] = 0]} ELSE {})

Open(h) ==
  /\ at[h] = Closed
  /\ at'[h] # Closed /\ at'[h].pos = 0
  /\ Touched(at'[h].file)
  /\ at' = [at EXCEPT ![h] = at'[h]]

OpenFails == UNCHANGED at /\ \E f \in DOMAIN size : Touched(f)

Close(h) == at' = [at EXCEPT ![h] = Closed] /\ UNCHANGED size

Seek(h) ==
  /\ at'[h] # Closed /\ at'[h].file = at[h].file
  /\ at' = [at EXCEPT ![h] = at'[h]]
  /\ UNCHANGED size

Write(h) ==
  LET f == at[h].file
  IN  /\ at'[h] # Closed /\ at'[h].file = f /\ at'[h].pos > at[h].pos
      /\ at' = [at EXCEPT ![h] = at'[h]]
      /\ size' = [size EXCEPT ![f] = IF @ < at'[h].pos THEN at'[h].pos ELSE @]

Next ==
  \/ \E h \in Handles : Open(h)
  \/ OpenFails
  \/ \E h \in OpenHandles : Close(h) \/ Seek(h) \/ Write(h)

Spec == Init /\ [][Next]_<<at, size>>
=============================================================================
