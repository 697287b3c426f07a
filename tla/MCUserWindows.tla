--------------------------- MODULE MCUserWindows ---------------------------
(* Instances of UserWindows for TLC.  Host addresses are interchangeable.  *)
EXTENDS WindowQueries, TLC

CONSTANTS w1, w2, w3, w4, app, button, exe, dll

AddressSymmetry == Permutations(Wnds)

MCSystemDefs == <<[name |-> button, extra |-> FALSE]>>

(* The program's class, and a library's class that may be global.          *)
MCWndClasses ==
  {[inst |-> exe, global |-> FALSE, proc |-> TRUE, extra |-> FALSE]} \cup
  [inst : {dll}, global : BOOLEAN, proc : {FALSE}, extra : {TRUE}]
=============================================================================
