---------------------------- MODULE MCScheduler ----------------------------
(* Instances of Scheduler for TLC.  The objects are interchangeable, and    *)
(* no operator chooses among them.                                         *)
EXTENDS Scheduler

CONSTANTS main, ta, tb, o1, o2
ObjectSymmetry == Permutations(Objects)
=============================================================================
