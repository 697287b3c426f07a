----------------------------- MODULE AddressMap -----------------------------
(* What the address space of the guest promises: a partial map from pages of
   virtual addresses to frames of physical memory that only mapping changes,
   and in which no two pages share a frame, because every frame a page is
   mapped to has never been handed out before. Only the frames below Low, the
   first megabyte with the descriptor tables, are mapped to themselves and
   never handed out.                                                        *)
EXTENDS Naturals

CONSTANTS Pages, Frames, Low, Nowhere

VARIABLES
  map,      \* the frame each page leads to, or Nowhere
  used      \* the frames that have been handed out

Init ==
  /\ map = [p \in Pages |-> Nowhere]
  /\ used = {}

Changed == { p \in Pages : map'[p] # map[p] }

(* Pages get fresh frames, one each; frames may be lost on the way (a call
   that fails half way does not give back what it took).                    *)
Map ==
  /\ used \subseteq used'
  /\ \A p \in Changed : /\ map'[p] \in (used' \ used)
                        /\ map'[p] >= Low
  /\ \A p, q \in Changed : map'[p] = map'[q] => p = q

(* The low memory is mapped to itself.                                      *)
MapLow ==
  /\ \A p \in Changed : p < Low /\ map'[p] = p
  /\ UNCHANGED used

Next == Map \/ MapLow

Spec == Init /\ [][Next]_<<map, used>>
=============================================================================
