---------------------------- MODULE MCGdiObjects ----------------------------
(* Instances of GdiObjects for TLC.                                        *)
EXTENDS GdiObjects

TwoDcs == [kind \in Kinds |-> IF kind = "DC" THEN 2 ELSE 1]
TwoMoreDcs == [kind \in Kinds |-> IF kind = "DC" THEN 2 ELSE 0]
Plenty == [kind \in Kinds |-> 4]
None == [kind \in Kinds |-> 0]
MCLevels == {-1, 0, 1, 2}
=============================================================================
