--------------------------- MODULE MCUserHandles ---------------------------
(* Instances of UserHandles for TLC.                                       *)
EXTENDS UserHandles

CONSTANTS w1, w2, w3, w4
=============================================================================
