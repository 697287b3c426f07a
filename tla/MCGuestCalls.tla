---------------------------- MODULE MCGuestCalls ----------------------------
(* Instances of GuestCalls for TLC: one DLL, and window procedures in at   *)
(* most three runs.                                                        *)
EXTENDS GuestCalls

CONSTANTS main, ta, dll, ra, rb, rc
MCDllRuns == <<dll>>
MCCallRuns == <<ra, rb, rc>>
=============================================================================
