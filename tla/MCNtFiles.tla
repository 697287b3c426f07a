------------------------------ MODULE MCNtFiles ------------------------------
(* Drive C: with a file, a directory and a link to a file outside, and D:
   mapped to the root directory.                                            *)
EXTENDS NtFiles, TLC

CONSTANTS o1

A == <<"a">>
B == <<"b">>
Cd == <<"c">>
E == <<"e">>

MCMappings == { [C |-> <<Cd>>, D |-> <<>>] }
MCDirs   == { <<>>, <<Cd>>, <<Cd, B>> }
MCFiles  == { <<Cd, A>>, <<E>> }
MCLinks  == (<<Cd, E>> :> <<E>>)
MCDisks  == { [f \in MCFiles |-> IF f = <<Cd, A>> THEN 1 ELSE Missing] }

Path(form, drive, chars) == [form |-> form, drive |-> drive, chars |-> chars]
MCPaths ==
  { Path("nt", "C", << "\\", "a" >>), Path("nt", "C", << "b" >>),
    Path("plain", NoDrive, << "b", "\\", ".", ".", "\\", "e" >>),
    Path("plain", "D", << "e" >>), Path("unc", NoDrive, << "a" >>) }

(* asked is history: no call reads it, and ContentsKept reads its new value
   only, on every step.                                                     *)
WithoutHistory == <<handles, drives, host, size, objects, last>>

MCTexts == UNION { [1 .. n -> {"a", ".", "\\"}] : n \in 0 .. 7 }
=============================================================================
