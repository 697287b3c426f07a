------------------------------ MODULE VfsPaths ------------------------------
(* The translation of a Windows path to a path of the host:
   vfs_translate_path_ex and check_path_in_drive of nt/vfs_jail.c.

   A Windows path is a record of its form ("nt" with the prefix \??\, "plain",
   "device" or "unc"), its drive letter, if it names one, and the characters
   after it, with "\" for both separators. A path of the host is a sequence of
   names, and a name a sequence of characters: what the translation leaves
   out or glues together is told apart by characters only.                  *)
EXTENDS Integers, SequencesExt

CONSTANTS
  NoDrive,      \* a path that names no drive
  DefaultDrive, \* C:
  Refused       \* no path

(* The host's directory of every mapped drive letter. The drives are mapped
   before the program starts and stay so.                                   *)
VARIABLE drives

(* The loop over the characters, with the path written so far, the place
   where the component at hand began, whether a separator came last, the
   depth below the drive and whether the path has left it.                  *)
Start == [out |-> <<>>, from |-> 0, sep |-> TRUE, depth |-> 0, left |-> FALSE]

Upto(s, n) == SubSeq(s.out, 1, n)
Component(s) == SubSeq(s.out, s.from + 1, Len(s.out))

\* Mutant of Back: the slash before the component is kept.
BackToSlash(s) == CHOOSE n \in 0 .. s.from :
  /\ n = 0 \/ s.out[n] = "/"
  /\ \A k \in n + 1 .. s.from : s.out[k] # "/"

(* "..": back over the slash before the component and the name before it.   *)
Back(s) ==
  IF s.from = 0 THEN 0
  ELSE CHOOSE n \in 0 .. s.from - 1 :
    /\ n = 0 \/ s.out[n] = "/"
    /\ \A k \in n + 1 .. s.from - 1 : s.out[k] # "/"

Parent(s) == [s EXCEPT !.depth = @ - 1, !.left = (s.depth = 0), !.out = Upto(s, Back(s))]
Same(s)   == [s EXCEPT !.out = Upto(s, IF s.from > 0 THEN s.from - 1 ELSE 0)]
Below(s)  == [s EXCEPT !.depth = @ + 1, !.out = Append(@, "/")]

Dots(s, otherwise) ==
  CASE Component(s) = <<".", ".">> -> Parent(s)
    [] Component(s) = <<".">> -> Same(s)
    [] OTHER -> otherwise

Separator(s) ==
  LET t == IF ~s.sep /\ Len(s.out) > s.from THEN Dots(s, Below(s)) ELSE s
  IN  [t EXCEPT !.sep = TRUE, !.from = Len(t.out)]

Letter(s, c) ==
  [s EXCEPT !.out = Append(@, c), !.sep = FALSE, !.from = IF s.sep THEN Len(s.out) ELSE @]

Read(s, c) == IF s.left THEN s ELSE IF c = "\\" THEN Separator(s) ELSE Letter(s, c)

(* The last component, then the trailing slash.                             *)
Finish(s) ==
  LET t == IF ~s.left /\ ~s.sep /\ Len(s.out) > s.from THEN Dots(s, s) ELSE s
      n == Len(t.out)
  IN  IF n > 1 /\ t.out[n] = "/" THEN [t EXCEPT !.out = Upto(t, n - 1)] ELSE t

(* The names of a path as the host reads it: what separators end, if anything
   came since the separator before.                                         *)
Scanned(n, c, slash) ==
  CASE c # slash -> [n EXCEPT !.last = Append(@, c)]
    [] c = slash /\ n.last = <<>> -> n
    [] OTHER -> [names |-> Append(n.names, n.last), last |-> <<>>]

Scan(chars, slash) ==
  LET Add(n, c) == Scanned(n, c, slash)
  IN  FoldLeft(Add, [names |-> <<>>, last |-> <<>>], chars)

AllNames(n) == IF n.last = <<>> THEN n.names ELSE Append(n.names, n.last)
Names(chars, slash) == AllNames(Scan(chars, slash))

DriveOf(path) == IF path.drive = NoDrive THEN DefaultDrive ELSE path.drive

(* The path within the drive, or Refused.                                   *)
Within(path) ==
  LET end == Finish(FoldLeft(Read, Start, path.chars))
  IN  IF end.left THEN Refused ELSE Names(end.out, "/")

TranslatePath(path) ==
  IF \/ path.form \in {"device", "unc"}
     \/ DriveOf(path) \notin DOMAIN drives
     \/ Within(path) = Refused
  THEN Refused
  ELSE drives[DriveOf(path)] \o Within(path)

(* check_path_in_drive and vfs_path_is_safe, for a path that the host has
   resolved. The comparison with a drive that is mapped to the root directory
   succeeds for that directory only.                                        *)
InDrive(root, resolved) ==
  /\ IsPrefix(root, resolved)
  /\ root = <<>> => resolved = <<>>

PathIsSafe(resolved) == \E d \in DOMAIN drives : InDrive(drives[d], resolved)

-----------------------------------------------------------------------------
(* What a path means: its names in order, where "." changes nothing and ".."
   takes the last one away, and a path that goes above its drive nothing.   *)
Step(dir, name) ==
  IF dir = Refused \/ name = <<".">> THEN dir
  ELSE IF name # <<".", ".">> THEN Append(dir, name)
  ELSE IF dir = <<>> THEN Refused ELSE Front(dir)

Walk(names) == FoldLeft(Step, <<>>, names)
Meaning(chars) == Walk(Names(chars, "\\"))

(* A "." between two names: there the code removes the slash that has to
   separate them (vfs_jail.c, "stay in current directory"), so that a\.\b is
   taken for ab.                                                            *)
InnerDot(chars) ==
  LET names == Names(chars, "\\")
  IN  \E i \in 2 .. Len(names) - 1 : names[i] = <<".">>
=============================================================================
