------------------------------- MODULE NtFiles -------------------------------
(* The file system calls of nt/sys_file.c, with NtCreateEvent for the other
   kind of handle, on top of the handle table, the path translation and the
   host: its directories, files, symbolic links and descriptors.

   A file is its size, and an open descriptor its file, its position and what
   it may be used for. The host may refuse any read or write.               *)
EXTENDS NtHandles, VfsPaths, FiniteSetsExt

CONSTANTS
  Paths,      \* the Windows paths the guest opens
  Dirs,       \* the directories of the host
  Files,      \* the files there may be, each in one of Dirs
  Links,      \* where symbolic links lead
  Mappings,   \* the drives that may be mapped
  Disks,      \* the sizes of the files at the start, Missing for no file
  MaxFd,      \* the host gives the descriptors 3 .. MaxFd
  Modes,      \* the ways to open: "r", "w", "rw"
  MaxSize,    \* the bound of the sizes and positions
  Objects,    \* the objects memory allows
  Texts       \* the characters of the paths that PathsMeant is about

Missing == -1

ASSUME FilesAssumption ==
  /\ MaxSize \in Nat
  /\ Modes \subseteq {"r", "w", "rw"}
  /\ NoObject \notin Objects
  /\ Dirs \cap Files = {}
  /\ Disks \subseteq [Files -> Missing .. MaxSize]

(* Separators are written "\", and what is refused is no path.               *)
Chars == UNION {Range(chars) : chars \in Texts}
ASSUME PathsAssumption ==
  /\ Texts \subseteq Seq(Chars) /\ "/" \notin Chars
  /\ Refused \notin Seq(Seq(Chars))
  /\ \A m \in Mappings : NoDrive \notin DOMAIN m

Fd == 3 .. MaxFd
Descriptor(file, pos, mode) == [file |-> file, pos |-> pos, mode |-> mode]
NoFd == Descriptor(<<>>, -1, "r")

VARIABLES
  host,       \* the descriptors of the host
  size,       \* the size of every file, or Missing
  objects,    \* the objects that are allocated
  last,       \* what the last call opened, "no_memory" when the table was full
  asked       \* history: the disposition the last call opened with, "write" for
              \* one that wrote, "none" for any other

vars == <<handles, drives, host, size, objects, last, asked>>

Init ==
  /\ HandlesInit
  /\ host = [fd \in Fd |-> NoFd]
  /\ size \in Disks
  /\ objects = {}
  /\ drives \in Mappings
  /\ last = "start" /\ asked = "none"

-----------------------------------------------------------------------------
(* open, of the host.                                                       *)
IsLink(f) == f \in DOMAIN Links
Resolved(f) == IF IsLink(f) THEN Links[f] ELSE f
FreeFds == { fd \in Fd : host[fd] = NoFd }

Exists(f)  == f \in Dirs \/ (f \in Files /\ size[f] # Missing)
CanMake(f) == f \in Files /\ size[f] = Missing

OpenError(path, how, mode, directory) ==
  LET f == Resolved(path)
  IN  \/ FreeFds = {}
      \/ ~Exists(f) /\ (~how.create \/ ~CanMake(f) \/ directory)
      \/ how.excl /\ (Exists(f) \/ IsLink(path))
      \/ f \in Dirs /\ (mode # "r" \/ how.create \/ how.trunc)
      \/ f \in Files /\ directory

AfterOpen(f, how) ==
  IF f \in Files /\ (how.trunc \/ size[f] = Missing) THEN [size EXCEPT ![f] = 0] ELSE size

-----------------------------------------------------------------------------
(* What CreateDisposition asks of open, and what it reports.                *)
Flags(create, excl, trunc, info) ==
  [create |-> create, excl |-> excl, trunc |-> trunc, info |-> info]

\* Mutant of Disposition: FILE_OPEN_IF empties the file.
DispositionOpenIfTruncates ==
  [ supersede    |-> Flags(TRUE,  FALSE, TRUE,  "superseded"),
    open         |-> Flags(FALSE, FALSE, FALSE, "opened"),
    create       |-> Flags(TRUE,  TRUE,  FALSE, "created"),
    open_if      |-> Flags(TRUE,  FALSE, TRUE,  "opened"),
    overwrite    |-> Flags(FALSE, FALSE, TRUE,  "overwritten"),
    overwrite_if |-> Flags(TRUE,  FALSE, TRUE,  "overwritten") ]

Disposition ==
  [ supersede    |-> Flags(TRUE,  FALSE, TRUE,  "superseded"),
    open         |-> Flags(FALSE, FALSE, FALSE, "opened"),
    create       |-> Flags(TRUE,  TRUE,  FALSE, "created"),
    open_if      |-> Flags(TRUE,  FALSE, FALSE, "opened"),
    overwrite    |-> Flags(FALSE, FALSE, TRUE,  "overwritten"),
    overwrite_if |-> Flags(TRUE,  FALSE, TRUE,  "overwritten") ]

Info(disposition, f) ==
  IF disposition = "open_if" /\ ~Exists(f) THEN "created" ELSE Disposition[disposition].info

Unchanged == UNCHANGED <<handles, host, size, objects>>
Ends(result) == last' = result /\ UNCHANGED drives
Touches(what) == Ends("other") /\ asked' = what

(* NtCreateFile, and NtOpenFile, which is the same with FILE_OPEN. The file is
   opened, and made or emptied, before the path is found to lead out of the
   drives or the table to be full; the descriptor is closed again then.     *)

\* Mutant of Discard: the descriptor stays open.
DiscardKeepsFd(f, mode) ==
  /\ \E fd \in First(FreeFds) : host' = [host EXCEPT ![fd] = Descriptor(f, 0, mode)]
  /\ UNCHANGED <<handles, objects>>

Discard(f, mode) == UNCHANGED <<handles, host, objects>>

Denied(f, mode)    == ~PathIsSafe(f) /\ Ends("other") /\ Discard(f, mode)
TableFull(f, mode) == PathIsSafe(f) /\ NoSlot /\ Ends("no_memory") /\ Discard(f, mode)

Opened(f, disposition, mode) ==
  /\ PathIsSafe(f)
  /\ \E fd \in First(FreeFds) :
       /\ HandlesAdd("file", fd, NoObject)
       /\ host' = [host EXCEPT ![fd] = Descriptor(f, 0, mode)]
  /\ Ends(Info(disposition, f))
  /\ UNCHANGED objects

OpenFile(path, disposition, mode, directory) ==
  LET f       == Resolved(path)
      how     == Disposition[disposition]
      refused == path = Refused \/ OpenError(path, how, mode, directory)
  IN  /\ asked' = disposition
      /\ \/ refused /\ Ends("other") /\ Unchanged
         \/ /\ ~refused
            /\ size' = AfterOpen(f, how)
            /\ Denied(f, mode) \/ TableFull(f, mode) \/ Opened(f, disposition, mode)

NtCreateFile ==
  \E name \in Paths :
    LET path == TranslatePath(name)
    IN  \E disposition \in DOMAIN Disposition, mode \in Modes, directory \in BOOLEAN :
          OpenFile(path, disposition, mode, directory)

NtOpenFile ==
  \E name \in Paths :
    LET path == TranslatePath(name)
    IN  \E mode \in Modes, directory \in BOOLEAN : OpenFile(path, "open", mode, directory)

-----------------------------------------------------------------------------
(* NtReadFile and NtWriteFile for a handle that resolves to a file. To any
   other handle, and with a length of 0, they change nothing here. A seek
   stands although the read after it fails.                                 *)
HandleValues == {-10, -11, -12} \cup 0 .. MaxHandles

ResolvesToFile(h) == Resolve(h).type = "file"
Of(h) == host[Resolve(h).fd]
PosOf(h, pos) == host' = [host EXCEPT ![Resolve(h).fd].pos = pos]

NoFileIo ==
  /\ \E h \in HandleValues : ~ResolvesToFile(h)
  /\ Touches("none") /\ Unchanged

Left(f, pos) == IF f \in Files /\ pos < size[f] THEN size[f] - pos ELSE 0

\* from the descriptor's position, or from the offset the call gives
ReadFile(h, n, offset) ==
  /\ ResolvesToFile(h)
  /\ LET pos == IF offset = Missing THEN Of(h).pos ELSE offset
     IN  \/ PosOf(h, pos)
         \/ /\ Of(h).mode # "w" /\ Of(h).file \in Files
            /\ PosOf(h, pos + Min({n, Left(Of(h).file, pos)}))
  /\ Touches("none") /\ UNCHANGED <<handles, size, objects>>

NtReadFile ==
  \E h \in HandleValues, n \in 1 .. MaxSize, offset \in {Missing} \cup 0 .. MaxSize :
    ReadFile(h, n, offset)

(* The bound: no file grows beyond MaxSize.                                 *)
Fits(h, n) == Of(h).pos + n <= MaxSize

\* at the descriptor's position; ByteOffset is not looked at
WriteFile(h, n) ==
  /\ ResolvesToFile(h)
  /\ Of(h).mode # "r" /\ Fits(h, n)
  /\ PosOf(h, Of(h).pos + n)
  /\ size' = [size EXCEPT ![Of(h).file] = Max({@, Of(h).pos + n})]
  /\ Touches("write") /\ UNCHANGED <<handles, objects>>

NtWriteFile == \E h \in HandleValues, n \in 1 .. MaxSize : WriteFile(h, n)

(* NtClose looks a handle up in the table only, so the standard ones can be
   closed; their descriptors stay open.                                     *)
CloseHandle(h) ==
  /\ Get(h) # Unused
  /\ host' = IF Get(h).type = "file" THEN [host EXCEPT ![Get(h).fd] = NoFd] ELSE host
  /\ objects' = objects \ {Get(h).object}
  /\ HandlesRemove(h)
  /\ Touches("none") /\ UNCHANGED size

NtClose == \E h \in HandleValues : CloseHandle(h)

CreateEvent(object) ==
  /\ \/ HandlesAdd("event", -1, object) /\ objects' = objects \cup {object} /\ Ends("other")
     \/ NoSlot /\ Ends("no_memory") /\ UNCHANGED <<handles, objects>>
  /\ asked' = "none" /\ UNCHANGED <<host, size>>

NtCreateEvent == \E object \in Objects \ objects : CreateEvent(object)

Next == NtCreateFile \/ NtOpenFile \/ NoFileIo \/ NtReadFile \/ NtWriteFile \/ NtClose \/ NtCreateEvent

Spec == Init /\ [][Next]_vars

-----------------------------------------------------------------------------
(* A handle's own file and position, as OpenFiles has them.                 *)
OwnFd(h) == host[entries[h].fd]
At == [h \in Handle |->
        IF entries[h].type = "file" /\ OwnFd(h) # NoFd
        THEN [file |-> OwnFd(h).file, pos |-> OwnFd(h).pos]
        ELSE NoFd]

Promised == INSTANCE OpenFiles WITH Handles <- Handle, Closed <- NoFd, at <- At

(* Whatever is opened, closed and opened again, a call changes the file and
   position of its own handle and of no other, although handles and the host's
   descriptors are both given out again (handles_add, NtClose).             *)
ImplementsOpenFiles == Promised!Spec

TypeOK ==
  /\ entries \in [Handle -> [type : {"none", "in", "out", "err", "file", "event"},
                             fd : {-1, 0, 1, 2} \cup Fd, object : Objects \cup {NoObject}]]
  /\ \A h \in Handle : entries[h].type = "file" => entries[h].fd \in Fd
  /\ nextHandle \in 1 .. MaxHandles
  /\ host \in [Fd -> {NoFd} \cup [file : Dirs \cup Files, pos : 0 .. MaxSize,
                                 mode : {"r", "w", "rw"}]]
  /\ size \in [Files -> Missing .. MaxSize]
  /\ objects \subseteq Objects
  /\ drives \in Mappings

(* Every descriptor of the host and every object belongs to one handle, and
   none is lost when a call fails after it has opened a file
   (sys_NtCreateFile); only files can be written.                           *)
HasFd(h, fd)  == entries[h].type = "file" /\ entries[h].fd = fd
HasObject(h, object) == entries[h].object = object

OwnedOnce ==
  /\ \A fd \in Fd : host[fd] # NoFd <=> \E h \in Handle : HasFd(h, fd)
  /\ \A object \in Objects : object \in objects <=> \E h \in Handle : HasObject(h, object)
  /\ \A h, k \in Handle : h # k =>
       /\ \A fd \in Fd : ~(HasFd(h, fd) /\ HasFd(k, fd))
       /\ \A object \in Objects : ~(HasObject(h, object) /\ HasObject(k, object))
  /\ \A fd \in Fd : host[fd].mode # "r" => host[fd].file \in Files

FilesSound == TypeOK /\ OwnedOnce

(* A call is told that the table is full only when every handle is in use,
   however often next_handle has come to its end (handles_add).             *)
FullMeansFull == last = "no_memory" => \A h \in Handle : entries[h] # Unused

\* What each disposition may do to the file it names: make it, or empty it.
MayMake  == {"supersede", "create", "open_if", "overwrite_if"}
MayEmpty == {"supersede", "overwrite", "overwrite_if"}

Made(f)    == size[f] = Missing /\ size'[f] # Missing
Changed(f) == size[f] # Missing /\ size'[f] # size[f]

KeepsContents(f) ==
  /\ Made(f) => /\ asked' \in MayMake /\ size'[f] = 0
                /\ last' # "opened"
  /\ Changed(f) => \/ asked' = "write" /\ size'[f] > size[f]
                   \/ asked' \in MayEmpty /\ size'[f] = 0
  /\ Changed(f) => last' \notin {"opened", "created"}

KeepContents == \A f \in Files : KeepsContents(f)

(* A file that exists is emptied only by a call that is to overwrite or to
   supersede it, grows only by a call that writes, and comes into being, empty,
   only by a call that may create it: whether the call succeeds, finds no file,
   is refused or finds the table full after the host's open, and by no call
   that reads, closes or makes an event.  What a call that succeeds reports is
   none of the things it did not do (CreateDisposition of sys_NtCreateFile). *)
ContentsKept == [][KeepContents]_vars

(* The translation of every path without an inner "." is the directory of its
   drive followed by what the path means (vfs_translate_path_ex). It depends on
   the drives only, which stay as they are at the start.                    *)
PathsMeant ==
  last = "start" => \A drive \in DOMAIN drives, chars \in Texts : ~InnerDot(chars) =>
    TranslatePath([form |-> "plain", drive |-> drive, chars |-> chars])
      = IF Meaning(chars) = Refused THEN Refused ELSE drives[drive] \o Meaning(chars)
=============================================================================
