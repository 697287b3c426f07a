--------------------------- MODULE NtFilesProofs ---------------------------
(* Proofs about NtFiles for every size of the table, every number of
   descriptors and every file system.                                       *)
EXTENDS NtFiles, SequenceTheorems, WellFoundedInduction, TLAPS

IInv == FilesSound /\ FullMeansFull

LEMMA HandleFacts == MaxHandles \in Nat /\ 1 \in Handle /\ 2 \in Handle /\ 3 \in Handle /\ Handle \subseteq Int
BY HandlesAssumption DEF Handle

LEMMA InitSound == Init => IInv
<1> SUFFICES ASSUME Init PROVE IInv
  OBVIOUS
<1>1. TypeOK
  <2>1. entries \in [Handle -> [type : {"none", "in", "out", "err", "file", "event"},
                             fd : {-1, 0, 1, 2} \cup Fd, object : Objects \cup {NoObject}]]
    BY DEF Init, HandlesInit, Entry, Unused, StdIn, StdOut, StdErr
  <2>2. \A h \in Handle : entries[h].type # "file"
    BY DEF Init, HandlesInit, Entry, Unused, StdIn, StdOut, StdErr
  <2>3. nextHandle \in 1 .. MaxHandles
    BY HandlesAssumption DEF Init, HandlesInit
  <2>4. host \in [Fd -> {NoFd} \cup [file : Dirs \cup Files, pos : 0 .. MaxSize,
                                 mode : {"r", "w", "rw"}]]
    BY DEF Init
  <2>5. QED BY <2>1, <2>2, <2>3, <2>4, FilesAssumption DEF Init, TypeOK
<1>2. OwnedOnce
  <2>1. \A h \in Handle : entries[h].type # "file" /\ entries[h].object = NoObject
    BY DEF Init, HandlesInit, Entry, Unused, StdIn, StdOut, StdErr
  <2>2. \A fd \in Fd : host[fd] = NoFd /\ host[fd].mode = "r"
    BY DEF Init, NoFd, Descriptor
  <2>3. QED BY <2>1, <2>2, FilesAssumption DEF Init, OwnedOnce, HasFd, HasObject
<1>3. QED BY <1>1, <1>2 DEF Init, IInv, FilesSound, FullMeansFull

-----------------------------------------------------------------------------
(* The handle table.                                                        *)

\* The entry given out is a vacant one, so it stands for nothing.
LEMMA SlotVacant ==
  ASSUME TypeOK, NEW h \in Slot
  PROVE  h \in Handle /\ entries[h] = Unused
<1>1. h \in Ahead \/ h \in Behind
  BY DEF Slot, First
<1>2. QED BY <1>1, HandlesAssumption DEF Ahead, Behind, Vacant, Handle, TypeOK

\* Both searches together look at every entry.
LEMMA SearchesAll ==
  ASSUME TypeOK, NoSlot
  PROVE  \A h \in Handle : entries[h] # Unused
<1> SUFFICES ASSUME NEW h \in Handle, entries[h] = Unused PROVE FALSE
  OBVIOUS
<1>1. h \in Int /\ nextHandle \in Int /\ 1 <= h /\ h <= MaxHandles - 1
  BY HandlesAssumption DEF TypeOK, Handle
<1>2. CASE h < nextHandle
  <2>1. h \in 1 .. nextHandle - 1
    BY <1>1, <1>2
  <2>2. QED BY <2>1 DEF NoSlot, Behind, Vacant
<1>3. CASE nextHandle <= h
  <2>1. h \in nextHandle .. MaxHandles - 1
    BY <1>1, <1>3
  <2>2. QED BY <2>1 DEF NoSlot, Ahead, Vacant
<1>4. QED BY <1>1, <1>2, <1>3

\* What stands for a file is the table's own entry.
LEMMA ResolvesToOwn ==
  ASSUME TypeOK, NEW h, ResolvesToFile(h)
  PROVE  /\ h \in Handle /\ Resolve(h) = entries[h]
         /\ HasFd(h, entries[h].fd) /\ entries[h].fd \in Fd
<1>1. Resolve(h) = Get(h)
  BY DEF ResolvesToFile, Resolve, StdIn, StdOut, StdErr, Entry
<1>2. Get(h) = entries[h] /\ h \in Handle
  BY <1>1 DEF ResolvesToFile, Get, Unused, Entry
<1>3. QED BY <1>1, <1>2 DEF ResolvesToFile, HasFd, TypeOK

Entries == [type : {"none", "in", "out", "err", "file", "event"},
            fd : {-1, 0, 1, 2} \cup Fd, object : Objects \cup {NoObject}]
Descriptors == [file : Dirs \cup Files, pos : 0 .. MaxSize, mode : {"r", "w", "rw"}]

\* A new entry keeps the table well typed.
LEMMA AddType ==
  ASSUME TypeOK, NEW type \in {"file", "event"}, NEW fd \in Fd \cup {-1},
         NEW object \in Objects \cup {NoObject}, type = "file" => fd \in Fd,
         NEW h \in Slot, entries' = [entries EXCEPT ![h] = Entry(type, fd, object)],
         nextHandle' = h + 1
  PROVE  /\ entries' \in [Handle -> Entries]
         /\ \A k \in Handle : entries'[k].type = "file" => entries'[k].fd \in Fd
         /\ nextHandle' \in 1 .. MaxHandles
<1>1. h \in Handle
  BY SlotVacant
<1>2. Entry(type, fd, object) \in Entries
  BY DEF Entry, Entries
<1>3. entries \in [Handle -> Entries]
  BY DEF TypeOK, Entries
<1>4. entries' \in [Handle -> Entries]
  BY <1>1, <1>2, <1>3
<1>5. \A k \in Handle : entries'[k].type = "file" => entries'[k].fd \in Fd
  BY <1>1, <1>3 DEF TypeOK, Entry
<1>6. nextHandle' \in 1 .. MaxHandles
  BY <1>1, HandlesAssumption DEF Handle
<1>7. QED BY <1>4, <1>5, <1>6

-----------------------------------------------------------------------------
(* Opening.                                                                 *)

\* A path that can be opened leads to a directory or, if it is to be
\* written, to a file.
LEMMA OpenedWhat ==
  ASSUME NEW path, NEW how, NEW mode, NEW directory, ~OpenError(path, how, mode, directory)
  PROVE  LET f == Resolved(path)
         IN  /\ f \in Dirs \cup Files
             /\ mode # "r" => f \in Files
BY DEF OpenError, Exists, CanMake

LEMMA AfterOpenType ==
  ASSUME TypeOK, NEW f, NEW how
  PROVE  AfterOpen(f, how) \in [Files -> Missing .. MaxSize]
BY FilesAssumption DEF AfterOpen, TypeOK, Missing

\* The rest of the state is as it was, or well typed again.
Kept(o) == objects' = o /\ drives' = drives

LEMMA OpenedSound ==
  ASSUME FilesSound, NEW f \in Dirs \cup Files, NEW mode \in Modes,
         mode # "r" => f \in Files,
         NEW fd \in First(FreeFds), NEW h \in Slot,
         entries' = [entries EXCEPT ![h] = Entry("file", fd, NoObject)],
         nextHandle' = h + 1,
         host' = [host EXCEPT ![fd] = Descriptor(f, 0, mode)],
         size' \in [Files -> Missing .. MaxSize],
         Kept(objects)
  PROVE  FilesSound'
<1>1. TypeOK /\ OwnedOnce
  BY DEF FilesSound
<1>2. fd \in Fd /\ host[fd] = NoFd
  BY DEF First, FreeFds
<1>3. h \in Handle /\ entries[h] = Unused
  BY <1>1, SlotVacant
<1>4. Descriptor(f, 0, mode) \in Descriptors /\ Descriptor(f, 0, mode) # NoFd
  BY FilesAssumption DEF Descriptor, Descriptors, NoFd, Missing
<1>5. host' \in [Fd -> {NoFd} \cup Descriptors]
  BY <1>1, <1>2, <1>4 DEF TypeOK, Descriptors
<1>6. /\ entries' \in [Handle -> Entries]
      /\ \A k \in Handle : entries'[k].type = "file" => entries'[k].fd \in Fd
      /\ nextHandle' \in 1 .. MaxHandles
  BY <1>1, <1>2, AddType
<1>7. TypeOK'
  BY <1>1, <1>5, <1>6 DEF TypeOK, Entries, Descriptors, Kept
<1>8. \A k \in Handle : k # h => entries'[k] = entries[k]
  BY <1>1 DEF TypeOK
<1>9. entries'[h] = Entry("file", fd, NoObject)
  BY <1>1, <1>3 DEF TypeOK
<1>10. \A g \in Fd : g # fd => host'[g] = host[g]
  BY <1>1 DEF TypeOK
<1>11. host'[fd] = Descriptor(f, 0, mode)
  BY <1>1, <1>2 DEF TypeOK
<1>12. \A k \in Handle : ~HasFd(k, fd)
  BY <1>1, <1>2 DEF OwnedOnce
<1>13. \A k \in Handle, g \in Fd :
         HasFd(k, g)' <=> IF k = h THEN g = fd ELSE HasFd(k, g)
  BY <1>8, <1>9 DEF HasFd, Entry
<1>14. \A k \in Handle, object \in Objects : HasObject(k, object)' <=> HasObject(k, object)
  BY <1>3, <1>8, <1>9, FilesAssumption DEF HasObject, Entry, Unused
<1>15. \A g \in Fd : ~HasFd(h, g)
  BY <1>3 DEF HasFd, Unused, Entry
<1>16. OwnedOnce'
  <2>1. \A g \in Fd : host'[g] # NoFd <=> \E k \in Handle : HasFd(k, g)'
    <3> SUFFICES ASSUME NEW g \in Fd
                 PROVE  host'[g] # NoFd <=> \E k \in Handle : HasFd(k, g)'
      OBVIOUS
    <3>1. CASE g = fd
      BY <1>3, <1>4, <1>11, <1>13, <3>1
    <3>2. CASE g # fd
      BY <1>1, <1>10, <1>13, <1>15, <3>2 DEF OwnedOnce
    <3>3. QED BY <3>1, <3>2
  <2>2. \A object \in Objects : object \in objects'
          <=> \E k \in Handle : HasObject(k, object)'
    BY <1>1, <1>14 DEF OwnedOnce, Kept
  <2>3. \A k, l \in Handle : k # l =>
          /\ \A g \in Fd : ~(HasFd(k, g)' /\ HasFd(l, g)')
          /\ \A object \in Objects : ~(HasObject(k, object)' /\ HasObject(l, object)')
    BY <1>1, <1>12, <1>13, <1>14 DEF OwnedOnce
  <2>4. \A g \in Fd : host'[g].mode # "r" => host'[g].file \in Files
    BY <1>1, <1>10, <1>11 DEF OwnedOnce, Descriptor
  <2>5. QED BY <2>1, <2>2, <2>3, <2>4 DEF OwnedOnce
<1>17. QED BY <1>7, <1>16 DEF FilesSound

\* A call that changes the sizes of files only.
LEMMA SizeSound ==
  ASSUME FilesSound, UNCHANGED <<handles, host>>, Kept(objects),
         size' \in [Files -> Missing .. MaxSize]
  PROVE  FilesSound'
BY DEF FilesSound, TypeOK, OwnedOnce, HasFd, HasObject, handles, Kept

LEMMA OpenFileSound ==
  ASSUME IInv, NEW path, NEW disposition \in DOMAIN Disposition, NEW mode \in Modes,
         NEW directory \in BOOLEAN, OpenFile(path, disposition, mode, directory)
  PROVE  IInv'
<1> DEFINE f   == Resolved(path)
           how == Disposition[disposition]
<1>1. FilesSound /\ TypeOK
  BY DEF IInv, FilesSound
<1>2. CASE path = Refused \/ OpenError(path, how, mode, directory)
  <2>1. Ends("other") /\ Unchanged
    BY <1>2 DEF OpenFile
  <2>2. FilesSound'
    BY <1>1, <2>1, SizeSound DEF Unchanged, Ends, Kept, TypeOK
  <2>3. QED BY <2>1, <2>2 DEF IInv, FullMeansFull, Ends
<1>3. CASE ~(path = Refused \/ OpenError(path, how, mode, directory))
  <2>1. /\ size' = AfterOpen(f, how)
        /\ Denied(f, mode) \/ TableFull(f, mode) \/ Opened(f, disposition, mode)
    BY <1>3 DEF OpenFile
  <2>2. size' \in [Files -> Missing .. MaxSize]
    BY <1>1, <2>1, AfterOpenType
  <2>3. CASE Denied(f, mode)
    <3>1. FilesSound'
      BY <1>1, <2>2, <2>3, SizeSound DEF Denied, Discard, Ends, Kept
    <3>2. QED BY <2>3, <3>1 DEF IInv, FullMeansFull, Denied, Ends
  <2>4. CASE TableFull(f, mode)
    <3>1. FilesSound'
      BY <1>1, <2>2, <2>4, SizeSound DEF TableFull, Discard, Ends, Kept
    <3>2. \A h \in Handle : entries[h] # Unused
      BY <1>1, <2>4, SearchesAll DEF TableFull
    <3>3. QED BY <2>4, <3>1, <3>2 DEF IInv, FullMeansFull, TableFull, Discard, handles
  <2>5. CASE Opened(f, disposition, mode)
    <3>1. f \in Dirs \cup Files /\ (mode # "r" => f \in Files)
      BY <1>3, OpenedWhat
    <3>2. PICK fd \in First(FreeFds) :
            /\ HandlesAdd("file", fd, NoObject)
            /\ host' = [host EXCEPT ![fd] = Descriptor(f, 0, mode)]
      BY <2>5 DEF Opened
    <3>3. PICK h \in Slot : /\ entries' = [entries EXCEPT ![h] = Entry("file", fd, NoObject)]
                            /\ nextHandle' = h + 1
      BY <3>2 DEF HandlesAdd
    <3>4. Kept(objects)
      BY <2>5 DEF Opened, Ends, Kept
    <3>5. FilesSound'
      BY <1>1, <2>2, <3>1, <3>2, <3>3, <3>4, OpenedSound
    <3>6. last' # "no_memory"
      BY <2>5 DEF Opened, Ends, Info, Disposition, Flags
    <3>7. QED BY <3>5, <3>6 DEF IInv, FullMeansFull
  <2>6. QED BY <2>1, <2>3, <2>4, <2>5
<1>4. QED BY <1>2, <1>3

-----------------------------------------------------------------------------
(* Reading and writing.                                                     *)

LEMMA MaxOfTwo ==
  ASSUME NEW i \in Int, NEW j \in Int
  PROVE  Max({i, j}) = IF i < j THEN j ELSE i
<1> DEFINE m == IF i < j THEN j ELSE i
<1>1. m \in {i, j} /\ \A y \in {i, j} : m >= y
  OBVIOUS
<1>2. \A k \in {i, j} : (\A y \in {i, j} : k >= y) => k = m
  OBVIOUS
<1>3. QED BY <1>1, <1>2 DEF Max

LEMMA MinOfTwo ==
  ASSUME NEW i \in Int, NEW j \in Int
  PROVE  Min({i, j}) = IF i < j THEN i ELSE j
<1> DEFINE m == IF i < j THEN i ELSE j
<1>1. m \in {i, j} /\ \A y \in {i, j} : m <= y
  OBVIOUS
<1>2. \A k \in {i, j} : (\A y \in {i, j} : k <= y) => k = m
  OBVIOUS
<1>3. QED BY <1>1, <1>2 DEF Min

\* An open handle's descriptor.
LEMMA OfOwn ==
  ASSUME FilesSound, NEW h, ResolvesToFile(h)
  PROVE  /\ Of(h) = host[entries[h].fd] /\ Of(h) \in Descriptors
         /\ Of(h).mode # "r" => Of(h).file \in Files
<1>1. /\ h \in Handle /\ Resolve(h) = entries[h]
      /\ HasFd(h, entries[h].fd) /\ entries[h].fd \in Fd
  BY ResolvesToOwn DEF FilesSound
<1>2. host[entries[h].fd] # NoFd
  BY <1>1 DEF FilesSound, OwnedOnce
<1>3. host[entries[h].fd] \in {NoFd} \cup Descriptors
  BY <1>1 DEF FilesSound, TypeOK, Descriptors
<1>4. QED BY <1>1, <1>2, <1>3 DEF Of, FilesSound, OwnedOnce

\* Where a read ends.
LEMMA ReadTo ==
  ASSUME TypeOK, NEW f, NEW n \in 1 .. MaxSize, NEW pos \in 0 .. MaxSize
  PROVE  pos + Min({n, Left(f, pos)}) \in 0 .. MaxSize
<1>1. CASE f \in Files /\ pos < size[f]
  <2>1. size[f] \in Missing .. MaxSize
    BY <1>1 DEF TypeOK
  <2>2. Left(f, pos) = size[f] - pos /\ size[f] \in Int /\ size[f] <= MaxSize
    BY <1>1, <2>1, FilesAssumption DEF Left, Missing
  <2>3. Min({n, size[f] - pos}) = IF n < size[f] - pos THEN n ELSE size[f] - pos
    BY <2>2, FilesAssumption, MinOfTwo
  <2>4. QED BY <1>1, <2>2, <2>3, FilesAssumption
<1>2. CASE ~(f \in Files /\ pos < size[f])
  <2>1. Left(f, pos) = 0
    BY <1>2 DEF Left
  <2>2. Min({n, 0}) = 0
    BY FilesAssumption, MinOfTwo
  <2>3. QED BY <2>1, <2>2, FilesAssumption
<1>3. QED BY <1>1, <1>2

\* Only the position of the handle's own descriptor changes.
LEMMA PosSound ==
  ASSUME FilesSound, NEW h, ResolvesToFile(h), NEW pos \in 0 .. MaxSize, PosOf(h, pos),
         UNCHANGED handles, Kept(objects), size' \in [Files -> Missing .. MaxSize]
  PROVE  /\ FilesSound'
         /\ host'[entries[h].fd] = [Of(h) EXCEPT !.pos = pos]
         /\ \A fd \in Fd : fd # entries[h].fd => host'[fd] = host[fd]
<1> DEFINE own == entries[h].fd
           new == [Of(h) EXCEPT !.pos = pos]
<1>1. own \in Fd /\ Resolve(h).fd = own
  BY ResolvesToOwn DEF FilesSound
<1>2. /\ Of(h) = host[own] /\ Of(h) \in Descriptors
      /\ Of(h).mode # "r" => Of(h).file \in Files
  BY OfOwn
<1>3. host' = [host EXCEPT ![own] = new]
  BY <1>1, <1>2 DEF PosOf
<1>4. /\ new \in Descriptors /\ new.mode = Of(h).mode /\ new.file = Of(h).file
      /\ new.pos = pos
  BY <1>2 DEF Descriptors
<1>5. new # NoFd
  BY <1>4, FilesAssumption DEF NoFd, Descriptor
<1> HIDE DEF own, new
<1>6. DOMAIN host = Fd
  BY DEF FilesSound, TypeOK
<1>7. host'[own] = new /\ \A fd \in Fd : fd # own => host'[fd] = host[fd]
  BY <1>1, <1>3, <1>6
<1>8. host' \in [Fd -> {NoFd} \cup Descriptors]
  BY <1>1, <1>3, <1>4 DEF FilesSound, TypeOK, Descriptors
<1>9. TypeOK'
  BY <1>8 DEF FilesSound, TypeOK, Descriptors, handles, Kept
<1>10. host[own] # NoFd
  BY <1>2, FilesAssumption DEF Descriptors, NoFd, Descriptor
<1>11. \A fd \in Fd : host'[fd] # NoFd <=> host[fd] # NoFd
  BY <1>1, <1>5, <1>7, <1>10
<1>12. \A fd \in Fd : host'[fd].mode # "r" => host'[fd].file \in Files
  BY <1>1, <1>2, <1>4, <1>7 DEF FilesSound, OwnedOnce
<1>13. OwnedOnce'
  BY <1>11, <1>12 DEF FilesSound, OwnedOnce, HasFd, HasObject, handles, Kept
<1>14. QED BY <1>7, <1>9, <1>13 DEF FilesSound, own, new

\* What reading and writing do to a handle's position.
LEMMA ReadMoves ==
  ASSUME FilesSound, NEW h \in HandleValues, NEW n \in 1 .. MaxSize,
         NEW offset \in {Missing} \cup 0 .. MaxSize, ReadFile(h, n, offset)
  PROVE  /\ ResolvesToFile(h)
         /\ \E pos \in 0 .. MaxSize : PosOf(h, pos)
         /\ UNCHANGED <<handles, size>> /\ Kept(objects)
<1> DEFINE from == IF offset = Missing THEN Of(h).pos ELSE offset
<1>1. ResolvesToFile(h) /\ UNCHANGED <<handles, size>> /\ Kept(objects)
  BY DEF ReadFile, Touches, Ends, Kept
<1>2. Of(h) \in Descriptors
  BY <1>1, OfOwn
<1>3. from \in 0 .. MaxSize
  BY <1>2 DEF Descriptors
<1>4. PosOf(h, from) \/ PosOf(h, from + Min({n, Left(Of(h).file, from)}))
  BY DEF ReadFile
<1>5. from + Min({n, Left(Of(h).file, from)}) \in 0 .. MaxSize
  BY <1>3, ReadTo DEF FilesSound
<1>6. QED BY <1>1, <1>3, <1>4, <1>5

LEMMA WriteMoves ==
  ASSUME FilesSound, NEW h \in HandleValues, NEW n \in 1 .. MaxSize, WriteFile(h, n)
  PROVE  /\ ResolvesToFile(h) /\ Of(h).file \in Files
         /\ Of(h).pos + n \in 0 .. MaxSize /\ Of(h).pos < Of(h).pos + n
         /\ PosOf(h, Of(h).pos + n)
         /\ size' = [size EXCEPT ![Of(h).file] = IF @ < Of(h).pos + n THEN Of(h).pos + n ELSE @]
         /\ size' \in [Files -> Missing .. MaxSize]
         /\ UNCHANGED handles /\ Kept(objects)
<1> DEFINE pos == Of(h).pos + n
           f   == Of(h).file
<1>1. /\ ResolvesToFile(h) /\ Of(h).mode # "r" /\ pos <= MaxSize /\ PosOf(h, pos)
      /\ size' = [size EXCEPT ![f] = Max({@, pos})]
      /\ UNCHANGED handles /\ Kept(objects)
  BY DEF WriteFile, Fits, Touches, Ends, Kept
<1>2. f \in Files /\ Of(h) \in Descriptors
  BY <1>1, OfOwn
<1>3. pos \in 0 .. MaxSize /\ Of(h).pos < pos
  BY <1>1, <1>2, FilesAssumption DEF Descriptors
<1>4. size \in [Files -> Missing .. MaxSize]
  BY DEF FilesSound, TypeOK
<1>5. size[f] \in Int /\ size[f] \in Missing .. MaxSize
  BY <1>2, <1>4, FilesAssumption DEF Missing
<1>6. Max({size[f], pos}) = IF size[f] < pos THEN pos ELSE size[f]
  BY <1>3, <1>5, MaxOfTwo, FilesAssumption
<1> HIDE DEF pos, f
<1>7. size' = [size EXCEPT ![f] = IF @ < pos THEN pos ELSE @]
  BY <1>1, <1>2, <1>4, <1>6
<1>8. size' \in [Files -> Missing .. MaxSize]
  BY <1>2, <1>3, <1>4, <1>5, <1>7, FilesAssumption DEF Missing
<1>9. QED BY <1>1, <1>2, <1>3, <1>7, <1>8 DEF pos, f

-----------------------------------------------------------------------------
(* Closing, and creating events.                                            *)

\* What closing does to the entries and the descriptors.
LEMMA CloseFields ==
  ASSUME FilesSound, NEW h, CloseHandle(h)
  PROVE  /\ h \in Handle /\ entries[h] # Unused
         /\ entries' = [entries EXCEPT ![h] = Unused]
         /\ \A k \in Handle : entries'[k] = IF k = h THEN Unused ELSE entries[k]
         /\ DOMAIN host' = Fd
         /\ \A fd \in Fd : host'[fd] = IF HasFd(h, fd) THEN NoFd ELSE host[fd]
         /\ \A object \in Objects :
              object \in objects' <=> object \in objects /\ ~HasObject(h, object)
         /\ UNCHANGED <<nextHandle, size, drives>>
<1>1. h \in Handle /\ Get(h) = entries[h] /\ entries[h] # Unused
  BY DEF CloseHandle, Get
<1>2. DOMAIN entries = Handle /\ DOMAIN host = Fd
  BY DEF FilesSound, TypeOK
<1>3. entries' = [entries EXCEPT ![h] = Unused] /\ UNCHANGED <<nextHandle, size, drives>>
  BY DEF CloseHandle, HandlesRemove, Touches, Ends
<1>4. DOMAIN host' = Fd /\ \A fd \in Fd : host'[fd] = IF HasFd(h, fd) THEN NoFd ELSE host[fd]
  <2>1. CASE entries[h].type = "file"
    <3>1. host' = [host EXCEPT ![entries[h].fd] = NoFd]
      BY <1>1, <2>1 DEF CloseHandle
    <3>2. QED BY <1>2, <2>1, <3>1 DEF HasFd
  <2>2. CASE entries[h].type # "file"
    <3>1. host' = host
      BY <1>1, <2>2 DEF CloseHandle
    <3>2. QED BY <1>2, <2>2, <3>1 DEF HasFd
  <2>3. QED BY <2>1, <2>2
<1>5. objects' = objects \ {entries[h].object}
  BY <1>1 DEF CloseHandle
<1>6. \A object \in Objects :
        object \in objects' <=> object \in objects /\ ~HasObject(h, object)
  BY <1>5 DEF HasObject
<1>7. QED BY <1>1, <1>2, <1>3, <1>4, <1>6

LEMMA CloseSound ==
  ASSUME FilesSound, NEW h, CloseHandle(h)
  PROVE  FilesSound'
<1>1. /\ h \in Handle
      /\ entries' = [entries EXCEPT ![h] = Unused]
      /\ \A k \in Handle : entries'[k] = IF k = h THEN Unused ELSE entries[k]
      /\ DOMAIN host' = Fd
      /\ \A fd \in Fd : host'[fd] = IF HasFd(h, fd) THEN NoFd ELSE host[fd]
      /\ \A object \in Objects :
           object \in objects' <=> object \in objects /\ ~HasObject(h, object)
      /\ UNCHANGED <<nextHandle, size, drives>>
  BY CloseFields
<1>2. TypeOK'
  <2>1. entries \in [Handle -> Entries] /\ host \in [Fd -> {NoFd} \cup Descriptors]
    BY DEF FilesSound, TypeOK, Entries, Descriptors
  <2>2. Unused \in Entries /\ Unused.type # "file"
    BY DEF Unused, Entry, Entries
  <2>3. entries' \in [Handle -> Entries]
    BY <1>1, <2>1, <2>2
  <2>4. \A k \in Handle : entries'[k].type = "file" => entries'[k].fd \in Fd
    BY <1>1, <2>2 DEF FilesSound, TypeOK
  <2>5. host' \in [Fd -> {NoFd} \cup Descriptors]
    <3>1. CASE entries[h].type = "file"
      <4>1. host' = [host EXCEPT ![entries[h].fd] = NoFd]
        BY <1>1, <3>1 DEF CloseHandle, Get
      <4>2. QED BY <2>1, <4>1
    <3>2. CASE entries[h].type # "file"
      BY <1>1, <2>1, <3>2 DEF CloseHandle, Get
    <3>3. QED BY <3>1, <3>2
  <2>6. objects' \subseteq Objects
    BY DEF CloseHandle, FilesSound, TypeOK
  <2>7. QED BY <1>1, <2>3, <2>4, <2>5, <2>6 DEF FilesSound, TypeOK, Entries, Descriptors
<1>3. \A k \in Handle, fd \in Fd : HasFd(k, fd)' <=> k # h /\ HasFd(k, fd)
  BY <1>1 DEF HasFd, Unused, Entry
<1>4. \A k \in Handle, object \in Objects :
        HasObject(k, object)' <=> k # h /\ HasObject(k, object)
  BY <1>1, FilesAssumption DEF HasObject, Unused, Entry
<1>5. OwnedOnce'
  <2>1. \A fd \in Fd : host'[fd] # NoFd <=> \E k \in Handle : HasFd(k, fd)'
    BY <1>1, <1>3 DEF FilesSound, OwnedOnce
  <2>2. \A object \in Objects : object \in objects'
          <=> \E k \in Handle : HasObject(k, object)'
    BY <1>1, <1>4 DEF FilesSound, OwnedOnce
  <2>3. \A k, l \in Handle : k # l =>
          /\ \A fd \in Fd : ~(HasFd(k, fd)' /\ HasFd(l, fd)')
          /\ \A object \in Objects : ~(HasObject(k, object)' /\ HasObject(l, object)')
    BY <1>3, <1>4 DEF FilesSound, OwnedOnce
  <2>4. \A fd \in Fd : host'[fd].mode # "r" => host'[fd].file \in Files
    BY <1>1 DEF FilesSound, OwnedOnce, NoFd, Descriptor
  <2>5. QED BY <2>1, <2>2, <2>3, <2>4 DEF OwnedOnce
<1>6. QED BY <1>2, <1>5 DEF FilesSound

LEMMA EventSound ==
  ASSUME IInv, NEW object \in Objects \ objects, CreateEvent(object)
  PROVE  IInv'
<1>1. FilesSound /\ TypeOK
  BY DEF IInv, FilesSound
<1>2. CASE NoSlot /\ Ends("no_memory") /\ UNCHANGED <<handles, objects>>
  <2>1. FilesSound'
    BY <1>1, <1>2, SizeSound DEF CreateEvent, Ends, Kept, TypeOK
  <2>2. \A h \in Handle : entries'[h] # Unused
    BY <1>1, <1>2, SearchesAll DEF handles
  <2>3. QED BY <2>1, <2>2 DEF IInv, FullMeansFull
<1>3. CASE HandlesAdd("event", -1, object) /\ objects' = objects \cup {object} /\ Ends("other")
  <2>1. PICK h \in Slot : /\ entries' = [entries EXCEPT ![h] = Entry("event", -1, object)]
                          /\ nextHandle' = h + 1
    BY <1>3 DEF HandlesAdd
  <2>2. h \in Handle /\ entries[h] = Unused
    BY <1>1, SlotVacant
  <2>3. /\ entries' \in [Handle -> Entries]
        /\ \A k \in Handle : entries'[k].type = "file" => entries'[k].fd \in Fd
        /\ nextHandle' \in 1 .. MaxHandles
    BY <1>1, <2>1, AddType
  <2>4. UNCHANGED <<host, size, drives>> /\ objects' = objects \cup {object}
    BY <1>3 DEF CreateEvent, Ends
  <2>5. TypeOK'
    BY <1>1, <2>3, <2>4 DEF TypeOK, Entries
  <2>6. \A k \in Handle : entries'[k] = IF k = h THEN Entry("event", -1, object) ELSE entries[k]
    BY <1>1, <2>1, <2>2 DEF TypeOK
  <2>7. \A k \in Handle, fd \in Fd : HasFd(k, fd)' <=> HasFd(k, fd)
    BY <2>2, <2>6 DEF HasFd, Unused, Entry
  <2>8. \A k \in Handle, o \in Objects :
          HasObject(k, o)' <=> IF k = h THEN o = object ELSE HasObject(k, o)
    BY <2>6 DEF HasObject, Entry
  <2>9. \A o \in Objects : ~HasObject(h, o)
    BY <2>2, FilesAssumption DEF HasObject, Unused, Entry
  <2>10. \A k \in Handle : ~HasObject(k, object)
    BY <1>1 DEF FilesSound, OwnedOnce
  <2>11. OwnedOnce'
    <3>1. \A fd \in Fd : host'[fd] # NoFd <=> \E k \in Handle : HasFd(k, fd)'
      BY <1>1, <2>4, <2>7 DEF FilesSound, OwnedOnce
    <3>2. \A o \in Objects : o \in objects' <=> \E k \in Handle : HasObject(k, o)'
      <4> SUFFICES ASSUME NEW o \in Objects
                   PROVE  o \in objects' <=> \E k \in Handle : HasObject(k, o)'
        OBVIOUS
      <4>1. CASE o = object
        BY <2>2, <2>4, <2>8, <4>1
      <4>2. CASE o # object
        BY <1>1, <2>4, <2>8, <2>9, <4>2 DEF FilesSound, OwnedOnce
      <4>3. QED BY <4>1, <4>2
    <3>3. \A k, l \in Handle : k # l =>
            /\ \A fd \in Fd : ~(HasFd(k, fd)' /\ HasFd(l, fd)')
            /\ \A o \in Objects : ~(HasObject(k, o)' /\ HasObject(l, o)')
      BY <1>1, <2>7, <2>8, <2>10 DEF FilesSound, OwnedOnce
    <3>4. \A fd \in Fd : host'[fd].mode # "r" => host'[fd].file \in Files
      BY <1>1, <2>4 DEF FilesSound, OwnedOnce
    <3>5. QED BY <3>1, <3>2, <3>3, <3>4 DEF OwnedOnce
  <2>12. last' # "no_memory"
    BY <1>3 DEF Ends
  <2>13. QED BY <2>5, <2>11, <2>12 DEF IInv, FilesSound, FullMeansFull
<1>4. QED BY <1>2, <1>3 DEF CreateEvent

-----------------------------------------------------------------------------
(* The invariant.                                                           *)

LEMMA StepSound == IInv /\ [Next]_vars => IInv'
<1> SUFFICES ASSUME IInv, [Next]_vars PROVE IInv'
  OBVIOUS
<1>1. FilesSound /\ TypeOK
  BY DEF IInv, FilesSound
<1>2. CASE NtCreateFile
  <2>1. PICK name \in Paths :
          \E disposition \in DOMAIN Disposition, mode \in Modes, directory \in BOOLEAN :
            OpenFile(TranslatePath(name), disposition, mode, directory)
    BY <1>2 DEF NtCreateFile
  <2>2. QED BY <2>1, OpenFileSound
<1>3. CASE NtOpenFile
  <2>1. PICK name \in Paths : \E mode \in Modes, directory \in BOOLEAN :
          OpenFile(TranslatePath(name), "open", mode, directory)
    BY <1>3 DEF NtOpenFile
  <2>2. "open" \in DOMAIN Disposition
    BY DEF Disposition
  <2>3. QED BY <2>1, <2>2, OpenFileSound
<1>4. CASE NoFileIo
  <2>1. FilesSound'
    BY <1>1, <1>4, SizeSound DEF NoFileIo, Unchanged, Touches, Ends, Kept, TypeOK
  <2>2. QED BY <1>4, <2>1 DEF IInv, FullMeansFull, NoFileIo, Touches, Ends
<1>5. CASE NtReadFile
  <2>1. PICK h \in HandleValues, n \in 1 .. MaxSize, offset \in {Missing} \cup 0 .. MaxSize :
          ReadFile(h, n, offset)
    BY <1>5 DEF NtReadFile
  <2>2. /\ ResolvesToFile(h) /\ \E pos \in 0 .. MaxSize : PosOf(h, pos)
        /\ UNCHANGED <<handles, size>> /\ Kept(objects)
    BY <1>1, <2>1, ReadMoves
  <2>3. FilesSound'
    BY <1>1, <2>2, PosSound DEF TypeOK
  <2>4. QED BY <2>1, <2>3 DEF IInv, FullMeansFull, ReadFile, Touches, Ends
<1>6. CASE NtWriteFile
  <2>1. PICK h \in HandleValues, n \in 1 .. MaxSize : WriteFile(h, n)
    BY <1>6 DEF NtWriteFile
  <2>2. FilesSound'
    BY <1>1, <2>1, WriteMoves, PosSound
  <2>3. QED BY <2>1, <2>2 DEF IInv, FullMeansFull, WriteFile, Touches, Ends
<1>7. CASE NtClose
  <2>1. PICK h \in HandleValues : CloseHandle(h)
    BY <1>7 DEF NtClose
  <2>2. FilesSound'
    BY <1>1, <2>1, CloseSound
  <2>3. QED BY <2>1, <2>2 DEF IInv, FullMeansFull, CloseHandle, Touches, Ends
<1>8. CASE NtCreateEvent
  BY <1>8, EventSound DEF NtCreateEvent
<1>9. CASE UNCHANGED vars
  <2>1. FilesSound'
    BY <1>1, <1>9, SizeSound DEF vars, Kept, TypeOK
  <2>2. QED BY <1>9, <2>1 DEF IInv, FullMeansFull, vars, handles
<1>10. QED BY <1>2, <1>3, <1>4, <1>5, <1>6, <1>7, <1>8, <1>9 DEF Next

(* The invariant of the handle table, the descriptors and the objects holds in
   every state (nt/handles.c, nt/sys_file.c).                               *)
THEOREM Inductive == Spec => []IInv
BY InitSound, StepSound, PTL DEF Spec

(* Every descriptor and every object belongs to one handle, and calls that fail
   lose none (sys_NtCreateFile, sys_NtClose).                               *)
THEOREM FilesCorrect == Spec => []FilesSound
<1>1. IInv => FilesSound
  BY DEF IInv
<1>2. QED BY <1>1, Inductive, PTL

(* A call is told that the table is full only when it is (handles_add).     *)
THEOREM FullCorrect == Spec => []FullMeansFull
<1>1. IInv => FullMeansFull
  BY DEF IInv
<1>2. QED BY <1>1, Inductive, PTL

-----------------------------------------------------------------------------
(* What happens to the contents of files.                                   *)

\* A file that was opened is there; nothing removes one.
FileThere == \A fd \in Fd : host[fd] # NoFd /\ host[fd].file \in Files
                              => size[host[fd].file] # Missing

NoneGone == \A g \in Files : size[g] # Missing => size'[g] # Missing

LEMMA OpenFileThere ==
  ASSUME FilesSound, FileThere, NEW path, NEW disposition \in DOMAIN Disposition,
         NEW mode \in Modes, NEW directory \in BOOLEAN,
         OpenFile(path, disposition, mode, directory)
  PROVE  FileThere'
<1> DEFINE f   == Resolved(path)
           how == Disposition[disposition]
<1>1. size \in [Files -> Missing .. MaxSize] /\ host \in [Fd -> {NoFd} \cup Descriptors]
  BY DEF FilesSound, TypeOK, Descriptors
<1>2. CASE Unchanged
  BY <1>2 DEF Unchanged, FileThere
<1>3. CASE /\ size' = AfterOpen(f, how)
           /\ Denied(f, mode) \/ TableFull(f, mode) \/ Opened(f, disposition, mode)
  <2>1. size' = size \/ (f \in Files /\ size' = [size EXCEPT ![f] = 0])
    BY <1>3 DEF AfterOpen
  <2>2. NoneGone
    BY <1>1, <2>1 DEF NoneGone, Missing
  <2>3. f \in Files => size'[f] # Missing
    BY <1>1, <1>3 DEF AfterOpen, Missing
  <2>4. CASE host' = host
    BY <2>2, <2>4 DEF FileThere, NoneGone
  <2>5. CASE Opened(f, disposition, mode)
    <3>1. PICK fd \in First(FreeFds) : host' = [host EXCEPT ![fd] = Descriptor(f, 0, mode)]
      BY <2>5 DEF Opened
    <3>2. \A k \in Fd : host'[k] = host[k] \/ host'[k].file = f
      BY <1>1, <3>1 DEF Descriptor
    <3>3. QED BY <2>2, <2>3, <3>2 DEF FileThere, NoneGone
  <2>6. QED BY <1>3, <2>4, <2>5 DEF Denied, TableFull, Discard
<1>4. QED BY <1>2, <1>3 DEF OpenFile

LEMMA StepThere == IInv /\ FileThere /\ [Next]_vars => FileThere'
<1> SUFFICES ASSUME IInv, FileThere, [Next]_vars PROVE FileThere'
  OBVIOUS
<1>1. FilesSound /\ size \in [Files -> Missing .. MaxSize]
  BY DEF IInv, FilesSound, TypeOK
<1>2. CASE NtCreateFile
  <2>1. PICK name \in Paths :
          \E disposition \in DOMAIN Disposition, mode \in Modes, directory \in BOOLEAN :
            OpenFile(TranslatePath(name), disposition, mode, directory)
    BY <1>2 DEF NtCreateFile
  <2>2. QED BY <1>1, <2>1, OpenFileThere
<1>3. CASE NtOpenFile
  <2>1. PICK name \in Paths : \E mode \in Modes, directory \in BOOLEAN :
          OpenFile(TranslatePath(name), "open", mode, directory)
    BY <1>3 DEF NtOpenFile
  <2>2. "open" \in DOMAIN Disposition
    BY DEF Disposition
  <2>3. QED BY <1>1, <2>1, <2>2, OpenFileThere
<1>4. ASSUME NEW h, ResolvesToFile(h), NEW pos \in 0 .. MaxSize, PosOf(h, pos),
             UNCHANGED handles, Kept(objects), NoneGone,
             size' \in [Files -> Missing .. MaxSize]
      PROVE  FileThere'
  <2>1. /\ host'[entries[h].fd] = [Of(h) EXCEPT !.pos = pos]
        /\ \A fd \in Fd : fd # entries[h].fd => host'[fd] = host[fd]
    BY <1>1, <1>4, PosSound
  <2>2. /\ HasFd(h, entries[h].fd) /\ h \in Handle /\ entries[h].fd \in Fd
        /\ Of(h) = host[entries[h].fd] /\ Of(h) \in Descriptors
    BY <1>1, <1>4, OfOwn, ResolvesToOwn DEF FilesSound
  <2>3. host[entries[h].fd] # NoFd
    BY <1>1, <2>2 DEF FilesSound, OwnedOnce
  <2>4. host'[entries[h].fd].file = host[entries[h].fd].file
    BY <2>1, <2>2 DEF Descriptors
  <2>5. QED BY <1>4, <2>1, <2>3, <2>4 DEF FileThere, NoneGone
<1>5. CASE NtReadFile
  <2>1. PICK h \in HandleValues, n \in 1 .. MaxSize, offset \in {Missing} \cup 0 .. MaxSize :
          ReadFile(h, n, offset)
    BY <1>5 DEF NtReadFile
  <2>2. /\ ResolvesToFile(h) /\ \E pos \in 0 .. MaxSize : PosOf(h, pos)
        /\ UNCHANGED <<handles, size>> /\ Kept(objects)
    BY <1>1, <2>1, ReadMoves
  <2>3. NoneGone
    BY <2>2 DEF NoneGone
  <2>4. QED BY <1>1, <1>4, <2>2, <2>3
<1>6. CASE NtWriteFile
  <2>1. PICK h \in HandleValues, n \in 1 .. MaxSize : WriteFile(h, n)
    BY <1>6 DEF NtWriteFile
  <2> DEFINE pos == Of(h).pos + n
             f   == Of(h).file
  <2>2. /\ ResolvesToFile(h) /\ f \in Files
        /\ pos \in 0 .. MaxSize /\ PosOf(h, pos)
        /\ size' = [size EXCEPT ![f] = IF @ < pos THEN pos ELSE @]
        /\ size' \in [Files -> Missing .. MaxSize]
        /\ UNCHANGED handles /\ Kept(objects)
    BY <1>1, <2>1, WriteMoves
  <2> HIDE DEF pos, f
  <2>3. NoneGone
    BY <1>1, <2>2, FilesAssumption DEF NoneGone, Missing
  <2>4. QED BY <1>4, <2>2, <2>3
<1>7. CASE NtClose
  <2>1. PICK h \in HandleValues : CloseHandle(h)
    BY <1>7 DEF NtClose
  <2>2. /\ \A fd \in Fd : host'[fd] = NoFd \/ host'[fd] = host[fd]
        /\ size' = size
    BY <1>1, <2>1, CloseFields
  <2>3. QED BY <2>2 DEF FileThere
<1>8. CASE NoFileIo \/ NtCreateEvent \/ UNCHANGED vars
  <2>1. host' = host /\ size' = size
    BY <1>8 DEF NoFileIo, Unchanged, NtCreateEvent, CreateEvent, vars
  <2>2. QED BY <2>1 DEF FileThere
<1>9. QED BY <1>2, <1>3, <1>5, <1>6, <1>7, <1>8 DEF Next

\* A call that opens makes or empties only a file it may make or empty.
LEMMA OpenFileKeeps ==
  ASSUME FilesSound, NEW path, NEW disposition \in DOMAIN Disposition, NEW mode \in Modes,
         NEW directory \in BOOLEAN, OpenFile(path, disposition, mode, directory),
         NEW g \in Files
  PROVE  KeepsContents(g)
<1> DEFINE f   == Resolved(path)
           how == Disposition[disposition]
<1>1. size \in [Files -> Missing .. MaxSize] /\ size[g] \in Int
  BY FilesAssumption DEF FilesSound, TypeOK, Missing
<1>2. CASE size'[g] = size[g]
  BY <1>1, <1>2 DEF KeepsContents, Made, Changed
<1>3. CASE size'[g] # size[g]
  <2>1. /\ ~OpenError(path, how, mode, directory)
        /\ size' = AfterOpen(f, how)
        /\ last' \in {"other", "no_memory", Info(disposition, f)}
        /\ asked' = disposition
    BY <1>3 DEF OpenFile, Unchanged, Denied, TableFull, Opened, Ends
  <2>2. f = g /\ (how.trunc \/ size[f] = Missing) /\ size'[g] = 0
    BY <1>1, <1>3, <2>1 DEF AfterOpen
  <2>3. CASE size[g] = Missing
    <3>1. ~Exists(f) /\ how.create
      BY <2>1, <2>2, <2>3, FilesAssumption DEF OpenError, Exists
    <3>2. disposition \in MayMake
      BY <3>1 DEF Disposition, Flags, MayMake
    <3>3. Info(disposition, f) \in {"superseded", "created", "overwritten"}
      BY <3>1, <3>2 DEF Info, Disposition, Flags, MayMake
    <3>4. QED BY <2>1, <2>2, <2>3, <3>2, <3>3 DEF KeepsContents, Made, Changed
  <2>4. CASE size[g] # Missing
    <3>1. how.trunc
      BY <2>2, <2>4
    <3>2. disposition \in MayEmpty
      BY <3>1 DEF Disposition, Flags, MayEmpty
    <3>3. Info(disposition, f) \in {"superseded", "overwritten"}
      BY <3>2 DEF Info, Disposition, Flags, MayEmpty
    <3>4. QED BY <2>1, <2>2, <2>4, <3>2, <3>3 DEF KeepsContents, Made, Changed
  <2>5. QED BY <2>3, <2>4
<1>4. QED BY <1>2, <1>3

(* A file is emptied only by a call that is to overwrite or supersede it, grows
   only by one that writes, and comes into being only by one that may create
   it, whether these succeed or fail, and by no other call (sys_NtCreateFile,
   CreateDisposition).                                                      *)
THEOREM ContentsCorrect == Spec => ContentsKept
<1>1. IInv /\ FileThere /\ [Next]_vars => [KeepContents]_vars
  <2> SUFFICES ASSUME IInv, FileThere, Next, NEW g \in Files PROVE KeepsContents(g)
    BY DEF KeepContents
  <2>1. FilesSound
    BY DEF IInv
  <2>2. size \in [Files -> Missing .. MaxSize] /\ size[g] \in Int
    BY <2>1, FilesAssumption DEF FilesSound, TypeOK, Missing
  <2>3. CASE NtCreateFile
    <3>1. PICK name \in Paths :
            \E disposition \in DOMAIN Disposition, mode \in Modes, directory \in BOOLEAN :
              OpenFile(TranslatePath(name), disposition, mode, directory)
      BY <2>3 DEF NtCreateFile
    <3>2. QED BY <2>1, <3>1, OpenFileKeeps
  <2>4. CASE NtOpenFile
    <3>1. PICK name \in Paths : \E mode \in Modes, directory \in BOOLEAN :
            OpenFile(TranslatePath(name), "open", mode, directory)
      BY <2>4 DEF NtOpenFile
    <3>2. "open" \in DOMAIN Disposition
      BY DEF Disposition
    <3>3. QED BY <2>1, <3>1, <3>2, OpenFileKeeps
  <2>5. CASE NtWriteFile
    <3>1. PICK h \in HandleValues, n \in 1 .. MaxSize : WriteFile(h, n)
      BY <2>5 DEF NtWriteFile
    <3> DEFINE pos == Of(h).pos + n
               f   == Of(h).file
    <3>2. f \in Files /\ pos \in 0 .. MaxSize
          /\ size' = [size EXCEPT ![f] = IF @ < pos THEN pos ELSE @]
      BY <2>1, <3>1, WriteMoves
    <3>0. size[f] # Missing
      <4>1. /\ HasFd(h, entries[h].fd) /\ h \in Handle /\ entries[h].fd \in Fd
            /\ Of(h) = host[entries[h].fd]
        BY <2>1, <3>2, <3>1, WriteMoves, OfOwn, ResolvesToOwn DEF FilesSound
      <4>2. QED BY <2>1, <3>2, <4>1 DEF FileThere, FilesSound, OwnedOnce
    <3> HIDE DEF pos, f
    <3>3. size'[g] = size[g] \/ (size[g] < size'[g] /\ size'[g] \in Int)
      BY <2>2, <3>2, FilesAssumption
    <3>4. last' = "other" /\ asked' = "write"
      BY <3>1 DEF WriteFile, Ends, Touches
    <3>5. size'[g] = size[g] \/ size[g] # Missing
      BY <2>2, <3>0, <3>2
    <3>6. QED BY <2>2, <3>3, <3>4, <3>5 DEF KeepsContents, Made, Changed
  <2>6. CASE NoFileIo \/ NtReadFile \/ NtClose \/ NtCreateEvent
    <3>1. size' = size
      BY <2>6 DEF NoFileIo, Unchanged, NtReadFile, ReadFile, NtClose, CloseHandle,
                  NtCreateEvent, CreateEvent
    <3>2. QED BY <2>2, <3>1 DEF KeepsContents, Made, Changed
  <2>7. QED BY <2>3, <2>4, <2>5, <2>6 DEF Next
<1>2. Init => FileThere
  BY DEF Init, FileThere
<1>3. QED BY <1>1, <1>2, StepThere, Inductive, PTL DEF Spec, ContentsKept

-----------------------------------------------------------------------------
(* The refinement of OpenFiles. A handle's own file and position depend on its
   entry and on its own descriptor only.                                    *)
Place(fd) == [file |-> host[fd].file, pos |-> host[fd].pos]

LEMMA AtIs ==
  ASSUME FilesSound
  PROVE  /\ At = [h \in Handle |-> IF entries[h].type = "file" THEN Place(entries[h].fd) ELSE NoFd]
         /\ \A h \in Handle : entries[h].type = "file" =>
              /\ At[h].pos \in 0 .. MaxSize /\ At[h] # NoFd
              /\ host[entries[h].fd] \in Descriptors
<1>1. \A h \in Handle : entries[h].type = "file" =>
        entries[h].fd \in Fd /\ host[entries[h].fd] # NoFd
  BY DEF FilesSound, TypeOK, OwnedOnce, HasFd
<1>2. \A fd \in Fd : host[fd] # NoFd => host[fd] \in Descriptors
  BY DEF FilesSound, TypeOK, Descriptors
<1>3. \A h \in Handle : entries[h].type = "file" =>
        /\ At[h] = Place(entries[h].fd) /\ host[entries[h].fd] \in Descriptors
        /\ At[h].pos \in 0 .. MaxSize
  BY <1>1, <1>2 DEF At, OwnFd, Place, Descriptors
<1>4. \A h \in Handle : entries[h].type = "file" => At[h] # NoFd
  BY <1>3, FilesAssumption DEF NoFd, Descriptor
<1>5. At = [h \in Handle |-> IF entries[h].type = "file" THEN Place(entries[h].fd) ELSE NoFd]
  BY <1>1 DEF At, OwnFd, Place
<1>6. QED BY <1>3, <1>4, <1>5

\* What has a position is open.
LEMMA PosTells ==
  ASSUME NEW x, x.pos \in 0 .. MaxSize
  PROVE  x # NoFd
BY FilesAssumption DEF NoFd, Descriptor

\* The sizes an open leaves are ones that OpenFiles allows.
LEMMA AfterOpenTouches ==
  ASSUME FilesSound, NEW f, NEW how, size' = AfterOpen(f, how)
  PROVE  Promised!Touched(f)
BY DEF AfterOpen, Promised!Touched, FilesSound, TypeOK

LEMMA OpenFileMaps ==
  ASSUME FilesSound, FilesSound', NEW path, NEW disposition \in DOMAIN Disposition,
         NEW mode \in Modes, NEW directory \in BOOLEAN,
         OpenFile(path, disposition, mode, directory)
  PROVE  Promised!Next \/ UNCHANGED <<At, size>>
<1> DEFINE f   == Resolved(path)
           how == Disposition[disposition]
<1>1. CASE UNCHANGED <<handles, host>>
  <2>1. At' = At
    BY <1>1 DEF At, OwnFd, handles
  <2>2. CASE size' = size
    BY <2>1, <2>2
  <2>3. CASE size' # size
    <3>1. size' = AfterOpen(f, how)
      BY <2>3 DEF OpenFile, Unchanged
    <3>2. f \in DOMAIN size
      BY <2>3, <3>1 DEF AfterOpen, FilesSound, TypeOK
    <3>3. Promised!Touched(f)
      BY <3>1, AfterOpenTouches
    <3>4. Promised!OpenFails
      BY <2>1, <3>2, <3>3 DEF Promised!OpenFails
    <3>5. QED BY <3>4 DEF Promised!Next
  <2>4. QED BY <2>2, <2>3
<1>2. CASE Opened(f, disposition, mode) /\ size' = AfterOpen(f, how)
  <2>1. PICK fd \in First(FreeFds) :
          /\ HandlesAdd("file", fd, NoObject)
          /\ host' = [host EXCEPT ![fd] = Descriptor(f, 0, mode)]
    BY <1>2 DEF Opened
  <2>2. PICK h \in Slot : entries' = [entries EXCEPT ![h] = Entry("file", fd, NoObject)]
    BY <2>1 DEF HandlesAdd
  <2>3. fd \in Fd /\ host[fd] = NoFd /\ h \in Handle /\ entries[h] = Unused
    BY SlotVacant DEF First, FreeFds, FilesSound
  <2>4. /\ \A k \in Handle : entries'[k] = IF k = h THEN Entry("file", fd, NoObject)
                                                     ELSE entries[k]
        /\ \A g \in Fd : host'[g] = IF g = fd THEN Descriptor(f, 0, mode) ELSE host[g]
    BY <2>1, <2>2, <2>3 DEF FilesSound, TypeOK
  <2>5. At[h] = NoFd
    BY <2>3, AtIs DEF Unused, Entry
  <2>6. At'[h] = [file |-> f, pos |-> 0] /\ At'[h] # NoFd
    <3>1. entries'[h].type = "file" /\ entries'[h].fd = fd
      BY <2>3, <2>4 DEF Entry
    <3>2. host'[fd].file = f /\ host'[fd].pos = 0
      BY <2>3, <2>4 DEF Descriptor
    <3>3. \A file : host'[fd] # NoFd /\ [file |-> file, pos |-> 0] # NoFd
      BY <3>2, PosTells, FilesAssumption
    <3>4. At'[h] = [file |-> f, pos |-> 0]
      BY <2>3, <3>1, <3>2, <3>3 DEF At, OwnFd
    <3>5. QED BY <3>3, <3>4
  <2>7. \A k \in Handle : k # h => At'[k] = At[k]
    <3> SUFFICES ASSUME NEW k \in Handle, k # h PROVE At'[k] = At[k]
      OBVIOUS
    <3>1. entries'[k] = entries[k]
      BY <2>4
    <3>2. entries[k].type = "file" => entries[k].fd \in Fd /\ entries[k].fd # fd
      BY <2>3 DEF FilesSound, TypeOK, OwnedOnce, HasFd
    <3>3. entries[k].type = "file" => host'[entries[k].fd] = host[entries[k].fd]
      BY <2>4, <3>2
    <3>4. QED BY <3>1, <3>3 DEF At, OwnFd
  <2>8. At' = [At EXCEPT ![h] = At'[h]]
    BY <2>3, <2>7 DEF At
  <2>9. Promised!Touched(At'[h].file)
    BY <1>2, <2>6, AfterOpenTouches
  <2>10. Promised!Open(h)
    BY <2>5, <2>6, <2>8, <2>9 DEF Promised!Open
  <2>11. QED BY <2>3, <2>10 DEF Promised!Next
<1>3. \/ Unchanged
      \/ /\ size' = AfterOpen(f, how)
         /\ Denied(f, mode) \/ TableFull(f, mode) \/ Opened(f, disposition, mode)
  BY DEF OpenFile
<1>4. Unchanged \/ Denied(f, mode) \/ TableFull(f, mode) => UNCHANGED <<handles, host>>
  BY DEF Unchanged, Denied, TableFull, Discard
<1>5. QED BY <1>1, <1>2, <1>3, <1>4

\* A handle's own descriptor moves.
LEMMA PosMaps ==
  ASSUME FilesSound, NEW h, ResolvesToFile(h), NEW pos \in 0 .. MaxSize, PosOf(h, pos),
         UNCHANGED handles, Kept(objects), size' \in [Files -> Missing .. MaxSize]
  PROVE  /\ h \in Handle /\ At[h] # NoFd /\ At'[h] # NoFd
         /\ At' = [At EXCEPT ![h] = At'[h]]
         /\ At[h].file = Of(h).file /\ At[h].pos = Of(h).pos
         /\ At'[h].file = Of(h).file /\ At'[h].pos = pos
<1> DEFINE own == entries[h].fd
<1>1. /\ h \in Handle /\ entries[h].type = "file" /\ own \in Fd
  BY ResolvesToOwn DEF FilesSound, HasFd
<1>2. /\ FilesSound'
      /\ host'[own] = [Of(h) EXCEPT !.pos = pos]
      /\ \A fd \in Fd : fd # own => host'[fd] = host[fd]
  BY PosSound
<1>3. Of(h) = host[own] /\ Of(h) \in Descriptors
  BY OfOwn
<1>4. host'[own].file = Of(h).file /\ host'[own].pos = pos
  BY <1>2, <1>3 DEF Descriptors
<1>5. At[h] = Place(own) /\ At[h] # NoFd
  BY <1>1, AtIs
<1>6. entries' = entries
  BY DEF handles
<1>7. At'[h] # NoFd /\ At'[h] = [file |-> host'[own].file, pos |-> host'[own].pos]
  <2>1. \A file : host'[own] # NoFd /\ [file |-> file, pos |-> pos] # NoFd
    BY <1>4, PosTells
  <2>2. At'[h] = [file |-> host'[own].file, pos |-> host'[own].pos]
    BY <1>1, <1>6, <2>1 DEF At, OwnFd
  <2>3. QED BY <1>4, <2>1, <2>2
<1>8. \A k \in Handle : k # h => At'[k] = At[k]
  <2> SUFFICES ASSUME NEW k \in Handle, k # h PROVE At'[k] = At[k]
    OBVIOUS
  <2>1. entries[k].type = "file" => entries[k].fd \in Fd /\ entries[k].fd # own
    BY <1>1 DEF FilesSound, TypeOK, OwnedOnce, HasFd
  <2>2. QED BY <1>2, <1>6, <2>1 DEF At, OwnFd
<1>9. At' = [At EXCEPT ![h] = At'[h]]
  BY <1>1, <1>8 DEF At
<1>10. QED BY <1>1, <1>3, <1>4, <1>5, <1>7, <1>9 DEF Place

LEMMA CloseMaps ==
  ASSUME FilesSound, FilesSound', NEW h, CloseHandle(h)
  PROVE  Promised!Next \/ UNCHANGED <<At, size>>
<1>1. /\ h \in Handle
      /\ \A k \in Handle : entries'[k] = IF k = h THEN Unused ELSE entries[k]
      /\ \A fd \in Fd : host'[fd] = IF HasFd(h, fd) THEN NoFd ELSE host[fd]
      /\ UNCHANGED size
  BY CloseFields
<1>2. At'[h] = NoFd
  BY <1>1 DEF At, Unused, Entry
<1>3. \A k \in Handle : k # h => At'[k] = At[k]
  <2> SUFFICES ASSUME NEW k \in Handle, k # h PROVE At'[k] = At[k]
    OBVIOUS
  <2>1. entries'[k] = entries[k]
    BY <1>1
  <2>2. entries[k].type = "file" => entries[k].fd \in Fd /\ ~HasFd(h, entries[k].fd)
    BY <1>1 DEF FilesSound, TypeOK, OwnedOnce, HasFd
  <2>3. QED BY <1>1, <2>1, <2>2 DEF At, OwnFd
<1>4. At' = [At EXCEPT ![h] = NoFd]
  BY <1>1, <1>2, <1>3 DEF At
<1>5. CASE At[h] = NoFd
  <2>1. At' = At
    BY <1>1, <1>4, <1>5 DEF At
  <2>2. QED BY <1>1, <2>1
<1>6. CASE At[h] # NoFd
  <2>1. h \in Promised!OpenHandles
    BY <1>1, <1>6 DEF Promised!OpenHandles
  <2>2. Promised!Close(h)
    BY <1>1, <1>4 DEF Promised!Close
  <2>3. QED BY <2>1, <2>2 DEF Promised!Next
<1>7. QED BY <1>5, <1>6

LEMMA EventMaps ==
  ASSUME FilesSound, NEW object \in Objects, CreateEvent(object)
  PROVE  UNCHANGED <<At, size>>
<1>1. host' = host /\ size' = size
  BY DEF CreateEvent
<1>2. CASE UNCHANGED handles
  BY <1>1, <1>2 DEF handles, At, OwnFd
<1>3. CASE HandlesAdd("event", -1, object)
  <2>1. PICK h \in Slot : entries' = [entries EXCEPT ![h] = Entry("event", -1, object)]
    BY <1>3 DEF HandlesAdd
  <2>2. h \in Handle /\ entries[h] = Unused
    BY SlotVacant DEF FilesSound
  <2>3. \A k \in Handle : entries'[k] = IF k = h THEN Entry("event", -1, object) ELSE entries[k]
    BY <2>1, <2>2 DEF FilesSound, TypeOK
  <2>4. \A k \in Handle : IF entries'[k].type = "file" THEN entries'[k] = entries[k]
                                                      ELSE entries[k].type # "file"
    BY <2>2, <2>3 DEF Unused, Entry
  <2>5. At' = At
    BY <1>1, <2>4 DEF At, OwnFd
  <2>6. QED BY <1>1, <2>5
<1>4. QED BY <1>2, <1>3 DEF CreateEvent

LEMMA StepMaps ==
  IInv /\ IInv' /\ [Next]_vars => [Promised!Next]_<<At, size>>
<1> SUFFICES ASSUME IInv, IInv', [Next]_vars
             PROVE  Promised!Next \/ UNCHANGED <<At, size>>
  OBVIOUS
<1>1. FilesSound /\ FilesSound' /\ TypeOK
  BY DEF IInv, FilesSound
<1>2. CASE NtCreateFile
  <2>1. PICK name \in Paths :
          \E disposition \in DOMAIN Disposition, mode \in Modes, directory \in BOOLEAN :
            OpenFile(TranslatePath(name), disposition, mode, directory)
    BY <1>2 DEF NtCreateFile
  <2>2. QED BY <1>1, <2>1, OpenFileMaps
<1>3. CASE NtOpenFile
  <2>1. PICK name \in Paths : \E mode \in Modes, directory \in BOOLEAN :
          OpenFile(TranslatePath(name), "open", mode, directory)
    BY <1>3 DEF NtOpenFile
  <2>2. "open" \in DOMAIN Disposition
    BY DEF Disposition
  <2>3. QED BY <1>1, <2>1, <2>2, OpenFileMaps
<1>4. CASE NtReadFile
  <2>1. PICK h \in HandleValues, n \in 1 .. MaxSize, offset \in {Missing} \cup 0 .. MaxSize :
          ReadFile(h, n, offset)
    BY <1>4 DEF NtReadFile
  <2>2. /\ ResolvesToFile(h) /\ \E pos \in 0 .. MaxSize : PosOf(h, pos)
        /\ UNCHANGED <<handles, size>> /\ Kept(objects)
    BY <1>1, <2>1, ReadMoves
  <2>3. /\ h \in Handle /\ At[h] # NoFd /\ At'[h] # NoFd
        /\ At' = [At EXCEPT ![h] = At'[h]] /\ At'[h].file = At[h].file
    BY <1>1, <2>2, PosMaps DEF TypeOK
  <2>4. h \in Promised!OpenHandles /\ Promised!Seek(h)
    BY <2>2, <2>3 DEF Promised!OpenHandles, Promised!Seek
  <2>5. QED BY <2>4 DEF Promised!Next
<1>5. CASE NtWriteFile
  <2>1. PICK h \in HandleValues, n \in 1 .. MaxSize : WriteFile(h, n)
    BY <1>5 DEF NtWriteFile
  <2> DEFINE pos == Of(h).pos + n
             f   == Of(h).file
  <2>2. /\ ResolvesToFile(h) /\ f \in Files
        /\ pos \in 0 .. MaxSize /\ Of(h).pos < pos /\ PosOf(h, pos)
        /\ size' = [size EXCEPT ![f] = IF @ < pos THEN pos ELSE @]
        /\ size' \in [Files -> Missing .. MaxSize]
        /\ UNCHANGED handles /\ Kept(objects)
    BY <1>1, <2>1, WriteMoves
  <2> HIDE DEF pos
  <2>3. /\ h \in Handle /\ At[h] # NoFd /\ At'[h] # NoFd
        /\ At' = [At EXCEPT ![h] = At'[h]]
        /\ At[h].file = f /\ At[h].pos = Of(h).pos
        /\ At'[h].file = f /\ At'[h].pos = pos
    BY <1>1, <2>2, PosMaps
  <2>4. h \in Promised!OpenHandles /\ Promised!Write(h)
    BY <2>2, <2>3 DEF Promised!OpenHandles, Promised!Write
  <2>5. QED BY <2>4 DEF Promised!Next
<1>6. CASE NtClose
  BY <1>1, <1>6, CloseMaps DEF NtClose
<1>7. CASE NtCreateEvent
  BY <1>1, <1>7, EventMaps DEF NtCreateEvent
<1>8. CASE NoFileIo \/ UNCHANGED vars
  BY <1>8 DEF NoFileIo, Unchanged, vars, handles, At, OwnFd
<1>9. QED BY <1>2, <1>3, <1>4, <1>5, <1>6, <1>7, <1>8 DEF Next

(* The calls implement open files with positions of their own (sys_file.c). *)
THEOREM OpenFilesCorrect == Spec => ImplementsOpenFiles
<1>1. Init => Promised!Init
  <2> SUFFICES ASSUME Init PROVE Promised!Init
    OBVIOUS
  <2>1. \A h \in Handle : entries[h].type # "file"
    BY DEF Init, HandlesInit, Entry, Unused, StdIn, StdOut, StdErr
  <2>2. At = [h \in Handle |-> NoFd]
    BY <2>1 DEF At
  <2>3. size \in [Files -> Int]
    BY FilesAssumption DEF Init, Missing
  <2>4. QED BY <2>2, <2>3 DEF Promised!Init
<1>2. QED BY <1>1, StepMaps, Inductive, PTL DEF Spec, ImplementsOpenFiles, Promised!Spec

(***************************************************************************)
(* Paths.  The loop of vfs_translate_path_ex goes over the characters once *)
(* and works in place on what it has written; what a path means goes over  *)
(* its names.  Follows relates the two after every character: the names    *)
(* written so far are those the directory reached consists of, each with   *)
(* its separator, and the component at hand is the name at hand.  A "."    *)
(* that is not the first name loses the separator before it, so there      *)
(* Follows only says which names were written; a letter after it makes it  *)
(* an inner ".", which PathsMeant excludes.                                *)
(***************************************************************************)
\* Induction over the natural numbers, for a set instead of a predicate.
LEMMA Induct ==
  ASSUME NEW S, 0 \in S, \A n \in Nat : n \in S => n + 1 \in S
  PROVE  Nat \subseteq S
<1> DEFINE T == Nat \ S
           R == OpToRel(<, Nat)
<1>1. SUFFICES ASSUME T # {} PROVE FALSE
  OBVIOUS
<1>2. IsWellFoundedOn(R, Nat)
  BY NatLessThanWellFounded
<1>3. PICK x \in T : \A y \in T : <<y, x>> \notin R
  <2> HIDE DEF R
  <2> QED BY <1>1, <1>2, WFMin
<1>4. x \in Nat /\ x # 0 /\ x \notin S
  OBVIOUS
<1>5. x - 1 \in Nat /\ x - 1 \notin S
  BY <1>4
<1>6. <<x - 1, x>> \in R
  <2>1. x - 1 < x /\ <<x - 1, x>> \in Nat \X Nat
    BY <1>4, <1>5
  <2>2. QED BY <2>1 DEF OpToRel
<1>7. QED BY <1>3, <1>5, <1>6

LEMMA MaxIs ==
  ASSUME NEW n \in Nat, NEW s \in SUBSET (1 .. n), s # {}
  PROVE  Max(s) \in s /\ \A y \in s : y <= Max(s)
<1> DEFINE Has(s_) == \E x \in s_ : \A y \in s_ : x >= y
           S == {k \in Nat : \A t \in SUBSET (1 .. k) : t # {} => Has(t)}
<1>1. 0 \in S
  <2>1. 1 .. 0 = {}
    OBVIOUS
  <2>2. \A t \in SUBSET (1 .. 0) : t = {}
    BY <2>1
  <2> QED BY <2>2
<1>2. ASSUME NEW k \in Nat, k \in S PROVE k + 1 \in S
  <2>1. SUFFICES ASSUME NEW t \in SUBSET (1 .. k + 1), t # {} PROVE Has(t)
    OBVIOUS
  <2>2. CASE k + 1 \in t
    <3>1. \A y \in t : k + 1 >= y
      OBVIOUS
    <3> QED BY <2>2, <3>1
  <2>3. CASE k + 1 \notin t
    <3>1. t \in SUBSET (1 .. k)
      BY <2>3
    <3> QED BY <1>2, <2>1, <3>1
  <2> QED BY <2>2, <2>3
<1> HIDE DEF S
<1>3. Nat \subseteq S
  BY <1>1, <1>2, Induct
<1>4. Has(s)
  BY <1>3 DEF S
<1>5. Max(s) \in s /\ \A y \in s : Max(s) >= y
  BY <1>4 DEF Max
<1> QED BY <1>5

(***************************************************************************)
(* The folds, over the characters and over the names.  All of them as one, *)
(* so that one proof shows that the functions exist that FoldLeft chooses. *)
(***************************************************************************)
Fold1(kind, a, c) ==
  CASE kind = "read" -> Read(a, c)
    [] kind = "walk" -> Step(a, c)
    [] kind = "host" -> Scanned(a, c, "/")
    [] OTHER         -> Scanned(a, c, "\\")

IsFold(kind, base, q, f) ==
  f = [s \in SUBSET DOMAIN q |->
         IF s = {} THEN base ELSE Fold1(kind, f[s \ {Max(s)}], q[Max(s)])]

LEMMA FoldExists ==
  ASSUME NEW kind, NEW base, NEW q, NEW n \in Nat, DOMAIN q = 1 .. n
  PROVE  \E f : IsFold(kind, base, q, f)
<1> DEFINE D == SUBSET (1 .. n)
           Next1(f, s) == IF s = {} THEN base ELSE Fold1(kind, f[s \ {Max(s)}], q[Max(s)])
           Solved(f, k) == /\ f = [s \in D |-> f[s]]
                           /\ \A s \in D : s \subseteq 1 .. k => f[s] = Next1(f, s)
           S == {k \in Nat : \E f : Solved(f, k)}
<1>1. 0 \in S
  <2> DEFINE f == [s \in D |-> base]
  <2>1. \A s \in D : s \subseteq 1 .. 0 => f[s] = Next1(f, s)
    <3> SUFFICES ASSUME NEW s \in D, s \subseteq 1 .. 0 PROVE s = {}
      OBVIOUS
    <3> QED OBVIOUS
  <2>2. Solved(f, 0)
    BY <2>1
  <2> HIDE DEF Solved
  <2> QED BY <2>2
<1>2. ASSUME NEW k \in Nat, k \in S PROVE k + 1 \in S
  <2>1. PICK f : Solved(f, k)
    BY <1>2
  <2> DEFINE g == [s \in D |-> IF s \subseteq 1 .. k THEN f[s] ELSE Next1(f, s)]
  <2>2. ASSUME NEW s \in D, s \subseteq 1 .. (k + 1) PROVE g[s] = Next1(g, s)
    <3>1. Next1(g, s) = Next1(f, s)
      <4>1. SUFFICES ASSUME s # {} PROVE g[s \ {Max(s)}] = f[s \ {Max(s)}]
        OBVIOUS
      <4>2. Max(s) \in s /\ \A y \in s : y <= Max(s)
        BY <4>1, MaxIs
      <4>3. s \ {Max(s)} \subseteq 1 .. k /\ s \ {Max(s)} \in D
        <5> SUFFICES ASSUME NEW y \in s, y # Max(s) PROVE y \in 1 .. k
          OBVIOUS
        <5> DEFINE m == Max(s)
        <5>1. m \in s /\ y <= m /\ y # m
          BY <4>2
        <5>2. m \in 1 .. (k + 1) /\ y \in 1 .. (k + 1)
          BY <2>2, <5>1
        <5> HIDE DEF m
        <5> QED BY <5>1, <5>2
      <4> QED BY <4>3
    <3>2. g[s] = Next1(f, s)
      BY <2>1
    <3> QED BY <3>1, <3>2
  <2>3. g = [s \in D |-> g[s]]
    OBVIOUS
  <2> HIDE DEF g
  <2>4. Solved(g, k + 1)
    BY <2>2, <2>3
  <2> HIDE DEF Solved
  <2> QED BY <2>4
<1>3. n \in S
  <2> HIDE DEF S
  <2> QED BY <1>1, <1>2, Induct
<1>4. PICK f : Solved(f, n)
  BY <1>3
<1>5. \A s \in D : f[s] = Next1(f, s)
  BY <1>4
<1>6. f = [s \in D |-> Next1(f, s)]
  BY <1>4, <1>5
<1> QED BY <1>6 DEF IsFold

\* One element more is one step more.
LEMMA FoldAppend ==
  ASSUME NEW kind, NEW base, NEW C, NEW q \in Seq(C), NEW c \in C, NEW f, NEW g,
         IsFold(kind, base, q, f), IsFold(kind, base, Append(q, c), g)
  PROVE  g[DOMAIN Append(q, c)] = Fold1(kind, f[DOMAIN q], c)
<1> DEFINE n == Len(q)
           r == Append(q, c)
           S == {k \in Nat : k <= n => f[1 .. k] = g[1 .. k]}
<1>1. /\ n \in Nat /\ DOMAIN q = 1 .. n /\ DOMAIN r = 1 .. (n + 1)
      /\ r[n + 1] = c /\ \A i \in 1 .. n : r[i] = q[i]
  <2>1. r \in Seq(C) /\ Len(r) = n + 1
    BY AppendProperties
  <2>2. DOMAIN r = 1 .. (n + 1)
    BY <2>1, LenProperties
  <2>3. n \in Nat /\ DOMAIN q = 1 .. n
    BY LenProperties
  <2> QED BY <2>2, <2>3, AppendProperties
<1> HIDE DEF n, r
<1>2. ASSUME NEW k \in Nat
      PROVE  Max(1 .. (k + 1)) = k + 1 /\ (1 .. (k + 1)) \ {k + 1} = 1 .. k
  <2>1. Max(1 .. (k + 1)) \in 1 .. (k + 1) /\ \A y \in 1 .. (k + 1) : y <= Max(1 .. (k + 1))
    <3>1. k + 1 \in Nat /\ k + 1 \in 1 .. (k + 1)
      OBVIOUS
    <3> DEFINE s == 1 .. (k + 1)
    <3>2. s \in SUBSET (1 .. (k + 1)) /\ s # {}
      BY <3>1
    <3> HIDE DEF s
    <3>3. Max(s) \in s /\ \A y \in s : y <= Max(s)
      BY <3>1, <3>2, MaxIs
    <3> QED BY <3>3 DEF s
  <2>2. k + 1 <= Max(1 .. (k + 1))
    <3>1. k + 1 \in 1 .. (k + 1)
      OBVIOUS
    <3> QED BY <2>1, <3>1
  <2> DEFINE m == Max(1 .. (k + 1))
  <2> HIDE DEF m
  <2>3. m = k + 1
    BY <2>1, <2>2 DEF m
  <2> QED BY <2>3 DEF m
<1>3. ASSUME NEW k \in Nat, k < n
      PROVE  f[1 .. (k + 1)] = Fold1(kind, f[1 .. k], q[k + 1])
  <2>1. 1 .. (k + 1) \in SUBSET DOMAIN q /\ 1 .. (k + 1) # {}
    <3>1. k + 1 \in 1 .. (k + 1) /\ \A y \in 1 .. (k + 1) : y \in DOMAIN q
      BY <1>1, <1>3
    <3> QED BY <3>1
  <2>2. f[1 .. (k + 1)] = Fold1(kind, f[(1 .. (k + 1)) \ {Max(1 .. (k + 1))}], q[Max(1 .. (k + 1))])
    BY <2>1 DEF IsFold
  <2> QED BY <1>2, <2>2
<1>4. ASSUME NEW k \in Nat, k <= n
      PROVE  g[1 .. (k + 1)] = Fold1(kind, g[1 .. k], r[k + 1])
  <2>1. 1 .. (k + 1) \in SUBSET DOMAIN r /\ 1 .. (k + 1) # {}
    <3>1. k + 1 \in 1 .. (k + 1) /\ \A y \in 1 .. (k + 1) : y \in DOMAIN r
      BY <1>1, <1>4
    <3> QED BY <3>1
  <2>2. g[1 .. (k + 1)] = Fold1(kind, g[(1 .. (k + 1)) \ {Max(1 .. (k + 1))}], r[Max(1 .. (k + 1))])
    BY <2>1 DEF IsFold, r
  <2> QED BY <1>2, <2>2
<1>5. 0 \in S
  <2>1. 1 .. 0 = {}
    OBVIOUS
  <2>2. {} \in SUBSET DOMAIN q /\ {} \in SUBSET DOMAIN Append(q, c)
    OBVIOUS
  <2>3. f[{}] = base
    BY <2>2 DEF IsFold
  <2>4. g[{}] = base
    BY <2>2 DEF IsFold
  <2> QED BY <2>1, <2>3, <2>4
<1>6. ASSUME NEW k \in Nat, k \in S PROVE k + 1 \in S
  <2>1. SUFFICES ASSUME k + 1 <= n PROVE f[1 .. (k + 1)] = g[1 .. (k + 1)]
    OBVIOUS
  <2>2. k < n /\ k <= n /\ k + 1 \in 1 .. n
    BY <1>1, <2>1
  <2>3. f[1 .. k] = g[1 .. k] /\ r[k + 1] = q[k + 1]
    BY <1>1, <1>6, <2>2
  <2> QED BY <1>3, <1>4, <2>2, <2>3
<1>7. f[1 .. n] = g[1 .. n]
  <2>1. Nat \subseteq S
    <3> HIDE DEF S
    <3> QED BY <1>5, <1>6, Induct
  <2> QED BY <1>1, <2>1
<1>8. g[1 .. (n + 1)] = Fold1(kind, g[1 .. n], r[n + 1])
  BY <1>1, <1>4
<1> QED BY <1>1, <1>7, <1>8 DEF r

LEMMA FoldEmpty ==
  ASSUME NEW kind, NEW base, NEW f, IsFold(kind, base, <<>>, f)
  PROVE  f[DOMAIN <<>>] = base
<1>1. DOMAIN <<>> = {}
  <2>1. <<>> \in Seq({}) /\ Len(<<>>) = 0
    BY EmptySeq
  <2>2. DOMAIN <<>> = 1 .. 0
    BY <2>1, LenProperties
  <2> QED BY <2>2
<1> QED BY <1>1 DEF IsFold

\* The names of the empty path.
NoNames == [names |-> <<>>, last |-> <<>>]

\* FoldLeft is a fold, and its equations follow: for the loop, ...
LEMMA ReadFold ==
  ASSUME NEW q, NEW n \in Nat, DOMAIN q = 1 .. n
  PROVE  \E f : IsFold("read", Start, q, f) /\ FoldLeft(Read, Start, q) = f[DOMAIN q]
<1> DEFINE Is(f) == f = [s \in SUBSET DOMAIN q |->
                           IF s = {} THEN Start ELSE Read(f[s \ {Max(s)}], q[Max(s)])]
           iter == CHOOSE f : Is(f)
<1>1. \A f : Is(f) <=> IsFold("read", Start, q, f)
  BY DEF IsFold, Fold1
<1>2. \E f : Is(f)
  <2>1. \E f : IsFold("read", Start, q, f)
    BY FoldExists
  <2> QED BY <1>1, <2>1
<1>3. Is(iter)
  <2> HIDE DEF Is
  <2> QED BY <1>2
<1>4. FoldLeft(Read, Start, q) = iter[DOMAIN q]
  BY Zenon DEF FoldLeft, MapThenFoldSet
<1> HIDE DEF iter, Is
<1> QED BY <1>1, <1>3, <1>4

LEMMA ReadIs ==
  /\ FoldLeft(Read, Start, <<>>) = Start
  /\ \A C : \A q \in Seq(C) : \A c \in C :
       FoldLeft(Read, Start, Append(q, c)) = Read(FoldLeft(Read, Start, q), c)
<1>1. FoldLeft(Read, Start, <<>>) = Start
  <2>1. <<>> \in Seq({}) /\ Len(<<>>) = 0
    BY EmptySeq
  <2>2. DOMAIN <<>> = 1 .. 0
    BY <2>1, LenProperties
  <2>3. PICK f : IsFold("read", Start, <<>>, f) /\ FoldLeft(Read, Start, <<>>) = f[DOMAIN <<>>]
    BY <2>2, ReadFold
  <2> QED BY <2>3, FoldEmpty
<1>2. ASSUME NEW C, NEW q \in Seq(C), NEW c \in C
      PROVE  FoldLeft(Read, Start, Append(q, c)) = Read(FoldLeft(Read, Start, q), c)
  <2>1. Len(q) \in Nat /\ DOMAIN q = 1 .. Len(q)
    BY LenProperties
  <2>2. Append(q, c) \in Seq(C)
    BY AppendProperties
  <2>3. Len(Append(q, c)) \in Nat /\ DOMAIN Append(q, c) = 1 .. Len(Append(q, c))
    BY <2>2, LenProperties
  <2>4. PICK f : /\ IsFold("read", Start, q, f)
                 /\ FoldLeft(Read, Start, q) = f[DOMAIN q]
    BY <2>1, ReadFold
  <2>5. PICK g : /\ IsFold("read", Start, Append(q, c), g)
                 /\ FoldLeft(Read, Start, Append(q, c)) = g[DOMAIN Append(q, c)]
    BY <2>3, ReadFold
  <2>6. g[DOMAIN Append(q, c)] = Fold1("read", f[DOMAIN q], c)
    BY <2>4, <2>5, FoldAppend
  <2> QED BY <2>4, <2>5, <2>6 DEF Fold1
<1> QED BY <1>1, <1>2

\* ... for walking along names, ...
LEMMA WalkFold ==
  ASSUME NEW q, NEW n \in Nat, DOMAIN q = 1 .. n
  PROVE  \E f : IsFold("walk", <<>>, q, f) /\ Walk(q) = f[DOMAIN q]
<1> DEFINE Is(f) == f = [s \in SUBSET DOMAIN q |->
                           IF s = {} THEN <<>> ELSE Step(f[s \ {Max(s)}], q[Max(s)])]
           iter == CHOOSE f : Is(f)
<1>1. \A f : Is(f) <=> IsFold("walk", <<>>, q, f)
  BY DEF IsFold, Fold1
<1>2. \E f : Is(f)
  <2>1. \E f : IsFold("walk", <<>>, q, f)
    BY FoldExists
  <2> QED BY <1>1, <2>1
<1>3. Is(iter)
  <2> HIDE DEF Is
  <2> QED BY <1>2
<1>4. Walk(q) = iter[DOMAIN q]
  BY Zenon DEF FoldLeft, MapThenFoldSet, Walk
<1> HIDE DEF iter, Is
<1> QED BY <1>1, <1>3, <1>4

LEMMA WalkIs ==
  /\ Walk(<<>>) = <<>>
  /\ \A C : \A q \in Seq(C) : \A c \in C : Walk(Append(q, c)) = Step(Walk(q), c)
<1>1. Walk(<<>>) = <<>>
  <2>1. <<>> \in Seq({}) /\ Len(<<>>) = 0
    BY EmptySeq
  <2>2. DOMAIN <<>> = 1 .. 0
    BY <2>1, LenProperties
  <2>3. PICK f : IsFold("walk", <<>>, <<>>, f) /\ Walk(<<>>) = f[DOMAIN <<>>]
    BY <2>2, WalkFold
  <2> QED BY <2>3, FoldEmpty
<1>2. ASSUME NEW C, NEW q \in Seq(C), NEW c \in C
      PROVE  Walk(Append(q, c)) = Step(Walk(q), c)
  <2>1. Len(q) \in Nat /\ DOMAIN q = 1 .. Len(q)
    BY LenProperties
  <2>2. Append(q, c) \in Seq(C)
    BY AppendProperties
  <2>3. Len(Append(q, c)) \in Nat /\ DOMAIN Append(q, c) = 1 .. Len(Append(q, c))
    BY <2>2, LenProperties
  <2>4. PICK f : /\ IsFold("walk", <<>>, q, f)
                 /\ Walk(q) = f[DOMAIN q]
    BY <2>1, WalkFold
  <2>5. PICK g : /\ IsFold("walk", <<>>, Append(q, c), g)
                 /\ Walk(Append(q, c)) = g[DOMAIN Append(q, c)]
    BY <2>3, WalkFold
  <2>6. g[DOMAIN Append(q, c)] = Fold1("walk", f[DOMAIN q], c)
    BY <2>4, <2>5, FoldAppend
  <2> QED BY <2>4, <2>5, <2>6 DEF Fold1
<1> QED BY <1>1, <1>2

\* ... for the names as the host reads them ...
LEMMA HostFold ==
  ASSUME NEW q, NEW n \in Nat, DOMAIN q = 1 .. n
  PROVE  \E f : IsFold("host", NoNames, q, f) /\ Scan(q, "/") = f[DOMAIN q]
<1> DEFINE Is(f) == f = [s \in SUBSET DOMAIN q |->
                           IF s = {} THEN NoNames ELSE Scanned(f[s \ {Max(s)}], q[Max(s)], "/")]
           iter == CHOOSE f : Is(f)
<1>1. \A f : Is(f) <=> IsFold("host", NoNames, q, f)
  BY DEF IsFold, Fold1
<1>2. \E f : Is(f)
  <2>1. \E f : IsFold("host", NoNames, q, f)
    BY FoldExists
  <2> QED BY <1>1, <2>1
<1>3. Is(iter)
  <2> HIDE DEF Is
  <2> QED BY <1>2
<1>4. Scan(q, "/") = iter[DOMAIN q]
  BY Zenon DEF FoldLeft, MapThenFoldSet, Scan, NoNames
<1> HIDE DEF iter, Is
<1> QED BY <1>1, <1>3, <1>4

LEMMA HostIs ==
  /\ Scan(<<>>, "/") = NoNames
  /\ \A C : \A q \in Seq(C) : \A c \in C :
       Scan(Append(q, c), "/") = Scanned(Scan(q, "/"), c, "/")
<1>1. Scan(<<>>, "/") = NoNames
  <2>1. <<>> \in Seq({}) /\ Len(<<>>) = 0
    BY EmptySeq
  <2>2. DOMAIN <<>> = 1 .. 0
    BY <2>1, LenProperties
  <2>3. PICK f : IsFold("host", NoNames, <<>>, f) /\ Scan(<<>>, "/") = f[DOMAIN <<>>]
    BY <2>2, HostFold
  <2> QED BY <2>3, FoldEmpty
<1>2. ASSUME NEW C, NEW q \in Seq(C), NEW c \in C
      PROVE  Scan(Append(q, c), "/") = Scanned(Scan(q, "/"), c, "/")
  <2>1. Len(q) \in Nat /\ DOMAIN q = 1 .. Len(q)
    BY LenProperties
  <2>2. Append(q, c) \in Seq(C)
    BY AppendProperties
  <2>3. Len(Append(q, c)) \in Nat /\ DOMAIN Append(q, c) = 1 .. Len(Append(q, c))
    BY <2>2, LenProperties
  <2>4. PICK f : /\ IsFold("host", NoNames, q, f)
                 /\ Scan(q, "/") = f[DOMAIN q]
    BY <2>1, HostFold
  <2>5. PICK g : /\ IsFold("host", NoNames, Append(q, c), g)
                 /\ Scan(Append(q, c), "/") = g[DOMAIN Append(q, c)]
    BY <2>3, HostFold
  <2>6. g[DOMAIN Append(q, c)] = Fold1("host", f[DOMAIN q], c)
    BY <2>4, <2>5, FoldAppend
  <2> QED BY <2>4, <2>5, <2>6 DEF Fold1
<1> QED BY <1>1, <1>2

\* ... and as the program means them.
LEMMA GuestFold ==
  ASSUME NEW q, NEW n \in Nat, DOMAIN q = 1 .. n
  PROVE  \E f : IsFold("guest", NoNames, q, f) /\ Scan(q, "\\") = f[DOMAIN q]
<1> DEFINE Is(f) == f = [s \in SUBSET DOMAIN q |->
                           IF s = {} THEN NoNames ELSE Scanned(f[s \ {Max(s)}], q[Max(s)], "\\")]
           iter == CHOOSE f : Is(f)
<1>1. \A f : Is(f) <=> IsFold("guest", NoNames, q, f)
  BY DEF IsFold, Fold1
<1>2. \E f : Is(f)
  <2>1. \E f : IsFold("guest", NoNames, q, f)
    BY FoldExists
  <2> QED BY <1>1, <2>1
<1>3. Is(iter)
  <2> HIDE DEF Is
  <2> QED BY <1>2
<1>4. Scan(q, "\\") = iter[DOMAIN q]
  BY Zenon DEF FoldLeft, MapThenFoldSet, Scan, NoNames
<1> HIDE DEF iter, Is
<1> QED BY <1>1, <1>3, <1>4

LEMMA GuestIs ==
  /\ Scan(<<>>, "\\") = NoNames
  /\ \A C : \A q \in Seq(C) : \A c \in C :
       Scan(Append(q, c), "\\") = Scanned(Scan(q, "\\"), c, "\\")
<1>1. Scan(<<>>, "\\") = NoNames
  <2>1. <<>> \in Seq({}) /\ Len(<<>>) = 0
    BY EmptySeq
  <2>2. DOMAIN <<>> = 1 .. 0
    BY <2>1, LenProperties
  <2>3. PICK f : IsFold("guest", NoNames, <<>>, f) /\ Scan(<<>>, "\\") = f[DOMAIN <<>>]
    BY <2>2, GuestFold
  <2> QED BY <2>3, FoldEmpty
<1>2. ASSUME NEW C, NEW q \in Seq(C), NEW c \in C
      PROVE  Scan(Append(q, c), "\\") = Scanned(Scan(q, "\\"), c, "\\")
  <2>1. Len(q) \in Nat /\ DOMAIN q = 1 .. Len(q)
    BY LenProperties
  <2>2. Append(q, c) \in Seq(C)
    BY AppendProperties
  <2>3. Len(Append(q, c)) \in Nat /\ DOMAIN Append(q, c) = 1 .. Len(Append(q, c))
    BY <2>2, LenProperties
  <2>4. PICK f : /\ IsFold("guest", NoNames, q, f)
                 /\ Scan(q, "\\") = f[DOMAIN q]
    BY <2>1, GuestFold
  <2>5. PICK g : /\ IsFold("guest", NoNames, Append(q, c), g)
                 /\ Scan(Append(q, c), "\\") = g[DOMAIN Append(q, c)]
    BY <2>3, GuestFold
  <2>6. g[DOMAIN Append(q, c)] = Fold1("guest", f[DOMAIN q], c)
    BY <2>4, <2>5, FoldAppend
  <2> QED BY <2>4, <2>5, <2>6 DEF Fold1
<1> QED BY <1>1, <1>2

(***************************************************************************)
(* Sequences.                                                              *)
(***************************************************************************)
LEMMA SeqInduct ==
  ASSUME NEW C, NEW S, <<>> \in S,
         \A q \in Seq(C) : \A c \in C : q \in S => Append(q, c) \in S
  PROVE  Seq(C) \subseteq S
<1> DEFINE N == {n \in Nat : \A q \in Seq(C) : Len(q) = n => q \in S}
<1>1. 0 \in N
  <2> SUFFICES ASSUME NEW q \in Seq(C), Len(q) = 0 PROVE q \in S
    OBVIOUS
  <2>1. q = <<>>
    BY EmptySeq
  <2> QED BY <2>1
<1>2. ASSUME NEW n \in Nat, n \in N PROVE n + 1 \in N
  <2>1. SUFFICES ASSUME NEW q \in Seq(C), Len(q) = n + 1 PROVE q \in S
    OBVIOUS
  <2>2. q # <<>>
    BY <2>1, EmptySeq
  <2>3. PICK p \in Seq(C), c \in C : q = Append(p, c)
    BY <2>2, SequenceEmptyOrAppend
  <2>4. Len(q) = Len(p) + 1 /\ Len(p) \in Nat
    BY <2>3, AppendProperties, LenProperties
  <2>5. p \in S
    BY <1>2, <2>1, <2>4
  <2> QED BY <2>3, <2>5
<1> HIDE DEF N
<1>3. Nat \subseteq N
  BY <1>1, <1>2, Induct
<1>4. \A q \in Seq(C) : Len(q) \in Nat
  BY LenProperties
<1> QED BY <1>3, <1>4 DEF N

\* The beginning of a sequence, an element longer at a time.
LEMMA UptoIs ==
  ASSUME NEW C, NEW q \in Seq(C)
  PROVE  /\ Len(q) \in Nat /\ SubSeq(q, 1, 0) = <<>> /\ SubSeq(q, 1, Len(q)) = q
         /\ \A k \in 0 .. Len(q) : /\ SubSeq(q, 1, k) \in Seq(C) /\ Len(SubSeq(q, 1, k)) = k
                                   /\ \A i \in 1 .. k : SubSeq(q, 1, k)[i] = q[i]
         /\ \A k \in 1 .. Len(q) : q[k] \in C /\ SubSeq(q, 1, k) = Append(SubSeq(q, 1, k - 1), q[k])
<1>1. Len(q) \in Nat /\ \A k \in 1 .. Len(q) : q[k] \in C
  BY LenProperties, ElementOfSeq
<1>2. SubSeq(q, 1, 0) = <<>> /\ SubSeq(q, 1, Len(q)) = q
  BY SubSeqEmpty, SubSeqFull
<1>3. ASSUME NEW k \in 0 .. Len(q)
      PROVE  /\ SubSeq(q, 1, k) \in Seq(C) /\ Len(SubSeq(q, 1, k)) = k
             /\ \A i \in 1 .. k : SubSeq(q, 1, k)[i] = q[i]
  <2>1. k \in Int /\ 1 \in Int /\ \A i \in 1 .. k : q[i] \in C
    BY <1>1, <1>3
  <2>2. /\ SubSeq(q, 1, k) \in Seq(C)
        /\ Len(SubSeq(q, 1, k)) = IF 1 <= k THEN k - 1 + 1 ELSE 0
        /\ \A i \in 1 .. k - 1 + 1 : SubSeq(q, 1, k)[i] = q[1 + i - 1]
    BY <2>1, SubSeqProperties
  <2>3. \A i \in 1 .. k : i \in 1 .. k - 1 + 1 /\ 1 + i - 1 = i
    BY <1>1, <1>3
  <2> QED BY <1>1, <1>3, <2>2, <2>3
<1>4. ASSUME NEW k \in 1 .. Len(q)
      PROVE  SubSeq(q, 1, k) = Append(SubSeq(q, 1, k - 1), q[k])
  <2> DEFINE p == SubSeq(q, 1, k - 1)
             r == SubSeq(q, 1, k)
             a == Append(p, q[k])
  <2>1. k - 1 \in 0 .. Len(q) /\ k \in 0 .. Len(q) /\ q[k] \in C
    BY <1>1, <1>4
  <2>2. p \in Seq(C) /\ Len(p) = k - 1 /\ \A i \in 1 .. k - 1 : p[i] = q[i]
    BY <1>3, <2>1
  <2>3. r \in Seq(C) /\ Len(r) = k /\ \A i \in 1 .. k : r[i] = q[i]
    BY <1>3, <2>1
  <2> HIDE DEF p, r
  <2>4. a \in Seq(C) /\ Len(a) = k /\ (\A i \in 1 .. k - 1 : a[i] = p[i]) /\ a[k] = q[k]
    BY <2>1, <2>2, AppendProperties
  <2>5. \A i \in 1 .. Len(a) : a[i] = r[i]
    BY <1>1, <2>2, <2>3, <2>4
  <2> HIDE DEF a
  <2>6. a = r
    BY <2>3, <2>4, <2>5, SeqEqual
  <2> QED BY <2>6 DEF a, p, r
<1> QED BY <1>1, <1>2, <1>3, <1>4

\* Taking the last element away again.
LEMMA FrontIs ==
  ASSUME NEW C, NEW q \in Seq(C), NEW c \in C
  PROVE  /\ Append(q, c) \in Seq(C) \ {<<>>} /\ Len(Append(q, c)) = Len(q) + 1
         /\ Append(q, c)[Len(q) + 1] = c /\ Len(q) \in Nat
         /\ \A i \in 1 .. Len(q) : Append(q, c)[i] = q[i]
         /\ \A k \in 0 .. Len(q) : SubSeq(Append(q, c), 1, k) = SubSeq(q, 1, k)
         /\ Front(Append(q, c)) = q
<1> DEFINE a == Append(q, c)
<1>1. /\ a \in Seq(C) /\ a # <<>> /\ Len(a) = Len(q) + 1 /\ Len(q) \in Nat
      /\ a[Len(q) + 1] = c /\ \A i \in 1 .. Len(q) : a[i] = q[i]
  BY AppendProperties, LenProperties
<1> HIDE DEF a
<1>2. ASSUME NEW k \in 0 .. Len(q) PROVE SubSeq(a, 1, k) = SubSeq(q, 1, k)
  <2> DEFINE r == SubSeq(a, 1, k)
             t == SubSeq(q, 1, k)
  <2>1. k \in 0 .. Len(a)
    BY <1>1, <1>2
  <2>2. r \in Seq(C) /\ Len(r) = k /\ \A i \in 1 .. k : r[i] = a[i]
    BY <1>1, <2>1, UptoIs
  <2>3. t \in Seq(C) /\ Len(t) = k /\ \A i \in 1 .. k : t[i] = q[i]
    BY <1>2, UptoIs
  <2> HIDE DEF r, t
  <2>4. \A i \in 1 .. k : r[i] = t[i]
    BY <1>1, <1>2, <2>2, <2>3
  <2>5. r = t
    BY <2>2, <2>3, <2>4, SeqEqual
  <2> QED BY <2>5 DEF r, t
<1>3. Front(a) = q
  <2>1. Front(a) = SubSeq(a, 1, Len(q))
    BY <1>1 DEF Front
  <2>2. Len(q) \in 0 .. Len(q)
    BY <1>1
  <2> QED BY <1>2, <2>1, <2>2, UptoIs
<1> QED BY <1>1, <1>2, <1>3 DEF a

(***************************************************************************)
(* Names, and walking along them.                                          *)
(***************************************************************************)
Word == Seq(Chars)
Name == Word \ {<<>>}
Out  == Chars \cup {"/"}

LEMMA CharFacts ==
  /\ "/" \notin Chars /\ Refused \notin Seq(Name) /\ Texts \subseteq Word
  /\ \A w \in Word : w \in Seq(Out)
<1>1. \A n \in Seq(Name) : n \in Seq(Seq(Chars))
  BY SeqMonotonic DEF Name, Word
<1>2. \A w \in Word : w \in Seq(Out)
  BY SeqMonotonic DEF Word, Out
<1> QED BY <1>1, <1>2, PathsAssumption DEF Word

LEMMA ScanIs ==
  ASSUME NEW slash \in {"/", "\\"}
  PROVE  /\ Scan(<<>>, slash) = NoNames
         /\ \A C : \A q \in Seq(C) : \A c \in C :
              Scan(Append(q, c), slash) = Scanned(Scan(q, slash), c, slash)
BY HostIs, GuestIs

LEMMA ScanTypes ==
  ASSUME NEW slash \in {"/", "\\"}, NEW C
  PROVE  \A q \in Seq(C) : Scan(q, slash) \in [names : Seq(Seq(C) \ {<<>>}), last : Seq(C)]
<1> DEFINE Names2 == [names : Seq(Seq(C) \ {<<>>}), last : Seq(C)]
           S == {q \in Seq(C) : Scan(q, slash) \in Names2}
<1>1. <<>> \in S
  <2>1. NoNames \in Names2
    BY EmptySeq DEF NoNames
  <2>2. <<>> \in Seq(C)
    BY EmptySeq
  <2> HIDE DEF Names2
  <2> QED BY <2>1, <2>2, ScanIs
<1>2. ASSUME NEW q \in Seq(C), NEW c \in C, q \in S PROVE Append(q, c) \in S
  <2> DEFINE n == Scan(q, slash)
             m == Scan(Append(q, c), slash)
  <2>1. n \in Names2
    BY <1>2
  <2>2. m = Scanned(n, c, slash)
    BY ScanIs
  <2>3. Append(q, c) \in Seq(C)
    BY AppendProperties
  <2> HIDE DEF n, m
  <2>4. n.names \in Seq(Seq(C) \ {<<>>}) /\ n.last \in Seq(C) /\ n = [names |-> n.names, last |-> n.last]
    BY <2>1
  <2>5. CASE c # slash
    <3>1. Append(n.last, c) \in Seq(C)
      BY <2>4, AppendProperties
    <3>2. m = [n EXCEPT !.last = Append(n.last, c)]
      BY <2>2, <2>5 DEF Scanned
    <3>3. m \in Names2
      BY <2>1, <3>1, <3>2
    <3> QED BY <2>3, <3>3 DEF m
  <2>6. CASE c = slash /\ n.last = <<>>
    <3>1. m = n
      BY <2>2, <2>6 DEF Scanned
    <3> QED BY <2>1, <2>3, <3>1 DEF m
  <2>7. CASE c = slash /\ n.last # <<>>
    <3>1. m = [names |-> Append(n.names, n.last), last |-> <<>>]
      BY <2>2, <2>7 DEF Scanned
    <3>2. Append(n.names, n.last) \in Seq(Seq(C) \ {<<>>})
      BY <2>4, <2>7, AppendProperties
    <3>3. <<>> \in Seq(C)
      BY EmptySeq
    <3>4. m \in Names2
      BY <3>1, <3>2, <3>3
    <3> QED BY <2>3, <3>4 DEF m
  <2> QED BY <2>5, <2>6, <2>7
<1> HIDE DEF S
<1>3. Seq(C) \subseteq S
  BY <1>1, <1>2, SeqInduct
<1> QED BY <1>3 DEF S

LEMMA StepType ==
  ASSUME NEW dir \in Seq(Name) \cup {Refused}, NEW name \in Name
  PROVE  Step(dir, name) \in Seq(Name) \cup {Refused}
<1>1. CASE dir = Refused
  BY <1>1 DEF Step
<1>2. CASE dir \in Seq(Name)
  <2>1. dir # <<>> => Front(dir) \in Seq(Name)
    <3> SUFFICES ASSUME dir # <<>> PROVE Front(dir) \in Seq(Name)
      OBVIOUS
    <3>1. PICK d \in Seq(Name), e \in Name : dir = Append(d, e)
      BY <1>2, SequenceEmptyOrAppend
    <3> QED BY <3>1, FrontIs
  <2>2. Append(dir, name) \in Seq(Name)
    BY <1>2, AppendProperties
  <2> QED BY <1>2, <2>1, <2>2 DEF Step
<1> QED BY <1>1, <1>2

LEMMA WalkType ==
  \A n \in Seq(Name) : Walk(n) \in Seq(Name) \cup {Refused}
<1> DEFINE S == {n \in Seq(Name) : Walk(n) \in Seq(Name) \cup {Refused}}
<1>1. <<>> \in S
  BY EmptySeq, WalkIs
<1>2. ASSUME NEW n \in Seq(Name), NEW w \in Name, n \in S PROVE Append(n, w) \in S
  <2>1. Append(n, w) \in Seq(Name) /\ Walk(Append(n, w)) = Step(Walk(n), w)
    BY AppendProperties, WalkIs
  <2>2. Walk(n) \in Seq(Name) \cup {Refused}
    BY <1>2
  <2>3. Walk(Append(n, w)) \in Seq(Name) \cup {Refused}
    BY <2>1, <2>2, StepType
  <2> QED BY <2>1, <2>3
<1> HIDE DEF S
<1>3. Seq(Name) \subseteq S
  BY <1>1, <1>2, SeqInduct
<1> QED BY <1>3 DEF S

\* A "." between two names stays between two names when the path goes on.
LEMMA InnerDotStays ==
  ASSUME NEW q \in Word, NEW c \in Chars, InnerDot(q)
  PROVE  InnerDot(Append(q, c))
<1> DEFINE n == Scan(q, "\\")
           m == Scan(Append(q, c), "\\")
           a == AllNames(n)
           b == AllNames(m)
<1>1. n.names \in Seq(Name) /\ n.last \in Word /\ n = [names |-> n.names, last |-> n.last]
  <2>1. n \in [names : Seq(Name), last : Word]
    BY ScanTypes DEF Word, Name
  <2> QED BY <2>1
<1>2. m = Scanned(n, c, "\\")
  BY ScanIs DEF Word
<1>3. PICK i \in 2 .. Len(a) - 1 : a[i] = <<".">>
  BY DEF InnerDot, Names
<1> HIDE DEF n, m
<1>4. Append(n.last, c) \in Name /\ Append(n.last, c) # <<>>
  BY <1>1, AppendProperties DEF Name, Word
<1>5. Len(a) \in Nat /\ Len(b) \in Nat /\ Len(a) <= Len(b) /\ \A j \in 1 .. Len(a) - 1 : a[j] = b[j]
  <2>1. CASE c # "\\" /\ n.last = <<>>
    <3>1. m = [names |-> n.names, last |-> Append(n.last, c)]
      BY <1>1, <1>2, <2>1 DEF Scanned
    <3>2. a = n.names /\ b = Append(n.names, Append(n.last, c))
      BY <1>4, <2>1, <3>1 DEF AllNames
    <3> QED BY <1>1, <1>4, <3>2, FrontIs
  <2>2. CASE c # "\\" /\ n.last # <<>>
    <3>1. m = [names |-> n.names, last |-> Append(n.last, c)]
      BY <1>1, <1>2, <2>2 DEF Scanned
    <3>2. a = Append(n.names, n.last) /\ b = Append(n.names, Append(n.last, c)) /\ n.last \in Name
      BY <1>1, <1>4, <2>2, <3>1 DEF AllNames, Name
    <3>3. /\ Len(a) = Len(n.names) + 1 /\ Len(b) = Len(n.names) + 1 /\ Len(n.names) \in Nat
          /\ \A j \in 1 .. Len(n.names) : a[j] = n.names[j] /\ b[j] = n.names[j]
      BY <1>1, <1>4, <3>2, FrontIs
    <3> HIDE DEF a, b
    <3> QED BY <3>3
  <2>3. CASE c = "\\"
    <3>1. m = IF n.last = <<>> THEN n ELSE [names |-> Append(n.names, n.last), last |-> <<>>]
      BY <1>2, <2>3 DEF Scanned
    <3>2. b = a
      BY <3>1 DEF AllNames
    <3>3. a \in Seq(Name)
      BY <1>1, AppendProperties DEF AllNames, Name
    <3>4. Len(a) \in Nat
      BY <3>3, LenProperties
    <3> HIDE DEF a, b
    <3> QED BY <3>2, <3>4
  <2> QED BY <2>1, <2>2, <2>3
<1>6. i \in 2 .. Len(b) - 1 /\ b[i] = <<".">>
  <2> HIDE DEF a, b
  <2>1. i \in 1 .. Len(a) - 1 /\ i \in 2 .. Len(b) - 1
    BY <1>5
  <2> QED BY <1>3, <1>5, <2>1
<1> QED BY <1>6 DEF InnerDot, Names, m

(***************************************************************************)
(* What vfs_translate_path_ex has written.                                 *)
(***************************************************************************)
State == [out : Seq(Out), from : Nat, sep : BOOLEAN, depth : Int, left : BOOLEAN]

\* No separator at the start, and no two together.
Single(out) == \A k \in 1 .. Len(out) : out[k] = "/" => k > 1 /\ out[k - 1] # "/"

\* Before the component at hand are the names of dir, each with its separator.
Clean(s, dir, cur) ==
  /\ s.from \in 0 .. Len(s.out)
  /\ s.from > 0 => s.out[s.from] = "/"
  /\ Scan(Upto(s, s.from), "/") = [names |-> dir, last |-> <<>>]
  /\ Scan(s.out, "/") = [names |-> dir, last |-> cur]
  /\ Component(s) = cur

\* After a "." that is not the first name the last separator is missing.
Dotted(s, dir, m) ==
  /\ m.last = <<>> /\ s.from = Len(s.out)
  /\ Len(m.names) > 1 /\ m.names[Len(m.names)] = <<".">>
  /\ AllNames(Scan(s.out, "/")) = dir

(* What has been read, as names, and the state of the loop.                 *)
Follows(s, m) ==
  /\ s \in State
  /\ s.left <=> Walk(m.names) = Refused
  /\ ~s.left =>
       /\ Single(s.out)
       /\ s.depth = Len(Walk(m.names))
       /\ s.sep <=> m.last = <<>>
       /\ Clean(s, Walk(m.names), m.last) \/ Dotted(s, Walk(m.names), m)

\* What is left of the path, up to k.
LEMMA PrefixFacts ==
  ASSUME NEW out \in Seq(Out), NEW k \in 0 .. Len(out), Single(out)
  PROVE  /\ SubSeq(out, 1, k) \in Seq(Out) /\ Len(SubSeq(out, 1, k)) = k
         /\ Single(SubSeq(out, 1, k))
         /\ \A i \in 1 .. k : SubSeq(out, 1, k)[i] = out[i]
<1> DEFINE p == SubSeq(out, 1, k)
<1>1. p \in Seq(Out) /\ Len(p) = k /\ (\A i \in 1 .. k : p[i] = out[i]) /\ Len(out) \in Nat
  BY UptoIs
<1> HIDE DEF p
<1>2. Single(p)
  <2>1. SUFFICES ASSUME NEW i \in 1 .. k, p[i] = "/" PROVE i > 1 /\ p[i - 1] # "/"
    BY <1>1 DEF Single
  <2>2. i > 1 /\ out[i - 1] # "/"
    BY <1>1, <2>1 DEF Single
  <2>3. i - 1 \in 1 .. k
    BY <1>1, <2>2
  <2> QED BY <1>1, <2>2, <2>3
<1> QED BY <1>1, <1>2 DEF p

\* What reading one character more of what was written does.
LEMMA HostStep ==
  ASSUME NEW out \in Seq(Out)
  PROVE  /\ Scan(SubSeq(out, 1, 0), "/") = NoNames
         /\ \A k \in 1 .. Len(out) :
              Scan(SubSeq(out, 1, k), "/") = Scanned(Scan(SubSeq(out, 1, k - 1), "/"), out[k], "/")
<1>1. SubSeq(out, 1, 0) = <<>> /\ Len(out) \in Nat
  BY UptoIs
<1>2. ASSUME NEW k \in 1 .. Len(out)
      PROVE  Scan(SubSeq(out, 1, k), "/") = Scanned(Scan(SubSeq(out, 1, k - 1), "/"), out[k], "/")
  <2>1. /\ SubSeq(out, 1, k) = Append(SubSeq(out, 1, k - 1), out[k]) /\ out[k] \in Out
    BY <1>2, UptoIs
  <2>2. SubSeq(out, 1, k - 1) \in Seq(Out)
    <3>1. k - 1 \in 0 .. Len(out)
      BY <1>1, <1>2
    <3> QED BY <3>1, UptoIs
  <2> QED BY <2>1, <2>2, HostIs
<1> QED BY <1>1, <1>2, HostIs

\* Where a component begins there is nothing, or a name and its separator.
LEMMA BeforeIs ==
  ASSUME NEW s \in State, Single(s.out), NEW dir \in Seq(Name), NEW cur, Clean(s, dir, cur)
  PROVE  /\ s.from = 0 => dir = <<>>
         /\ s.from > 0 =>
              LET o == Scan(Upto(s, s.from - 1), "/")
              IN /\ s.from > 1 /\ s.out[s.from - 1] # "/" /\ s.from - 1 \in 1 .. Len(s.out)
                 /\ o \in [names : Seq(Seq(Out) \ {<<>>}), last : Seq(Out)]
                 /\ o.last # <<>> /\ dir = Append(o.names, o.last) /\ dir # <<>>
<1>1. s.out \in Seq(Out) /\ s.from \in 0 .. Len(s.out) /\ Len(s.out) \in Nat
  BY UptoIs DEF State, Clean
<1>2. s.from = 0 => dir = <<>>
  <2>1. SUFFICES ASSUME s.from = 0 PROVE dir = <<>>
    OBVIOUS
  <2>2. NoNames = [names |-> dir, last |-> <<>>]
    BY <1>1, <2>1, HostStep DEF Clean, Upto
  <2> QED BY <2>2 DEF NoNames
<1>3. ASSUME s.from > 0
      PROVE  LET o == Scan(Upto(s, s.from - 1), "/")
             IN /\ s.from > 1 /\ s.out[s.from - 1] # "/" /\ s.from - 1 \in 1 .. Len(s.out)
                /\ o \in [names : Seq(Seq(Out) \ {<<>>}), last : Seq(Out)]
                /\ o.last # <<>> /\ dir = Append(o.names, o.last) /\ dir # <<>>
  <2> DEFINE k == s.from
             o == Scan(Upto(s, k - 1), "/")
             b == Scan(Upto(s, k - 2), "/")
  <2>1. k \in 1 .. Len(s.out) /\ s.out[k] = "/"
    BY <1>1, <1>3 DEF Clean
  <2>2. k > 1 /\ s.out[k - 1] # "/" /\ k - 1 \in 1 .. Len(s.out) /\ k - 2 \in 0 .. Len(s.out)
    BY <1>1, <2>1 DEF Single
  <2>3. Scan(Upto(s, k), "/") = Scanned(o, "/", "/")
    BY <1>1, <2>1, HostStep DEF Upto
  <2>4. o = Scanned(b, s.out[k - 1], "/")
    <3>1. k - 1 - 1 = k - 2
      BY <1>1
    <3> QED BY <1>1, <2>2, <3>1, HostStep DEF Upto
  <2>5. Upto(s, k - 1) \in Seq(Out) /\ Upto(s, k - 2) \in Seq(Out) /\ s.out[k - 1] \in Out
    <3>1. k - 1 \in 0 .. Len(s.out)
      BY <2>2
    <3> QED BY <1>1, <2>2, <3>1, UptoIs DEF Upto
  <2>6. o \in [names : Seq(Seq(Out) \ {<<>>}), last : Seq(Out)]
        /\ b \in [names : Seq(Seq(Out) \ {<<>>}), last : Seq(Out)]
    BY <2>5, ScanTypes
  <2> HIDE DEF o, b
  <2>7. o.last # <<>>
    <3>1. o.last = Append(b.last, s.out[k - 1])
      BY <2>2, <2>4, <2>6 DEF Scanned
    <3>2. b.last \in Seq(Out)
      BY <2>6
    <3>3. \A q \in Seq(Out) : \A c \in Out : Append(q, c) # <<>>
      BY AppendProperties
    <3>4. Append(b.last, s.out[k - 1]) # <<>>
      BY <2>5, <3>2, <3>3, Zenon
    <3> QED BY <3>1, <3>4, Zenon
  <2>8. Scanned(o, "/", "/") = [names |-> dir, last |-> <<>>]
    BY <2>3 DEF Clean
  <2>9. dir = Append(o.names, o.last)
    BY <2>7, <2>8 DEF Scanned
  <2>10. dir # <<>>
    BY <2>6, <2>7, <2>9, FrontIs
  <2> QED BY <2>2, <2>6, <2>7, <2>9, <2>10 DEF o
<1> QED BY <1>2, <1>3

\* "..": the name before the component is gone, its separator stays.
LEMMA BackIs ==
  ASSUME NEW s \in State, Single(s.out), NEW dir \in Seq(Name), NEW cur, Clean(s, dir, cur),
         dir # <<>>
  PROVE  /\ Back(s) \in 0 .. Len(s.out) /\ (Back(s) > 0 => s.out[Back(s)] = "/")
         /\ Scan(Upto(s, Back(s)), "/") = [names |-> Front(dir), last |-> <<>>]
<1> DEFINE k == s.from - 1
           AtSlash(n) == (n = 0 \/ s.out[n] = "/") /\ \A i \in n + 1 .. k : s.out[i] # "/"
           o == Scan(Upto(s, k), "/")
<1>1. s.out \in Seq(Out) /\ s.from \in 0 .. Len(s.out) /\ Len(s.out) \in Nat
  BY UptoIs DEF State, Clean
<1>2. /\ s.from > 0 /\ s.from > 1 /\ s.out[k] # "/" /\ k \in 1 .. Len(s.out)
      /\ o \in [names : Seq(Seq(Out) \ {<<>>}), last : Seq(Out)]
      /\ o.last # <<>> /\ dir = Append(o.names, o.last)
  BY <1>1, BeforeIs
<1> HIDE DEF k, o
<1>3. \E n \in 0 .. k : AtSlash(n)
  <2> DEFINE Slash(j, n) == (n = 0 \/ s.out[n] = "/") /\ \A i \in n + 1 .. j : s.out[i] # "/"
             S == {j \in Nat : j <= k => \E n \in 0 .. j : Slash(j, n)}
  <2>k. k \in Nat
    BY <1>1, <1>2
  <2>1. 0 \in S
    OBVIOUS
  <2>2. ASSUME NEW j \in Nat, j \in S PROVE j + 1 \in S
    <3>1. SUFFICES ASSUME j + 1 <= k PROVE \E n \in 0 .. j + 1 : Slash(j + 1, n)
      OBVIOUS
    <3>2. CASE s.out[j + 1] = "/"
      <4>1. \A i \in (j + 1) + 1 .. j + 1 : s.out[i] # "/"
        OBVIOUS
      <4>2. j + 1 \in 0 .. j + 1
        OBVIOUS
      <4> QED BY <3>2, <4>1, <4>2
    <3>3. CASE s.out[j + 1] # "/"
      <4>1. \E n \in 0 .. j : Slash(j, n)
        <5>1. j <= k
          BY <2>k, <3>1
        <5> HIDE DEF Slash
        <5> QED BY <2>2, <5>1
      <4>2. PICK n \in 0 .. j : Slash(j, n)
        BY <4>1
      <4>3. \A i \in n + 1 .. j + 1 : s.out[i] # "/"
        <5> SUFFICES ASSUME NEW i \in n + 1 .. j + 1 PROVE s.out[i] # "/"
          OBVIOUS
        <5>1. i = j + 1 \/ i \in n + 1 .. j
          BY <4>2
        <5> QED BY <3>3, <4>2, <5>1
      <4>4. n \in 0 .. j + 1
        BY <4>2
      <4> QED BY <4>2, <4>3, <4>4
    <3> QED BY <3>2, <3>3
  <2> HIDE DEF S
  <2>3. k \in S
    <3>1. Nat \subseteq S
      BY <2>1, <2>2, Induct
    <3> QED BY <2>k, <3>1
  <2>4. \E n \in 0 .. k : Slash(k, n)
    <3> HIDE DEF Slash
    <3> QED BY <2>3, <2>k DEF S
  <2> QED BY <2>4
<1>4. Back(s) \in 0 .. k /\ AtSlash(Back(s))
  <2>1. s.from # 0
    BY <1>1, <1>2
  <2>2. Back(s) = CHOOSE n \in 0 .. k : AtSlash(n)
    BY <2>1, Zenon DEF Back, k
  <2> HIDE DEF AtSlash
  <2> QED BY <1>3, <2>2
<1> DEFINE n == Back(s)
           a == Scan(Upto(s, n), "/")
<1>5. n \in 0 .. k /\ (n = 0 \/ s.out[n] = "/") /\ \A i \in n + 1 .. k : s.out[i] # "/"
  BY <1>4
<1>6. n \in 0 .. Len(s.out) /\ k \in Nat /\ k < Len(s.out) + 1
  BY <1>1, <1>2, <1>5
<1>7. a \in [names : Seq(Seq(Out) \ {<<>>}), last : Seq(Out)]
  <2>1. Upto(s, n) \in Seq(Out)
    BY <1>1, <1>6, UptoIs DEF Upto
  <2> QED BY <2>1, ScanTypes
<1> HIDE DEF n
<1>8. a.last = <<>>
  <2>1. CASE n = 0
    BY <1>1, <2>1, HostStep DEF NoNames, Upto
  <2>2. CASE n > 0 /\ s.out[n] = "/"
    <3> DEFINE b == Scan(Upto(s, n - 1), "/")
    <3>1. n \in 1 .. Len(s.out)
      BY <1>6, <2>2
    <3>2. a = Scanned(b, "/", "/")
      BY <1>1, <2>2, <3>1, HostStep DEF Upto
    <3> HIDE DEF a, b
    <3> QED BY <3>2 DEF Scanned
  <2> QED BY <1>5, <1>6, <2>1, <2>2
<1>9. ASSUME NEW j \in n .. k PROVE Scan(Upto(s, j), "/").names = a.names
  <2> DEFINE S == {d \in Nat : n + d <= k => Scan(Upto(s, n + d), "/").names = a.names}
  <2>1. 0 \in S
    <3>1. n + 0 = n
      BY <1>6
    <3> QED BY <3>1
  <2>2. ASSUME NEW d \in Nat, d \in S PROVE d + 1 \in S
    <3>1. SUFFICES ASSUME n + (d + 1) <= k
                   PROVE  Scan(Upto(s, n + (d + 1)), "/").names = a.names
      OBVIOUS
    <3> DEFINE x == Scan(Upto(s, n + d), "/")
               y == Scan(Upto(s, n + (d + 1)), "/")
    <3>2. x.names = a.names
      BY <1>6, <2>2, <3>1
    <3>3. n + (d + 1) \in 1 .. Len(s.out) /\ n + (d + 1) - 1 = n + d
          /\ n + d \in 0 .. Len(s.out) /\ n + (d + 1) \in n + 1 .. k
      BY <1>6, <3>1
    <3>4. y = Scanned(x, s.out[n + (d + 1)], "/")
      <4> DEFINE e == n + (d + 1)
      <4>1. e \in 1 .. Len(s.out)
        BY <3>3
      <4>3. e - 1 = n + d
        BY <1>6
      <4> HIDE DEF e
      <4>2. Scan(SubSeq(s.out, 1, e), "/") = Scanned(Scan(SubSeq(s.out, 1, e - 1), "/"), s.out[e], "/")
        BY <1>1, <4>1, HostStep
      <4> QED BY <4>2, <4>3 DEF Upto, e
    <3>5. s.out[n + (d + 1)] # "/"
      BY <1>5, <3>3
    <3>6. x \in [names : Seq(Seq(Out) \ {<<>>}), last : Seq(Out)]
      <4>1. Upto(s, n + d) \in Seq(Out)
        BY <1>1, <3>3, UptoIs DEF Upto
      <4> QED BY <4>1, ScanTypes
    <3> HIDE DEF x, y, a
    <3>7. y.names = a.names
      BY <3>2, <3>4, <3>5, <3>6 DEF Scanned
    <3> QED BY <3>7 DEF y
  <2> HIDE DEF S
  <2>3. Nat \subseteq S
    BY <2>1, <2>2, Induct
  <2>4. j - n \in Nat /\ n + (j - n) = j /\ n + (j - n) <= k
    BY <1>6, <1>9
  <2>5. j - n \in S
    BY <2>3, <2>4
  <2> QED BY <2>4, <2>5 DEF S
<1>10. o.names = a.names
  <2>1. k \in n .. k
    BY <1>5, <1>6
  <2> QED BY <1>9, <2>1 DEF o
<1>11. Front(dir) = o.names
  BY <1>2, FrontIs
<1>12. a = [names |-> Front(dir), last |-> <<>>]
  <2> HIDE DEF a
  <2> QED BY <1>7, <1>8, <1>10, <1>11
<1> QED BY <1>5, <1>6, <1>12 DEF n

\* The component at hand is what comes after the place where it began.
LEMMA ComponentIs ==
  ASSUME NEW s \in State, s.from \in 0 .. Len(s.out)
  PROVE  /\ Component(s) \in Seq(Out) /\ Len(s.out) \in Nat
         /\ Len(Component(s)) = Len(s.out) - s.from
         /\ \A i \in 1 .. Len(s.out) - s.from : Component(s)[i] = s.out[s.from + i]
         /\ Len(s.out) > s.from <=> Component(s) # <<>>
<1> DEFINE f == s.from
           q == s.out
           n == Len(s.out)
           w == SubSeq(q, f + 1, n)
<1>1. q \in Seq(Out) /\ n \in Nat /\ f \in 0 .. n
  BY LenProperties DEF State
<1>2. \A i \in f + 1 .. n : q[i] \in Out
  <2>1. \A i \in 1 .. n : q[i] \in Out
    BY <1>1, ElementOfSeq
  <2> HIDE DEF f, q, n
  <2> QED BY <1>1, <2>1
<1>3. Component(s) = w
  BY DEF Component
<1> HIDE DEF f, q, n
<1>4. f + 1 \in Int /\ n \in Int
  BY <1>1
<1>5. /\ w \in Seq(Out)
      /\ Len(w) = IF f + 1 <= n THEN n - (f + 1) + 1 ELSE 0
      /\ \A i \in 1 .. n - (f + 1) + 1 : w[i] = q[(f + 1) + i - 1]
  BY <1>2, <1>4, SubSeqProperties
<1> HIDE DEF w
<1>6. Len(w) = n - f /\ \A i \in 1 .. n - f : w[i] = q[f + i]
  <2>1. Len(w) = n - f
    BY <1>1, <1>5
  <2>2. ASSUME NEW i \in 1 .. n - f PROVE w[i] = q[f + i]
    <3>1. i \in 1 .. n - (f + 1) + 1 /\ (f + 1) + i - 1 = f + i
      BY <1>1
    <3> QED BY <1>5, <3>1
  <2> QED BY <2>1, <2>2
<1>7. w = <<>> <=> Len(w) = 0
  BY <1>5, EmptySeq
<1>8. n > f <=> w # <<>>
  BY <1>1, <1>6, <1>7
<1> QED BY <1>1, <1>3, <1>5, <1>6, <1>8 DEF f, q, n

\* A path that ends with a separator, or is empty, begins a component.
LEMMA FreshIs ==
  ASSUME NEW s \in State, NEW dir, s.from = Len(s.out),
         s.from > 0 => s.out[s.from] = "/",
         Scan(s.out, "/") = [names |-> dir, last |-> <<>>]
  PROVE  Clean(s, dir, <<>>)
<1>1. s.out \in Seq(Out) /\ Len(s.out) \in Nat
  BY LenProperties DEF State
<1>2. Upto(s, s.from) = s.out
  BY <1>1, UptoIs DEF Upto
<1>3. s.from \in 0 .. Len(s.out)
  BY <1>1
<1>4. Component(s) = <<>>
  BY <1>1, <1>3, ComponentIs
<1> QED BY <1>2, <1>3, <1>4 DEF Clean

\* ".." and "." of a path whose component at hand is one of them.
LEMMA DotsIs ==
  ASSUME NEW s \in State, Single(s.out), NEW dir \in Seq(Name), NEW cur, Clean(s, dir, cur)
  PROVE  /\ dir = <<>> => Upto(s, Back(s)) = <<>> /\ Same(s).out = <<>>
         /\ dir # <<>> =>
              /\ Same(s).out \in Seq(Out) /\ Single(Same(s).out)
              /\ AllNames(Scan(Same(s).out, "/")) = dir
              /\ Back(s) \in 0 .. Len(s.out) /\ (Back(s) > 0 => s.out[Back(s)] = "/")
              /\ Scan(Upto(s, Back(s)), "/") = [names |-> Front(dir), last |-> <<>>]
<1>1. s.out \in Seq(Out) /\ s.from \in 0 .. Len(s.out) /\ Len(s.out) \in Nat
  BY LenProperties DEF State, Clean
<1>2. Same(s).out = Upto(s, IF s.from > 0 THEN s.from - 1 ELSE 0)
  BY DEF Same, State
<1>3. CASE dir = <<>>
  <2>1. s.from = 0
    <3>1. s.from > 0 => dir # <<>>
      BY BeforeIs, Zenon
    <3> QED BY <1>1, <1>3, <3>1
  <2>2. Back(s) = 0 /\ Same(s).out = Upto(s, 0)
    BY <1>2, <2>1 DEF Back
  <2> QED BY <1>1, <1>3, <2>2, UptoIs DEF Upto
<1>4. CASE dir # <<>>
  <2>1. s.from > 0
    <3>1. s.from # 0
      BY <1>4, BeforeIs
    <3> QED BY <1>1, <3>1
  <2> DEFINE o == Scan(Upto(s, s.from - 1), "/")
  <2>2. /\ s.from - 1 \in 1 .. Len(s.out)
        /\ o.last # <<>> /\ dir = Append(o.names, o.last)
    BY <2>1, BeforeIs
  <2>3. Same(s).out = Upto(s, s.from - 1)
    BY <1>2, <2>1
  <2>4. AllNames(o) = dir
    BY <2>2 DEF AllNames
  <2>5. s.from - 1 \in 0 .. Len(s.out)
    BY <2>2
  <2>6. Upto(s, s.from - 1) \in Seq(Out) /\ Single(Upto(s, s.from - 1))
    BY <1>1, <2>5, PrefixFacts DEF Upto
  <2>7. /\ Back(s) \in 0 .. Len(s.out) /\ (Back(s) > 0 => s.out[Back(s)] = "/")
        /\ Scan(Upto(s, Back(s)), "/") = [names |-> Front(dir), last |-> <<>>]
    BY <1>4, BackIs
  <2> QED BY <1>4, <2>3, <2>4, <2>6, <2>7
<1> QED BY <1>3, <1>4

\* One character that is no separator.
LEMMA LetterOK ==
  ASSUME NEW s \in State, NEW m \in [names : Seq(Name), last : Word], NEW c \in Chars, c # "\\",
         Follows(s, m), ~s.left, Clean(s, Walk(m.names), m.last)
  PROVE  Follows(Read(s, c), Scanned(m, c, "\\"))
<1> DEFINE t == Read(s, c)
           d == Walk(m.names)
           w == Append(m.last, c)
           n == Len(s.out)
<1>1. s.out \in Seq(Out) /\ n \in Nat /\ s.from \in 0 .. n /\ c \in Out /\ c # "/"
  BY LenProperties, CharFacts DEF State, Clean, Out
<1>2. /\ Single(s.out) /\ s.depth = Len(d) /\ (s.sep <=> m.last = <<>>)
      /\ d # Refused /\ s.sep \in BOOLEAN /\ s.depth \in Int
  BY DEF Follows, State
<1>3. s.from = IF s.sep THEN n ELSE s.from
  <2>1. m.last = <<>> => ~(n > s.from)
    BY <1>1, ComponentIs DEF Clean
  <2> QED BY <1>1, <1>2, <2>1
<1>4. t = [s EXCEPT !.out = Append(s.out, c), !.sep = FALSE, !.from = s.from]
  BY <1>3 DEF Read, Letter
<1>5. /\ t.out = Append(s.out, c) /\ t.sep = FALSE /\ t.from = s.from
      /\ t.depth = s.depth /\ t.left = FALSE
      /\ t = [out |-> t.out, from |-> t.from, sep |-> t.sep, depth |-> t.depth, left |-> t.left]
  BY <1>4 DEF State
<1>6. /\ t.out \in Seq(Out) /\ Len(t.out) = n + 1 /\ t.out[n + 1] = c
      /\ \A i \in 1 .. n : t.out[i] = s.out[i]
      /\ \A k \in 0 .. n : SubSeq(t.out, 1, k) = SubSeq(s.out, 1, k)
  BY <1>1, <1>5, FrontIs
<1> HIDE DEF t, n
<1>7. t \in State
  <2>1. t.from \in Nat /\ t.depth \in Int
    BY <1>1, <1>2, <1>5
  <2> QED BY <1>5, <1>6, <2>1 DEF State
<1>8. Single(t.out)
  <2>1. SUFFICES ASSUME NEW k \in 1 .. n + 1, t.out[k] = "/" PROVE k > 1 /\ t.out[k - 1] # "/"
    BY <1>6 DEF Single
  <2>2. k \in 1 .. n
    BY <1>1, <1>6, <2>1
  <2>3. k > 1 /\ s.out[k - 1] # "/"
    BY <1>2, <1>6, <2>1, <2>2 DEF Single, n
  <2>4. k - 1 \in 1 .. n
    BY <1>1, <2>2, <2>3
  <2> QED BY <1>6, <2>3, <2>4
<1>9. Scanned(m, c, "\\") = [names |-> m.names, last |-> w]
  BY DEF Scanned
<1>10. w # <<>> /\ w \in Seq(Chars) /\ Len(w) = Len(m.last) + 1 /\ w[Len(m.last) + 1] = c
       /\ m.last \in Word /\ Len(m.last) \in Nat /\ \A i \in 1 .. Len(m.last) : w[i] = m.last[i]
  BY AppendProperties, LenProperties DEF Word
<1>11. Clean(t, d, w)
  <2>1. t.from \in 0 .. Len(t.out)
    BY <1>1, <1>5, <1>6
  <2>2. t.from > 0 => t.out[t.from] = "/"
    <3>1. t.from > 0 => t.from \in 1 .. n
      BY <1>1, <1>5
    <3> QED BY <1>5, <1>6, <3>1 DEF Clean
  <2>3. Scan(Upto(t, t.from), "/") = [names |-> d, last |-> <<>>]
    <3>1. Upto(t, t.from) = Upto(s, s.from)
      BY <1>1, <1>5, <1>6 DEF Upto
    <3> QED BY <3>1 DEF Clean
  <2>4. Scan(t.out, "/") = [names |-> d, last |-> w]
    <3>1. Scan(t.out, "/") = Scanned(Scan(s.out, "/"), c, "/")
      BY <1>1, <1>5, HostIs
    <3>2. Scan(s.out, "/") = [names |-> d, last |-> m.last]
      BY DEF Clean
    <3>3. Scanned([names |-> d, last |-> m.last], c, "/") = [names |-> d, last |-> w]
      BY <1>1 DEF Scanned
    <3> QED BY <3>1, <3>2, <3>3
  <2>5. Component(t) = w
    <3> DEFINE x == Component(t)
    <3>1. /\ x \in Seq(Out) /\ Len(x) = n + 1 - t.from
          /\ \A i \in 1 .. n + 1 - t.from : x[i] = t.out[t.from + i]
      <4>1. /\ x \in Seq(Out) /\ Len(x) = Len(t.out) - t.from
            /\ \A i \in 1 .. Len(t.out) - t.from : x[i] = t.out[t.from + i]
        BY <1>7, <2>1, ComponentIs
      <4> HIDE DEF x
      <4>2. Len(t.out) - t.from = (n + 1) - t.from /\ (n + 1) - t.from = n + 1 - t.from
        BY <1>1, <1>5, <1>6
      <4> QED BY <4>1, <4>2
    <3>2. /\ Len(m.last) = n - s.from
          /\ \A i \in 1 .. n - s.from : m.last[i] = s.out[s.from + i]
      BY <1>1, ComponentIs DEF Clean, n
    <3> HIDE DEF x, w
    <3>3. Len(x) = Len(w) /\ Len(w) = n + 1 - s.from
      BY <1>1, <1>5, <1>10, <3>1, <3>2
    <3>4. ASSUME NEW i \in 1 .. Len(x) PROVE x[i] = w[i]
      <4>1. CASE i = n + 1 - s.from
        <5>1. s.from + i = n + 1 /\ i = Len(m.last) + 1 /\ i \in 1 .. n + 1 - t.from
          BY <1>1, <1>5, <3>2, <3>3, <4>1
        <5> QED BY <1>5, <1>6, <1>10, <3>1, <5>1
      <4>2. CASE i # n + 1 - s.from
        <5>1. i \in 1 .. n - s.from /\ i \in 1 .. n + 1 - t.from /\ s.from + i \in 1 .. n
          BY <1>1, <1>5, <3>3, <4>2
        <5>2. x[i] = t.out[s.from + i] /\ m.last[i] = s.out[s.from + i] /\ w[i] = m.last[i]
          BY <1>5, <1>10, <3>1, <3>2, <5>1
        <5> QED BY <1>6, <5>1, <5>2
      <4> QED BY <4>1, <4>2
    <3>5. w \in Seq(Out)
      BY <1>10, CharFacts DEF Word
    <3>6. x = w
      BY <3>1, <3>3, <3>4, <3>5, SeqEqual
    <3> QED BY <3>6 DEF x
  <2> QED BY <2>1, <2>2, <2>3, <2>4, <2>5 DEF Clean
<1> HIDE DEF w
<1>12. Follows(t, [names |-> m.names, last |-> w])
  BY <1>2, <1>5, <1>7, <1>8, <1>10, <1>11 DEF Follows
<1> QED BY <1>9, <1>12 DEF t

\* A separator: the component before it is a name.
LEMMA SeparatorOK ==
  ASSUME NEW s \in State, NEW m \in [names : Seq(Name), last : Word], Follows(s, m), ~s.left
  PROVE  Follows(Read(s, "\\"), Scanned(m, "\\", "\\"))
<1> DEFINE t == Read(s, "\\")
           d == Walk(m.names)
           n == Len(s.out)
           e == Scanned(m, "\\", "\\")
<1>1. /\ s.out \in Seq(Out) /\ n \in Nat /\ s.from \in Nat /\ m.names \in Seq(Name) /\ m.last \in Word
      /\ s = [out |-> s.out, from |-> s.from, sep |-> s.sep, depth |-> s.depth, left |-> s.left]
      /\ s.left = FALSE /\ s.sep \in BOOLEAN
  BY LenProperties DEF State
<1>2. Single(s.out) /\ s.depth = Len(d) /\ (s.sep <=> m.last = <<>>) /\ d # Refused
  BY DEF Follows
<1>3. d \in Seq(Name)
  BY <1>1, <1>2, WalkType
<1> HIDE DEF d, n, t, e
<1>4. CASE m.last = <<>>
  <2>1. e = m
    BY <1>4 DEF e, Scanned
  <2>2. s.from = n
    <3>1. Clean(s, d, m.last) \/ Dotted(s, d, m)
      BY DEF Follows, d
    <3>2. Clean(s, d, m.last) => s.from \in 0 .. n /\ Component(s) = <<>>
      BY <1>4 DEF Clean, n
    <3>3. Clean(s, d, m.last) => ~(n > s.from)
      BY <3>2, ComponentIs DEF n
    <3>4. Dotted(s, d, m) => s.from = n
      BY DEF Dotted, n
    <3> QED BY <1>1, <3>1, <3>2, <3>3, <3>4
  <2>3. s.sep = TRUE
    BY <1>1, <1>2, <1>4
  <2>4. t = [s EXCEPT !.sep = TRUE, !.from = n]
    BY <1>1, <2>3 DEF t, Read, Separator, n
  <2>5. t = s
    BY <1>1, <2>2, <2>3, <2>4
  <2> QED BY <2>1, <2>5 DEF t, e
<1>5. CASE m.last # <<>>
  <2> DEFINE dir == Step(d, m.last)
  <2>1. e = [names |-> Append(m.names, m.last), last |-> <<>>]
    BY <1>5 DEF e, Scanned
  <2>2. Walk(e.names) = dir
    <3>1. m.last \in Name
      BY <1>1, <1>5 DEF Name
    <3> QED BY <1>1, <2>1, <3>1, WalkIs DEF d
  <2>3. Clean(s, d, m.last)
    BY <1>5 DEF Follows, Dotted, d
  <2>4. s.sep = FALSE /\ n > s.from /\ Component(s) = m.last /\ s.from \in 0 .. n
    <3>1. Component(s) = m.last /\ s.from \in 0 .. n
      BY <2>3 DEF Clean, n
    <3>2. n > s.from
      BY <1>5, <3>1, ComponentIs DEF n
    <3> QED BY <1>1, <1>2, <1>5, <3>1, <3>2
  <2> DEFINE u == Dots(s, Below(s))
  <2>5. t = [u EXCEPT !.sep = TRUE, !.from = Len(u.out)]
    BY <1>1, <2>4 DEF t, Read, Separator, n
  <2> HIDE DEF u, dir
  <2>6. ASSUME NEW out \in Seq(Out), NEW depth \in Int, NEW left \in BOOLEAN,
               u = [s EXCEPT !.depth = depth, !.left = left, !.out = out]
        PROVE  /\ t \in State /\ t.out = out /\ t.depth = depth /\ t.left = left
               /\ t.sep = TRUE /\ t.from = Len(out)
    <3>1. Len(out) \in Nat
      BY <2>6, LenProperties
    <3>2. t = [out |-> out, from |-> Len(out), sep |-> TRUE, depth |-> depth, left |-> left]
      BY <1>1, <2>5, <2>6
    <3> QED BY <2>6, <3>1, <3>2 DEF State
  <2>7. CASE m.last = <<".", ".">>
    <3>1. /\ u = [s EXCEPT !.depth = s.depth - 1, !.left = (s.depth = 0), !.out = Upto(s, Back(s))]
          /\ dir = IF d = <<>> THEN Refused ELSE Front(d)
      <4>1. m.last # <<".">>
        BY <2>7
      <4> QED BY <1>2, <2>4, <2>7, <4>1 DEF u, Dots, Parent, Step, dir
    <3>2. Len(d) \in Nat /\ s.depth \in Int /\ s.depth - 1 \in Int /\ (s.depth = 0) \in BOOLEAN
      BY <1>2, <1>3, LenProperties
    <3>3. CASE d = <<>>
      <4>1. Upto(s, Back(s)) = <<>>
        BY <1>2, <1>3, <2>3, <3>3, DotsIs
      <4>2. Upto(s, Back(s)) \in Seq(Out)
        BY <4>1, EmptySeq
      <4>3. t \in State /\ t.left = (s.depth = 0)
        BY <2>6, <3>1, <3>2, <4>2
      <4>4. s.depth = 0
        BY <1>2, <3>3, EmptySeq
      <4>5. dir = Refused
        BY <3>1, <3>3
      <4> QED BY <2>2, <4>3, <4>4, <4>5 DEF Follows, t, e
    <3>4. CASE d # <<>>
      <4> DEFINE b == Back(s)
                 o == Upto(s, b)
      <4>1. /\ b \in 0 .. Len(s.out) /\ (b > 0 => s.out[b] = "/")
            /\ Scan(o, "/") = [names |-> Front(d), last |-> <<>>]
        BY <1>2, <1>3, <2>3, <3>4, DotsIs
      <4> HIDE DEF b
      <4>2. o \in Seq(Out) /\ Len(o) = b /\ Single(o) /\ \A i \in 1 .. b : o[i] = s.out[i]
        BY <1>1, <1>2, <4>1, PrefixFacts DEF Upto
      <4>3. /\ t \in State /\ t.out = o /\ t.depth = s.depth - 1 /\ t.left = (s.depth = 0)
            /\ t.sep = TRUE /\ t.from = b
        BY <2>6, <3>1, <3>2, <4>2 DEF b
      <4> HIDE DEF o
      <4>4. PICK p \in Seq(Name), x \in Name : d = Append(p, x)
        BY <1>3, <3>4, SequenceEmptyOrAppend
      <4>5. dir = p /\ Front(d) = p /\ Len(d) = Len(p) + 1 /\ Len(p) \in Nat
        BY <3>1, <3>4, <4>4, FrontIs
      <4>6. t.left = FALSE /\ t.depth = Len(p)
        <5>1. s.depth = Len(p) + 1
          BY <1>2, <4>5
        <5>2. s.depth - 1 = Len(p) /\ (s.depth = 0) = FALSE
          BY <4>5, <5>1
        <5> QED BY <4>3, <5>2
      <4>7. p # Refused
        BY <4>4, CharFacts
      <4>8. t.from = Len(t.out) /\ (t.from > 0 => t.out[t.from] = "/")
        <5>1. b > 0 => b \in 1 .. b
          BY <4>1
        <5> QED BY <4>1, <4>2, <4>3, <5>1
      <4>9. Clean(t, p, <<>>)
        BY <4>1, <4>3, <4>5, <4>8, FreshIs
      <4>10. e.last = <<>> /\ Walk(e.names) = p
        BY <2>1, <2>2, <4>5
      <4> QED BY <4>2, <4>3, <4>6, <4>7, <4>9, <4>10 DEF Follows, t, e
    <3> QED BY <3>3, <3>4
  <2>8. CASE m.last = <<".">>
    <3>1. u = Same(s) /\ dir = d
      <4>1. m.last # <<".", ".">>
        BY <2>8
      <4> QED BY <2>4, <2>8, <4>1 DEF u, Dots, Step, dir
    <3> DEFINE o == Same(s).out
    <3>2. u = [s EXCEPT !.depth = s.depth, !.left = FALSE, !.out = o] /\ s.depth \in Int
      <4>1. Same(s) = [s EXCEPT !.out = o]
        BY <1>1 DEF Same
      <4>2. s.depth \in Int
        BY DEF State
      <4> HIDE DEF o
      <4> QED BY <1>1, <3>1, <4>1, <4>2
    <3>3. CASE d = <<>>
      <4>1. o = <<>>
        BY <1>2, <1>3, <2>3, <3>3, DotsIs
      <4>2. o \in Seq(Out) /\ Len(o) = 0
        BY <4>1, EmptySeq
      <4>3. /\ t \in State /\ t.out = o /\ t.depth = s.depth /\ t.left = FALSE
            /\ t.sep = TRUE /\ t.from = 0
        BY <2>6, <3>2, <4>2
      <4>4. Scan(t.out, "/") = [names |-> d, last |-> <<>>]
        BY <3>3, <4>1, <4>3, ScanIs DEF NoNames
      <4>5. Clean(t, d, <<>>)
        BY <4>2, <4>3, <4>4, FreshIs
      <4>6. Single(t.out)
        <5>1. 1 .. Len(t.out) = {}
          BY <4>2, <4>3
        <5> QED BY <5>1 DEF Single
      <4>7. e.last = <<>> /\ Walk(e.names) = d
        BY <2>1, <2>2, <3>1
      <4> QED BY <1>2, <4>3, <4>5, <4>6, <4>7 DEF Follows, t, e
    <3>4. CASE d # <<>>
      <4>1. o \in Seq(Out) /\ Single(o) /\ AllNames(Scan(o, "/")) = d
        BY <1>2, <1>3, <2>3, <3>4, DotsIs
      <4> HIDE DEF o
      <4>2. /\ t \in State /\ t.out = o /\ t.depth = s.depth /\ t.left = FALSE
            /\ t.sep = TRUE /\ t.from = Len(o)
        BY <2>6, <3>2, <4>1
      <4>3. e.last = <<>> /\ Walk(e.names) = d /\ e.names = Append(m.names, m.last)
        BY <2>1, <2>2, <3>1
      <4>4. Len(e.names) > 1 /\ e.names[Len(e.names)] = <<".">>
        <5>1. m.names # <<>>
          BY <3>4, WalkIs DEF d
        <5>2. Len(m.names) \in Nat /\ Len(m.names) # 0
          BY <1>1, <5>1, EmptySeq, LenProperties
        <5>3. Len(e.names) = Len(m.names) + 1 /\ e.names[Len(m.names) + 1] = m.last
          <6>1. m.last \in Name
            BY <1>1, <1>5 DEF Name
          <6> QED BY <1>1, <4>3, <6>1, FrontIs
        <5> QED BY <2>8, <5>2, <5>3
      <4>5. Dotted(t, d, e)
        BY <4>1, <4>2, <4>3, <4>4 DEF Dotted
      <4> QED BY <1>2, <4>1, <4>2, <4>3, <4>5 DEF Follows, t, e
    <3> QED BY <3>3, <3>4
  <2>9. CASE m.last # <<".", ".">> /\ m.last # <<".">>
    <3> DEFINE o == Append(s.out, "/")
    <3>1. /\ u = [s EXCEPT !.depth = s.depth + 1, !.left = FALSE, !.out = o]
          /\ dir = Append(d, m.last)
      <4>1. u = Below(s)
        BY <2>4, <2>9 DEF u, Dots
      <4>2. dir = Append(d, m.last)
        BY <1>2, <2>9 DEF dir, Step
      <4> QED BY <1>1, <4>1, <4>2 DEF Below
    <3>2. /\ "/" \in Out /\ o \in Seq(Out) /\ Len(o) = n + 1 /\ o[n + 1] = "/"
          /\ \A i \in 1 .. n : o[i] = s.out[i]
      <4>1. "/" \in Out
        BY DEF Out
      <4> QED BY <1>1, <4>1, FrontIs DEF n
    <3>3. /\ Len(dir) = Len(d) + 1 /\ Len(d) \in Nat /\ dir \in Seq(Name) /\ dir # Refused
      <4>1. m.last \in Name
        BY <1>1, <1>5 DEF Name
      <4>2. /\ Len(Append(d, m.last)) = Len(d) + 1 /\ Len(d) \in Nat
            /\ Append(d, m.last) \in Seq(Name)
        BY <1>3, <4>1, FrontIs
      <4> QED BY <3>1, <4>2, CharFacts
    <3>4. Scan(o, "/") = [names |-> dir, last |-> <<>>]
      <4>1. Scan(s.out, "/") = [names |-> d, last |-> m.last]
        BY <2>3 DEF Clean
      <4>2. Scan(o, "/") = Scanned(Scan(s.out, "/"), "/", "/")
        BY <1>1, <3>2, HostIs
      <4>3. Scanned([names |-> d, last |-> m.last], "/", "/")
              = [names |-> Append(d, m.last), last |-> <<>>]
        BY <1>5 DEF Scanned
      <4> QED BY <3>1, <4>1, <4>2, <4>3
    <3> HIDE DEF o
    <3>5. /\ t \in State /\ t.out = o /\ t.depth = s.depth + 1 /\ t.left = FALSE
          /\ t.sep = TRUE /\ t.from = Len(o)
      <4>1. s.depth + 1 \in Int
        BY <1>2, <3>3
      <4> QED BY <2>6, <3>1, <3>2, <4>1
    <3>6. s.out[n] # "/" /\ n > 0
      <4> DEFINE j == n - s.from
      <4>1. /\ Len(m.last) = j /\ \A i \in 1 .. j : m.last[i] = s.out[s.from + i]
        BY <2>4, ComponentIs DEF n
      <4>2. j \in 1 .. j /\ s.from + j = n /\ n > 0
        BY <1>1, <2>4
      <4> HIDE DEF j
      <4>3. m.last[j] \in Chars
        <5>1. m.last \in Seq(Chars) /\ j \in 1 .. Len(m.last)
          BY <1>1, <4>1, <4>2 DEF Word
        <5> QED BY <5>1, ElementOfSeq
      <4> QED BY <4>1, <4>2, <4>3, CharFacts
    <3>7. Single(o)
      <4>1. SUFFICES ASSUME NEW k \in 1 .. n + 1, o[k] = "/" PROVE k > 1 /\ o[k - 1] # "/"
        BY <3>2 DEF Single
      <4>2. CASE k = n + 1
        <5>1. k > 1 /\ k - 1 = n /\ n \in 1 .. n
          BY <1>1, <3>6, <4>2
        <5> QED BY <3>2, <3>6, <5>1
      <4>3. CASE k # n + 1
        <5>1. k \in 1 .. n
          BY <1>1, <4>3
        <5>2. s.out[k] = "/"
          BY <3>2, <4>1, <5>1
        <5>3. k > 1 /\ s.out[k - 1] # "/"
          BY <1>2, <5>1, <5>2 DEF Single, n
        <5>4. k - 1 \in 1 .. n
          BY <1>1, <5>1, <5>3
        <5> QED BY <3>2, <5>3, <5>4
      <4> QED BY <4>2, <4>3
    <3>8. t.from > 0 => t.out[t.from] = "/"
      BY <3>2, <3>5
    <3>9. Clean(t, dir, <<>>)
      BY <3>4, <3>5, <3>8, FreshIs
    <3>10. e.last = <<>> /\ Walk(e.names) = dir /\ t.depth = Len(dir)
      BY <1>2, <2>1, <2>2, <3>3, <3>5
    <3> QED BY <3>3, <3>5, <3>7, <3>9, <3>10 DEF Follows, t, e
  <2> QED BY <2>7, <2>8, <2>9
<1> QED BY <1>4, <1>5

\* One character.  A letter after a "." that is not the first name would make
\* that "." an inner one.
LEMMA ReadOK ==
  ASSUME NEW q \in Word, NEW c \in Chars, ~InnerDot(Append(q, c)),
         NEW s \in State, Follows(s, Scan(q, "\\"))
  PROVE  Follows(Read(s, c), Scan(Append(q, c), "\\"))
<1> DEFINE m == Scan(q, "\\")
           e == Scan(Append(q, c), "\\")
<1>1. m.names \in Seq(Name) /\ m.last \in Word /\ m \in [names : Seq(Name), last : Word]
  <2>1. m \in [names : Seq(Name), last : Word]
    BY ScanTypes DEF Word, Name
  <2> QED BY <2>1
<1>2. e = Scanned(m, c, "\\")
  BY ScanIs DEF Word
<1>3. Follows(s, m) /\ m = [names |-> m.names, last |-> m.last]
  BY <1>1
<1>4. AllNames(e) = Names(Append(q, c), "\\")
  BY DEF Names
<1> HIDE DEF m, e
<1>5. CASE s.left
  <2>1. Read(s, c) = s /\ Walk(m.names) = Refused
    BY <1>3, <1>5 DEF Read, Follows
  <2>2. e.names = m.names \/ (m.last # <<>> /\ e.names = Append(m.names, m.last))
    BY <1>2, <1>3 DEF Scanned
  <2>3. Walk(e.names) = Refused
    <3>1. m.last # <<>> => Walk(Append(m.names, m.last)) = Step(Walk(m.names), m.last)
      <4>1. m.last # <<>> => m.last \in Name
        BY <1>1 DEF Name
      <4> QED BY <1>1, <4>1, WalkIs
    <3>2. Step(Refused, m.last) = Refused
      BY DEF Step
    <3>3. CASE e.names = m.names
      BY <2>1, <3>3, Zenon
    <3>4. CASE m.last # <<>> /\ e.names = Append(m.names, m.last)
      BY <2>1, <3>1, <3>2, <3>4, Zenon
    <3> QED BY <2>2, <3>3, <3>4
  <2>4. Follows(s, e)
    BY <1>5, <2>3 DEF Follows
  <2> QED BY <2>1, <2>4 DEF e
<1>6. CASE ~s.left /\ c = "\\"
  <2>1. Follows(Read(s, "\\"), Scanned(m, "\\", "\\"))
    BY <1>1, <1>3, <1>6, SeparatorOK
  <2> QED BY <1>2, <1>6, <2>1 DEF e
<1>7. CASE ~s.left /\ c # "\\"
  <2>1. ~Dotted(s, Walk(m.names), m)
    <3> SUFFICES ASSUME Dotted(s, Walk(m.names), m) PROVE FALSE
      OBVIOUS
    <3> DEFINE w == Append(m.last, c)
               n == Len(m.names)
    <3>1. m.last = <<>> /\ n > 1 /\ m.names[n] = <<".">>
      BY DEF Dotted
    <3>2. e = [names |-> m.names, last |-> w]
      BY <1>2, <1>3, <1>7 DEF Scanned
    <3>3. w # <<>> /\ w \in Name
      BY <1>1, AppendProperties DEF Word, Name
    <3> HIDE DEF w
    <3>4. AllNames(e) = Append(m.names, w)
      BY <3>2, <3>3 DEF AllNames
    <3> DEFINE a == AllNames(e)
    <3>5. Len(a) = n + 1 /\ n \in Nat /\ \A i \in 1 .. n : a[i] = m.names[i]
      BY <1>1, <3>3, <3>4, FrontIs
    <3> HIDE DEF a, n
    <3>6. n \in 2 .. Len(a) - 1 /\ a[n] = <<".">>
      <4>1. n \in 2 .. Len(a) - 1 /\ n \in 1 .. n
        BY <3>1, <3>5
      <4> QED BY <3>1, <3>5, <4>1 DEF n
    <3>7. InnerDot(Append(q, c))
      BY <1>4, <3>6 DEF InnerDot, a
    <3> QED BY <3>7
  <2>2. Clean(s, Walk(m.names), m.last)
    BY <1>3, <1>7, <2>1 DEF Follows
  <2>3. Follows(Read(s, c), Scanned(m, c, "\\"))
    BY <1>1, <1>3, <1>7, <2>2, LetterOK
  <2> QED BY <1>2, <2>3 DEF e
<1> QED BY <1>5, <1>6, <1>7

\* Before the first character.
LEMMA StartOK == Follows(Start, Scan(<<>>, "\\"))
<1>1. Scan(<<>>, "\\") = NoNames /\ Scan(<<>>, "/") = NoNames
  BY ScanIs
<1>2. <<>> \in Seq(Out) /\ Len(<<>>) = 0 /\ <<>> \in Seq(Name)
  BY EmptySeq
<1>3. Start \in State
  BY <1>2 DEF Start, State
<1>4. /\ Start.out = <<>> /\ Start.from = 0 /\ Start.sep = TRUE
      /\ Start.depth = 0 /\ Start.left = FALSE
  BY DEF Start
<1>5. NoNames.names = <<>> /\ NoNames.last = <<>> /\ NoNames = [names |-> <<>>, last |-> <<>>]
  BY DEF NoNames
<1>6. Clean(Start, <<>>, <<>>)
  BY <1>1, <1>2, <1>3, <1>4, <1>5, FreshIs
<1>7. Single(Start.out)
  <2>1. 1 .. Len(Start.out) = {}
    BY <1>2, <1>4
  <2> QED BY <2>1 DEF Single
<1>8. Walk(<<>>) = <<>> /\ <<>> # Refused
  BY <1>2, WalkIs, CharFacts
<1> QED BY <1>1, <1>2, <1>3, <1>4, <1>5, <1>6, <1>7, <1>8 DEF Follows

\* After the last one.
LEMMA ReadsFollow ==
  ASSUME NEW chars \in Word, ~InnerDot(chars)
  PROVE  Follows(FoldLeft(Read, Start, chars), Scan(chars, "\\"))
<1> DEFINE S == {q \in Word : InnerDot(q) \/ Follows(FoldLeft(Read, Start, q), Scan(q, "\\"))}
<1>1. <<>> \in S
  <2>1. <<>> \in Word
    BY EmptySeq DEF Word
  <2> QED BY <2>1, StartOK, ReadIs
<1>2. ASSUME NEW q \in Word, NEW c \in Chars, q \in S PROVE Append(q, c) \in S
  <2>1. Append(q, c) \in Word
    BY AppendProperties DEF Word
  <2>2. SUFFICES ASSUME ~InnerDot(Append(q, c))
                 PROVE  Follows(FoldLeft(Read, Start, Append(q, c)), Scan(Append(q, c), "\\"))
    BY <2>1
  <2>3. ~InnerDot(q)
    BY <2>2, InnerDotStays
  <2> DEFINE s == FoldLeft(Read, Start, q)
  <2>4. Follows(s, Scan(q, "\\"))
    BY <1>2, <2>3
  <2>5. FoldLeft(Read, Start, Append(q, c)) = Read(s, c)
    BY ReadIs DEF Word
  <2> HIDE DEF s
  <2>6. s \in State
    BY <2>4 DEF Follows
  <2>7. Follows(Read(s, c), Scan(Append(q, c), "\\"))
    BY <2>2, <2>4, <2>6, ReadOK
  <2> QED BY <2>5, <2>7
<1> HIDE DEF S
<1>3. Word \subseteq S
  BY <1>1, <1>2, SeqInduct DEF Word
<1> QED BY <1>3 DEF S

\* Without a separator at its end a path has the same names.
LEMMA TrimIs ==
  ASSUME NEW out \in Seq(Out), Len(out) > 1, out[Len(out)] = "/"
  PROVE  Names(SubSeq(out, 1, Len(out) - 1), "/") = Names(out, "/")
<1> DEFINE n == Len(out)
           a == Scan(SubSeq(out, 1, n - 1), "/")
<1>1. n \in Nat /\ n \in 1 .. n
  BY LenProperties
<1>2. SubSeq(out, 1, n) = out
  BY UptoIs
<1>3. Scan(out, "/") = Scanned(a, out[n], "/")
  BY <1>1, <1>2, HostStep
<1>4. AllNames(Scanned(a, "/", "/")) = AllNames(a)
  <2> HIDE DEF a
  <2> QED BY DEF Scanned, AllNames
<1> QED BY <1>3, <1>4 DEF Names

\* The path within the drive is what the characters mean.
LEMMA WithinIs ==
  ASSUME NEW path, NEW chars \in Word, path.chars = chars, ~InnerDot(chars)
  PROVE  Within(path) = Meaning(chars)
<1> DEFINE s == FoldLeft(Read, Start, chars)
           m == Scan(chars, "\\")
           d == Walk(m.names)
           t == IF ~s.left /\ ~s.sep /\ Len(s.out) > s.from THEN Dots(s, s) ELSE s
           n == Len(t.out)
           end == Finish(s)
<1>1. Follows(s, m)
  BY ReadsFollow
<1>2. m.names \in Seq(Name) /\ m.last \in Word
  <2>1. m \in [names : Seq(Name), last : Word]
    BY ScanTypes DEF Word, Name
  <2> QED BY <2>1
<1>3. /\ s \in State /\ s.out \in Seq(Out) /\ s.left \in BOOLEAN /\ s.sep \in BOOLEAN
      /\ s = [out |-> s.out, from |-> s.from, sep |-> s.sep, depth |-> s.depth, left |-> s.left]
  <2> HIDE DEF s
  <2>1. s \in State
    BY <1>1 DEF Follows
  <2> QED BY <2>1 DEF State
<1>4. Meaning(chars) = IF m.last = <<>> THEN d ELSE Step(d, m.last)
  <2>1. Meaning(chars) = Walk(AllNames(m))
    BY DEF Meaning, Names
  <2>2. m.last # <<>> => Walk(Append(m.names, m.last)) = Step(d, m.last)
    <3>1. m.last # <<>> => m.last \in Name
      BY <1>2 DEF Name
    <3> QED BY <1>2, <3>1, WalkIs
  <2> HIDE DEF m
  <2> QED BY <2>1, <2>2 DEF AllNames
<1>5. Within(path) = IF end.left THEN Refused ELSE Names(end.out, "/")
  BY DEF Within
<1>6. end = IF n > 1 /\ t.out[n] = "/" THEN [t EXCEPT !.out = Upto(t, n - 1)] ELSE t
  BY DEF Finish
<1> HIDE DEF s, m, d, t, n, end
<1>7. ASSUME NEW out \in Seq(Out), NEW depth, NEW left \in BOOLEAN,
             t = [s EXCEPT !.depth = depth, !.left = left, !.out = out]
      PROVE  /\ left => Within(path) = Refused
             /\ ~left => Within(path) = Names(out, "/")
  <2>1. t.out = out /\ t.left = left /\ n = Len(out)
    BY <1>3, <1>7 DEF n
  <2>2. t = [out |-> out, from |-> s.from, sep |-> s.sep, depth |-> depth, left |-> left]
    BY <1>3, <1>7
  <2>3. end.left = left
    <3>1. \A o : [t EXCEPT !.out = o].left = left
      BY <2>2
    <3> QED BY <1>6, <2>1, <3>1
  <2>4. Names(end.out, "/") = Names(out, "/")
    <3>1. CASE n > 1 /\ out[n] = "/"
      <4>1. end = [t EXCEPT !.out = SubSeq(out, 1, n - 1)]
        BY <1>6, <2>1, <3>1 DEF Upto
      <4>2. end.out = SubSeq(out, 1, n - 1)
        BY <2>2, <4>1
      <4> QED BY <2>1, <3>1, <4>2, TrimIs
    <3>2. CASE ~(n > 1 /\ out[n] = "/")
      BY <1>6, <2>1, <3>2
    <3> QED BY <3>1, <3>2
  <2> QED BY <1>5, <2>3, <2>4
<1>8. t = s => /\ s.left => Within(path) = Refused
               /\ ~s.left => Within(path) = Names(s.out, "/")
  <2>1. s = [s EXCEPT !.depth = s.depth, !.left = s.left, !.out = s.out]
    BY <1>3
  <2> QED BY <1>3, <1>7, <2>1
<1>9. CASE s.left
  <2>1. t = s /\ d = Refused
    BY <1>1, <1>9 DEF t, d, Follows
  <2>2. Meaning(chars) = Refused
    BY <1>4, <2>1 DEF Step
  <2> QED BY <1>8, <1>9, <2>1, <2>2
<1>10. CASE ~s.left
  <2>1. /\ Single(s.out) /\ (s.sep <=> m.last = <<>>) /\ s.depth = Len(d) /\ d # Refused
        /\ Clean(s, d, m.last) \/ Dotted(s, d, m)
    BY <1>1, <1>10 DEF Follows, d
  <2>2. d \in Seq(Name) /\ Len(d) \in Nat
    <3>1. d \in Seq(Name)
      BY <1>2, <2>1, WalkType DEF d
    <3> QED BY <3>1, LenProperties
  <2>3. CASE m.last = <<>>
    <3>1. t = s
      BY <2>1, <2>3 DEF t
    <3>2. Names(s.out, "/") = d
      <4>1. Clean(s, d, m.last) => AllNames(Scan(s.out, "/")) = d
        BY <2>3 DEF Clean, AllNames
      <4>2. Dotted(s, d, m) => AllNames(Scan(s.out, "/")) = d
        BY DEF Dotted
      <4> QED BY <2>1, <4>1, <4>2 DEF Names
    <3> QED BY <1>4, <1>8, <1>10, <2>3, <3>1, <3>2
  <2>4. CASE m.last # <<>>
    <3>1. Clean(s, d, m.last) /\ Meaning(chars) = Step(d, m.last)
      BY <1>4, <2>1, <2>4 DEF Dotted
    <3>2. /\ Component(s) = m.last /\ s.from \in 0 .. Len(s.out)
          /\ Scan(s.out, "/") = [names |-> d, last |-> m.last]
      BY <3>1 DEF Clean
    <3>3. t = Dots(s, s)
      <4>1. Len(s.out) > s.from
        BY <1>3, <2>4, <3>2, ComponentIs
      <4> QED BY <1>10, <2>1, <2>4, <4>1 DEF t
    <3>4. CASE m.last = <<".", ".">>
      <4> DEFINE o == Upto(s, Back(s))
      <4>1. /\ t = [s EXCEPT !.depth = s.depth - 1, !.left = (s.depth = 0), !.out = o]
            /\ Meaning(chars) = IF d = <<>> THEN Refused ELSE Front(d)
        <5>1. m.last # <<".">>
          BY <3>4
        <5> QED BY <2>1, <3>1, <3>2, <3>3, <3>4, <5>1 DEF Dots, Parent, Step
      <4>2. (s.depth = 0) \in BOOLEAN /\ (d = <<>> <=> Len(d) = 0)
        BY <2>2, EmptySeq
      <4>3. CASE d = <<>>
        <5>1. o = <<>>
          BY <1>3, <2>1, <2>2, <3>1, <4>3, DotsIs
        <5>2. o \in Seq(Out)
          BY <5>1, EmptySeq
        <5> HIDE DEF o
        <5>3. (s.depth = 0) => Within(path) = Refused
          BY <1>7, <4>1, <4>2, <5>2
        <5> QED BY <2>1, <4>1, <4>2, <4>3, <5>3
      <4>4. CASE d # <<>>
        <5>1. /\ Back(s) \in 0 .. Len(s.out)
              /\ Scan(o, "/") = [names |-> Front(d), last |-> <<>>]
          BY <1>3, <2>1, <2>2, <3>1, <4>4, DotsIs
        <5>2. o \in Seq(Out)
          BY <1>3, <5>1, UptoIs DEF Upto
        <5> HIDE DEF o
        <5>3. ~(s.depth = 0) => Within(path) = Names(o, "/")
          BY <1>7, <4>1, <4>2, <5>2
        <5>4. Names(o, "/") = Front(d)
          BY <5>1 DEF Names, AllNames
        <5> QED BY <2>1, <4>1, <4>2, <4>4, <5>3, <5>4
      <4> QED BY <4>3, <4>4
    <3>5. CASE m.last = <<".">>
      <4> DEFINE o == Same(s).out
      <4>1. t = Same(s) /\ Meaning(chars) = d
        <5>1. m.last # <<".", ".">>
          BY <3>5
        <5> QED BY <3>1, <3>2, <3>3, <3>5, <5>1 DEF Dots, Step
      <4>2. t = [s EXCEPT !.depth = s.depth, !.left = FALSE, !.out = o]
        <5>1. Same(s) = [s EXCEPT !.out = o]
          BY <1>3 DEF Same
        <5> HIDE DEF o
        <5> QED BY <1>3, <1>10, <4>1, <5>1
      <4>3. o \in Seq(Out) /\ Names(o, "/") = d
        <5>1. CASE d = <<>>
          <6>1. o = <<>>
            BY <1>3, <2>1, <2>2, <3>1, <5>1, DotsIs
          <6>2. Names(<<>>, "/") = <<>>
            BY ScanIs DEF Names, AllNames, NoNames
          <6> QED BY <5>1, <6>1, <6>2, EmptySeq
        <5>2. CASE d # <<>>
          BY <1>3, <2>1, <2>2, <3>1, <5>2, DotsIs DEF Names
        <5> QED BY <5>1, <5>2
      <4> HIDE DEF o
      <4>4. Within(path) = Names(o, "/")
        BY <1>7, <4>2, <4>3
      <4> QED BY <4>1, <4>3, <4>4
    <3>6. CASE m.last # <<".", ".">> /\ m.last # <<".">>
      <4>1. t = s
        BY <3>2, <3>3, <3>6 DEF Dots
      <4>2. Names(s.out, "/") = Append(d, m.last)
        BY <2>4, <3>2 DEF Names, AllNames
      <4>3. Meaning(chars) = Append(d, m.last)
        BY <2>1, <3>1, <3>6 DEF Step
      <4> QED BY <1>8, <1>10, <4>1, <4>2, <4>3
    <3> QED BY <3>4, <3>5, <3>6
  <2> QED BY <2>3, <2>4
<1> QED BY <1>3, <1>9, <1>10

(* The translation is the drive's directory followed by what the path means,
   for every path without an inner "." and for every drive that is mapped
   (vfs_translate_path_ex).                                                 *)
LEMMA TranslationIs ==
  ASSUME drives \in Mappings, NEW drive \in DOMAIN drives, NEW chars \in Word, ~InnerDot(chars)
  PROVE  TranslatePath([form |-> "plain", drive |-> drive, chars |-> chars])
           = IF Meaning(chars) = Refused THEN Refused ELSE drives[drive] \o Meaning(chars)
<1> DEFINE path == [form |-> "plain", drive |-> drive, chars |-> chars]
<1>1. path.form = "plain" /\ path.drive = drive /\ path.chars = chars
  OBVIOUS
<1> HIDE DEF path
<1>2. DriveOf(path) = drive
  BY <1>1, PathsAssumption DEF DriveOf
<1>3. Within(path) = Meaning(chars)
  BY <1>1, WithinIs
<1>4. path.form \notin {"device", "unc"}
  BY <1>1
<1>5. TranslatePath(path)
        = IF Meaning(chars) = Refused THEN Refused ELSE drives[drive] \o Meaning(chars)
  BY <1>2, <1>3, <1>4 DEF TranslatePath
<1> QED BY <1>5 DEF path

(* The file calls leave the drives alone and so translate every path, at any
   time, to what it means (vfs_translate_path_ex).                          *)
THEOREM PathsCorrect == Spec => []PathsMeant
<1>1. IInv => PathsMeant
  <2> SUFFICES ASSUME IInv, NEW drive \in DOMAIN drives, NEW chars \in Texts, ~InnerDot(chars)
               PROVE  TranslatePath([form |-> "plain", drive |-> drive, chars |-> chars])
                        = IF Meaning(chars) = Refused THEN Refused ELSE drives[drive] \o Meaning(chars)
    BY DEF PathsMeant
  <2>1. drives \in Mappings
    BY DEF IInv, FilesSound, TypeOK
  <2>2. chars \in Word
    BY CharFacts
  <2> QED BY <2>1, <2>2, TranslationIs
<1> QED BY <1>1, Inductive, PTL
=============================================================================
