-------------------------- MODULE GuestCallsProofs --------------------------
(***************************************************************************)
(* Proofs about GuestCalls for every set of threads and windows, any       *)
(* number of DLLs and of calls, and every depth of g_callback_stack.       *)
(***************************************************************************)
EXTENDS GuestCalls, SequenceTheorems, FiniteSetTheorems,
        WellFoundedInduction, TLAPS

---------------------------------------------------------------------------
(***************************************************************************)
(* The scheduler's functions keep the types of its fields when registers   *)
(* may continue a call into the guest as well as a thread.                 *)
(***************************************************************************)
Context == [valid: BOOLEAN, of: Streams, fresh: BOOLEAN]
Wait == [objs: Seq(Objects), type: {"ANY", "ALL"}, armed: BOOLEAN]

VM == [current: Tids, ready: Seq(Tids), all: SUBSET Threads,
       idle: BOOLEAN, exitReq: BOOLEAN, exited: BOOLEAN,
       state: [Tids -> States], quantum: [Tids -> Int],
       wait: [Threads -> Wait], ctx: [Tids -> Context], cpu: Streams,
       obj: [Objects -> Object],
       waitList: [Objects -> SUBSET (Threads \X Nat)],
       handles: SUBSET Threads, freed: SUBSET Threads]

LEMMA InitialVM == InitialScheduler \in VM
<1>1. /\ Main \in Threads /\ QuantumReset \in Int
      /\ Main \in Tids /\ Idle \in Tids /\ Main \in Streams
  BY GuestCallsAssumption DEF Tids, Streams
<1>2. NoObject \in Object
  BY <1>1 DEF NoObject, Header, Object
<1>3. NoContext \in Context
  BY <1>1 DEF NoContext, Context, Streams
<1>4. NoWait \in Wait
  BY DEF NoWait, Wait
<1>5. <<>> \in Seq(Tids)
  OBVIOUS
<1>6. QED
  BY <1>1, <1>2, <1>3, <1>4, <1>5 DEF InitialScheduler, VM, States

\* One field of one thread is set.
LEMMA StateVM ==
  ASSUME NEW k \in VM, NEW t \in Tids, NEW st \in States
  PROVE  [k EXCEPT !.state[t] = st] \in VM
<1> DEFINE f == [k.state EXCEPT ![t] = st]
<1>1. f \in [Tids -> States]
  BY DEF VM
<1>2. [k EXCEPT !.state[t] = st] = [k EXCEPT !.state = f]
  OBVIOUS
<1> HIDE DEF f
<1>3. QED BY <1>1, <1>2 DEF VM

LEMMA SaveContextVM ==
  ASSUME NEW k \in VM, NEW t \in Tids
  PROVE  SaveContext(k, t) \in VM
<1> DEFINE c == [valid |-> TRUE, of |-> k.cpu, fresh |-> TRUE]
           f == [k.ctx EXCEPT ![t] = c]
<1>1. c \in Context
  BY DEF VM, Context
<1> HIDE DEF c
<1>2. f \in [Tids -> Context]
  BY <1>1 DEF VM
<1>3. SaveContext(k, t) = [k EXCEPT !.ctx = f]
  BY DEF SaveContext, c
<1> HIDE DEF f
<1>4. QED BY <1>2, <1>3 DEF VM

LEMMA RestoreContextVM ==
  ASSUME NEW k \in VM, NEW t \in Tids
  PROVE  RestoreContext(k, t) \in VM
<1> DEFINE c == IF k.ctx[t].valid THEN k.ctx[t].of ELSE k.cpu
<1>1. c \in Streams
  BY DEF VM, Context
<1>2. RestoreContext(k, t) = [k EXCEPT !.cpu = c]
  BY DEF RestoreContext
<1> HIDE DEF c
<1>3. QED BY <1>1, <1>2 DEF VM

LEMMA AddReadyVM ==
  ASSUME NEW k \in VM, NEW t \in Tids
  PROVE  AddReady(k, t) \in VM
<1> DEFINE q == Append(k.ready, t)
           e == IF k.idle THEN FALSE ELSE k.exitReq
<1>0. /\ k.ready \in Seq(Tids)
      /\ k.idle \in BOOLEAN /\ k.exitReq \in BOOLEAN
  BY DEF VM
<1>1. q \in Seq(Tids)
  BY <1>0
<1>2. e \in BOOLEAN
  BY <1>0
<1>3. AddReady(k, t) = [k EXCEPT !.ready = q, !.exitReq = e, !.idle = FALSE]
  BY DEF AddReady
<1> HIDE DEF q, e
<1>4. QED BY <1>1, <1>2, <1>3 DEF VM

\* A set of numbers that is not empty has a least one.
LEMMA LeastNumber ==
  ASSUME NEW T \in SUBSET Nat, T # {}
  PROVE  \E n \in T : \A m \in T : n <= m
<1> DEFINE R == OpToRel(<, Nat)
<1>1. PICK n \in T : \A m \in T : ~(<<m, n>> \in R)
  <2>1. IsWellFoundedOn(R, Nat)
    BY NatLessThanWellFounded
  <2> HIDE DEF R
  <2>2. QED BY <2>1, WFMin
<1>2. ASSUME NEW m \in T
      PROVE  n <= m
  <2>1. m \in Nat /\ n \in Nat
    OBVIOUS
  <2>2. <<m, n>> \in R <=> m < n
    BY <2>1 DEF OpToRel
  <2>3. ~(m < n)
    BY <1>1, <2>2
  <2>4. QED BY <2>1, <2>3
<1>3. QED BY <1>2

\* A queue without one of its nodes is a queue.
LEMMA UnlinkQueue ==
  ASSUME NEW S, NEW q \in Seq(S), NEW t
  PROVE  Unlink(q, t) \in Seq(S)
<1>1. CASE ~Queued(q, t)
  BY <1>1 DEF Unlink
<1>2. CASE Queued(q, t)
  <2> DEFINE P(i) == q[i] = t /\ \A j \in 1..(i - 1) : q[j] # t
             i == FirstNode(q, t)
  <2>1. PICK m \in DOMAIN q : q[m] = t
    BY <1>2 DEF Queued
  <2>2. \E n \in DOMAIN q : P(n)
    <3> DEFINE At == {n \in DOMAIN q : q[n] = t}
    <3>1. At \in SUBSET Nat /\ At # {}
      BY <2>1
    <3> HIDE DEF At
    <3>2. PICK n \in At : \A j \in At : n <= j
      BY <3>1, LeastNumber
    <3>3. n \in DOMAIN q /\ q[n] = t
      BY DEF At
    <3>4. \A j \in 1..(n - 1) : q[j] # t
      BY <3>2, <3>3 DEF At
    <3>5. QED BY <3>3, <3>4
  <2>3. i \in DOMAIN q
    BY <2>2 DEF FirstNode
  <2> HIDE DEF i
  <2>4. /\ SubSeq(q, 1, i - 1) \in Seq(S)
        /\ SubSeq(q, i + 1, Len(q)) \in Seq(S)
    BY <2>3
  <2>5. Unlink(q, t) = SubSeq(q, 1, i - 1) \o SubSeq(q, i + 1, Len(q))
    BY <1>2 DEF Unlink, RemoveAt, i
  <2>6. QED BY <2>4, <2>5, ConcatProperties
<1>3. QED BY <1>1, <1>2

LEMMA RemoveReadyVM ==
  ASSUME NEW k \in VM, NEW t \in Tids
  PROVE  RemoveReady(k, t) \in VM
<1>1. Unlink(k.ready, t) \in Seq(Tids)
  BY UnlinkQueue DEF VM
<1>2. QED BY <1>1 DEF RemoveReady, VM

LEMMA SwitchVM ==
  ASSUME NEW k \in VM
  PROVE  Switch(k) \in VM
<1>1. CASE k.ready = <<>>
  <2>1. Switch(k) = [k EXCEPT !.idle = TRUE, !.current = Idle, !.exitReq = TRUE]
    BY <1>1 DEF Switch
  <2>2. QED BY <2>1 DEF VM, Tids
<1>2. CASE k.ready # <<>>
  <2> DEFINE h == Head(k.ready)
             s == IF k.state[k.current] = "RUNNING"
                  THEN SaveContext(k, k.current) ELSE k
             r == RestoreContext(s, h)
  <2>1. k.ready \in Seq(Tids) /\ k.current \in Tids
    BY DEF VM
  <2>2. h \in Tids
    BY <1>2, <2>1
  <2>3. s \in VM
    BY <2>1, SaveContextVM
  <2> HIDE DEF h, s
  <2>4. r \in VM
    BY <2>2, <2>3, RestoreContextVM
  <2>5. r.ready # <<>>
    <3>1. s.ready = k.ready
      BY DEF s, SaveContext, VM
    <3>2. r.ready = s.ready
      BY <2>3 DEF RestoreContext, VM
    <3>3. QED BY <1>2, <3>1, <3>2
  <2> DEFINE q == Tail(r.ready)
             v == [r EXCEPT !.state[h] = "RUNNING"]
  <2>6. q \in Seq(Tids)
    <3>1. r.ready \in Seq(Tids)
      BY <2>4 DEF VM
    <3>2. QED BY <2>5, <3>1
  <2>7. v \in VM
    BY <2>2, <2>4, StateVM DEF States
  <2>8. Switch(k) = [v EXCEPT !.ready = q, !.current = h, !.idle = FALSE]
    BY <1>2 DEF Switch, SwitchTo, h, s
  <2> HIDE DEF r, q, v
  <2>9. QED BY <2>2, <2>6, <2>7, <2>8 DEF VM
<1>3. QED BY <1>1, <1>2

LEMMA WakeVM ==
  ASSUME NEW k \in VM, NEW t \in Threads
  PROVE  Wake(k, t) \in VM
<1> DEFINE l == [o \in Objects |-> {b \in k.waitList[o] : b[1] # t}]
           w == [k.wait EXCEPT ![t] = NoWait]
           v == [k EXCEPT !.waitList = l, !.wait = w]
           u == [v EXCEPT !.state[t] = "READY"]
<1>1. l \in [Objects -> SUBSET (Threads \X Nat)]
  BY DEF VM
<1>2. w \in [Threads -> Wait]
  BY DEF VM, NoWait, Wait
<1>3. Wake(k, t) = AddReady(u, t)
  BY DEF Wake
<1> HIDE DEF l, w
<1>4. v \in VM
  BY <1>1, <1>2 DEF VM
<1> HIDE DEF v
<1>5. u \in VM /\ t \in Tids
  BY <1>4, StateVM DEF States, Tids
<1> HIDE DEF u
<1>6. QED BY <1>3, <1>5, AddReadyVM

LEMMA CheckTimeoutsVM ==
  ASSUME NEW k \in VM
  PROVE  CheckTimeouts(k) \in VM
<1>1. k.all \subseteq Threads
  BY DEF VM
<1>2. Waiting(k) # {} => (CHOOSE t \in Waiting(k) : TRUE) \in Threads
  BY <1>1 DEF Waiting
<1>3. QED BY <1>2, WakeVM DEF CheckTimeouts

\* A thread goes to sleep without an object.
LEMMA BlockThreadVM ==
  ASSUME NEW k \in VM, k.current # Idle
  PROVE  BlockThread(k, <<>>, "ANY") \in VM
<1> DEFINE t == k.current
           one == [objs |-> <<>>, type |-> "ANY", armed |-> TRUE]
           l == [o \in Objects |-> k.waitList[o] \cup
                  {<<t, i>> : i \in {j \in DOMAIN <<>> :
                                       <<>>[j] = o /\ Exists(k.obj[o])}}]
           w == [k.wait EXCEPT ![t] = one]
           a == [k EXCEPT !.waitList = l, !.wait = w]
           s == SaveContext(a, t)
           v == [s EXCEPT !.state[t] = "WAITING"]
<1>1. t \in Tids /\ t \in Threads
  BY DEF VM, Tids
<1>2. l \in [Objects -> SUBSET (Threads \X Nat)]
  <2>1. DOMAIN <<>> = {}
    OBVIOUS
  <2>2. \A o \in Objects : l[o] = k.waitList[o]
    BY <2>1
  <2>3. QED BY <2>2 DEF VM
<1>3. one \in Wait
  BY DEF Wait
<1> HIDE DEF one
<1>4. w \in [Threads -> Wait]
  BY <1>3 DEF VM
<1>5. ArmWait(k, <<>>, "ANY") = a
  BY DEF ArmWait, PushBlocks, one
<1> HIDE DEF l, w
<1>6. a \in VM /\ a.current = t
  BY <1>2, <1>4 DEF VM
<1>7. BlockThread(k, <<>>, "ANY") = Switch(v)
  BY <1>5, <1>6 DEF BlockThread
<1> HIDE DEF a
<1>8. s \in VM
  BY <1>1, <1>6, SaveContextVM
<1> HIDE DEF s
<1>9. v \in VM
  BY <1>1, <1>8, StateVM DEF States
<1> HIDE DEF v
<1>10. QED BY <1>7, <1>9, SwitchVM

LEMMA UnblockedVM ==
  ASSUME NEW k \in VM, NEW t \in Tids
  PROVE  Unblocked(k, t) \in VM
<1> DEFINE a == [k EXCEPT !.current = t]
           b == RemoveReady(a, t)
           c == [b EXCEPT !.state[t] = "RUNNING"]
<1>1. a \in VM
  BY DEF VM
<1>2. Unblocked(k, t) = [c EXCEPT !.idle = FALSE]
  BY DEF Unblocked
<1> HIDE DEF a
<1>3. b \in VM
  BY <1>1, RemoveReadyVM
<1> HIDE DEF b
<1>4. c \in VM
  BY <1>3, StateVM DEF States
<1> HIDE DEF c
<1>5. QED BY <1>2, <1>4 DEF VM

LEMMA CreatedVM ==
  ASSUME NEW k \in VM, NEW t \in Threads
  PROVE  AddThread(NewThread(k, t, "READY"), t) \in VM
<1> DEFINE c == [valid |-> TRUE, of |-> t, fresh |-> TRUE]
           sf == [k.state EXCEPT ![t] = "READY"]
           qf == [k.quantum EXCEPT ![t] = QuantumReset]
           cf == [k.ctx EXCEPT ![t] = c]
           hf == k.handles \cup {t}
           n == [k EXCEPT !.state = sf, !.quantum = qf, !.ctx = cf, !.handles = hf]
           l == [n EXCEPT !.all = @ \cup {t}]
<1>1. t \in Tids /\ c \in Context /\ QuantumReset \in Int
  BY GuestCallsAssumption DEF Tids, Streams, Context
<1> HIDE DEF c
<1>2. sf \in [Tids -> States]
  BY DEF VM, States
<1>3. /\ qf \in [Tids -> Int]
      /\ cf \in [Tids -> Context] /\ hf \in SUBSET Threads
  BY <1>1 DEF VM
<1>4. NewThread(k, t, "READY") = n
  BY DEF NewThread, c
<1> HIDE DEF sf, qf, cf, hf
<1>5. n \in VM
  BY <1>2, <1>3 DEF VM
<1> HIDE DEF n
<1>6. l \in VM
  BY <1>5 DEF VM
<1>7. AddThread(n, t) \in {l, AddReady(l, t)}
  BY DEF AddThread
<1> HIDE DEF l
<1>8. QED BY <1>1, <1>4, <1>6, <1>7, AddReadyVM

LEMMA RemoveThreadVM ==
  ASSUME NEW k \in VM, NEW t \in Tids
  PROVE  RemoveThread(k, t) \in VM
<1> DEFINE a == [k EXCEPT !.all = @ \ {t}]
           g == RemoveReady(a, t)
<1>1. a \in VM
  BY DEF VM
<1> HIDE DEF a
<1>2. g \in VM
  BY <1>1, RemoveReadyVM
<1>3. RemoveThread(k, t) \in {g, Switch(g)}
  BY DEF RemoveThread, a
<1> HIDE DEF g
<1>4. QED BY <1>2, <1>3, SwitchVM

LEMMA TickVM ==
  ASSUME NEW k \in VM
  PROVE  Tick(k) \in VM
<1> DEFINE c == k.current
           down == [k.quantum EXCEPT ![c] = @ - 1]
           full == [k.quantum EXCEPT ![c] = Reset(c)]
           r == [k EXCEPT !.quantum = full]
           v == [r EXCEPT !.state[c] = "READY"]
<1>1. c \in Tids /\ Reset(c) \in Int
  BY GuestCallsAssumption DEF VM, Reset
<1>2. down \in [Tids -> Int] /\ full \in [Tids -> Int]
  BY <1>1 DEF VM
<1>3. Tick(k) \in {[k EXCEPT !.quantum = down], r, Switch(AddReady(v, c))}
  BY DEF Tick
<1> HIDE DEF down, full
<1>4. [k EXCEPT !.quantum = down] \in VM /\ r \in VM
  BY <1>2 DEF VM
<1> HIDE DEF r
<1>5. v \in VM
  BY <1>1, <1>4, StateVM DEF States
<1> HIDE DEF v
<1>6. Switch(AddReady(v, c)) \in VM
  BY <1>1, <1>5, AddReadyVM, SwitchVM
<1>7. QED BY <1>3, <1>4, <1>6

---------------------------------------------------------------------------
(***************************************************************************)
(* The inductive invariant, in parts.  cs is the host's stack of calls, sl *)
(* g_callback_stack, d its depth, ca the cached window, dd dll_init_done,  *)
(* cpu the stream the registers continue, ex whether exec386 runs, and m   *)
(* the number of procedures started.                                       *)
(***************************************************************************)
DllSet == {DllRuns[i] : i \in DOMAIN DllRuns}
CallSet == {CallRuns[i] : i \in DOMAIN CallRuns}

Slot == [saved: Streams, completed: BOOLEAN, result: RunSet \cup {NoRun}]

\* How many calls of entry points are on the stack: at most the outermost.
Bottom(cs) == IF cs # <<>> /\ cs[1].kind = "DLL" THEN 1 ELSE 0

\* The array mirrors the stack.
MirrorOK(cs, sl, d, ex) ==
  /\ cs \in Seq(Frame)
  /\ sl \in [1..MaxDepth -> Slot]
  /\ d = Len(cs) - Bottom(cs) /\ d \in 0..MaxDepth
  /\ \A i \in 1..Len(cs) : i > Bottom(cs) =>
       /\ cs[i].kind = "WNDPROC"
       /\ cs[i].slot = i - Bottom(cs)
       /\ sl[i - Bottom(cs)].saved = cs[i].saved
       /\ sl[i - Bottom(cs)].completed => i = Len(cs) /\ ~ex

\* Where the result of the i-th call is put.
Result(cs, sl, dd, i) == IF i <= Bottom(cs) THEN dd ELSE sl[i - Bottom(cs)].result

\* The registers of a call that nobody disturbed continue its own run, or
\* were saved by the next call, which nobody disturbed either; and only that
\* run has stored a result.
OwnOK(cs, sl, cpu, dd) ==
  \A i \in 1..Len(cs) :
    /\ cs[i].run \in IF i <= Bottom(cs) THEN DllSet ELSE CallSet
    /\ ~cs[i].mixed =>
         /\ \A j \in i..Len(cs) : ~cs[j].mixed
         /\ i = Len(cs) => cpu = cs[i].run
         /\ i < Len(cs) => cs[i + 1].saved = cs[i].run
         /\ Result(cs, sl, dd, i) \in {NoRun, cs[i].run}

\* The cached window is that of a procedure in progress.
CacheOK(cs, ca) ==
  /\ ca \in Copied \cup {NoWnd}
  /\ ca # NoWnd => \E i \in 1..Len(cs) : i > Bottom(cs) /\ cs[i].wnd = ca

\* Every WM_CREATE that is still to be sent has a run of its own.
Starting(cs) == {i \in 1..Len(cs) : cs[i].send = "FIRST"}

RoomOK(cs, m) == m \in Nat /\ m + Cardinality(Starting(cs)) <= Len(CallRuns)

StackOK(cs, sl, d, ca, cpu, dd, ex, m) ==
  /\ MirrorOK(cs, sl, d, ex)
  /\ OwnOK(cs, sl, cpu, dd)
  /\ CacheOK(cs, ca)
  /\ RoomOK(cs, m)

AnswerOK == CallerResumes /\ ResultIsOwn

IInv ==
  /\ vm \in VM
  /\ inExec \in BOOLEAN /\ started \in BOOLEAN
  /\ dllDone \in RunSet \cup {NoRun}
  /\ dlls \in 0..Len(DllRuns)
  /\ StackOK(calls, slots, depth, cache, vm.cpu, dllDone, inExec, made)
  /\ AnswerOK

\* The numbers of runs, and that no run is both an entry point's and a
\* procedure's.
LEMMA RunFacts ==
  /\ Len(DllRuns) \in Nat /\ DOMAIN DllRuns = 1..Len(DllRuns)
  /\ Len(CallRuns) \in Nat /\ DOMAIN CallRuns = 1..Len(CallRuns)
  /\ DllSet \cap CallSet = {}
  /\ RunSet = DllSet \cup CallSet
  /\ RunSet \subseteq Streams
<1>1. /\ DllRuns \in Seq(RunSet) /\ CallRuns \in Seq(RunSet)
      /\ \A i \in DOMAIN DllRuns, j \in DOMAIN CallRuns : DllRuns[i] # CallRuns[j]
  BY GuestCallsAssumption
<1>2. /\ Len(DllRuns) \in Nat /\ DOMAIN DllRuns = 1..Len(DllRuns)
      /\ Len(CallRuns) \in Nat /\ DOMAIN CallRuns = 1..Len(CallRuns)
  BY <1>1
<1>3. DllSet \cap CallSet = {}
  BY <1>1 DEF DllSet, CallSet
<1>4. QED BY <1>2, <1>3 DEF RunSet, DllSet, CallSet, Streams

\* The outermost call leaves last.
LEMMA BottomFacts ==
  ASSUME NEW S, NEW cs \in Seq(S)
  PROVE  /\ Len(cs) \in Nat /\ DOMAIN cs = 1..Len(cs)
         /\ Bottom(cs) \in 0..1 /\ Bottom(cs) <= Len(cs)
         /\ Bottom(cs) = 1 => cs[1].kind = "DLL"
         /\ Bottom(cs) = 0 /\ cs # <<>> => cs[1].kind # "DLL"
         /\ cs # <<>> <=> Len(cs) >= 1
<1>1. /\ Len(cs) \in Nat /\ DOMAIN cs = 1..Len(cs)
      /\ cs # <<>> <=> Len(cs) >= 1
  OBVIOUS
<1>2. CASE cs # <<>> /\ cs[1].kind = "DLL"
  BY <1>1, <1>2 DEF Bottom
<1>3. CASE ~(cs # <<>> /\ cs[1].kind = "DLL")
  BY <1>1, <1>3 DEF Bottom
<1>4. QED BY <1>2, <1>3

LEMMA OuterFacts ==
  ASSUME NEW S, NEW cs \in Seq(S), Len(cs) > Bottom(cs)
  PROVE  LET o == SubSeq(cs, 1, Len(cs) - 1) IN
         /\ o \in Seq(S)
         /\ Len(o) = Len(cs) - 1
         /\ \A i \in 1..(Len(cs) - 1) : o[i] = cs[i]
         /\ Bottom(o) = Bottom(cs)
<1> DEFINE o == SubSeq(cs, 1, Len(cs) - 1)
<1>1. /\ Len(cs) \in Nat /\ Len(cs) >= 1
      /\ Bottom(cs) \in 0..1
      /\ Bottom(cs) = 1 <=> cs[1].kind = "DLL"
  <2>1. /\ Len(cs) \in Nat
        /\ Bottom(cs) \in 0..1 /\ Bottom(cs) <= Len(cs)
        /\ Bottom(cs) = 1 => cs[1].kind = "DLL"
        /\ Bottom(cs) = 0 /\ cs # <<>> => cs[1].kind # "DLL"
        /\ cs # <<>> <=> Len(cs) >= 1
    BY BottomFacts
  <2>2. QED BY <2>1
<1>2. /\ o \in Seq(S)
      /\ Len(o) = Len(cs) - 1
      /\ \A i \in 1..(Len(cs) - 1) : o[i] = cs[i]
  <2> DEFINE n == Len(cs) - 1
  <2>1. n \in Nat /\ 1 \in Int /\ n \in Int
    BY <1>1
  <2>2. \A i \in 1..n : cs[i] \in S
    OBVIOUS
  <2> HIDE DEF n
  <2>3. /\ SubSeq(cs, 1, n) \in Seq(S)
        /\ Len(SubSeq(cs, 1, n)) = IF 1 <= n THEN n - 1 + 1 ELSE 0
        /\ \A i \in 1..(n - 1 + 1) : SubSeq(cs, 1, n)[i] = cs[1 + i - 1]
    BY <2>1, <2>2, SubSeqProperties
  <2>4. /\ Len(SubSeq(cs, 1, n)) = n
        /\ \A i \in 1..n : SubSeq(cs, 1, n)[i] = cs[i]
    BY <2>1, <2>3
  <2>5. QED BY <2>3, <2>4 DEF n
<1> HIDE DEF o
<1>3. Bottom(o) = Bottom(cs)
  <2>1. CASE Len(cs) = 1
    <3>1. o = <<>>
      BY <1>2, <2>1
    <3>2. QED BY <1>1, <2>1, <3>1 DEF Bottom
  <2>2. CASE Len(cs) > 1
    <3>1. o # <<>> /\ o[1] = cs[1]
      BY <1>1, <1>2, <2>2
    <3>2. QED BY <1>1, <3>1 DEF Bottom
  <2>3. Len(cs) = 1 \/ Len(cs) > 1
    <3>1. \A n \in Nat : n >= 1 => n = 1 \/ n > 1
      OBVIOUS
    <3>2. Len(cs) \in Nat /\ Len(cs) >= 1
      BY <1>1
    <3>3. QED BY <3>1, <3>2, Zenon
  <2>4. QED BY <2>1, <2>2, <2>3
<1>4. QED BY <1>2, <1>3 DEF o

LEMMA AppendFacts ==
  ASSUME NEW S, NEW cs \in Seq(S), NEW f \in S, f.kind = "WNDPROC"
  PROVE  LET a == Append(cs, f) IN
         /\ a \in Seq(S)
         /\ Len(a) = Len(cs) + 1
         /\ \A i \in 1..Len(cs) : a[i] = cs[i]
         /\ a[Len(cs) + 1] = f
         /\ Bottom(a) = Bottom(cs)
<1> DEFINE a == Append(cs, f)
<1>1. /\ a \in Seq(S)
      /\ Len(a) = Len(cs) + 1
      /\ \A i \in 1..Len(cs) : a[i] = cs[i]
      /\ a[Len(cs) + 1] = f
      /\ a # <<>>
      /\ Len(cs) \in Nat
      /\ cs = <<>> => Len(cs) = 0
      /\ cs # <<>> => 1 \in 1..Len(cs)
  <2>1. Len(cs) \in Nat
    OBVIOUS
  <2>2. a \in Seq(S) /\ Len(a) = Len(cs) + 1
    OBVIOUS
  <2>3. /\ \A i \in 1..Len(cs) : a[i] = cs[i]
        /\ a[Len(cs) + 1] = f
    OBVIOUS
  <2>4. a # <<>>
    OBVIOUS
  <2>5. /\ cs = <<>> => Len(cs) = 0
        /\ cs # <<>> => 1 \in 1..Len(cs)
    OBVIOUS
  <2>6. QED BY <2>1, <2>2, <2>3, <2>4, <2>5
<1> HIDE DEF a
<1>2. CASE cs = <<>>
  <2>1. a[1] = f
    BY <1>1, <1>2
  <2>2. Bottom(a) = 0 /\ Bottom(cs) = 0
    BY <1>1, <1>2, <2>1 DEF Bottom
  <2>3. QED BY <1>1, <2>2 DEF a
<1>3. CASE cs # <<>>
  <2>1. a[1] = cs[1]
    BY <1>1, <1>3
  <2>2. Bottom(a) = Bottom(cs)
    BY <1>1, <1>3, <2>1 DEF Bottom
  <2>3. QED BY <1>1, <2>2 DEF a
<1>4. QED BY <1>2, <1>3

---------------------------------------------------------------------------
(* The end of the innermost procedure.                                     *)

\* What the invariant says of the innermost procedure.
LEMMA TopFacts ==
  ASSUME NEW cs, NEW sl, NEW d, NEW ex, MirrorOK(cs, sl, d, ex), Len(cs) > Bottom(cs)
  PROVE  /\ Len(cs) \in Nat /\ Len(cs) \in 1..Len(cs)
         /\ cs[Len(cs)] \in Frame
         /\ cs[Len(cs)].kind = "WNDPROC"
         /\ cs[Len(cs)].slot = d
         /\ d \in 1..MaxDepth
         /\ d = Len(cs) - Bottom(cs)
         /\ sl[d].saved = cs[Len(cs)].saved
         /\ sl[d] \in Slot
<1> DEFINE n == Len(cs)
           b == Bottom(cs)
<1>1. /\ cs \in Seq(Frame) /\ sl \in [1..MaxDepth -> Slot]
      /\ d = n - b /\ d \in 0..MaxDepth
      /\ \A i \in 1..n : i > b =>
           /\ cs[i].kind = "WNDPROC" /\ cs[i].slot = i - b
           /\ sl[i - b].saved = cs[i].saved
  BY DEF MirrorOK
<1>2. n \in Nat /\ b \in 0..1 /\ n > b
  BY <1>1, BottomFacts
<1>3. \A i \in 1..n : cs[i] \in Frame
  BY <1>1
<1> HIDE DEF n, b
<1>4. n \in 1..n /\ d \in 1..MaxDepth
  BY <1>1, <1>2, GuestCallsAssumption
<1>5. /\ cs[n] \in Frame /\ cs[n].kind = "WNDPROC" /\ cs[n].slot = d
      /\ sl[d].saved = cs[n].saved /\ sl[d] \in Slot
  BY <1>1, <1>2, <1>3, <1>4
<1>6. QED BY <1>1, <1>2, <1>4, <1>5 DEF n, b

LEMMA PopMirror ==
  ASSUME NEW cs, NEW sl, NEW d, NEW ex, MirrorOK(cs, sl, d, ex), Len(cs) > Bottom(cs)
  PROVE  MirrorOK(SubSeq(cs, 1, Len(cs) - 1), sl, d - 1, TRUE)
<1> DEFINE n == Len(cs)
           b == Bottom(cs)
           o == SubSeq(cs, 1, n - 1)
<1>1. /\ cs \in Seq(Frame) /\ sl \in [1..MaxDepth -> Slot]
      /\ \A i \in 1..n : i > b =>
           /\ cs[i].kind = "WNDPROC" /\ cs[i].slot = i - b
           /\ sl[i - b].saved = cs[i].saved
           /\ sl[i - b].completed => i = n
  BY DEF MirrorOK
<1>2. n \in Nat /\ b \in 0..1 /\ d = n - b /\ d \in 1..MaxDepth
  BY <1>1, TopFacts, BottomFacts
<1>3. /\ o \in Seq(Frame) /\ Len(o) = n - 1 /\ Bottom(o) = b
      /\ \A i \in 1..(n - 1) : o[i] = cs[i]
  BY <1>1, OuterFacts
<1> HIDE DEF n, b, o
<1>4. d - 1 = Len(o) - Bottom(o) /\ d - 1 \in 0..MaxDepth
  BY <1>2, <1>3, GuestCallsAssumption
<1>5. ASSUME NEW i \in 1..Len(o), i > Bottom(o)
      PROVE  /\ o[i].kind = "WNDPROC"
             /\ o[i].slot = i - Bottom(o)
             /\ sl[i - Bottom(o)].saved = o[i].saved
             /\ ~sl[i - Bottom(o)].completed
  <2>1. i \in 1..n /\ i # n /\ i > b /\ o[i] = cs[i] /\ Bottom(o) = b
    BY <1>2, <1>3, <1>5
  <2>2. QED BY <1>1, <2>1
<1>6. MirrorOK(o, sl, d - 1, TRUE)
  BY <1>1, <1>3, <1>4, <1>5 DEF MirrorOK
<1>7. QED BY <1>6 DEF o, n

LEMMA PopOwn ==
  ASSUME NEW cs, NEW sl, NEW d, NEW ex, NEW cpu, NEW dd,
         MirrorOK(cs, sl, d, ex), Len(cs) > Bottom(cs), OwnOK(cs, sl, cpu, dd)
  PROVE  OwnOK(SubSeq(cs, 1, Len(cs) - 1), sl, cs[Len(cs)].saved, dd)
<1> DEFINE n == Len(cs)
           b == Bottom(cs)
           o == SubSeq(cs, 1, n - 1)
<1>1. cs \in Seq(Frame) /\ n \in Nat
  BY TopFacts DEF MirrorOK
<1>2. \A i \in 1..n :
        /\ cs[i].run \in IF i <= b THEN DllSet ELSE CallSet
        /\ ~cs[i].mixed =>
             /\ \A j \in i..n : ~cs[j].mixed
             /\ i < n => cs[i + 1].saved = cs[i].run
             /\ Result(cs, sl, dd, i) \in {NoRun, cs[i].run}
  BY DEF OwnOK
<1>3. /\ Len(o) = n - 1 /\ Bottom(o) = b
      /\ \A i \in 1..(n - 1) : o[i] = cs[i]
  BY <1>1, OuterFacts
<1>4. \A i : Result(o, sl, dd, i) = Result(cs, sl, dd, i)
  BY <1>3 DEF Result
<1>5. SUFFICES OwnOK(o, sl, cs[n].saved, dd)
  BY DEF o, n
<1> HIDE DEF n, b, o
<1>6. SUFFICES ASSUME NEW i \in 1..(n - 1)
               PROVE  /\ o[i].run \in IF i <= b THEN DllSet ELSE CallSet
                      /\ ~o[i].mixed =>
                           /\ \A j \in i..(n - 1) : ~o[j].mixed
                           /\ i = n - 1 => cs[n].saved = o[i].run
                           /\ i < n - 1 => o[i + 1].saved = o[i].run
                           /\ Result(o, sl, dd, i) \in {NoRun, o[i].run}
  BY <1>3 DEF OwnOK
<1>7. /\ i \in 1..n /\ i < n /\ o[i] = cs[i]
      /\ i = n - 1 => cs[n].saved = cs[i + 1].saved
      /\ i < n - 1 => o[i + 1] = cs[i + 1]
      /\ \A j \in i..(n - 1) : j \in i..n /\ o[j] = cs[j]
  BY <1>1, <1>3
<1>8. QED BY <1>2, <1>4, <1>7

LEMMA PopCache ==
  ASSUME NEW cs, NEW sl, NEW d, NEW ex, NEW ca,
         MirrorOK(cs, sl, d, ex), Len(cs) > Bottom(cs), CacheOK(cs, ca)
  PROVE  CacheOK(SubSeq(cs, 1, Len(cs) - 1),
                 IF cs[Len(cs)].wnd \in Copied THEN NoWnd ELSE ca)
<1> DEFINE n == Len(cs)
           o == SubSeq(cs, 1, n - 1)
<1>1. cs \in Seq(Frame) /\ n \in Nat
  BY TopFacts DEF MirrorOK
<1>2. /\ Len(o) = n - 1 /\ Bottom(o) = Bottom(cs)
      /\ \A i \in 1..(n - 1) : o[i] = cs[i]
  BY <1>1, OuterFacts
<1>3. /\ ca \in Copied \cup {NoWnd}
      /\ ca # NoWnd => \E i \in 1..n : i > Bottom(cs) /\ cs[i].wnd = ca
  BY DEF CacheOK
<1>4. SUFFICES CacheOK(o, IF cs[n].wnd \in Copied THEN NoWnd ELSE ca)
  BY DEF o, n
<1> HIDE DEF n, o
<1>5. CASE cs[n].wnd \in Copied \/ ca = NoWnd
  BY <1>3, <1>5 DEF CacheOK
<1>6. CASE cs[n].wnd \notin Copied /\ ca # NoWnd
  <2>1. PICK i \in 1..n : i > Bottom(cs) /\ cs[i].wnd = ca
    BY <1>3, <1>6
  <2>2. i # n
    BY <1>3, <1>6, <2>1
  <2>3. i \in 1..(n - 1)
    BY <1>1, <2>2
  <2>4. QED BY <1>2, <1>3, <1>6, <2>1, <2>3 DEF CacheOK
<1>7. QED BY <1>5, <1>6

\* A procedure that still has WM_CREATE to get gives back the run reserved.
LEMMA PopRoom ==
  ASSUME NEW cs, NEW sl, NEW d, NEW ex, NEW m,
         MirrorOK(cs, sl, d, ex), Len(cs) > Bottom(cs), RoomOK(cs, m)
  PROVE  /\ RoomOK(SubSeq(cs, 1, Len(cs) - 1), m)
         /\ cs[Len(cs)].send = "FIRST" =>
              RoomOK(SubSeq(cs, 1, Len(cs) - 1), m + 1) /\ m + 1 \in 1..Len(CallRuns)
<1> DEFINE n == Len(cs)
           o == SubSeq(cs, 1, n - 1)
           F == Starting(cs)
           G == Starting(o)
<1>1. cs \in Seq(Frame) /\ n \in Nat /\ n \in 1..n
  BY TopFacts DEF MirrorOK
<1>2. Len(o) = n - 1 /\ \A i \in 1..(n - 1) : o[i] = cs[i]
  BY <1>1, OuterFacts
<1>3. m \in Nat /\ m + Cardinality(F) <= Len(CallRuns)
  BY DEF RoomOK
<1> HIDE DEF n, o
<1>4. IsFiniteSet(F) /\ IsFiniteSet(G)
  <2>1. IsFiniteSet(1..n)
    BY <1>1, FS_Interval
  <2>2. F \subseteq 1..n /\ G \subseteq 1..n
    BY <1>1, <1>2 DEF Starting, n
  <2>3. QED BY <2>1, <2>2, FS_Subset
<1>5. Cardinality(F) \in Nat /\ Cardinality(G) \in Nat
  BY <1>4, FS_CardinalityType
<1>6. G = F \ {n}
  BY <1>1, <1>2 DEF Starting, n
<1>7. Cardinality(G) = IF n \in F THEN Cardinality(F) - 1 ELSE Cardinality(F)
  BY <1>4, <1>6, FS_RemoveElement
<1>8. cs[n].send = "FIRST" <=> n \in F
  BY <1>1 DEF Starting, n
<1> HIDE DEF F, G
<1>9. /\ m + Cardinality(G) <= Len(CallRuns)
      /\ cs[n].send = "FIRST" => /\ m + 1 + Cardinality(G) <= Len(CallRuns)
                                 /\ m + 1 \in 1..Len(CallRuns)
  BY <1>3, <1>5, <1>7, <1>8, RunFacts
<1>10. QED BY <1>3, <1>9 DEF RoomOK, n, o, G

---------------------------------------------------------------------------
(* The beginning of a procedure.                                           *)

\* The slot above those in use is filled.
Filled(sl, d, s) == [sl EXCEPT ![d + 1] = Opened(s)]

\* In the slots g the slot above the d in use holds a call of its own; those in
\* use are as in sl.
FillsOne(sl, d, s, g) ==
  /\ g \in [1..MaxDepth -> Slot]
  /\ \A i \in 1..d : g[i] = sl[i]
  /\ g[d + 1].saved = s
  /\ ~g[d + 1].completed
  /\ g[d + 1].result = NoRun

LEMMA FillFacts ==
  ASSUME NEW sl \in [1..MaxDepth -> Slot], NEW d \in 0..(MaxDepth - 1), NEW s \in Streams
  PROVE  FillsOne(sl, d, s, Filled(sl, d, s))
<1> DEFINE o == Opened(s)
<1>1. o \in Slot
  BY DEF Opened, Slot
<1>2. o.saved = s /\ ~o.completed /\ o.result = NoRun
  BY DEF Opened
<1> HIDE DEF o
<1>3. d + 1 \in 1..MaxDepth /\ \A i \in 1..d : i \in 1..MaxDepth /\ i # d + 1
  BY GuestCallsAssumption
<1> DEFINE f == [sl EXCEPT ![d + 1] = o]
<1>4. /\ f \in [1..MaxDepth -> Slot]
      /\ \A i \in 1..d : f[i] = sl[i]
      /\ f[d + 1] = o
  BY <1>1, <1>3
<1>5. f = Filled(sl, d, s)
  BY DEF Filled, o
<1> HIDE DEF f
<1>6. QED BY <1>2, <1>4, <1>5 DEF FillsOne

\* A procedure that is not run leaves its slot behind, above those in use.
LEMMA RefuseOK ==
  ASSUME NEW cs, NEW sl, NEW d, NEW s \in Streams, NEW dd,
         MirrorOK(cs, sl, d, TRUE), d < MaxDepth, OwnOK(cs, sl, s, dd)
  PROVE  MirrorOK(cs, Filled(sl, d, s), d, TRUE) /\ OwnOK(cs, Filled(sl, d, s), s, dd)
<1> DEFINE f == Filled(sl, d, s)
           n == Len(cs)
           b == Bottom(cs)
<1>1. /\ cs \in Seq(Frame) /\ sl \in [1..MaxDepth -> Slot]
      /\ d = n - b /\ d \in 0..MaxDepth
  BY DEF MirrorOK
<1>2. n \in Nat /\ b \in 0..1 /\ d \in 0..(MaxDepth - 1)
  BY <1>1, BottomFacts, GuestCallsAssumption
<1>3. f \in [1..MaxDepth -> Slot] /\ \A i \in 1..d : f[i] = sl[i]
  <2>1. sl \in [1..MaxDepth -> Slot] /\ d \in 0..(MaxDepth - 1)
    BY <1>1, <1>2
  <2>2. FillsOne(sl, d, s, f)
    BY <2>1, FillFacts
  <2> HIDE DEF f
  <2>3. QED BY <2>2 DEF FillsOne
<1> HIDE DEF f
<1>4. ASSUME NEW i \in 1..n, i > b
      PROVE  f[i - b] = sl[i - b]
  <2> HIDE DEF n, b
  <2>1. i - b \in 1..d
    BY <1>1, <1>2, <1>4
  <2>2. QED BY <1>3, <2>1
<1>5. MirrorOK(cs, f, d, TRUE)
  BY <1>1, <1>3, <1>4 DEF MirrorOK
<1>6. \A i \in 1..n : Result(cs, f, dd, i) = Result(cs, sl, dd, i)
  <2>1. TAKE i \in 1..n
  <2>2. ~(i <= b) => i > b
    BY <1>2
  <2>3. QED BY <1>4, <2>2 DEF Result
<1>7. OwnOK(cs, f, s, dd)
  BY <1>6 DEF OwnOK
<1>8. QED BY <1>5, <1>7 DEF f

LEMMA PushMirror ==
  ASSUME NEW cs, NEW sl, NEW d, NEW f \in Frame,
         MirrorOK(cs, sl, d, TRUE), d < MaxDepth,
         f.kind = "WNDPROC", f.slot = d + 1
  PROVE  MirrorOK(Append(cs, f), Filled(sl, d, f.saved), d + 1, FALSE)
<1> DEFINE s == f.saved
           g == Filled(sl, d, s)
           n == Len(cs)
           b == Bottom(cs)
           a == Append(cs, f)
<1>1. /\ cs \in Seq(Frame) /\ sl \in [1..MaxDepth -> Slot]
      /\ d = n - b /\ d \in 0..MaxDepth
      /\ \A i \in 1..n : i > b =>
           /\ cs[i].kind = "WNDPROC" /\ cs[i].slot = i - b
           /\ sl[i - b].saved = cs[i].saved
           /\ ~sl[i - b].completed
  BY DEF MirrorOK
<1>2. /\ n \in Nat /\ b \in 0..1 /\ b <= n
      /\ d \in 0..(MaxDepth - 1) /\ s \in Streams
  BY <1>1, BottomFacts, GuestCallsAssumption DEF Frame
<1>3. /\ g \in [1..MaxDepth -> Slot] /\ \A i \in 1..d : g[i] = sl[i]
      /\ g[d + 1].saved = s /\ ~g[d + 1].completed
  <2>1. /\ sl \in [1..MaxDepth -> Slot] /\ d \in 0..(MaxDepth - 1) /\ s \in Streams
    BY <1>1, <1>2
  <2> HIDE DEF s, n, b, a
  <2>2. FillsOne(sl, d, s, g)
    BY <2>1, FillFacts
  <2> HIDE DEF g
  <2>3. QED BY <2>2 DEF FillsOne
<1>4. /\ a \in Seq(Frame) /\ Len(a) = n + 1 /\ Bottom(a) = b
      /\ \A i \in 1..n : a[i] = cs[i]
      /\ a[n + 1] = f
  BY <1>1, AppendFacts
<1>5. SUFFICES MirrorOK(a, g, d + 1, FALSE)
  BY DEF a, g
<1> HIDE DEF n, b, a, g, s
<1>6. d + 1 = Len(a) - Bottom(a) /\ d + 1 \in 0..MaxDepth
  BY <1>1, <1>2, <1>4, GuestCallsAssumption
<1>7. ASSUME NEW i \in 1..Len(a), i > Bottom(a)
      PROVE  /\ a[i].kind = "WNDPROC"
             /\ a[i].slot = i - Bottom(a)
             /\ g[i - Bottom(a)].saved = a[i].saved
             /\ g[i - Bottom(a)].completed => i = Len(a)
  <2>1. CASE i = n + 1
    <3>1. a[i] = f /\ i - b = d + 1 /\ i = Len(a)
      BY <1>1, <1>2, <1>4, <2>1
    <3>2. QED BY <1>3, <1>4, <3>1 DEF s
  <2>2. CASE i # n + 1
    <3>1. i \in 1..n /\ i > b /\ i - b \in 1..d
      BY <1>1, <1>2, <1>4, <1>7, <2>2
    <3>2. QED BY <1>1, <1>3, <1>4, <3>1
  <2>3. QED BY <2>1, <2>2
<1>8. QED BY <1>3, <1>4, <1>6, <1>7 DEF MirrorOK

LEMMA PushOwn ==
  ASSUME NEW cs, NEW sl, NEW d, NEW f \in Frame, NEW dd,
         MirrorOK(cs, sl, d, TRUE), d < MaxDepth, f.kind = "WNDPROC",
         OwnOK(cs, sl, f.saved, dd), f.run \in CallSet, ~f.mixed
  PROVE  OwnOK(Append(cs, f), Filled(sl, d, f.saved), f.run, dd)
<1> DEFINE s == f.saved
           g == Filled(sl, d, s)
           n == Len(cs)
           b == Bottom(cs)
           a == Append(cs, f)
<1>1. /\ cs \in Seq(Frame) /\ sl \in [1..MaxDepth -> Slot]
      /\ d = n - b /\ d \in 0..MaxDepth
  BY DEF MirrorOK
<1>2. /\ n \in Nat /\ b \in 0..1 /\ b <= n
      /\ d \in 0..(MaxDepth - 1) /\ s \in Streams
  BY <1>1, BottomFacts, GuestCallsAssumption DEF Frame
<1>3. /\ \A i \in 1..d : g[i] = sl[i]
      /\ g[d + 1].result = NoRun
  <2>1. /\ sl \in [1..MaxDepth -> Slot] /\ d \in 0..(MaxDepth - 1) /\ s \in Streams
    BY <1>1, <1>2
  <2> HIDE DEF s, n, b, a
  <2>2. FillsOne(sl, d, s, g)
    BY <2>1, FillFacts
  <2> HIDE DEF g
  <2>3. QED BY <2>2 DEF FillsOne
<1>4. /\ Len(a) = n + 1 /\ Bottom(a) = b
      /\ \A i \in 1..n : a[i] = cs[i]
      /\ a[n + 1] = f
  BY <1>1, AppendFacts
<1>5. \A i \in 1..n :
        /\ cs[i].run \in IF i <= b THEN DllSet ELSE CallSet
        /\ ~cs[i].mixed =>
             /\ \A j \in i..n : ~cs[j].mixed
             /\ i = n => s = cs[i].run
             /\ i < n => cs[i + 1].saved = cs[i].run
             /\ Result(cs, sl, dd, i) \in {NoRun, cs[i].run}
  BY DEF OwnOK
<1>6. SUFFICES OwnOK(a, g, f.run, dd)
  BY DEF a, g
<1> HIDE DEF n, b, a, g
<1>7. \A i \in 1..n : Result(a, g, dd, i) = Result(cs, sl, dd, i)
  <2>1. TAKE i \in 1..n
  <2>2. i <= b \/ i - b \in 1..d
    BY <1>1, <1>2
  <2>3. QED BY <1>3, <1>4, <2>2 DEF Result, b
<1>8. SUFFICES ASSUME NEW i \in 1..(n + 1)
               PROVE  /\ a[i].run \in IF i <= b THEN DllSet ELSE CallSet
                      /\ ~a[i].mixed =>
                           /\ \A j \in i..(n + 1) : ~a[j].mixed
                           /\ i = n + 1 => f.run = a[i].run
                           /\ i < n + 1 => a[i + 1].saved = a[i].run
                           /\ Result(a, g, dd, i) \in {NoRun, a[i].run}
  BY <1>4 DEF OwnOK
<1>9. CASE i = n + 1
  <2>1. a[i] = f /\ ~(i <= b) /\ i - b = d + 1 /\ ~(i < n + 1)
        /\ \A j \in i..(n + 1) : j = n + 1
    BY <1>1, <1>2, <1>4, <1>9
  <2>2. Result(a, g, dd, i) = NoRun
    BY <1>3, <1>4, <2>1 DEF Result
  <2>3. QED BY <1>4, <2>1, <2>2
<1>10. CASE i # n + 1
  <2>1. /\ i \in 1..n /\ a[i] = cs[i]
        /\ i = n => a[i + 1].saved = s
        /\ i # n => i < n /\ a[i + 1] = cs[i + 1]
    BY <1>2, <1>4, <1>10
  <2>2. \A j \in i..(n + 1) : a[j] = f \/ (j \in i..n /\ a[j] = cs[j])
    BY <1>2, <1>4
  <2>3. QED BY <1>5, <1>7, <1>10, <2>1, <2>2
<1>11. QED BY <1>9, <1>10

LEMMA PushCache ==
  ASSUME NEW cs \in Seq(Frame), NEW ca, NEW f \in Frame,
         f.kind = "WNDPROC", CacheOK(cs, ca)
  PROVE  CacheOK(Append(cs, f), IF f.wnd \in Copied THEN f.wnd ELSE ca)
<1> DEFINE a == Append(cs, f)
           n == Len(cs)
<1>1. n \in Nat /\ Bottom(cs) \in 0..1 /\ Bottom(cs) <= n
  BY BottomFacts
<1>2. /\ Len(a) = n + 1 /\ Bottom(a) = Bottom(cs)
      /\ \A i \in 1..n : a[i] = cs[i]
      /\ a[n + 1] = f
  BY AppendFacts
<1>3. /\ ca \in Copied \cup {NoWnd}
      /\ ca # NoWnd => \E i \in 1..n : i > Bottom(cs) /\ cs[i].wnd = ca
  BY DEF CacheOK
<1> HIDE DEF a, n
<1>4. CASE f.wnd \in Copied
  <2>1. n + 1 \in 1..Len(a) /\ n + 1 > Bottom(a) /\ a[n + 1].wnd = f.wnd
    BY <1>1, <1>2
  <2>2. QED BY <1>4, <2>1 DEF CacheOK, a
<1>5. CASE f.wnd \notin Copied
  <2>1. ASSUME NEW i \in 1..n, i > Bottom(cs), cs[i].wnd = ca
        PROVE  i \in 1..Len(a) /\ i > Bottom(a) /\ a[i].wnd = ca
    BY <1>1, <1>2, <2>1
  <2>2. QED BY <1>3, <1>5, <2>1 DEF CacheOK, a
<1>6. QED BY <1>4, <1>5

\* How many runs a call needs.
Needs(send) == IF send = "FIRST" THEN 2 ELSE 1

LEMMA PushRoom ==
  ASSUME NEW cs \in Seq(Frame), NEW f \in Frame, f.kind = "WNDPROC",
         NEW m \in Nat, RoomOK(cs, m + Needs(f.send))
  PROVE  RoomOK(Append(cs, f), m + 1) /\ m + 1 \in 1..Len(CallRuns)
<1> DEFINE a == Append(cs, f)
           n == Len(cs)
           F == Starting(cs)
           G == Starting(a)
<1>1. n \in Nat
  BY BottomFacts
<1>2. /\ Len(a) = n + 1
      /\ \A i \in 1..n : a[i] = cs[i]
      /\ a[n + 1] = f
  BY AppendFacts
<1>3. m + Needs(f.send) + Cardinality(F) <= Len(CallRuns)
  BY DEF RoomOK
<1> HIDE DEF n, a
<1>4. IsFiniteSet(F) /\ n + 1 \notin F
  <2>1. IsFiniteSet(1..n)
    BY <1>1, FS_Interval
  <2>2. F \subseteq 1..n /\ n + 1 \notin F
    BY <1>1 DEF Starting, n
  <2>3. QED BY <2>1, <2>2, FS_Subset
<1>5. G = IF f.send = "FIRST" THEN F \cup {n + 1} ELSE F
  BY <1>1, <1>2 DEF Starting, n
<1> HIDE DEF F, G
<1>6. Cardinality(F) \in Nat
  BY <1>4, FS_CardinalityType
<1>7. Cardinality(G) = IF f.send = "FIRST" THEN Cardinality(F) + 1 ELSE Cardinality(F)
  BY <1>4, <1>5, FS_AddElement
<1>8. /\ m + 1 + Cardinality(G) <= Len(CallRuns) /\ m + 1 \in Nat
      /\ m + 1 \in 1..Len(CallRuns)
  BY <1>3, <1>6, <1>7, RunFacts DEF Needs
<1>9. QED BY <1>8 DEF RoomOK, a, G

---------------------------------------------------------------------------
(* The actions.                                                            *)

\* What a step leaves behind.
StepOK ==
  /\ vm' \in VM
  /\ inExec' \in BOOLEAN /\ started' \in BOOLEAN
  /\ dllDone' \in RunSet \cup {NoRun}
  /\ dlls' \in 0..Len(DllRuns)
  /\ StackOK(calls', slots', depth', cache', vm'.cpu, dllDone', inExec', made')
  /\ AnswerOK'

LEMMA NoAnswerOK ==
  ASSUME answer' = NoAnswer
  PROVE  AnswerOK'
  BY DEF NoAnswer, AnswerOK, CallerResumes, ResultIsOwn

\* One field of the scheduler.
LEMMA CpuVM ==
  ASSUME NEW k \in VM, NEW s \in Streams, NEW e \in BOOLEAN
  PROVE  /\ [k EXCEPT !.cpu = s, !.exitReq = e] \in VM
         /\ [k EXCEPT !.cpu = s, !.exitReq = e].cpu = s
  BY DEF VM

\* Entering a procedure, for CallWindow from the registers of the caller and
\* for EndCallback from those it has restored; ca is the cache in between.
LEMMA EnterOK ==
  ASSUME vm \in VM, inExec \in BOOLEAN,
         NEW w \in Windows \cup {NoWnd}, NEW send \in {"FIRST", "LAST"},
         NEW outer, NEW s \in Streams, NEW d, NEW ca,
         MirrorOK(outer, slots, d, TRUE), OwnOK(outer, slots, s, dllDone),
         CacheOK(outer, ca),
         cache = ca \/ (w \in Copied /\ ca = NoWnd /\ d < MaxDepth),
         RoomOK(outer, made), made \in Nat, RoomOK(outer, made + Needs(send)),
         Enter(w, send, outer, s, d), UNCHANGED dllDone
  PROVE  /\ vm' \in VM /\ inExec' \in BOOLEAN
         /\ StackOK(calls', slots', depth', cache', vm'.cpu, dllDone', inExec', made')
<1>1. outer \in Seq(Frame) /\ d \in 0..MaxDepth /\ vm.exitReq \in BOOLEAN
  BY DEF MirrorOK, VM
<1>2. CASE d = MaxDepth
  <2>1. /\ calls' = outer /\ slots' = slots /\ depth' = d
        /\ inExec' = TRUE /\ made' = made /\ cache' = cache
        /\ vm' = [vm EXCEPT !.cpu = s, !.exitReq = @ /\ d = MaxDepth /\ inExec]
    BY <1>1, <1>2, GuestCallsAssumption DEF Enter
  <2>2. vm' \in VM /\ vm'.cpu = s
    BY <2>1 DEF VM
  <2>3. cache = ca
    BY <1>1, <1>2
  <2>4. QED BY <2>1, <2>2, <2>3 DEF StackOK
<1>3. CASE d # MaxDepth /\ vm.exited
  <2>1. /\ calls' = outer /\ slots' = Filled(slots, d, s) /\ depth' = d
        /\ inExec' = TRUE /\ made' = made
        /\ cache' = IF w \in Copied THEN NoWnd ELSE cache
        /\ vm' = [vm EXCEPT !.cpu = s, !.exitReq = @ /\ d = MaxDepth /\ inExec]
    BY <1>1, <1>3, GuestCallsAssumption DEF Enter, FillSlot, Filled
  <2>2. vm' \in VM /\ vm'.cpu = s
    BY <2>1 DEF VM
  <2>3. d < MaxDepth
    BY <1>1, <1>3, GuestCallsAssumption
  <2>4. MirrorOK(outer, slots', d, TRUE) /\ OwnOK(outer, slots', s, dllDone)
    BY <2>1, <2>3, RefuseOK
  <2>5. CacheOK(outer, cache')
    BY <2>1 DEF CacheOK
  <2>6. QED BY <2>1, <2>2, <2>4, <2>5 DEF StackOK
<1>4. CASE d # MaxDepth /\ ~vm.exited
  <2> DEFINE f == [kind |-> "WNDPROC", run |-> CallRuns[made + 1], saved |-> s,
                   slot |-> d + 1, wnd |-> w, send |-> send, mixed |-> FALSE]
  <2>1. /\ calls' = Append(outer, f) /\ slots' = Filled(slots, d, s) /\ depth' = d + 1
        /\ inExec' = FALSE /\ made' = made + 1
        /\ cache' = IF w \in Copied THEN w ELSE cache
        /\ vm' = [vm EXCEPT !.cpu = CallRuns[made + 1], !.exitReq = @ /\ inExec]
    BY <1>4 DEF Enter, FillSlot, Filled
  <2>2. d < MaxDepth /\ d + 1 \in 0..MaxDepth
    BY <1>1, <1>4, GuestCallsAssumption
  <2>3. made + 1 \in 1..Len(CallRuns)
    <3>1. made + Needs(send) + Cardinality(Starting(outer)) <= Len(CallRuns)
      BY DEF RoomOK
    <3>2. Cardinality(Starting(outer)) \in Nat
      <4>1. Len(outer) \in Nat /\ Starting(outer) \subseteq 1..Len(outer)
        BY <1>1, BottomFacts DEF Starting
      <4>2. IsFiniteSet(1..Len(outer))
        BY <4>1, FS_Interval
      <4>3. IsFiniteSet(Starting(outer))
        BY <4>1, <4>2, FS_Subset
      <4>4. QED BY <4>3, FS_CardinalityType
    <3>3. QED BY <3>1, <3>2, RunFacts DEF Needs
  <2>4. /\ CallRuns[made + 1] \in CallSet /\ CallRuns[made + 1] \in Streams
        /\ CallRuns[made + 1] \in RunSet
    BY <2>3, RunFacts DEF CallSet
  <2>5. /\ f \in Frame /\ f.kind = "WNDPROC" /\ f.slot = d + 1 /\ ~f.mixed
        /\ f.saved = s /\ f.run = CallRuns[made + 1] /\ f.wnd = w /\ f.send = send
    BY <2>2, <2>4 DEF Frame
  <2>6. vm' \in VM /\ vm'.cpu = f.run
    BY <2>1, <2>4, <2>5 DEF VM
  <2> HIDE DEF f
  <2>7. MirrorOK(calls', slots', depth', FALSE)
    BY <2>1, <2>2, <2>5, PushMirror
  <2>8. OwnOK(calls', slots', f.run, dllDone)
    BY <2>1, <2>2, <2>4, <2>5, PushOwn
  <2>9. CacheOK(calls', cache')
    <3>1. CacheOK(calls', IF w \in Copied THEN w ELSE ca)
      BY <1>1, <2>1, <2>5, PushCache
    <3>2. cache' = IF w \in Copied THEN w ELSE ca
      BY <2>1
    <3>3. QED BY <3>1, <3>2
  <2>10. RoomOK(calls', made')
    BY <1>1, <2>1, <2>5, PushRoom
  <2>11. QED BY <2>1, <2>6, <2>7, <2>8, <2>9, <2>10 DEF StackOK
<1>5. QED BY <1>2, <1>3, <1>4

\* What the invariant says of the variables when no procedure has returned.
LEMMA Running ==
  ASSUME NEW cs, NEW sl, NEW d, MirrorOK(cs, sl, d, FALSE),
         Len(cs) > Bottom(cs) => ~sl[d].completed
  PROVE  MirrorOK(cs, sl, d, TRUE)
<1> DEFINE n == Len(cs)
           b == Bottom(cs)
<1>1. /\ d = n - b
      /\ \A i \in 1..n : i > b => (sl[i - b].completed => i = n)
  BY DEF MirrorOK
<1>2. n \in Nat /\ b \in 0..1
  BY BottomFacts DEF MirrorOK
<1>3. n > b => ~sl[d].completed
  OBVIOUS
<1> HIDE DEF n, b
<1>4. ASSUME NEW i \in 1..n, i > b
      PROVE  ~sl[i - b].completed
  <2>1. CASE i = n
    BY <1>1, <1>2, <1>3, <1>4, <2>1
  <2>2. CASE i # n
    BY <1>1, <1>4, <2>2
  <2>3. QED BY <2>1, <2>2
<1>5. QED BY <1>4 DEF MirrorOK, n, b

\* What holds while the guest runs holds when it stops.
LEMMA Stopping ==
  ASSUME NEW cs, NEW sl, NEW d, NEW ex \in BOOLEAN, MirrorOK(cs, sl, d, TRUE)
  PROVE  MirrorOK(cs, sl, d, ex)
  BY DEF MirrorOK

\* A system call about threads marks every call in progress, or leaves the
\* registers to the innermost one.
LEMMA MarkedOK ==
  ASSUME IInv, inExec, NEW k \in VM, NEW ex \in BOOLEAN
  PROVE  StackOK(Marked(k), slots, depth, cache, k.cpu, dllDone, ex, made)
<1> DEFINE a == Marked(k)
           n == Len(calls)
           b == Bottom(calls)
           new == k.current # vm.current \/ k.cpu # vm.cpu
<1>0. /\ MirrorOK(calls, slots, depth, TRUE) /\ OwnOK(calls, slots, vm.cpu, dllDone)
      /\ CacheOK(calls, cache) /\ RoomOK(calls, made)
  <2>1. inExec = TRUE
    BY DEF IInv
  <2>2. QED BY <2>1 DEF IInv, StackOK
<1>1. /\ calls \in Seq(Frame) /\ n \in Nat /\ DOMAIN calls = 1..n
      /\ calls # <<>> <=> n >= 1
  BY <1>0, BottomFacts DEF MirrorOK
<1>2. \A i \in 1..n : calls[i] \in Frame
  BY <1>1
<1>3. a = [i \in 1..n |-> [calls[i] EXCEPT !.mixed = @ \/ new]]
  BY <1>1 DEF Marked
<1>4. \A f \in Frame : \A x \in BOOLEAN :
        /\ [f EXCEPT !.mixed = x] \in Frame
        /\ [f EXCEPT !.mixed = x].kind = f.kind
        /\ [f EXCEPT !.mixed = x].run = f.run
        /\ [f EXCEPT !.mixed = x].saved = f.saved
        /\ [f EXCEPT !.mixed = x].slot = f.slot
        /\ [f EXCEPT !.mixed = x].wnd = f.wnd
        /\ [f EXCEPT !.mixed = x].send = f.send
        /\ [f EXCEPT !.mixed = x].mixed = x
  BY DEF Frame
<1>5. ASSUME NEW i \in 1..n
      PROVE  /\ a[i] \in Frame
             /\ a[i].kind = calls[i].kind /\ a[i].run = calls[i].run
             /\ a[i].saved = calls[i].saved /\ a[i].slot = calls[i].slot
             /\ a[i].wnd = calls[i].wnd /\ a[i].send = calls[i].send
             /\ a[i].mixed <=> calls[i].mixed \/ new
  <2> DEFINE x == calls[i].mixed \/ new
  <2>1. a[i] = [calls[i] EXCEPT !.mixed = x]
    BY <1>3
  <2>2. x \in BOOLEAN
    OBVIOUS
  <2> DEFINE y == [calls[i] EXCEPT !.mixed = x]
  <2> HIDE DEF x, a
  <2>3. /\ y \in Frame /\ y.kind = calls[i].kind /\ y.run = calls[i].run
        /\ y.saved = calls[i].saved /\ y.slot = calls[i].slot
        /\ y.wnd = calls[i].wnd /\ y.send = calls[i].send
        /\ y.mixed = x
    BY <1>2, <1>4, <2>2
  <2>4. a[i] = y
    BY <2>1
  <2> HIDE DEF y
  <2>5. a[i].mixed = x
    BY <2>3, <2>4
  <2>6. a[i].mixed <=> calls[i].mixed \/ new
    BY <2>5 DEF x
  <2>7. QED BY <2>3, <2>4, <2>6
<1>6. Len(a) = n /\ a \in Seq(Frame)
  <2>1. a \in [1..n -> Frame]
    BY <1>3, <1>5
  <2> HIDE DEF n, a
  <2>2. QED BY <1>1, <2>1
<1> HIDE DEF a, new
<1>7. Bottom(a) = b
  <2>1. a # <<>> <=> n >= 1
    BY <1>1, <1>6, BottomFacts
  <2>2. n >= 1 => 1 \in 1..n
    BY <1>1
  <2>3. QED BY <1>1, <1>5, <2>1, <2>2 DEF Bottom
<1>8. MirrorOK(a, slots, depth, TRUE)
  BY <1>0, <1>5, <1>6, <1>7 DEF MirrorOK
<1>9. OwnOK(a, slots, k.cpu, dllDone)
  <2>1. \A i \in 1..n : Result(a, slots, dllDone, i) = Result(calls, slots, dllDone, i)
    BY <1>7 DEF Result
  <2>2. ~new => k.cpu = vm.cpu
    BY DEF new
  <2>3. SUFFICES ASSUME NEW i \in 1..n
                 PROVE  /\ a[i].run \in IF i <= b THEN DllSet ELSE CallSet
                        /\ ~a[i].mixed =>
                             /\ \A j \in i..n : ~a[j].mixed
                             /\ i = n => k.cpu = a[i].run
                             /\ i < n => a[i + 1].saved = a[i].run
                             /\ Result(a, slots, dllDone, i) \in {NoRun, a[i].run}
    BY <1>6, <1>7 DEF OwnOK
  <2>4. /\ calls[i].run \in IF i <= b THEN DllSet ELSE CallSet
        /\ ~calls[i].mixed =>
             /\ \A j \in i..n : ~calls[j].mixed
             /\ i = n => vm.cpu = calls[i].run
             /\ i < n => calls[i + 1].saved = calls[i].run
             /\ Result(calls, slots, dllDone, i) \in {NoRun, calls[i].run}
    BY <1>0 DEF OwnOK
  <2>5. /\ \A j \in i..n : j \in 1..n
        /\ i < n => i + 1 \in 1..n
    BY <1>1
  <2>6. QED BY <1>5, <2>1, <2>2, <2>4, <2>5
<1>10. CacheOK(a, cache)
  BY <1>0, <1>5, <1>6, <1>7 DEF CacheOK
<1>11. RoomOK(a, made)
  <2>1. Starting(a) = Starting(calls)
    BY <1>5, <1>6 DEF Starting
  <2>2. QED BY <1>0, <2>1 DEF RoomOK
<1>12. QED BY <1>8, <1>9, <1>10, <1>11, Stopping DEF StackOK, a

LEMMA GuestStepOK ==
  ASSUME IInv, NEW k \in VM, GuestStep(k)
  PROVE  StepOK
<1>1. (~k.exitReq) \in BOOLEAN /\ vm' = k /\ inExec' = ~k.exitReq
  BY DEF GuestStep, VM
<1>2. StackOK(calls', slots', depth', cache', vm'.cpu, dllDone', inExec', made')
  BY <1>1, MarkedOK DEF GuestStep
<1>3. AnswerOK'
  BY NoAnswerOK DEF GuestStep
<1>4. QED BY <1>1, <1>2, <1>3 DEF GuestStep, StepOK, IInv

LEMMA ThreadCallOK ==
  ASSUME IInv,
         \/ \E t \in Tids : NtTerminateThread(t)
         \/ \E t \in Threads : NtCreateThread(t) \/ NtSuspendThread(t) \/ NtResumeThread(t)
         \/ NtDelayExecution
         \/ NtTerminateProcess
  PROVE  StepOK
<1>1. vm \in VM /\ vm.current \in Tids /\ Threads \subseteq Tids
  BY DEF IInv, VM, Tids
<1>2. ASSUME NEW t \in Tids, NtTerminateThread(t)
      PROVE  StepOK
  <2> DEFINE a == [vm EXCEPT !.state[t] = "TERMINATED"]
             k == RemoveThread(a, t)
             l == [k EXCEPT !.exited = @ \/ k.all = {}]
  <2>1. a \in VM
    BY <1>1, StateVM DEF States
  <2> HIDE DEF a
  <2>2. k \in VM
    BY <2>1, RemoveThreadVM
  <2> HIDE DEF k
  <2>3. l \in VM
    BY <2>2 DEF VM
  <2>4. GuestStep(l)
    BY <1>2 DEF NtTerminateThread, a, k
  <2> HIDE DEF l
  <2>5. QED BY <2>3, <2>4, GuestStepOK
<1>3. ASSUME NEW t \in Threads, NtCreateThread(t)
      PROVE  StepOK
  <2>1. AddThread(NewThread(vm, t, "READY"), t) \in VM
    BY <1>1, CreatedVM
  <2>2. QED BY <1>3, <2>1, GuestStepOK DEF NtCreateThread
<1>4. ASSUME NEW t \in Threads, NtSuspendThread(t)
      PROVE  StepOK
  <2> DEFINE k == IF vm.state[t] = "READY" THEN RemoveReady(vm, t) ELSE vm
             stopped == IF vm.state[t] \in {"READY", "RUNNING"}
                        THEN [k EXCEPT !.state[t] = "INITIALIZED"] ELSE k
             l == IF t = vm.current THEN Switch(stopped) ELSE stopped
  <2>1. k \in VM
    BY <1>1, RemoveReadyVM
  <2>2. GuestStep(l)
    BY <1>4 DEF NtSuspendThread
  <2> HIDE DEF k
  <2>3. stopped \in VM
    BY <1>1, <2>1, StateVM DEF States
  <2> HIDE DEF stopped
  <2>4. l \in VM
    BY <2>3, SwitchVM
  <2> HIDE DEF l
  <2>5. QED BY <2>2, <2>4, GuestStepOK
<1>5. ASSUME NEW t \in Threads, NtResumeThread(t)
      PROVE  StepOK
  <2> DEFINE a == [vm EXCEPT !.state[t] = "READY"]
             l == IF vm.state[t] = "INITIALIZED" THEN AddReady(a, t) ELSE vm
  <2>1. a \in VM /\ t \in Tids
    BY <1>1, StateVM DEF States
  <2>2. GuestStep(l)
    BY <1>5 DEF NtResumeThread
  <2> HIDE DEF a
  <2>3. l \in VM
    BY <1>1, <2>1, AddReadyVM
  <2> HIDE DEF l
  <2>4. QED BY <2>2, <2>3, GuestStepOK
<1>6. ASSUME NtDelayExecution
      PROVE  StepOK
  <2>1. BlockThread(vm, <<>>, "ANY") \in VM
    BY <1>1, <1>6, BlockThreadVM DEF NtDelayExecution
  <2>2. Unblocked(CheckTimeouts(BlockThread(vm, <<>>, "ANY")), vm.current) \in VM
    BY <1>1, <2>1, CheckTimeoutsVM, UnblockedVM
  <2>3. QED BY <1>6, <2>2, GuestStepOK DEF NtDelayExecution
<1>7. ASSUME NtTerminateProcess
      PROVE  StepOK
  <2>1. [vm EXCEPT !.exited = TRUE, !.exitReq = TRUE] \in VM
    BY <1>1 DEF VM
  <2>2. QED BY <1>7, <2>1, GuestStepOK DEF NtTerminateProcess
<1>8. QED BY <1>2, <1>3, <1>4, <1>5, <1>6, <1>7

LEMMA CallWindowOK ==
  ASSUME IInv, NEW w \in Windows, NEW send \in {"FIRST", "LAST"}, CallWindow(w, send)
  PROVE  StepOK
<1>1. /\ vm \in VM /\ inExec \in BOOLEAN /\ inExec = TRUE /\ vm.cpu \in Streams
      /\ Enter(w, send, calls, vm.cpu, depth)
      /\ UNCHANGED <<dllDone, dlls, started>> /\ answer' = NoAnswer
  BY DEF CallWindow, IInv, VM
<1>2. /\ MirrorOK(calls, slots, depth, TRUE) /\ OwnOK(calls, slots, vm.cpu, dllDone)
      /\ CacheOK(calls, cache) /\ RoomOK(calls, made)
  BY <1>1 DEF IInv, StackOK
<1>3. RoomOK(calls, made + Needs(send)) /\ made \in Nat
  <2>1. DOMAIN calls = 1..Len(calls)
    BY <1>2, BottomFacts DEF MirrorOK
  <2>2. made + Needs(send) + Cardinality(Starting(calls)) <= Len(CallRuns)
    BY <2>1 DEF CallWindow, RunsLeft, Needs, Starting
  <2>3. made \in Nat /\ made + Needs(send) \in Nat
    BY <1>2 DEF RoomOK, Needs
  <2>4. QED BY <2>2, <2>3 DEF RoomOK
<1>4. /\ vm' \in VM /\ inExec' \in BOOLEAN
      /\ StackOK(calls', slots', depth', cache', vm'.cpu, dllDone', inExec', made')
  <2>1. w \in Windows \cup {NoWnd} /\ UNCHANGED dllDone
    BY <1>1
  <2>2. QED BY <1>1, <1>2, <1>3, <2>1, EnterOK
<1>5. QED BY <1>1, <1>4, NoAnswerOK DEF StepOK, IInv

LEMMA WndProcReturnOK ==
  ASSUME IInv, WndProcReturn
  PROVE  StepOK
<1> DEFINE n == Len(calls)
           b == Bottom(calls)
<1>1. /\ vm \in VM /\ inExec = TRUE /\ vm.cpu \in CallSet
      /\ UNCHANGED <<calls, depth, cache, dllDone, dlls, started, made>>
      /\ answer' = NoAnswer /\ inExec' = ~vm'.exitReq
  BY DEF WndProcReturn, IInv, CallSet
<1>2. /\ MirrorOK(calls, slots, depth, TRUE) /\ OwnOK(calls, slots, vm.cpu, dllDone)
      /\ CacheOK(calls, cache) /\ RoomOK(calls, made)
  BY <1>1 DEF IInv, StackOK
<1>3. CASE depth = 0
  <2>1. UNCHANGED <<slots, vm>>
    BY <1>3 DEF WndProcReturn
  <2>2. inExec' \in BOOLEAN
    BY <1>1, <2>1 DEF VM
  <2>3. StackOK(calls', slots', depth', cache', vm'.cpu, dllDone', inExec', made')
    BY <1>1, <1>2, <2>1, <2>2, Stopping DEF StackOK
  <2>4. QED BY <1>1, <2>1, <2>2, <2>3, NoAnswerOK DEF StepOK, IInv
<1>4. CASE depth # 0
  <2>1. vm' = [vm EXCEPT !.exitReq = TRUE] /\ CallbackReturn
    BY <1>4 DEF WndProcReturn
  <2>2. vm' \in VM /\ vm'.cpu = vm.cpu /\ inExec' = FALSE
    BY <1>1, <2>1 DEF VM
  <2>3. /\ n > b /\ n \in Nat /\ b \in 0..1 /\ depth = n - b
        /\ depth \in 1..MaxDepth
        /\ calls \in Seq(Frame) /\ slots \in [1..MaxDepth -> Slot]
        /\ \A i \in 1..n : i > b =>
             /\ calls[i].kind = "WNDPROC" /\ calls[i].slot = i - b
             /\ slots[i - b].saved = calls[i].saved
             /\ ~slots[i - b].completed
    <3>1. /\ n \in Nat /\ b \in 0..1 /\ depth = n - b /\ depth \in 0..MaxDepth
      BY <1>2, BottomFacts DEF MirrorOK
    <3>2. n > b /\ depth \in 1..MaxDepth
      <4> HIDE DEF n, b
      <4>1. QED BY <1>4, <3>1, GuestCallsAssumption
    <3>3. QED BY <1>2, <3>1, <3>2 DEF MirrorOK
  <2> DEFINE one == [slots[depth] EXCEPT !.completed = TRUE, !.result = vm.cpu]
  <2>4. slots' = [slots EXCEPT ![depth] = one]
    BY <2>1 DEF CallbackReturn
  <2>5. /\ one \in Slot /\ one.saved = slots[depth].saved /\ one.result = vm.cpu
    <3>1. slots[depth] \in Slot
      BY <2>3
    <3>2. vm.cpu \in RunSet
      BY <1>1, RunFacts
    <3>3. QED BY <3>1, <3>2 DEF Slot
  <2> HIDE DEF one, n, b
  <2>6. /\ slots' \in [1..MaxDepth -> Slot]
        /\ \A i \in 1..MaxDepth : slots'[i] = IF i = depth THEN one ELSE slots[i]
    BY <2>3, <2>4, <2>5
  <2>7. \A i \in 1..n : i > b => i - b \in 1..MaxDepth /\ (i - b = depth <=> i = n)
    BY <2>3, GuestCallsAssumption
  <2>8. MirrorOK(calls, slots', depth, FALSE)
    <3>1. ASSUME NEW i \in 1..n, i > b
          PROVE  /\ calls[i].kind = "WNDPROC" /\ calls[i].slot = i - b
                 /\ slots'[i - b].saved = calls[i].saved
                 /\ slots'[i - b].completed => i = n
      <4>1. CASE i = n
        BY <2>3, <2>5, <2>6, <2>7, <3>1, <4>1
      <4>2. CASE i # n
        BY <2>3, <2>6, <2>7, <3>1, <4>2
      <4>3. QED BY <4>1, <4>2
    <3>2. depth \in 0..MaxDepth
      BY <2>3
    <3>3. QED BY <2>3, <2>6, <3>1, <3>2 DEF MirrorOK, n, b
  <2>9. OwnOK(calls, slots', vm.cpu, dllDone)
    <3>1. \A i \in 1..n :
            /\ calls[i].run \in IF i <= b THEN DllSet ELSE CallSet
            /\ ~calls[i].mixed =>
                 /\ \A j \in i..n : ~calls[j].mixed
                 /\ i = n => vm.cpu = calls[i].run
                 /\ i < n => calls[i + 1].saved = calls[i].run
                 /\ Result(calls, slots, dllDone, i) \in {NoRun, calls[i].run}
      BY <1>2 DEF OwnOK, n, b
    <3>2. ASSUME NEW i \in 1..n, ~calls[i].mixed
          PROVE  Result(calls, slots', dllDone, i) \in {NoRun, calls[i].run}
      <4>1. CASE i = n
        <5>1. ~(i <= b) /\ i - b = depth
          BY <2>3, <4>1
        <5>2. Result(calls, slots', dllDone, i) = vm.cpu
          BY <2>3, <2>5, <2>6, <5>1 DEF Result, b
        <5>3. QED BY <3>1, <3>2, <4>1, <5>2
      <4>2. CASE i # n
        <5>1. i <= b \/ (i > b /\ i - b \in 1..MaxDepth /\ i - b # depth)
          BY <2>3, <2>7, <4>2
        <5>2. Result(calls, slots', dllDone, i) = Result(calls, slots, dllDone, i)
          BY <2>6, <5>1 DEF Result, b
        <5>3. QED BY <3>1, <3>2, <5>2
      <4>3. QED BY <4>1, <4>2
    <3>3. QED BY <3>1, <3>2 DEF OwnOK, n, b
  <2>10. StackOK(calls', slots', depth', cache', vm'.cpu, dllDone', inExec', made')
    BY <1>1, <1>2, <2>2, <2>8, <2>9 DEF StackOK
  <2>11. QED BY <1>1, <2>2, <2>10, NoAnswerOK DEF StepOK, IInv
<1>5. QED BY <1>3, <1>4

\* Only a DLL's entry point that is the innermost call can have returned.
LEMMA DllInitDoneOK ==
  ASSUME IInv, DllInitDone
  PROVE  StepOK
<1> DEFINE n == Len(calls)
           b == Bottom(calls)
<1>1. /\ vm \in VM /\ inExec = TRUE /\ vm.cpu \in DllSet
      /\ UNCHANGED <<calls, slots, depth, cache, dlls, started, made>>
      /\ answer' = NoAnswer /\ inExec' = FALSE /\ dllDone' = vm.cpu
      /\ vm' = [vm EXCEPT !.exitReq = TRUE]
  BY DEF DllInitDone, IInv, DllSet
<1>2. vm' \in VM /\ vm'.cpu = vm.cpu
  BY <1>1 DEF VM
<1>3. /\ MirrorOK(calls, slots, depth, TRUE) /\ OwnOK(calls, slots, vm.cpu, dllDone)
      /\ CacheOK(calls, cache) /\ RoomOK(calls, made)
  BY <1>1 DEF IInv, StackOK
<1>4. n \in Nat /\ b \in 0..1
  BY <1>3, BottomFacts DEF MirrorOK
<1>5. \A i \in 1..n :
        /\ calls[i].run \in IF i <= b THEN DllSet ELSE CallSet
        /\ ~calls[i].mixed =>
             /\ \A j \in i..n : ~calls[j].mixed
             /\ i = n => vm.cpu = calls[i].run
             /\ i < n => calls[i + 1].saved = calls[i].run
             /\ Result(calls, slots, dllDone, i) \in {NoRun, calls[i].run}
  BY <1>3 DEF OwnOK
<1>6. ASSUME NEW i \in 1..n, ~calls[i].mixed
      PROVE  Result(calls, slots, vm.cpu, i) \in {NoRun, calls[i].run}
  <2> HIDE DEF n
  <2>1. CASE i <= b
    <3>1. n \in 1..n /\ n \in i..n
      BY <1>4
    <3>2. vm.cpu = calls[n].run
      BY <1>5, <1>6, <3>1
    <3>3. n <= b
      BY <1>1, <1>5, <3>1, <3>2, RunFacts
    <3>4. n = i
      BY <1>4, <2>1, <3>3
    <3>5. QED BY <2>1, <3>2, <3>4 DEF Result
  <2>2. CASE ~(i <= b)
    BY <1>5, <1>6, <2>2 DEF Result
  <2>3. QED BY <2>1, <2>2
<1>7. OwnOK(calls, slots, vm.cpu, vm.cpu)
  BY <1>5, <1>6 DEF OwnOK
<1>8. StackOK(calls', slots', depth', cache', vm'.cpu, dllDone', inExec', made')
  BY <1>1, <1>2, <1>3, <1>7, Stopping DEF StackOK
<1>9. dllDone' \in RunSet \cup {NoRun} /\ inExec' \in BOOLEAN
  BY <1>1, RunFacts
<1>10. QED BY <1>1, <1>2, <1>8, <1>9, NoAnswerOK DEF StepOK, IInv

\* Outside every call the invariant asks nothing of registers and results.
LEMMA NoCalls ==
  ASSUME IInv, calls = <<>>, NEW cpu, NEW dd, NEW ex \in BOOLEAN
  PROVE  StackOK(<<>>, slots, depth, cache, cpu, dd, ex, made)
<1>1. /\ MirrorOK(<<>>, slots, depth, inExec) /\ CacheOK(<<>>, cache)
      /\ RoomOK(<<>>, made)
  BY DEF IInv, StackOK
<1>2. Len(<<>>) = 0
  OBVIOUS
<1>3. \A i \in 1..Len(<<>>) : FALSE
  BY <1>2
<1>4. MirrorOK(<<>>, slots, depth, ex)
  BY <1>1, <1>3 DEF MirrorOK
<1>5. OwnOK(<<>>, slots, cpu, dd)
  BY <1>3 DEF OwnOK
<1>6. QED BY <1>1, <1>4, <1>5 DEF StackOK

\* The innermost call is a procedure's, or the only call is a DLL's.
LEMMA InnermostKinds ==
  ASSUME IInv
  PROVE  /\ In("WNDPROC") => Len(calls) > Bottom(calls)
         /\ In("DLL") => Len(calls) = 1 /\ Bottom(calls) = 1
         /\ calls \in Seq(Frame)
<1>0. \A n \in Nat : \A b \in 0..1 : n >= 1 /\ ~(n > b) => n = 1 /\ b = 1
  OBVIOUS
<1>1. MirrorOK(calls, slots, depth, inExec)
  BY DEF IInv, StackOK
<1>2. calls \in Seq(Frame) /\ Len(calls) \in Nat /\ Bottom(calls) \in 0..1
  BY <1>1, BottomFacts DEF MirrorOK
<1>3. ASSUME In("WNDPROC"), ~(Len(calls) > Bottom(calls))
      PROVE  FALSE
  <2>1. Len(calls) >= 1 /\ calls[Len(calls)].kind = "WNDPROC"
    BY <1>2, <1>3 DEF In, Innermost
  <2>2. Len(calls) = 1 /\ Bottom(calls) = 1
    BY <1>0, <1>2, <1>3, <2>1, Zenon
  <2>3. calls[1].kind = "DLL"
    BY <1>2, <2>2, BottomFacts
  <2>4. QED BY <2>1, <2>2, <2>3
<1>4. ASSUME In("DLL")
      PROVE  Len(calls) = 1 /\ Bottom(calls) = 1
  <2>1. Len(calls) >= 1 /\ calls[Len(calls)].kind = "DLL"
    BY <1>2, <1>4 DEF In, Innermost
  <2>2. ~(Len(calls) > Bottom(calls))
    BY <1>1, <2>1, TopFacts
  <2>3. QED BY <1>0, <1>2, <2>1, <2>2, Zenon
<1>5. QED BY <1>2, <1>3, <1>4

\* A loop runs the guest again.
LEMMA AgainOK ==
  ASSUME IInv, Again, Len(calls) > Bottom(calls) => ~slots[depth].completed
  PROVE  StepOK
<1>1. /\ UNCHANGED <<vm, calls, slots, depth, cache, dllDone, dlls, started, made>>
      /\ inExec' = TRUE /\ answer' = NoAnswer
  BY DEF Again
<1>2. MirrorOK(calls, slots, depth, TRUE)
  <2>1. MirrorOK(calls, slots, depth, FALSE)
    BY DEF IInv, StackOK, MirrorOK
  <2>2. QED BY <2>1, Running
<1>3. QED BY <1>1, <1>2, NoAnswerOK DEF IInv, StackOK, StepOK

\* The loops of the host that leave the stack of calls alone.
LEMMA LoopOK ==
  ASSUME IInv, ExecReturns \/ CallbackLoop \/ DllLoop \/ DllDeadlock \/ MainLoop
  PROVE  StepOK
<1>1. vm \in VM /\ MirrorOK(calls, slots, depth, inExec)
  BY DEF IInv, StackOK
<1>2. ASSUME ExecReturns
      PROVE  StepOK
  <2>1. /\ UNCHANGED <<calls, slots, depth, cache, dllDone, dlls, started, made>>
        /\ inExec = TRUE /\ inExec' = FALSE /\ answer' = NoAnswer
        /\ vm' = IF calls = <<>> THEN LeaveIdle(Tick(vm)) ELSE vm
    BY <1>2 DEF ExecReturns, IInv
  <2>2. Tick(vm) \in VM
    BY <1>1, TickVM
  <2>3. LeaveIdle(Tick(vm)) \in VM
    BY <2>2, SwitchVM DEF LeaveIdle
  <2>4. vm' \in VM
    BY <1>1, <2>1, <2>3
  <2>5. StackOK(calls', slots', depth', cache', vm'.cpu, dllDone', inExec', made')
    <3>1. CASE calls = <<>>
      BY <2>1, <3>1, NoCalls
    <3>2. CASE calls # <<>>
      <4>1. MirrorOK(calls, slots, depth, FALSE)
        BY <1>1, <2>1, Stopping
      <4>2. vm'.cpu = vm.cpu
        BY <2>1, <3>2
      <4>3. QED BY <2>1, <4>1, <4>2 DEF IInv, StackOK
    <3>3. QED BY <3>1, <3>2
  <2>6. QED BY <2>1, <2>4, <2>5, NoAnswerOK DEF StepOK, IInv
<1>3. ASSUME CallbackLoop
      PROVE  StepOK
  <2>1. Len(calls) > Bottom(calls) /\ Again
    BY <1>3, InnermostKinds DEF CallbackLoop
  <2>2. Innermost.slot = depth
    BY <1>1, <2>1, TopFacts DEF Innermost
  <2>3. ~slots[depth].completed
    BY <1>3, <2>2 DEF CallbackLoop, CallbackOver
  <2>4. QED BY <2>1, <2>3, AgainOK
<1>4. ASSUME DllLoop
      PROVE  StepOK
  <2>1. Len(calls) = 1 /\ Bottom(calls) = 1 /\ Again
    BY <1>4, InnermostKinds DEF DllLoop
  <2>2. ~(Len(calls) > Bottom(calls))
    BY <2>1
  <2>3. QED BY <2>1, <2>2, AgainOK
<1>5. ASSUME DllDeadlock
      PROVE  StepOK
  <2>1. /\ UNCHANGED <<inExec, calls, slots, depth, cache, dllDone, dlls, started, made>>
        /\ answer' = NoAnswer /\ vm' = [vm EXCEPT !.exited = TRUE]
    BY <1>5 DEF DllDeadlock
  <2>2. vm' \in VM /\ vm'.cpu = vm.cpu
    BY <1>1, <2>1 DEF VM
  <2>3. QED BY <2>1, <2>2, NoAnswerOK DEF StepOK, IInv
<1>6. ASSUME MainLoop
      PROVE  StepOK
  <2>1. Again /\ calls = <<>>
    BY <1>6 DEF MainLoop
  <2>2. ~(Len(calls) > Bottom(calls))
    BY <2>1 DEF Bottom
  <2>3. QED BY <2>1, <2>2, AgainOK
<1>7. QED BY <1>2, <1>3, <1>4, <1>5, <1>6

LEMMA EndCallbackOK ==
  ASSUME IInv, In("WNDPROC"), EndCallback
  PROVE  StepOK
<1> DEFINE n == Len(calls)
           b == Bottom(calls)
           f == calls[n]
           o == SubSeq(calls, 1, n - 1)
           ca == IF f.wnd \in Copied THEN NoWnd ELSE cache
<1>1. /\ MirrorOK(calls, slots, depth, inExec) /\ OwnOK(calls, slots, vm.cpu, dllDone)
      /\ CacheOK(calls, cache) /\ RoomOK(calls, made) /\ vm \in VM /\ inExec \in BOOLEAN
      /\ n > b
  BY InnermostKinds DEF IInv, StackOK
<1>2. /\ n \in Nat /\ n \in 1..n
      /\ f \in Frame /\ f.slot = depth /\ depth \in 1..MaxDepth /\ depth = n - b
      /\ slots[depth].saved = f.saved
  BY <1>1, TopFacts
<1>3. /\ MirrorOK(o, slots, depth - 1, TRUE)
      /\ OwnOK(o, slots, f.saved, dllDone)
      /\ CacheOK(o, ca)
      /\ RoomOK(o, made)
  BY <1>1, PopMirror, PopOwn, PopCache, PopRoom
<1>4. f.send = "FIRST" => RoomOK(o, made + 1)
  BY <1>1, PopRoom
<1>5. /\ Innermost = f /\ Outer = o /\ DepthAfter = depth - 1
      /\ CacheAfter(f) = ca
  BY DEF Innermost, Outer, DepthAfter, CacheAfter
<1>6. /\ f.saved \in Streams /\ f.wnd \in Windows \cup {NoWnd}
  BY <1>2 DEF Frame
<1>7. ~f.mixed => slots[depth].result \in {NoRun, f.run}
  <2>1. ~f.mixed => Result(calls, slots, dllDone, n) \in {NoRun, f.run}
    BY <1>1, <1>2 DEF OwnOK
  <2>2. b \in 0..1
    BY <1>1, BottomFacts DEF MirrorOK
  <2>3. ~(n <= b)
    <3> HIDE DEF n, b
    <3>1. QED BY <1>1, <1>2, <2>2
  <2>4. QED BY <1>2, <2>1, <2>3 DEF Result
<1> HIDE DEF n, b, f, o, ca
<1>8. /\ answer' = [of |-> f.run, from |-> slots[depth].result, saved |-> f.saved,
                    to |-> f.saved, mixed |-> f.mixed]
      /\ IF f.send = "FIRST"
         THEN Enter(f.wnd, "LAST", o, f.saved, depth - 1)
         ELSE /\ calls' = o /\ depth' = depth - 1 /\ cache' = ca
              /\ vm' = [vm EXCEPT !.cpu = f.saved, !.exitReq = FALSE]
              /\ inExec' = TRUE
              /\ UNCHANGED <<slots, made>>
      /\ UNCHANGED <<dllDone, dlls, started>>
  BY <1>2, <1>5 DEF EndCallback
<1>9. AnswerOK'
  BY <1>7, <1>8 DEF AnswerOK, CallerResumes, ResultIsOwn
<1>10. /\ vm' \in VM /\ inExec' \in BOOLEAN
       /\ StackOK(calls', slots', depth', cache', vm'.cpu, dllDone', inExec', made')
  <2>1. CASE f.send = "FIRST"
    <3>1. cache = ca \/ (f.wnd \in Copied /\ ca = NoWnd /\ depth - 1 < MaxDepth)
      BY <1>2, GuestCallsAssumption DEF ca
    <3>2. RoomOK(o, made + Needs("LAST")) /\ made \in Nat
      BY <1>3, <1>4, <2>1 DEF Needs, RoomOK
    <3>3. Enter(f.wnd, "LAST", o, f.saved, depth - 1) /\ UNCHANGED dllDone
      BY <1>8, <2>1
    <3>4. "LAST" \in {"FIRST", "LAST"}
      OBVIOUS
    <3>5. QED BY <1>1, <1>3, <1>6, <3>1, <3>2, <3>3, <3>4, EnterOK
  <2>2. CASE f.send # "FIRST"
    <3>1. /\ calls' = o /\ depth' = depth - 1 /\ cache' = ca
          /\ vm' = [vm EXCEPT !.cpu = f.saved, !.exitReq = FALSE]
          /\ inExec' = TRUE
          /\ UNCHANGED <<slots, made, dllDone>>
      BY <1>8, <2>2
    <3>2. vm' \in VM /\ vm'.cpu = f.saved
      BY <1>1, <1>6, <3>1 DEF VM
    <3>3. QED BY <1>3, <3>1, <3>2 DEF StackOK
  <2>3. QED BY <2>1, <2>2
<1>11. QED BY <1>8, <1>9, <1>10 DEF StepOK, IInv

LEMMA CallDllOK ==
  ASSUME IInv, CallDll
  PROVE  StepOK
<1> DEFINE r == DllRuns[dlls + 1]
           f == [kind |-> "DLL", run |-> r, saved |-> vm.cpu, slot |-> 0,
                 wnd |-> NoWnd, send |-> "LAST", mixed |-> FALSE]
<1>1. /\ vm \in VM /\ vm.cpu \in Streams /\ dlls \in 0..Len(DllRuns)
      /\ calls = <<>> /\ dlls < Len(DllRuns) /\ inExec \in BOOLEAN
      /\ calls' = <<f>> /\ dllDone' = NoRun /\ dlls' = dlls + 1
      /\ vm' = [vm EXCEPT !.cpu = r, !.exitReq = FALSE]
      /\ answer' = NoAnswer
      /\ UNCHANGED <<inExec, slots, depth, cache, started, made>>
  BY DEF CallDll, IInv, VM
<1>2. /\ MirrorOK(<<>>, slots, depth, inExec) /\ CacheOK(<<>>, cache)
      /\ RoomOK(<<>>, made)
  BY <1>1 DEF IInv, StackOK
<1>3. dlls + 1 \in 1..Len(DllRuns) /\ dlls + 1 \in 0..Len(DllRuns)
  BY <1>1, RunFacts
<1>4. r \in DllSet /\ r \in RunSet /\ r \in Streams
  BY <1>3, RunFacts DEF DllSet
<1>5. /\ f \in Frame /\ f.kind = "DLL" /\ f.run = r /\ f.send = "LAST"
  BY <1>1, <1>4, GuestCallsAssumption DEF Frame
<1> HIDE DEF f, r
<1>6. vm' \in VM /\ vm'.cpu = r
  BY <1>1, <1>4 DEF VM
<1> DEFINE cs == <<f>>
<1>7. /\ cs \in Seq(Frame) /\ Len(cs) = 1 /\ cs[1] = f /\ cs # <<>>
  BY <1>5
<1> HIDE DEF cs
<1>8. Bottom(cs) = 1 /\ Bottom(<<>>) = 0
  BY <1>5, <1>7 DEF Bottom
<1>9. \A i \in 1..Len(cs) : i = 1
  BY <1>7
<1>10. MirrorOK(cs, slots, depth, inExec)
  <2>1. slots \in [1..MaxDepth -> Slot] /\ depth = 0 /\ depth \in 0..MaxDepth
    <3>1. Len(<<>>) = 0
      OBVIOUS
    <3>2. QED BY <1>2, <1>8, <3>1 DEF MirrorOK
  <2>2. depth = Len(cs) - Bottom(cs)
    BY <1>7, <1>8, <2>1
  <2>3. \A i \in 1..Len(cs) : ~(i > Bottom(cs))
    BY <1>8, <1>9
  <2>4. QED BY <1>7, <2>1, <2>2, <2>3 DEF MirrorOK
<1>11. OwnOK(cs, slots, r, NoRun)
  <2>1. SUFFICES ASSUME NEW i \in 1..Len(cs)
                 PROVE  /\ cs[i].run \in DllSet
                        /\ i <= Bottom(cs)
                        /\ ~cs[i].mixed =>
                             /\ \A j \in i..Len(cs) : ~cs[j].mixed
                             /\ i = Len(cs) => r = cs[i].run
                             /\ i < Len(cs) => cs[i + 1].saved = cs[i].run
                             /\ Result(cs, slots, NoRun, i) \in {NoRun, cs[i].run}
    BY DEF OwnOK
  <2>2. i = 1 /\ i <= Bottom(cs) /\ ~(i < Len(cs))
    BY <1>7, <1>8, <1>9
  <2>3. \A j \in i..Len(cs) : j = 1
    BY <1>7, <2>2
  <2>4. Result(cs, slots, NoRun, i) = NoRun
    BY <2>2 DEF Result
  <2>5. QED BY <1>4, <1>5, <1>7, <2>2, <2>3, <2>4
<1>12. CacheOK(cs, cache)
  <2>1. \A i \in 1..Len(<<>>) : FALSE
    OBVIOUS
  <2>2. QED BY <1>2, <2>1 DEF CacheOK
<1>13. RoomOK(cs, made)
  <2>1. Starting(cs) = {}
    BY <1>5, <1>7, <1>9 DEF Starting
  <2>2. Starting(<<>>) = {}
    BY DEF Starting
  <2>3. QED BY <1>2, <2>1, <2>2 DEF RoomOK
<1>14. QED
  BY <1>1, <1>3, <1>6, <1>10, <1>11, <1>12, <1>13, NoAnswerOK
  DEF StepOK, StackOK, IInv, cs

LEMMA DllEndsOK ==
  ASSUME IInv, DllEnds
  PROVE  StepOK
<1>1. /\ vm \in VM /\ Innermost = calls[Len(calls)] /\ In("DLL")
      /\ answer' = [of |-> Innermost.run, from |-> dllDone, saved |-> Innermost.saved,
                    to |-> Innermost.saved, mixed |-> Innermost.mixed]
      /\ calls' = Outer
      /\ vm' = [vm EXCEPT !.cpu = Innermost.saved, !.exited = FALSE, !.exitReq = FALSE]
      /\ dllDone' = NoRun
      /\ UNCHANGED <<inExec, slots, depth, cache, dlls, started, made>>
  BY DEF DllEnds, IInv, Innermost
<1>2. Len(calls) = 1 /\ Bottom(calls) = 1 /\ calls \in Seq(Frame)
  BY <1>1, InnermostKinds
<1>3. 1 \in 1..Len(calls) /\ Innermost = calls[1] /\ calls[1] \in Frame
  <2>1. 1 \in 1..Len(calls)
    BY <1>2
  <2>2. calls[1] \in Frame
    BY <1>2, <2>1, ElementOfSeq
  <2>3. QED BY <1>1, <1>2, <2>1, <2>2
<1>4. calls' = <<>>
  <2>1. SubSeq(calls, 1, 0) = <<>>
    BY SubSeqEmpty
  <2>2. QED BY <1>1, <1>2, <2>1 DEF Outer
<1>5. vm' \in VM
  <2>1. Innermost.saved \in Streams
    BY <1>3 DEF Frame
  <2>2. QED BY <1>1, <2>1 DEF VM
<1>6. AnswerOK'
  <2>1. ~calls[1].mixed => dllDone \in {NoRun, calls[1].run}
    <3>1. OwnOK(calls, slots, vm.cpu, dllDone)
      BY DEF IInv, StackOK
    <3>2. ~calls[1].mixed => Result(calls, slots, dllDone, 1) \in {NoRun, calls[1].run}
      BY <1>3, <3>1 DEF OwnOK
    <3>3. QED BY <1>2, <3>2 DEF Result
  <2>2. QED BY <1>1, <1>3, <2>1 DEF AnswerOK, CallerResumes, ResultIsOwn
<1>7. StackOK(<<>>, slots, depth, cache, vm'.cpu, NoRun, inExec, made)
  <2>1. /\ MirrorOK(calls, slots, depth, inExec) /\ CacheOK(calls, cache)
        /\ RoomOK(calls, made)
    BY DEF IInv, StackOK
  <2>2. Len(<<>>) = 0 /\ \A i \in 1..Len(<<>>) : FALSE
    OBVIOUS
  <2>3. Bottom(<<>>) = 0
    BY DEF Bottom
  <2>4. slots \in [1..MaxDepth -> Slot] /\ depth = 0 /\ depth \in 0..MaxDepth
    BY <1>2, <2>1 DEF MirrorOK
  <2>5. MirrorOK(<<>>, slots, depth, inExec)
    BY <2>2, <2>3, <2>4 DEF MirrorOK
  <2>6. OwnOK(<<>>, slots, vm'.cpu, NoRun)
    BY <2>2 DEF OwnOK
  <2>7. cache = NoWnd
    <3>1. \A i \in 1..Len(calls) : ~(i > Bottom(calls))
      BY <1>2
    <3>2. QED BY <2>1, <3>1 DEF CacheOK
  <2>8. CacheOK(<<>>, cache)
    BY <2>7 DEF CacheOK
  <2>9. RoomOK(<<>>, made)
    <3>1. Starting(<<>>) = {} /\ Starting(calls) \subseteq {1}
      BY <1>2 DEF Starting
    <3>2. Cardinality({}) = 0
      BY FS_EmptySet
    <3>3. Cardinality(Starting(calls)) \in Nat
      BY <3>1, FS_Singleton, FS_Subset, FS_CardinalityType
    <3>4. made \in Nat /\ made + Cardinality(Starting(calls)) <= Len(CallRuns)
      BY <2>1 DEF RoomOK
    <3>5. made + 0 <= Len(CallRuns)
      BY <3>3, <3>4, RunFacts
    <3>6. QED BY <3>1, <3>2, <3>4, <3>5 DEF RoomOK
  <2>10. QED BY <2>5, <2>6, <2>8, <2>9 DEF StackOK
<1>8. QED BY <1>1, <1>4, <1>5, <1>6, <1>7 DEF StepOK, IInv

LEMMA VmStartOK ==
  ASSUME IInv, VmStart
  PROVE  StepOK
<1>1. /\ calls = <<>> /\ calls' = calls /\ started' = TRUE /\ answer' = NoAnswer
      /\ vm' = [vm EXCEPT !.exited = FALSE, !.exitReq = FALSE]
      /\ UNCHANGED <<inExec, slots, depth, cache, dllDone, dlls, made>>
  BY DEF VmStart
<1>2. vm' \in VM /\ inExec \in BOOLEAN
  BY <1>1 DEF IInv, VM
<1>3. StackOK(<<>>, slots, depth, cache, vm'.cpu, dllDone, inExec, made)
  BY <1>1, <1>2, NoCalls
<1>4. QED BY <1>1, <1>2, <1>3, NoAnswerOK DEF StepOK, IInv

---------------------------------------------------------------------------
(* The theorems.                                                           *)

LEMMA InitIInv == Init => IInv
<1> SUFFICES ASSUME Init PROVE IInv
  OBVIOUS
<1>1. vm \in VM
  BY InitialVM DEF Init
<1>2. EmptySlot \in Slot
  BY GuestCallsAssumption DEF EmptySlot, Slot, Streams, Tids
<1>3. slots \in [1..MaxDepth -> Slot]
  BY <1>2 DEF Init
<1>4. Len(<<>>) = 0 /\ \A i \in 1..Len(<<>>) : FALSE
  OBVIOUS
<1>5. Bottom(<<>>) = 0 /\ Starting(<<>>) = {}
  BY <1>4 DEF Bottom, Starting
<1>6. MirrorOK(calls, slots, depth, inExec)
  <2>1. depth = 0 /\ depth \in 0..MaxDepth /\ calls = <<>>
    BY GuestCallsAssumption DEF Init
  <2>2. QED BY <1>3, <1>4, <1>5, <2>1 DEF MirrorOK
<1>7. OwnOK(calls, slots, vm.cpu, dllDone)
  BY <1>4 DEF Init, OwnOK
<1>8. CacheOK(calls, cache)
  BY DEF Init, CacheOK
<1>9. RoomOK(calls, made)
  <2>1. Cardinality({}) = 0
    BY FS_EmptySet
  <2>2. made = 0 /\ calls = <<>>
    BY DEF Init
  <2>3. 0 \in Nat /\ 0 + 0 <= Len(CallRuns)
    BY RunFacts
  <2>4. QED BY <1>5, <2>1, <2>2, <2>3 DEF RoomOK
<1>10. AnswerOK
  BY DEF Init, AnswerOK, CallerResumes, ResultIsOwn, NoAnswer
<1>11. /\ inExec \in BOOLEAN /\ started \in BOOLEAN
       /\ dllDone \in RunSet \cup {NoRun}
       /\ dlls \in 0..Len(DllRuns)
  <2>1. 0 \in 0..Len(DllRuns)
    BY RunFacts
  <2>2. QED BY <2>1 DEF Init
<1>12. QED BY <1>1, <1>6, <1>7, <1>8, <1>9, <1>10, <1>11 DEF IInv, StackOK

LEMMA NextIInv == IInv /\ [Next]_vars => IInv'
<1> SUFFICES ASSUME IInv, [Next]_vars PROVE IInv'
  OBVIOUS
<1>1. StepOK => IInv'
  BY DEF StepOK, IInv
<1>2. CASE Guest
  <2>1. CASE \/ \E t \in Tids : NtTerminateThread(t)
             \/ \E t \in Threads : NtCreateThread(t) \/ NtSuspendThread(t)
                                    \/ NtResumeThread(t)
             \/ NtDelayExecution
             \/ NtTerminateProcess
    BY <1>1, <2>1, ThreadCallOK
  <2>2. CASE \E w \in Windows, send \in {"FIRST", "LAST"} : CallWindow(w, send)
    BY <1>1, <2>2, CallWindowOK
  <2>3. CASE WndProcReturn
    BY <1>1, <2>3, WndProcReturnOK
  <2>4. CASE DllInitDone
    BY <1>1, <2>4, DllInitDoneOK
  <2>5. QED BY <1>2, <2>1, <2>2, <2>3, <2>4 DEF Guest
<1>3. CASE Host \/ CallbackGivesUp
  <2>1. CASE ExecReturns \/ CallbackLoop \/ DllLoop \/ DllDeadlock \/ MainLoop
    BY <1>1, <2>1, LoopOK
  <2>2. CASE CallbackEnds \/ CallbackGivesUp
    BY <1>1, <2>2, EndCallbackOK DEF CallbackEnds, CallbackGivesUp
  <2>3. CASE DllEnds
    BY <1>1, <2>3, DllEndsOK
  <2>4. CASE CallDll
    BY <1>1, <2>4, CallDllOK
  <2>5. CASE VmStart
    BY <1>1, <2>5, VmStartOK
  <2>6. QED BY <1>3, <2>1, <2>2, <2>3, <2>4, <2>5 DEF Host
<1>4. CASE UNCHANGED vars
  BY <1>4 DEF vars, IInv, StackOK, MirrorOK, OwnOK, CacheOK, RoomOK, AnswerOK,
             CallerResumes, ResultIsOwn, Result, Bottom, Starting
<1>5. CASE Stopped
  BY <1>4, <1>5 DEF Stopped
<1>6. QED BY <1>2, <1>3, <1>4, <1>5 DEF Next

\* The invariant holds in every state that the host and the guest reach.
THEOREM Inductive == Spec => []IInv
  BY InitIInv, NextIInv, PTL DEF Spec

LEMMA TypesFollow == IInv => TypeOK
<1> SUFFICES ASSUME IInv PROVE TypeOK
  OBVIOUS
<1>1. MirrorOK(calls, slots, depth, inExec) /\ CacheOK(calls, cache) /\ RoomOK(calls, made)
  BY DEF IInv, StackOK
<1>2. \A i \in DOMAIN calls : calls[i] \in Frame
  BY <1>1 DEF MirrorOK
<1>3. cache \in Windows \cup {NoWnd}
  BY <1>1, GuestCallsAssumption DEF CacheOK
<1>4. made \in 0..Len(CallRuns)
  <2>1. Len(calls) \in Nat /\ Starting(calls) \subseteq 1..Len(calls)
    BY <1>1, BottomFacts DEF MirrorOK, Starting
  <2>2. IsFiniteSet(1..Len(calls))
    BY <2>1, FS_Interval
  <2>3. IsFiniteSet(Starting(calls))
    BY <2>1, <2>2, FS_Subset
  <2>4. Cardinality(Starting(calls)) \in Nat
    BY <2>3, FS_CardinalityType
  <2>5. made \in Nat /\ made + Cardinality(Starting(calls)) <= Len(CallRuns)
    BY <1>1 DEF RoomOK
  <2>6. QED BY <2>4, <2>5, RunFacts
<1>5. slots \in [1..MaxDepth -> [saved: Streams, completed: BOOLEAN,
                                result: RunSet \cup {NoRun}]]
  BY <1>1 DEF MirrorOK, Slot
<1>6. QED BY <1>1, <1>2, <1>3, <1>4, <1>5 DEF TypeOK, IInv, VM, MirrorOK

\* The n-th procedure in progress is call n, or n + 1 above an entry point.
LEMMA ProcedureFacts ==
  ASSUME IInv
  PROVE  /\ Len(Procedures) = depth
         /\ DOMAIN Procedures = 1..depth
         /\ \A i \in 1..depth : /\ Procedures[i] = calls[i + Bottom(calls)]
                               /\ i + Bottom(calls) \in 1..Len(calls)
         /\ \A i \in 1..Len(calls) : i > Bottom(calls) =>
              i - Bottom(calls) \in 1..depth /\ i - Bottom(calls) + Bottom(calls) = i
<1> DEFINE n == Len(calls)
           b == Bottom(calls)
<1>1. /\ calls \in Seq(Frame) /\ depth = n - b /\ depth \in 0..MaxDepth
  BY DEF IInv, StackOK, MirrorOK
<1>2. n \in Nat /\ b \in 0..1 /\ b <= n /\ (calls # <<>> <=> n >= 1)
  BY <1>1, BottomFacts
<1>3. CASE b = 0
  <2>1. Procedures = calls
    BY <1>3 DEF Procedures, Bottom
  <2>2. DOMAIN calls = 1..n
    BY <1>1
  <2> HIDE DEF n, b
  <2>3. /\ n = depth
        /\ \A i \in 1..depth : i + b = i /\ i + b \in 1..n
        /\ \A i \in 1..n : i > b => i - b \in 1..depth /\ i - b + b = i
    BY <1>1, <1>2, <1>3
  <2>4. QED BY <2>1, <2>2, <2>3 DEF n, b
<1>4. CASE b = 1
  <2>1. calls # <<>> /\ Procedures = Tail(calls)
    BY <1>4 DEF Procedures, Bottom
  <2>2. /\ Len(Tail(calls)) = n - 1 /\ DOMAIN Tail(calls) = 1..(n - 1)
        /\ \A i \in 1..(n - 1) : Tail(calls)[i] = calls[i + 1]
    BY <1>1, <2>1
  <2> HIDE DEF n, b
  <2>3. /\ n - 1 = depth
        /\ \A i \in 1..depth : i + b = i + 1 /\ i + b \in 1..n
        /\ \A i \in 1..n : i > b => i - b \in 1..depth /\ i - b + b = i
    BY <1>1, <1>2, <1>4
  <2>4. QED BY <2>1, <2>2, <2>3 DEF n, b
<1>5. QED BY <1>2, <1>3, <1>4

LEMMA MirrorFollows == IInv => SlotsMirrorHostStack
<1> SUFFICES ASSUME IInv PROVE SlotsMirrorHostStack
  OBVIOUS
<1>1. MirrorOK(calls, slots, depth, inExec)
  BY DEF IInv, StackOK
<1>2. ASSUME NEW i \in DOMAIN Procedures
      PROVE  /\ Procedures[i].kind = "WNDPROC"
             /\ Procedures[i].slot = i
             /\ slots[i].saved = Procedures[i].saved
             /\ slots[i].completed => i = depth /\ In("WNDPROC") /\ ~inExec
  <2> DEFINE n == Len(calls)
             b == Bottom(calls)
             j == i + b
  <2>1. /\ i \in 1..depth /\ Procedures[i] = calls[j] /\ j \in 1..n
    BY ProcedureFacts
  <2>2. /\ n \in Nat /\ b \in 0..1 /\ depth = n - b /\ depth \in 0..MaxDepth
    BY <1>1, BottomFacts DEF MirrorOK
  <2>3. j > b /\ j - b = i
    <3> HIDE DEF n, b
    <3>1. QED BY <2>1, <2>2
  <2>4. /\ calls[j].kind = "WNDPROC" /\ calls[j].slot = i
        /\ slots[i].saved = calls[j].saved
        /\ slots[i].completed => j = n /\ ~inExec
    BY <1>1, <2>1, <2>3 DEF MirrorOK
  <2>5. j = n => i = depth
    <3> HIDE DEF n, b
    <3>1. QED BY <2>1, <2>2
  <2>6. j = n => In("WNDPROC")
    <3>1. calls # <<>>
      <4>1. n >= 1
        BY <2>1, <2>2
      <4>2. QED BY <1>1, <4>1, BottomFacts DEF MirrorOK
    <3>2. QED BY <2>4, <3>1 DEF In, Innermost
  <2>7. QED BY <2>1, <2>4, <2>5, <2>6
<1>3. QED BY <1>2, ProcedureFacts DEF SlotsMirrorHostStack

LEMMA CacheFollows == IInv => CacheNamesCalled
<1> SUFFICES ASSUME IInv, cache # NoWnd
             PROVE  \E i \in DOMAIN Procedures : Procedures[i].wnd = cache
  BY DEF CacheNamesCalled
<1>1. PICK i \in 1..Len(calls) : i > Bottom(calls) /\ calls[i].wnd = cache
  BY DEF IInv, StackOK, CacheOK
<1>2. /\ i - Bottom(calls) \in DOMAIN Procedures
      /\ Procedures[i - Bottom(calls)] = calls[i]
  BY <1>1, ProcedureFacts
<1>3. QED BY <1>1, <1>2

\* Whatever the threads and the procedures do, the array of callbacks mirrors
\* the host's stack and every caller resumes with its own registers
\* (user_call_wndproc_addr, user_callback_return, vm_call_dll_entry).
THEOREM CallsCorrect == Spec => []CallsSound
<1>1. IInv => CallsSound
  BY TypesFollow, MirrorFollows DEF CallsSound, IInv, AnswerOK
<1>2. QED BY <1>1, Inductive, PTL

\* A call that no other thread disturbed has the result of its own run
\* (g_callback_stack and dll_init_done are used again by every call).
THEOREM ResultCorrect == Spec => []ResultIsOwn
<1>1. IInv => ResultIsOwn
  BY DEF IInv, AnswerOK
<1>2. QED BY <1>1, Inductive, PTL

\* user32 finds in the TEB only windows whose procedure is in progress
\* (user_call_wndproc_addr sets and clears CallbackWnd).
THEOREM CacheCorrect == Spec => []CacheNamesCalled
<1>1. QED BY CacheFollows, Inductive, PTL
=============================================================================
