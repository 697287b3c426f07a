-------------------------- MODULE SchedulerProofs --------------------------
(***************************************************************************)
(* Proofs about Scheduler for every set of threads and objects, every      *)
(* quantum and every semaphore limit.                                      *)
(***************************************************************************)
EXTENDS Scheduler, SequenceTheorems, TLAPS

---------------------------------------------------------------------------
(* What the run queue operations do to a queue without duplicates.         *)

\* scheduler_add_ready appends a thread that is not queued.
LEMMA AppendQueue ==
  ASSUME NEW S, NEW q \in Seq(S), NEW t \in S, Distinct(q), ~Queued(q, t)
  PROVE  /\ Append(q, t) \in Seq(S)
         /\ Distinct(Append(q, t))
         /\ \A u : Queued(Append(q, t), u) <=> Queued(q, u) \/ u = t
<1>1. /\ Append(q, t) \in Seq(S)
      /\ DOMAIN Append(q, t) = 1..(Len(q) + 1)
      /\ DOMAIN q = 1..Len(q)
      /\ Len(q) \in Nat
      /\ \A i \in 1..Len(q) : Append(q, t)[i] = q[i]
      /\ Append(q, t)[Len(q) + 1] = t
  OBVIOUS
<1>2. Distinct(Append(q, t))
  BY <1>1 DEF Distinct, Queued
<1>3. \A u : Queued(Append(q, t), u) <=> Queued(q, u) \/ u = t
  BY <1>1 DEF Queued
<1>4. QED BY <1>1, <1>2, <1>3

\* scheduler_switch takes the head.
LEMMA TailQueue ==
  ASSUME NEW S, NEW q \in Seq(S), q # <<>>, Distinct(q)
  PROVE  /\ Tail(q) \in Seq(S)
         /\ Head(q) \in S
         /\ Queued(q, Head(q))
         /\ Distinct(Tail(q))
         /\ \A u : Queued(Tail(q), u) <=> Queued(q, u) /\ u # Head(q)
<1>1. /\ Tail(q) \in Seq(S)
      /\ Head(q) \in S
      /\ Head(q) = q[1]
      /\ Len(q) \in Nat \ {0}
      /\ DOMAIN q = 1..Len(q)
      /\ DOMAIN Tail(q) = 1..(Len(q) - 1)
      /\ \A i \in 1..(Len(q) - 1) : Tail(q)[i] = q[i + 1]
  OBVIOUS
<1>2. Distinct(Tail(q))
  BY <1>1 DEF Distinct
<1>3. ASSUME NEW u, Queued(Tail(q), u)
      PROVE  Queued(q, u) /\ u # Head(q)
  BY <1>1, <1>3 DEF Queued, Distinct
<1>4. ASSUME NEW u, Queued(q, u), u # Head(q)
      PROVE  Queued(Tail(q), u)
  <2>1. PICK i \in 1..Len(q) : q[i] = u
    BY <1>1, <1>4 DEF Queued
  <2>2. i - 1 \in 1..(Len(q) - 1) /\ Tail(q)[i - 1] = u
    BY <1>1, <1>4, <2>1
  <2>3. QED BY <1>1, <2>2 DEF Queued
<1>5. Queued(q, Head(q))
  BY <1>1 DEF Queued
<1>6. QED BY <1>1, <1>2, <1>3, <1>4, <1>5

\* The node that scheduler_remove_ready unlinks is the only one of t; those
\* behind it move up.
UnlinkedAt(q, r, t, i) ==
  /\ q[i] = t
  /\ Len(q) \in Nat
  /\ DOMAIN q = 1..Len(q)
  /\ DOMAIN r = 1..(Len(q) - 1)
  /\ \A j \in 1..(Len(q) - 1) : r[j] = IF j < i THEN q[j] ELSE q[j + 1]

LEMMA UnlinkShifts ==
  ASSUME NEW S, NEW q \in Seq(S), NEW t, Distinct(q), Queued(q, t)
  PROVE  /\ Unlink(q, t) \in Seq(S)
         /\ \E i \in 1..Len(q) : UnlinkedAt(q, Unlink(q, t), t, i)
<1>1. PICK i \in 1..Len(q) : q[i] = t
  BY DEF Queued
<1>2. \A j \in 1..(i - 1) : q[j] # t
  BY <1>1 DEF Distinct
<1>3. FirstNode(q, t) = i
  BY <1>1, <1>2 DEF FirstNode, Distinct
<1>4. Unlink(q, t) = SubSeq(q, 1, i - 1) \o SubSeq(q, i + 1, Len(q))
  BY <1>3 DEF Unlink, RemoveAt
<1> DEFINE r == SubSeq(q, 1, i - 1) \o SubSeq(q, i + 1, Len(q))
<1>5. /\ r \in Seq(S)
      /\ Len(q) \in Nat
      /\ DOMAIN q = 1..Len(q)
      /\ DOMAIN r = 1..(Len(q) - 1)
      /\ \A j \in 1..(Len(q) - 1) : r[j] = IF j < i THEN q[j] ELSE q[j + 1]
  <2> DEFINE a == SubSeq(q, 1, i - 1)
             b == SubSeq(q, i + 1, Len(q))
  <2>1. /\ a \in Seq(S) /\ Len(a) = i - 1
        /\ \A j \in 1..(i - 1) : a[j] = q[j]
    BY <1>1
  <2>2. /\ b \in Seq(S) /\ Len(b) = Len(q) - i
        /\ \A j \in 1..(Len(q) - i) : b[j] = q[i + j]
    BY <1>1
  <2> HIDE DEF a, b
  <2> DEFINE c == a \o b
  <2>3. /\ c \in Seq(S) /\ Len(c) = Len(a) + Len(b)
        /\ \A j \in 1..(Len(a) + Len(b)) :
             c[j] = IF j <= Len(a) THEN a[j] ELSE b[j - Len(a)]
    BY <2>1, <2>2, ConcatProperties, Zenon
  <2>4. c = r
    BY DEF a, b
  <2> HIDE DEF c, r
  <2>5. Len(c) = Len(q) - 1
    BY <1>1, <2>1, <2>2, <2>3
  <2>6. ASSUME NEW j \in 1..(Len(q) - 1)
        PROVE  c[j] = IF j < i THEN q[j] ELSE q[j + 1]
    <3>1. c[j] = IF j <= i - 1 THEN a[j] ELSE b[j - (i - 1)]
      BY <1>1, <2>1, <2>2, <2>3, <2>5
    <3>2. CASE j < i
      BY <1>1, <2>1, <3>1, <3>2
    <3>3. CASE j >= i
      <4>1. j - (i - 1) \in 1..(Len(q) - i) /\ i + (j - (i - 1)) = j + 1
        BY <1>1, <3>3
      <4>2. b[j - (i - 1)] = q[j + 1]
        BY <2>2, <4>1
      <4>3. QED BY <1>1, <3>1, <3>3, <4>2
    <3>4. QED BY <1>1, <3>2, <3>3
  <2>7. QED BY <1>1, <2>3, <2>4, <2>5, <2>6
<1> HIDE DEF r
<1>6. r = Unlink(q, t)
  BY <1>4 DEF r
<1>7. UnlinkedAt(q, r, t, i)
  BY <1>1, <1>5 DEF UnlinkedAt
<1>8. QED BY <1>5, <1>6, <1>7

\* scheduler_remove_ready unlinks the only node of a thread.
LEMMA RemoveQueue ==
  ASSUME NEW S, NEW q \in Seq(S), NEW t, Distinct(q)
  PROVE  /\ Unlink(q, t) \in Seq(S)
         /\ Distinct(Unlink(q, t))
         /\ \A u : Queued(Unlink(q, t), u) <=> Queued(q, u) /\ u # t
<1>1. CASE ~Queued(q, t)
  BY <1>1 DEF Unlink, Queued
<1>2. CASE Queued(q, t)
  <2> DEFINE r == Unlink(q, t)
  <2>1. r \in Seq(S) /\ \E i \in 1..Len(q) : UnlinkedAt(q, r, t, i)
    BY <1>2, UnlinkShifts
  <2> HIDE DEF r
  <2>2. PICK i \in 1..Len(q) : UnlinkedAt(q, r, t, i)
    BY <2>1
  <2>3. Distinct(r)
    <3>1. SUFFICES ASSUME NEW j \in 1..(Len(q) - 1), NEW m \in 1..(Len(q) - 1),
                          r[j] = r[m]
                   PROVE  j = m
      BY <2>2 DEF Distinct, UnlinkedAt
    <3>2. PICK jj \in 1..Len(q) : r[j] = q[jj] /\ jj = IF j < i THEN j ELSE j + 1
      BY <2>2 DEF UnlinkedAt
    <3>3. PICK mm \in 1..Len(q) : r[m] = q[mm] /\ mm = IF m < i THEN m ELSE m + 1
      BY <2>2 DEF UnlinkedAt
    <3>4. jj = mm
      BY <2>2, <3>1, <3>2, <3>3 DEF Distinct, UnlinkedAt
    <3>5. QED BY <2>2, <3>2, <3>3, <3>4 DEF UnlinkedAt
  <2>4. ASSUME NEW u, Queued(r, u)
        PROVE  Queued(q, u) /\ u # t
    <3>1. PICK j \in 1..(Len(q) - 1) : r[j] = u
      BY <2>2, <2>4 DEF Queued, UnlinkedAt
    <3>2. PICK jj \in 1..Len(q) : u = q[jj] /\ jj = IF j < i THEN j ELSE j + 1
      BY <2>2, <3>1 DEF UnlinkedAt
    <3>3. jj # i
      BY <3>2
    <3>4. QED BY <2>2, <3>2, <3>3 DEF Queued, Distinct, UnlinkedAt
  <2>5. ASSUME NEW u, Queued(q, u), u # t
        PROVE  Queued(r, u)
    <3>1. PICK j \in 1..Len(q) : q[j] = u
      BY <2>2, <2>5 DEF Queued, UnlinkedAt
    <3>2. CASE j < i
      BY <2>2, <3>1, <3>2 DEF Queued, UnlinkedAt
    <3>3. CASE j > i
      <4>1. j - 1 \in 1..(Len(q) - 1) /\ r[j - 1] = u
        BY <2>2, <3>1, <3>3 DEF UnlinkedAt
      <4>2. QED BY <2>2, <4>1 DEF Queued, UnlinkedAt
    <3>4. QED BY <2>2, <2>5, <3>1, <3>2, <3>3 DEF UnlinkedAt
  <2>6. r = Unlink(q, t)
    BY DEF r
  <2>7. QED BY <2>1, <2>3, <2>4, <2>5, <2>6
<1>3. QED BY <1>1, <1>2
---------------------------------------------------------------------------
(***************************************************************************)
(* What holds of the scheduler between two system calls, that is while no  *)
(* thread is inside scheduler_block_thread.                                *)
(***************************************************************************)
NoWaits(k) ==
  /\ \A t \in Threads : k.state[t] # "WAITING"
  /\ k.wait = [t \in Threads |-> NoWait]
  /\ k.waitList = [o \in Objects |-> {}]

ObjectOK(o) == EventOK(o) /\ MutantOK(o) /\ LimitOK(o)

Sound(k) ==
  /\ k \in VM
  /\ QueueOK(k)
  /\ LinkedOK(k)
  /\ RunsOK(k)
  /\ IdleOK(k)
  /\ NoWaits(k)
  /\ \A o \in Objects : ObjectOK(k.obj[o])

\* No thread is queued or runs again once it is terminated.
Keeps(k, l) ==
  \A t \in Threads : k.state[t] = "TERMINATED" => l.state[t] = "TERMINATED"

\* The fields that say which thread runs, is queued, waits or is linked.
SameThreads(k, l) ==
  /\ l.current = k.current /\ l.ready = k.ready /\ l.all = k.all
  /\ l.idle = k.idle /\ l.exitReq = k.exitReq /\ l.exited = k.exited
  /\ l.state = k.state /\ l.wait = k.wait /\ l.waitList = k.waitList

\* Executing guest code changes saved contexts only.
LEMMA ExecutedFields ==
  ASSUME NEW k \in VM
  PROVE  /\ Executed(k) \in VM
         /\ SameThreads(k, Executed(k))
         /\ Executed(k).obj = k.obj
         /\ Executed(k).handles = k.handles
         /\ Executed(k).cpu = k.cpu
<1> DEFINE c == [t \in Tids |-> IF k.ctx[t].of = k.cpu
                                THEN [k.ctx[t] EXCEPT !.fresh = FALSE]
                                ELSE k.ctx[t]]
<1>1. c \in [Tids -> Context]
  <2>1. \A x \in Context : [x EXCEPT !.fresh = FALSE] \in Context
    BY DEF Context
  <2>2. k.ctx \in [Tids -> Context]
    BY DEF VM
  <2>3. QED BY <2>1, <2>2
<1>2. Executed(k) = [k EXCEPT !.ctx = c]
  BY DEF Executed
<1> HIDE DEF c
<1>3. QED BY <1>1, <1>2 DEF VM, SameThreads

LEMMA SameThreadsSound ==
  ASSUME NEW k, NEW l \in VM, Sound(k), SameThreads(k, l),
         \A o \in Objects : ObjectOK(l.obj[o])
  PROVE  Sound(l) /\ Keeps(k, l)
  BY DEF Sound, SameThreads, QueueOK, LinkedOK, RunsOK, IdleOK, NoWaits, Keeps

LEMMA ExecutedSound ==
  ASSUME NEW k, Sound(k)
  PROVE  Sound(Executed(k)) /\ Keeps(k, Executed(k))
<1>1. k \in VM /\ \A o \in Objects : ObjectOK(k.obj[o])
  BY DEF Sound
<1>2. QED BY <1>1, ExecutedFields, SameThreadsSound

---------------------------------------------------------------------------
(* The run queue operations on a scheduler.                                *)

\* The queue is right but for t, which is not in it.
QueueBut(k, t) ==
  /\ Distinct(k.ready)
  /\ ~Queued(k.ready, t)
  /\ \A u \in Tids \ {t} :
       Queued(k.ready, u) <=> (u \in k.all /\ k.state[u] = "READY")

\* The fields no queue operation and no switch changes.
SameWaits(k, l) ==
  /\ l.all = k.all /\ l.exited = k.exited /\ l.wait = k.wait
  /\ l.waitList = k.waitList /\ l.obj = k.obj /\ l.handles = k.handles

LEMMA AddReadyQueue ==
  ASSUME NEW k \in VM, NEW t \in Tids, QueueBut(k, t),
         t \in k.all, k.state[t] = "READY"
  PROVE  /\ AddReady(k, t) \in VM
         /\ QueueOK(AddReady(k, t))
         /\ SameWaits(k, AddReady(k, t))
         /\ AddReady(k, t).current = k.current
         /\ AddReady(k, t).state = k.state
         /\ AddReady(k, t).idle = FALSE
         /\ AddReady(k, t).exitReq => k.exitReq /\ ~k.idle
         /\ AddReady(k, t).ready # <<>>
         /\ AddReady(k, t).ctx = k.ctx
<1> DEFINE q == Append(k.ready, t)
           e == IF k.idle THEN FALSE ELSE k.exitReq
<1>1. k.ready \in Seq(Tids) /\ Distinct(k.ready) /\ ~Queued(k.ready, t)
  BY DEF VM, QueueBut
<1>2. /\ q \in Seq(Tids)
      /\ Distinct(q)
      /\ \A u : Queued(q, u) <=> Queued(k.ready, u) \/ u = t
  BY <1>1, AppendQueue
<1>3. q # <<>>
  BY <1>1
<1>4. e \in BOOLEAN /\ (e => k.exitReq /\ ~k.idle)
  BY DEF VM
<1>5. AddReady(k, t) = [k EXCEPT !.ready = q, !.exitReq = e, !.idle = FALSE]
  BY DEF AddReady
<1> HIDE DEF q, e
<1>6. /\ AddReady(k, t) \in VM
      /\ SameWaits(k, AddReady(k, t))
      /\ AddReady(k, t).current = k.current
      /\ AddReady(k, t).state = k.state
      /\ AddReady(k, t).ctx = k.ctx
      /\ AddReady(k, t).ready = q
      /\ AddReady(k, t).idle = FALSE
      /\ AddReady(k, t).exitReq = e
  BY <1>2, <1>4, <1>5 DEF VM, SameWaits
<1>7. QueueOK(AddReady(k, t))
  BY <1>2, <1>6 DEF QueueOK, QueueBut, SameWaits
<1>8. QED BY <1>3, <1>4, <1>6, <1>7

LEMMA RemoveReadyQueue ==
  ASSUME NEW k \in VM, NEW t \in Tids, Distinct(k.ready),
         \A u \in Tids \ {t} :
           Queued(k.ready, u) <=> (u \in k.all /\ k.state[u] = "READY")
  PROVE  /\ RemoveReady(k, t) \in VM
         /\ QueueBut(RemoveReady(k, t), t)
         /\ SameWaits(k, RemoveReady(k, t))
         /\ RemoveReady(k, t).current = k.current
         /\ RemoveReady(k, t).state = k.state
         /\ RemoveReady(k, t).idle = k.idle
         /\ RemoveReady(k, t).exitReq = k.exitReq
         /\ k.ready = <<>> => RemoveReady(k, t).ready = <<>>
<1>1. k.ready \in Seq(Tids)
  BY DEF VM
<1>2. /\ Unlink(k.ready, t) \in Seq(Tids)
      /\ Distinct(Unlink(k.ready, t))
      /\ \A u : Queued(Unlink(k.ready, t), u) <=> Queued(k.ready, u) /\ u # t
  BY <1>1, RemoveQueue
<1>3. /\ RemoveReady(k, t) \in VM
      /\ SameWaits(k, RemoveReady(k, t))
      /\ RemoveReady(k, t).current = k.current
      /\ RemoveReady(k, t).state = k.state
      /\ RemoveReady(k, t).idle = k.idle
      /\ RemoveReady(k, t).exitReq = k.exitReq
      /\ RemoveReady(k, t).ready = Unlink(k.ready, t)
  BY <1>2 DEF RemoveReady, VM, SameWaits
<1>4. QueueBut(RemoveReady(k, t), t)
  BY <1>2, <1>3 DEF QueueBut, SameWaits
<1>5. k.ready = <<>> => Unlink(k.ready, t) = <<>>
  BY DEF Unlink, Queued
<1>6. QED BY <1>3, <1>4, <1>5

\* A thread that is not READY, or not linked, is rightly not in the queue.
LEMMA QueueButOK ==
  ASSUME NEW k, NEW t \in Tids, QueueBut(k, t),
         t \notin k.all \/ k.state[t] # "READY"
  PROVE  QueueOK(k)
  BY DEF QueueBut, QueueOK

---------------------------------------------------------------------------
(* scheduler_switch.                                                       *)

LEMMA SaveContextFields ==
  ASSUME NEW k \in VM, NEW t \in Tids
  PROVE  /\ SaveContext(k, t) \in VM
         /\ SameThreads(k, SaveContext(k, t))
         /\ SameWaits(k, SaveContext(k, t))
         /\ SaveContext(k, t).cpu = k.cpu
         /\ SaveContext(k, t).ctx[t] = [valid |-> TRUE, of |-> k.cpu, fresh |-> TRUE]
<1> DEFINE c == [valid |-> TRUE, of |-> k.cpu, fresh |-> TRUE]
<1>1. c \in Context
  BY DEF VM, Context
<1> HIDE DEF c
<1>2. SaveContext(k, t) = [k EXCEPT !.ctx[t] = c]
  BY DEF SaveContext, c
<1>3. k.ctx \in [Tids -> Context]
  BY DEF VM
<1>4. [k.ctx EXCEPT ![t] = c] \in [Tids -> Context] /\ [k.ctx EXCEPT ![t] = c][t] = c
  BY <1>1, <1>3
<1>5. /\ SaveContext(k, t) \in VM
      /\ SameThreads(k, SaveContext(k, t))
      /\ SameWaits(k, SaveContext(k, t))
      /\ SaveContext(k, t).cpu = k.cpu
      /\ SaveContext(k, t).ctx = [k.ctx EXCEPT ![t] = c]
  BY <1>2, <1>4 DEF VM, SameThreads, SameWaits
<1>6. QED BY <1>4, <1>5 DEF c

LEMMA RestoreContextFields ==
  ASSUME NEW k \in VM, NEW t \in Tids
  PROVE  /\ RestoreContext(k, t) \in VM
         /\ SameThreads(k, RestoreContext(k, t))
         /\ SameWaits(k, RestoreContext(k, t))
         /\ RestoreContext(k, t).ctx = k.ctx
<1> DEFINE c == IF k.ctx[t].valid THEN k.ctx[t].of ELSE k.cpu
<1>1. c \in Tids
  BY DEF VM, Context
<1>2. RestoreContext(k, t) = [k EXCEPT !.cpu = c]
  BY DEF RestoreContext
<1> HIDE DEF c
<1>3. QED BY <1>1, <1>2 DEF VM, SameThreads, SameWaits

\* Only READY threads change state, to RUNNING.
Dispatches(k, l) ==
  \A t \in Tids : l.state[t] # k.state[t] =>
                    k.state[t] = "READY" /\ l.state[t] = "RUNNING"

\* What a switch does to the scheduler it is called on: never idle, never
\* asked to exit but by the end of the program.
LEMMA SwitchStep ==
  ASSUME NEW k \in VM, QueueOK(k), LinkedOK(k), ~k.idle, k.exitReq => k.exited
  PROVE  /\ Switch(k) \in VM
         /\ QueueOK(Switch(k))
         /\ LinkedOK(Switch(k))
         /\ RunsOK(Switch(k))
         /\ IdleOK(Switch(k))
         /\ SameWaits(k, Switch(k))
         /\ Dispatches(k, Switch(k))
         /\ k.state[k.current] # "RUNNING" => Switch(k).ctx = k.ctx
         /\ Switch(k).exitReq => Switch(k).idle \/ k.exitReq
<1>1. CASE k.ready = <<>>
  <2>1. Switch(k) = [k EXCEPT !.idle = TRUE, !.current = Idle, !.exitReq = TRUE]
    BY <1>1 DEF Switch
  <2>2. /\ Switch(k) \in VM
        /\ Switch(k).idle = TRUE /\ Switch(k).exitReq = TRUE
        /\ Switch(k).current = Idle
        /\ Switch(k).ready = k.ready /\ Switch(k).state = k.state
        /\ Switch(k).ctx = k.ctx
        /\ SameWaits(k, Switch(k))
    BY <2>1 DEF VM, SameWaits, Tids
  <2>3. QED
    BY <1>1, <2>2 DEF QueueOK, LinkedOK, RunsOK, IdleOK, SameWaits, Dispatches
<1>2. CASE k.ready # <<>>
  <2> DEFINE h == Head(k.ready)
             s == IF k.state[k.current] = "RUNNING"
                  THEN SaveContext(k, k.current) ELSE k
             r == RestoreContext(s, h)
  <2>1. k.ready \in Seq(Tids) /\ Distinct(k.ready) /\ k.current \in Tids
    BY DEF VM, QueueOK
  <2>2. /\ Tail(k.ready) \in Seq(Tids)
        /\ h \in Tids
        /\ Queued(k.ready, h)
        /\ Distinct(Tail(k.ready))
        /\ \A u : Queued(Tail(k.ready), u) <=> Queued(k.ready, u) /\ u # h
    BY <1>2, <2>1, TailQueue
  <2>3. h \in k.all /\ k.state[h] = "READY"
    BY <2>2 DEF QueueOK
  <2>4. h \in Threads /\ h # Idle
    BY <2>3, ThreadAssumption DEF VM
  <2>5. /\ s \in VM /\ SameThreads(k, s) /\ SameWaits(k, s)
        /\ k.state[k.current] # "RUNNING" => s.ctx = k.ctx
    <3>1. CASE k.state[k.current] = "RUNNING"
      BY <2>1, <3>1, SaveContextFields
    <3>2. CASE k.state[k.current] # "RUNNING"
      BY <3>2 DEF SameThreads, SameWaits
    <3>3. QED BY <3>1, <3>2
  <2>6. r \in VM /\ SameThreads(s, r) /\ SameWaits(s, r) /\ r.ctx = s.ctx
    BY <2>2, <2>5, RestoreContextFields
  <2> DEFINE q == Tail(r.ready)
             st == [r.state EXCEPT ![h] = "RUNNING"]
  <2>7. Switch(k) = [r EXCEPT !.ready = q, !.current = h, !.state = st, !.idle = FALSE]
    BY <1>2 DEF Switch, SwitchTo
  <2> HIDE DEF h, s, r
  <2>8. /\ r.ready = k.ready /\ r.state = k.state /\ r.exitReq = k.exitReq
        /\ SameWaits(k, r)
        /\ k.state[k.current] # "RUNNING" => r.ctx = k.ctx
    BY <2>5, <2>6 DEF SameThreads, SameWaits
  <2>9. /\ st \in [Tids -> States] /\ st = [k.state EXCEPT ![h] = "RUNNING"]
        /\ q \in Seq(Tids) /\ q = Tail(k.ready)
    BY <2>2, <2>6, <2>8 DEF VM, States
  <2> HIDE DEF q, st
  <2>10. /\ Switch(k) \in VM
         /\ Switch(k).ready = q
         /\ Switch(k).current = h
         /\ Switch(k).state = st
         /\ Switch(k).idle = FALSE
         /\ Switch(k).exitReq = r.exitReq
         /\ Switch(k).ctx = r.ctx
         /\ SameWaits(r, Switch(k))
    BY <2>2, <2>6, <2>7, <2>9, ZenonT(60) DEF VM, SameWaits
  <2>11. SameWaits(k, Switch(k))
    BY <2>8, <2>10 DEF SameWaits
  <2>12. \A t \in Tids : Switch(k).state[t] = IF t = h THEN "RUNNING" ELSE k.state[t]
    BY <2>9, <2>10, ZenonT(60) DEF VM
  <2>13. QueueOK(Switch(k))
    BY <2>2, <2>9, <2>10, <2>11, <2>12 DEF QueueOK, SameWaits
  <2>14. LinkedOK(Switch(k))
    BY <2>3, <2>11, <2>12 DEF LinkedOK, SameWaits, Tids
  <2>15. RunsOK(Switch(k)) /\ IdleOK(Switch(k))
    BY <2>2, <2>3, <2>4, <2>8, <2>10, <2>11, <2>12 DEF RunsOK, IdleOK, SameWaits
  <2>16. Dispatches(k, Switch(k))
    BY <2>3, <2>12 DEF Dispatches
  <2>17. QED BY <2>8, <2>10, <2>11, <2>13, <2>14, <2>15, <2>16
<1>3. QED BY <1>1, <1>2

\* A switch between two system calls, with nobody waiting.
LEMMA SwitchSound ==
  ASSUME NEW k \in VM, QueueOK(k), LinkedOK(k), ~k.idle, k.exitReq => k.exited,
         NoWaits(k), \A o \in Objects : ObjectOK(k.obj[o])
  PROVE  Sound(Switch(k)) /\ Keeps(k, Switch(k))
<1>1. /\ Switch(k) \in VM /\ QueueOK(Switch(k)) /\ LinkedOK(Switch(k))
      /\ RunsOK(Switch(k)) /\ IdleOK(Switch(k))
      /\ SameWaits(k, Switch(k)) /\ Dispatches(k, Switch(k))
  BY SwitchStep
<1>2. NoWaits(Switch(k))
  BY <1>1 DEF NoWaits, SameWaits, Dispatches, Tids
<1>3. \A o \in Objects : ObjectOK(Switch(k).obj[o])
  BY <1>1 DEF SameWaits
<1>4. Keeps(k, Switch(k))
  BY <1>1 DEF Keeps, Dispatches, Tids
<1>5. QED BY <1>1, <1>2, <1>3, <1>4 DEF Sound

---------------------------------------------------------------------------
(* The main loop: scheduler_tick, scheduler_check_timeouts, and leaving    *)
(* the idle thread.                                                        *)

\* Changing a quantum changes nothing else.
LEMMA QuantumFields ==
  ASSUME NEW k \in VM, NEW t \in Tids, NEW n \in 0..QuantumReset
  PROVE  /\ [k EXCEPT !.quantum[t] = n] \in VM
         /\ SameThreads(k, [k EXCEPT !.quantum[t] = n])
         /\ [k EXCEPT !.quantum[t] = n].obj = k.obj
<1>1. k.quantum \in [Tids -> 0..QuantumReset]
  BY DEF VM
<1> DEFINE f == [k.quantum EXCEPT ![t] = n]
<1>2. f \in [Tids -> 0..QuantumReset]
  BY <1>1
<1>3. [k EXCEPT !.quantum[t] = n] = [k EXCEPT !.quantum = f]
  OBVIOUS
<1> HIDE DEF f
<1>4. QED BY <1>2, <1>3 DEF VM, SameThreads

\* A thread gives up RUNNING (or another state) for a new one.
LEMMA StateFields ==
  ASSUME NEW k \in VM, NEW t \in Tids, NEW st \in States
  PROVE  /\ [k EXCEPT !.state[t] = st] \in VM
         /\ [k EXCEPT !.state[t] = st].state = [k.state EXCEPT ![t] = st]
         /\ \A u \in Tids : [k EXCEPT !.state[t] = st].state[u]
                             = IF u = t THEN st ELSE k.state[u]
         /\ SameWaits(k, [k EXCEPT !.state[t] = st])
         /\ [k EXCEPT !.state[t] = st].current = k.current
         /\ [k EXCEPT !.state[t] = st].ready = k.ready
         /\ [k EXCEPT !.state[t] = st].idle = k.idle
         /\ [k EXCEPT !.state[t] = st].exitReq = k.exitReq
         /\ [k EXCEPT !.state[t] = st].ctx = k.ctx
<1>1. k.state \in [Tids -> States]
  BY DEF VM
<1> DEFINE f == [k.state EXCEPT ![t] = st]
<1>2. f \in [Tids -> States] /\ \A u \in Tids : f[u] = IF u = t THEN st ELSE k.state[u]
  BY <1>1
<1>3. [k EXCEPT !.state[t] = st] = [k EXCEPT !.state = f]
  OBVIOUS
<1> HIDE DEF f
<1>4. /\ [k EXCEPT !.state = f] \in VM
      /\ [k EXCEPT !.state = f].state = f
      /\ SameWaits(k, [k EXCEPT !.state = f])
      /\ [k EXCEPT !.state = f].current = k.current
      /\ [k EXCEPT !.state = f].ready = k.ready
      /\ [k EXCEPT !.state = f].idle = k.idle
      /\ [k EXCEPT !.state = f].exitReq = k.exitReq
      /\ [k EXCEPT !.state = f].ctx = k.ctx
  BY <1>2 DEF VM, SameWaits
<1>5. QED BY <1>2, <1>3, <1>4 DEF f

LEMMA TickSound ==
  ASSUME NEW k, Sound(k)
  PROVE  Sound(Tick(k)) /\ Keeps(k, Tick(k))
<1> DEFINE c == k.current
           r == [k EXCEPT !.quantum[c] = Reset(c)]
<1>1. k \in VM /\ c \in Tids /\ k.quantum[c] \in 0..QuantumReset
      /\ \A o \in Objects : ObjectOK(k.obj[o])
  BY DEF Sound, VM
<1>2. CASE ~Expired(k)
  <2>1. k.quantum[c] - 1 \in 0..QuantumReset
    BY <1>1, <1>2, SchedulerAssumption DEF Expired
  <2>2. Tick(k) = [k EXCEPT !.quantum[c] = k.quantum[c] - 1]
    BY <1>2 DEF Tick
  <2> HIDE DEF c
  <2>3. /\ Tick(k) \in VM /\ SameThreads(k, Tick(k))
        /\ Tick(k).obj = k.obj
    BY <1>1, <2>1, <2>2, QuantumFields
  <2>4. QED BY <1>1, <2>3, SameThreadsSound
<1>3. CASE Expired(k)
  <2>1. Reset(c) \in 0..QuantumReset
    BY SchedulerAssumption DEF Reset
  <2>2. r \in VM /\ SameThreads(k, r) /\ r.obj = k.obj
    BY <1>1, <2>1, QuantumFields
  <2>3. Sound(r) /\ Keeps(k, r)
    BY <1>1, <2>2, SameThreadsSound
  <2>4. CASE k.ready = <<>>
    <3>1. Tick(k) = r
      BY <1>3, <2>4 DEF Tick
    <3>2. QED BY <2>3, <3>1
  <2>5. CASE k.ready # <<>>
    <3> DEFINE s == [r EXCEPT !.state[c] = "READY"]
               a == AddReady(s, c)
    <3>1. Tick(k) = Switch(a)
      BY <1>3, <2>5 DEF Tick
    <3>2. /\ c \in Threads /\ c \in k.all /\ k.state[c] = "RUNNING" /\ ~k.idle
          /\ k.exitReq => k.exited
      BY <1>1, <2>5 DEF Sound, IdleOK, RunsOK, Tids
    <3>3. r.all = k.all /\ r.state = k.state /\ r.ready = k.ready
          /\ r.idle = k.idle /\ r.exitReq = k.exitReq /\ r.exited = k.exited
          /\ r.wait = k.wait /\ r.waitList = k.waitList
      BY <2>2 DEF SameThreads
    <3> HIDE DEF c, r
    <3>4. /\ s \in VM /\ SameWaits(r, s) /\ s.ready = k.ready
          /\ s.idle = k.idle /\ s.exitReq = k.exitReq
          /\ \A u \in Tids : s.state[u] = IF u = c THEN "READY" ELSE k.state[u]
      <4>1. /\ s \in VM /\ SameWaits(r, s) /\ s.ready = r.ready
            /\ s.idle = r.idle /\ s.exitReq = r.exitReq
            /\ \A u \in Tids : s.state[u] = IF u = c THEN "READY" ELSE r.state[u]
        BY <1>1, <2>2, StateFields, ZenonT(60) DEF States
      <4>2. QED BY <3>3, <4>1
    <3> HIDE DEF s
    <3>5. QueueBut(s, c) /\ c \in s.all /\ s.state[c] = "READY"
      BY <1>1, <3>2, <3>3, <3>4 DEF Sound, QueueOK, QueueBut, SameWaits
    <3>6. /\ a \in VM /\ QueueOK(a) /\ SameWaits(s, a) /\ a.state = s.state
          /\ ~a.idle
          /\ a.exitReq => s.exitReq
      BY <1>1, <3>4, <3>5, AddReadyQueue
    <3>7. /\ a.all = k.all /\ a.exited = k.exited /\ a.wait = k.wait
          /\ a.waitList = k.waitList /\ a.obj = k.obj
      BY <2>2, <3>3, <3>4, <3>6 DEF SameWaits
    <3>8. LinkedOK(a)
      BY <3>2, <3>4, <3>6, <3>7 DEF Sound, LinkedOK, Tids
    <3>9. NoWaits(a)
      BY <3>4, <3>6, <3>7 DEF Sound, NoWaits, Tids
    <3>10. Keeps(k, a)
      BY <3>2, <3>4, <3>6 DEF Keeps, Tids
    <3> HIDE DEF a
    <3>11. Sound(Switch(a)) /\ Keeps(a, Switch(a))
      BY <1>1, <3>2, <3>4, <3>6, <3>7, <3>8, <3>9, SwitchSound
    <3>12. QED BY <3>1, <3>10, <3>11 DEF Keeps
  <2>6. QED BY <2>4, <2>5
<1>4. QED BY <1>2, <1>3

\* Between system calls nobody waits and the idle thread has no work, so the
\* rest of the main loop changes nothing.
LEMMA NoTimeouts ==
  ASSUME NEW k, NoWaits(k), k.all \subseteq Threads
  PROVE  CheckTimeouts(k) = k
  BY DEF CheckTimeouts, Waiting, NoWaits

LEMMA LoopSound ==
  ASSUME NEW k, Sound(k)
  PROVE  CheckTimeouts(k) = k /\ LeaveIdle(CheckTimeouts(k)) = k
<1>1. CheckTimeouts(k) = k
  BY NoTimeouts DEF Sound, VM
<1>2. QED BY <1>1 DEF LeaveIdle, Sound, IdleOK

---------------------------------------------------------------------------
(* Objects.                                                                *)

LEMMA HeaderFields ==
  ASSUME NEW type \in DispTypes \cup {"None"}, NEW signal \in Int, NEW limit \in Int,
         NEW owner \in Tids, NEW depth \in Int
  PROVE  LET h == Header(type, signal, limit, owner, depth) IN
         /\ h \in Object /\ h.type = type /\ h.signal = signal /\ h.limit = limit
         /\ h.owner = owner /\ h.depth = depth
  BY DEF Header, Object

LEMMA NoObjectOK == NoObject \in Object /\ ObjectOK(NoObject)
<1>1. 0 \in Int /\ Idle \in Tids
  BY DEF Tids
<1>2. NoObject \in Object /\ NoObject.type = "None"
  BY <1>1, HeaderFields DEF NoObject
<1>3. QED BY <1>2 DEF ObjectOK, EventOK, MutantOK, LimitOK, EventTypes

LEMMA ObjectFields ==
  ASSUME NEW k \in VM, NEW o \in Objects, NEW r \in Object
  PROVE  /\ [k EXCEPT !.obj[o] = r] \in VM
         /\ SameThreads(k, [k EXCEPT !.obj[o] = r])
         /\ [k EXCEPT !.obj[o] = r].handles = k.handles
         /\ \A p \in Objects : [k EXCEPT !.obj[o] = r].obj[p]
                                = IF p = o THEN r ELSE k.obj[p]
<1>1. k.obj \in [Objects -> Object]
  BY DEF VM
<1> DEFINE f == [k.obj EXCEPT ![o] = r]
<1>2. f \in [Objects -> Object] /\ \A p \in Objects : f[p] = IF p = o THEN r ELSE k.obj[p]
  BY <1>1
<1>3. [k EXCEPT !.obj[o] = r] = [k EXCEPT !.obj = f]
  OBVIOUS
<1> HIDE DEF f
<1>4. /\ [k EXCEPT !.obj = f] \in VM
      /\ SameThreads(k, [k EXCEPT !.obj = f])
      /\ [k EXCEPT !.obj = f].handles = k.handles
      /\ [k EXCEPT !.obj = f].obj = f
  BY <1>2 DEF VM, SameThreads
<1>5. QED BY <1>2, <1>3, <1>4

LEMMA ObjectSound ==
  ASSUME NEW k, Sound(k), NEW o \in Objects, NEW r \in Object, ObjectOK(r)
  PROVE  Sound([k EXCEPT !.obj[o] = r]) /\ Keeps(k, [k EXCEPT !.obj[o] = r])
<1>1. k \in VM /\ \A p \in Objects : ObjectOK(k.obj[p])
  BY DEF Sound
<1>2. /\ [k EXCEPT !.obj[o] = r] \in VM
      /\ SameThreads(k, [k EXCEPT !.obj[o] = r])
      /\ \A p \in Objects : ObjectOK([k EXCEPT !.obj[o] = r].obj[p])
  BY <1>1, ObjectFields
<1>3. QED BY <1>2, SameThreadsSound

\* A mutant that changes its signal state, its owner and its depth.
Owned(x, n, t, d) == [x EXCEPT !.signal = n, !.owner = t, !.depth = d]

LEMMA OwnedFields ==
  ASSUME NEW x \in Object, NEW n \in Int, NEW t \in Tids, NEW d \in Int
  PROVE  /\ Owned(x, n, t, d) \in Object
         /\ Owned(x, n, t, d).type = x.type
         /\ Owned(x, n, t, d).signal = n
         /\ Owned(x, n, t, d).owner = t
         /\ Owned(x, n, t, d).depth = d
  BY DEF Owned, Object

LEMMA OwnedOK ==
  ASSUME NEW x \in Object, x.type = "Mutant",
         NEW n \in Int, n < 0, NEW t \in Threads, NEW d \in Int, d > 0
  PROVE  Owned(x, n, t, d) \in Object /\ ObjectOK(Owned(x, n, t, d))
<1>1. t \in Tids
  BY DEF Tids
<1>2. /\ Owned(x, n, t, d) \in Object
      /\ Owned(x, n, t, d).type = "Mutant"
      /\ Owned(x, n, t, d).signal = n
      /\ Owned(x, n, t, d).owner = t
      /\ Owned(x, n, t, d).depth = d
  BY <1>1, OwnedFields
<1>3. QED BY <1>2 DEF ObjectOK, EventOK, MutantOK, LimitOK, EventTypes

LEMMA SatisfyWaitOK ==
  ASSUME NEW x \in Object, ObjectOK(x), NEW t \in Threads
  PROVE  SatisfyWait(x, t) \in Object /\ ObjectOK(SatisfyWait(x, t))
<1> USE DEF Object, ObjectOK, EventOK, MutantOK, LimitOK, EventTypes, DispTypes, Tids
<1>1. CASE x.type = "EventSynchronization"
  BY <1>1 DEF SatisfyWait
<1>2. CASE x.type = "Semaphore"
  <2>1. CASE x.signal > 0
    <3>1. SatisfyWait(x, t) = [x EXCEPT !.signal = x.signal - 1]
      BY <1>2, <2>1 DEF SatisfyWait
    <3>2. QED BY <1>2, <2>1, <3>1
  <2>2. CASE ~(x.signal > 0)
    BY <1>2, <2>2 DEF SatisfyWait
  <2>3. QED BY <2>1, <2>2
<1>3. CASE x.type = "Mutant" /\ x.signal > 0
  <2>1. SatisfyWait(x, t) = Owned(x, -1, t, 1)
    BY <1>3 DEF SatisfyWait, Owned
  <2>2. -1 \in Int /\ -1 < 0 /\ 1 \in Int /\ 1 > 0 /\ t \in Tids
    OBVIOUS
  <2>3. QED BY <1>3, <2>1, <2>2, OwnedOK
<1>4. CASE x.type = "Mutant" /\ x.signal <= 0 /\ x.owner = t
  <2> DEFINE n == x.signal - 1
             d == x.depth + 1
             y == [x EXCEPT !.signal = n, !.depth = d]
  <2>1. SatisfyWait(x, t) = y
    BY <1>4 DEF SatisfyWait
  <2>2. n \in Int /\ n < 0 /\ d \in Int /\ d > 0
    BY <1>4
  <2> HIDE DEF n, d
  <2>3. /\ y \in Object /\ y.type = x.type /\ y.owner = x.owner
        /\ y.signal = n /\ y.depth = d
    BY <2>2
  <2> HIDE DEF y
  <2>4. QED BY <1>4, <2>1, <2>2, <2>3
<1>5. CASE x.type = "Mutant" /\ x.signal <= 0 /\ x.owner # t
  BY <1>5 DEF SatisfyWait
<1>6. CASE x.type \notin {"EventSynchronization", "Semaphore", "Mutant"}
  BY <1>6 DEF SatisfyWait
<1>7. QED BY <1>1, <1>2, <1>3, <1>4, <1>5, <1>6

LEMMA SatisfyEntrySound ==
  ASSUME NEW k, Sound(k), NEW o \in Objects, NEW t \in Threads
  PROVE  Sound(SatisfyEntry(k, o, t)) /\ Keeps(k, SatisfyEntry(k, o, t))
<1>1. k.obj[o] \in Object /\ ObjectOK(k.obj[o])
  BY DEF Sound, VM
<1>2. SatisfyEntry(k, o, t) = [k EXCEPT !.obj[o] = SatisfyWait(k.obj[o], t)]
  BY DEF SatisfyEntry
<1>3. SatisfyWait(k.obj[o], t) \in Object /\ ObjectOK(SatisfyWait(k.obj[o], t))
  BY <1>1, SatisfyWaitOK
<1>4. QED BY <1>2, <1>3, ObjectSound

\* The arrays the two wait calls build.
Arrays == {<<o>> : o \in Objects} \cup {<<o, p>> : o, p \in Objects}

LEMMA SatisfySound ==
  ASSUME NEW k, Sound(k), NEW objs \in Arrays, NEW type \in {"ANY", "ALL"},
         NEW t \in Threads, CanSatisfy(k, objs, type, t)
  PROVE  Sound(Satisfy(k, objs, type, t)) /\ Keeps(k, Satisfy(k, objs, type, t))
<1>1. /\ Len(objs) \in 1..2 /\ DOMAIN objs = 1..Len(objs)
      /\ \A i \in 1..Len(objs) : objs[i] \in Objects
  BY DEF Arrays
<1>2. CASE type = "ANY"
  <2> DEFINE i == FirstSignaled(k, objs, t)
  <2>1. SignaledAt(k, objs, t) # {} /\ SignaledAt(k, objs, t) \subseteq 1..2
    BY <1>1, <1>2 DEF CanSatisfy, SignaledAt
  <2>2. \E x \in SignaledAt(k, objs, t) : \A y \in SignaledAt(k, objs, t) : x <= y
    BY <2>1
  <2>3. i \in SignaledAt(k, objs, t)
    BY <2>2 DEF FirstSignaled
  <2>4. objs[i] \in Objects
    BY <1>1, <2>3 DEF SignaledAt
  <2>5. Satisfy(k, objs, type, t) = SatisfyEntry(k, objs[i], t)
    BY <1>2 DEF Satisfy
  <2>6. QED BY <2>4, <2>5, SatisfyEntrySound
<1>3. CASE type = "ALL"
  <2> DEFINE f == SatisfyEntry(k, objs[1], t)
  <2>1. objs[1] \in Objects
    BY <1>1
  <2>2. Sound(f) /\ Keeps(k, f)
    BY <2>1, SatisfyEntrySound
  <2>3. CASE Len(objs) = 1
    BY <1>3, <2>2, <2>3 DEF Satisfy, SatisfyAll
  <2>4. CASE Len(objs) = 2
    <3>1. objs[2] \in Objects
      BY <1>1, <2>4
    <3>2. Sound(SatisfyEntry(f, objs[2], t)) /\ Keeps(f, SatisfyEntry(f, objs[2], t))
      BY <2>2, <3>1, SatisfyEntrySound
    <3>3. Satisfy(k, objs, type, t) = SatisfyEntry(f, objs[2], t)
      BY <1>3, <2>4 DEF Satisfy, SatisfyAll
    <3>4. QED BY <2>2, <3>2, <3>3 DEF Keeps
  <2>5. QED BY <1>1, <2>3, <2>4
<1>4. QED BY <1>2, <1>3

\* Nobody waits while a call signals an object, so nobody is woken.
LEMMA SignalNobody ==
  ASSUME NEW k, NoWaits(k), NEW o \in Objects
  PROVE  SignalObject(k, o) = k
  BY DEF SignalObject, NoWaits

---------------------------------------------------------------------------
(***************************************************************************)
(* scheduler_block_thread.  Blocked(k, t) is the state in which t has      *)
(* switched away and the call has not returned.                            *)
(***************************************************************************)
Blocked(k, t) ==
  /\ k \in VM
  /\ QueueOK(k)
  /\ LinkedOK(k)
  /\ IdleOK(k)
  /\ t \in Threads
  /\ WaitsOK(k, t)
  /\ \A o \in Objects : ObjectOK(k.obj[o])

LEMMA NoWaitsOK ==
  ASSUME NEW k, NoWaits(k)
  PROVE  WaitsOK(k, Idle)
<1>1. \A t \in Threads : t # Idle
  BY ThreadAssumption
<1>2. ASSUME NEW o \in Objects
      PROVE  k.waitList[o] = {b \in Threads \X (1..2) :
               /\ b[1] = Idle
               /\ b[2] \in DOMAIN k.wait[Idle].objs
               /\ k.wait[Idle].objs[b[2]] = o /\ Exists(k.obj[o])}
  BY <1>1 DEF NoWaits
<1>3. QED BY <1>1, <1>2 DEF WaitsOK, NoWaits

\* Pushing the wait blocks changes the wait lists and the wait only.
Armed(k, w, wait) ==
  /\ w.current = k.current /\ w.ready = k.ready /\ w.all = k.all
  /\ w.idle = k.idle /\ w.exitReq = k.exitReq /\ w.exited = k.exited
  /\ w.state = k.state /\ w.obj = k.obj /\ w.cpu = k.cpu
  /\ \A t \in Threads : w.wait[t] = IF t = k.current THEN wait ELSE NoWait
  /\ \A o \in Objects :
       w.waitList[o] = {b \in Threads \X (1..2) :
                          /\ b[1] = k.current /\ b[2] \in DOMAIN wait.objs
                          /\ wait.objs[b[2]] = o /\ Exists(k.obj[o])}

LEMMA ArmWaitFields ==
  ASSUME NEW k, Sound(k), k.current \in Threads,
         NEW objs \in Arrays \cup {<<>>}, NEW type \in {"ANY", "ALL"}
  PROVE  /\ ArmWait(k, objs, type) \in VM
         /\ Armed(k, ArmWait(k, objs, type),
                  [objs |-> objs, type |-> type, armed |-> TRUE])
<1> DEFINE t == k.current
           w == ArmWait(k, objs, type)
           blocks(o) == {<<t, i>> : i \in {j \in DOMAIN objs :
                                              objs[j] = o /\ Exists(k.obj[o])}}
           lists == [o \in Objects |-> k.waitList[o] \cup blocks(o)]
           one == [objs |-> objs, type |-> type, armed |-> TRUE]
           waits == [k.wait EXCEPT ![t] = one]
<1>1. k \in VM /\ k.wait = [u \in Threads |-> NoWait]
      /\ k.waitList = [o \in Objects |-> {}]
  BY DEF Sound, NoWaits
<1>2. DOMAIN objs \subseteq 1..2 /\ objs \in Seq(Objects)
  <2>1. CASE objs = <<>>
    BY <2>1
  <2>2. CASE \E o \in Objects : objs = <<o>>
    BY <2>2
  <2>3. CASE \E o, p \in Objects : objs = <<o, p>>
    BY <2>3
  <2>4. QED BY <2>1, <2>2, <2>3 DEF Arrays
<1>3. NoWait \in Wait
  BY DEF NoWait, Wait
<1>4. one \in Wait /\ one.objs = objs
  BY <1>2 DEF Wait
<1>5. w = [k EXCEPT !.waitList = lists, !.wait = waits]
  BY DEF ArmWait, PushBlocks
<1>6. \A o \in Objects :
        lists[o] = {b \in Threads \X (1..2) :
                      /\ b[1] = t /\ b[2] \in DOMAIN objs
                      /\ objs[b[2]] = o /\ Exists(k.obj[o])}
  <2>1. TAKE o \in Objects
  <2>2. lists[o] = blocks(o)
    BY <1>1
  <2>3. QED BY <1>2, <2>2
<1>7. lists \in [Objects -> SUBSET (Threads \X (1..2))]
  BY <1>6
<1> HIDE DEF one
<1>8. waits \in [Threads -> Wait]
      /\ \A u \in Threads : waits[u] = IF u = t THEN one ELSE NoWait
  BY <1>1, <1>3, <1>4
<1> HIDE DEF lists, waits, w
<1>9. /\ w \in VM
      /\ w.current = k.current /\ w.ready = k.ready /\ w.all = k.all
      /\ w.idle = k.idle /\ w.exitReq = k.exitReq /\ w.exited = k.exited
      /\ w.state = k.state /\ w.obj = k.obj /\ w.cpu = k.cpu
      /\ w.wait = waits /\ w.waitList = lists
  BY <1>1, <1>5, <1>7, <1>8 DEF VM
<1>10. Armed(k, w, one)
  BY <1>4, <1>6, <1>8, <1>9 DEF Armed
<1>11. QED BY <1>9, <1>10 DEF one, w

\* Entering scheduler_block_thread.
LEMMA BlockThreadStep ==
  ASSUME NEW k, Sound(k), k.current \in Threads,
         NEW objs \in Arrays \cup {<<>>}, NEW type \in {"ANY", "ALL"}
  PROVE  /\ Blocked(BlockThread(k, objs, type), k.current)
         /\ Keeps(k, BlockThread(k, objs, type))
         /\ BlockThread(k, objs, type).ctx[k.current]
              = [valid |-> TRUE, of |-> k.cpu, fresh |-> TRUE]
<1> DEFINE t == k.current
           w == ArmWait(k, objs, type)
           s == SaveContext(w, t)
           v == [s EXCEPT !.state[t] = "WAITING"]
           l == BlockThread(k, objs, type)
<1>0. l = Switch(v)
  BY DEF BlockThread
<1>1. k \in VM /\ t \in Tids /\ t # Idle
  BY ThreadAssumption DEF Sound, VM
<1>2. t \in k.all /\ k.state[t] = "RUNNING" /\ ~k.idle
  BY <1>1 DEF Sound, RunsOK, IdleOK
<1>3. k.exitReq => k.exited
  BY <1>2 DEF Sound, IdleOK
<1> DEFINE one == [objs |-> objs, type |-> type, armed |-> TRUE]
<1>4. w \in VM /\ Armed(k, w, one) /\ one.armed
  BY ArmWaitFields
<1> HIDE DEF one
<1> HIDE DEF w
<1>5. /\ s \in VM /\ SameThreads(w, s) /\ SameWaits(w, s)
      /\ s.ctx[t] = [valid |-> TRUE, of |-> k.cpu, fresh |-> TRUE]
  BY <1>1, <1>4, SaveContextFields DEF Armed
<1> HIDE DEF s
<1>6. /\ v \in VM /\ SameWaits(s, v) /\ v.ready = s.ready /\ v.current = s.current
      /\ v.idle = s.idle /\ v.exitReq = s.exitReq /\ v.ctx = s.ctx
      /\ \A u \in Tids : v.state[u] = IF u = t THEN "WAITING" ELSE s.state[u]
  BY <1>1, <1>5, StateFields, ZenonT(60) DEF States
<1> HIDE DEF v
<1>7. /\ v.current = t /\ v.ready = k.ready /\ v.all = k.all
      /\ v.idle = k.idle /\ v.exitReq = k.exitReq /\ v.exited = k.exited
      /\ v.obj = k.obj /\ v.wait = w.wait /\ v.waitList = w.waitList
      /\ \A u \in Tids : v.state[u] = IF u = t THEN "WAITING" ELSE k.state[u]
  BY <1>4, <1>5, <1>6 DEF SameThreads, SameWaits, Armed
<1>8. QueueOK(v)
  BY <1>2, <1>7 DEF Sound, QueueOK
<1>9. LinkedOK(v)
  BY <1>2, <1>7 DEF Sound, LinkedOK, Tids
<1>10. /\ l \in VM /\ QueueOK(l) /\ LinkedOK(l) /\ IdleOK(l)
       /\ SameWaits(v, l) /\ Dispatches(v, l)
       /\ l.ctx = v.ctx
  BY <1>0, <1>1, <1>2, <1>3, <1>6, <1>7, <1>8, <1>9, SwitchStep
<1> HIDE DEF l
<1>11. \A u \in Threads : l.state[u] = "WAITING" <=> u = t
  BY <1>1, <1>7, <1>10 DEF Sound, NoWaits, Dispatches, Tids
<1>12. WaitsOK(l, t)
  <2>1. l.wait = w.wait /\ l.waitList = w.waitList /\ l.obj = k.obj
    BY <1>7, <1>10 DEF SameWaits
  <2>2. /\ l.wait[t] = one
        /\ \A u \in Threads : u # t => l.wait[u] = NoWait
    BY <1>4, <2>1 DEF Armed
  <2>3. \A o \in Objects :
          l.waitList[o] = {b \in Threads \X (1..2) :
                             /\ b[1] = t /\ b[2] \in DOMAIN l.wait[t].objs
                             /\ l.wait[t].objs[b[2]] = o /\ Exists(l.obj[o])}
    BY <1>4, <2>1, <2>2 DEF Armed
  <2>4. QED BY <1>4, <1>11, <2>2, <2>3 DEF WaitsOK
<1>13. \A o \in Objects : ObjectOK(l.obj[o])
  BY <1>7, <1>10 DEF Sound, SameWaits
<1>14. Keeps(k, l)
  BY <1>1, <1>2, <1>7, <1>10 DEF Keeps, Dispatches, Tids
<1>15. l.ctx[t] = [valid |-> TRUE, of |-> k.cpu, fresh |-> TRUE]
  BY <1>5, <1>6, <1>10
<1>16. QED BY <1>10, <1>12, <1>13, <1>14, <1>15 DEF Blocked, l

\* Returning from it: the deadline of the only waiter passes, and it is made
\* current again.
LEMMA WokenStep ==
  ASSUME NEW k, NEW t, Blocked(k, t)
  PROVE  LET a == CheckTimeouts(k) IN
         /\ a \in VM
         /\ QueueOK(a)
         /\ LinkedOK(a)
         /\ t \in a.all
         /\ \A u \in Tids : a.state[u] = IF u = t THEN "READY" ELSE k.state[u]
         /\ a.exitReq => a.exited
         /\ \A u \in Threads : a.wait[u] = NoWait
         /\ \A o \in Objects : a.waitList[o] = {}
         /\ a.obj = k.obj
<1>1. /\ k \in VM /\ t \in Threads /\ t \in Tids /\ k.all \subseteq Threads
      /\ k.state[t] = "WAITING" /\ k.wait[t].armed
      /\ \A u \in Threads \ {t} : k.state[u] # "WAITING" /\ k.wait[u] = NoWait
  BY DEF Blocked, VM, WaitsOK, Tids
<1>2. t \in k.all
  BY <1>1 DEF Blocked, LinkedOK
<1>3. Waiting(k) = {t}
  BY <1>1, <1>2 DEF Waiting
<1> DEFINE lists == [o \in Objects |-> {b \in k.waitList[o] : b[1] # t}]
           waits == [k.wait EXCEPT ![t] = NoWait]
           st == [k.state EXCEPT ![t] = "READY"]
           u == [k EXCEPT !.waitList = lists, !.wait = waits, !.state = st]
           a == AddReady(u, t)
<1>4. CheckTimeouts(k) = a
  BY <1>3 DEF CheckTimeouts, Wake
<1>5. lists = [o \in Objects |-> {}]
  BY <1>1 DEF Blocked, WaitsOK
<1>6. waits \in [Threads -> Wait] /\ \A x \in Threads : waits[x] = NoWait
  BY <1>1 DEF VM, NoWait, Wait
<1>7. st \in [Tids -> States]
      /\ \A x \in Tids : st[x] = IF x = t THEN "READY" ELSE k.state[x]
  BY <1>1 DEF VM, States
<1>8. lists \in [Objects -> SUBSET (Threads \X (1..2))]
  BY <1>5
<1> HIDE DEF lists, waits, st
<1>9. /\ u \in VM /\ u.waitList = lists /\ u.wait = waits /\ u.state = st
      /\ u.ready = k.ready /\ u.all = k.all /\ u.obj = k.obj
      /\ u.idle = k.idle /\ u.exitReq = k.exitReq /\ u.exited = k.exited
  BY <1>1, <1>6, <1>7, <1>8 DEF VM
<1> HIDE DEF u
<1>10. QueueBut(u, t) /\ t \in u.all /\ u.state[t] = "READY"
  BY <1>1, <1>2, <1>7, <1>9 DEF Blocked, QueueOK, QueueBut
<1>11. /\ a \in VM /\ QueueOK(a) /\ SameWaits(u, a) /\ a.state = u.state
       /\ (a.exitReq => u.exitReq /\ ~u.idle)
  BY <1>1, <1>9, <1>10, AddReadyQueue
<1> HIDE DEF a
<1>12. LinkedOK(a)
  BY <1>1, <1>2, <1>7, <1>9, <1>11 DEF Blocked, LinkedOK, SameWaits, Tids
<1>13. a.exitReq => a.exited
  BY <1>9, <1>11 DEF Blocked, IdleOK, SameWaits
<1>14. /\ t \in a.all /\ a.obj = k.obj
       /\ \A x \in Tids : a.state[x] = IF x = t THEN "READY" ELSE k.state[x]
       /\ \A x \in Threads : a.wait[x] = NoWait
       /\ \A o \in Objects : a.waitList[o] = {}
  BY <1>2, <1>5, <1>6, <1>7, <1>9, <1>11 DEF SameWaits
<1>15. QED BY <1>4, <1>11, <1>12, <1>13, <1>14

LEMMA UnblockedStep ==
  ASSUME NEW k, NEW t, Blocked(k, t)
  PROVE  /\ Sound(Unblocked(CheckTimeouts(k), t))
         /\ Keeps(k, Unblocked(CheckTimeouts(k), t))
<1> DEFINE a == CheckTimeouts(k)
           c == [a EXCEPT !.current = t]
           r == RemoveReady(c, t)
           s == [r EXCEPT !.state[t] = "RUNNING"]
           l == Unblocked(a, t)
<1>1. /\ t \in Threads /\ t \in Tids /\ t # Idle /\ k \in VM
      /\ k.state[t] = "WAITING"
      /\ \A u \in Threads \ {t} : k.state[u] # "WAITING"
  BY ThreadAssumption DEF Blocked, WaitsOK, Tids
<1>2. /\ a \in VM /\ QueueOK(a) /\ LinkedOK(a) /\ t \in a.all
      /\ \A u \in Tids : a.state[u] = IF u = t THEN "READY" ELSE k.state[u]
      /\ (a.exitReq => a.exited)
      /\ \A u \in Threads : a.wait[u] = NoWait
      /\ \A o \in Objects : a.waitList[o] = {}
      /\ a.obj = k.obj
  BY WokenStep
<1>3. l = [s EXCEPT !.idle = FALSE]
  BY DEF Unblocked
<1> HIDE DEF a
<1>4. /\ c \in VM /\ SameWaits(a, c) /\ c.current = t /\ c.ready = a.ready
      /\ c.state = a.state /\ c.idle = a.idle /\ c.exitReq = a.exitReq
  BY <1>1, <1>2 DEF VM, SameWaits
<1> HIDE DEF c
<1>5. Distinct(c.ready) /\ \A u \in Tids \ {t} :
        Queued(c.ready, u) <=> (u \in c.all /\ c.state[u] = "READY")
  BY <1>2, <1>4 DEF QueueOK, SameWaits
<1>6. /\ r \in VM /\ QueueBut(r, t) /\ SameWaits(c, r) /\ r.current = c.current
      /\ r.state = c.state /\ r.exitReq = c.exitReq
  BY <1>1, <1>4, <1>5, RemoveReadyQueue
<1> HIDE DEF r
<1>7. /\ s \in VM /\ SameWaits(r, s) /\ s.current = r.current /\ s.ready = r.ready
      /\ s.exitReq = r.exitReq
      /\ \A u \in Tids : s.state[u] = IF u = t THEN "RUNNING" ELSE r.state[u]
  BY <1>1, <1>6, StateFields, ZenonT(60) DEF States
<1> HIDE DEF s
<1>8. /\ l \in VM /\ SameWaits(s, l) /\ l.current = s.current /\ l.ready = s.ready
      /\ l.exitReq = s.exitReq /\ l.idle = FALSE /\ l.state = s.state
  BY <1>3, <1>7 DEF VM, SameWaits
<1> HIDE DEF l
<1>9. /\ l.current = t /\ l.all = a.all /\ l.exited = a.exited
      /\ l.wait = a.wait /\ l.waitList = a.waitList /\ l.obj = k.obj
      /\ l.exitReq = a.exitReq
      /\ \A u \in Tids : l.state[u] = IF u = t THEN "RUNNING" ELSE k.state[u]
  BY <1>2, <1>4, <1>6, <1>7, <1>8 DEF SameWaits
<1>10. QueueOK(l)
  <2>1. QueueBut(l, t) /\ l.state[t] # "READY"
    BY <1>1, <1>6, <1>7, <1>8 DEF QueueBut, SameWaits
  <2>2. QED BY <1>1, <2>1, QueueButOK
<1>11. LinkedOK(l)
  BY <1>1, <1>2, <1>9 DEF LinkedOK, Tids
<1>12. RunsOK(l) /\ IdleOK(l)
  BY <1>1, <1>2, <1>8, <1>9 DEF RunsOK, IdleOK
<1>13. NoWaits(l)
  <2>1. \A u \in Threads : l.state[u] # "WAITING"
    <3>1. TAKE u \in Threads
    <3>2. u \in Tids
      BY DEF Tids
    <3>3. CASE u = t
      BY <1>9, <3>2, <3>3
    <3>4. CASE u # t
      BY <1>1, <1>9, <3>2, <3>4
    <3>5. QED BY <3>3, <3>4
  <2>2. l.wait \in [Threads -> Wait] /\ l.waitList \in [Objects -> SUBSET (Threads \X (1..2))]
    BY <1>8 DEF VM
  <2>3. l.wait = [u \in Threads |-> NoWait]
    BY <1>2, <1>9, <2>2
  <2>4. l.waitList = [o \in Objects |-> {}]
    BY <1>2, <1>9, <2>2
  <2>5. QED BY <2>1, <2>3, <2>4 DEF NoWaits
<1>14. Keeps(k, l)
  BY <1>1, <1>9 DEF Keeps, Tids
<1>15. \A o \in Objects : ObjectOK(l.obj[o])
  BY <1>9 DEF Blocked
<1>16. QED BY <1>8, <1>10, <1>11, <1>12, <1>13, <1>14, <1>15 DEF Sound, l, a

---------------------------------------------------------------------------
(***************************************************************************)
(* The inductive invariant.  The properties say what holds at a glance;    *)
(* this says it separately for the two places the host can be: between     *)
(* system calls nobody waits, and inside scheduler_block_thread exactly    *)
(* the blocked thread does, with its context saved.                        *)
(***************************************************************************)
IInv ==
  /\ TypeOK
  /\ frame = NoFrame => Sound(vm)
  /\ frame # NoFrame => inExec /\ Blocked(vm, frame.thread)
  /\ WaitSavesContext

\* A system call that did not block.
CallOK ==
  /\ frame = NoFrame /\ frame' = NoFrame
  /\ Sound(vm') /\ Keeps(vm, vm')
  /\ inExec' \in BOOLEAN /\ clock' \in Clocks

\* A system call that entered scheduler_block_thread.
BlockOK ==
  /\ frame = NoFrame
  /\ frame' = [thread |-> vm.current, stream |-> vm.cpu]
  /\ vm.current \in Threads /\ vm.cpu \in Tids
  /\ Blocked(vm', vm.current) /\ Keeps(vm, vm')
  /\ vm'.ctx[vm.current] = [valid |-> TRUE, of |-> vm.cpu, fresh |-> TRUE]
  /\ inExec' = TRUE /\ clock' \in Clocks

LEMMA ReturnOK ==
  ASSUME IInv, GuestRuns, NEW k, Sound(k), Keeps(Executed(vm), k),
         NEW st, NEW wt, Return(k, st, wt)
  PROVE  CallOK
<1>1. Keeps(vm, Executed(vm))
  BY ExecutedSound DEF IInv, GuestRuns
<1>2. QED BY <1>1 DEF IInv, TypeOK, GuestRuns, Return, CallOK, Keeps

\* What the actor of a call and the state after its guest code are like.
LEMMA CallerOK ==
  ASSUME IInv, GuestRuns
  PROVE  /\ Sound(vm) /\ vm \in VM
         /\ Sound(Executed(vm)) /\ Executed(vm) \in VM
         /\ SameThreads(vm, Executed(vm)) /\ Executed(vm).obj = vm.obj
         /\ Executed(vm).handles = vm.handles
         /\ vm.current \in Threads
         /\ vm.current \in vm.all /\ vm.state[vm.current] = "RUNNING"
         /\ ~vm.idle /\ (vm.exitReq => vm.exited)
         /\ Keeps(Executed(vm), Executed(vm))
<1>1. Sound(vm) /\ vm \in VM
  BY DEF IInv, GuestRuns, Sound
<1>2. /\ vm.current \in Threads
      /\ vm.current \in vm.all /\ vm.state[vm.current] = "RUNNING"
      /\ ~vm.idle /\ (vm.exitReq => vm.exited)
  BY <1>1 DEF Sound, GuestRuns, RunsOK, IdleOK, VM
<1>3. QED BY <1>1, <1>2, ExecutedSound, ExecutedFields DEF Keeps

LEMMA BlockEnterOK ==
  ASSUME IInv, GuestRuns, NEW objs \in Arrays \cup {<<>>},
         NEW type \in {"ANY", "ALL"}, BlockEnter(objs, type)
  PROVE  BlockOK
<1> DEFINE k == Executed(vm)
<1>1. /\ Sound(k) /\ k \in VM /\ k.current = vm.current /\ vm.current \in Threads
      /\ k.cpu = vm.cpu /\ vm.cpu \in Tids /\ Keeps(vm, k)
  BY CallerOK, ExecutedFields, ExecutedSound DEF SameThreads, VM
<1>2. vm' = BlockThread(k, objs, type)
      /\ frame' = [thread |-> vm.current, stream |-> vm.cpu]
      /\ inExec' = inExec /\ clock' = clock
  BY DEF BlockEnter, Me
<1> HIDE DEF k
<1>3. /\ Blocked(vm', vm.current) /\ Keeps(k, vm')
      /\ vm'.ctx[vm.current] = [valid |-> TRUE, of |-> vm.cpu, fresh |-> TRUE]
  BY <1>1, <1>2, BlockThreadStep
<1>4. QED BY <1>1, <1>2, <1>3 DEF BlockOK, Keeps, IInv, TypeOK, GuestRuns

LEMMA DoWaitOK ==
  ASSUME IInv, NEW objs \in Arrays, NEW type \in {"ANY", "ALL"}, NEW wait \in Waits,
         DoWait(objs, type, wait)
  PROVE  CallOK \/ BlockOK
<1> DEFINE k == Executed(vm)
           l == Satisfy(k, objs, type, Me)
<1>1. GuestRuns
  BY DEF DoWait
<1>2. /\ Sound(k) /\ k.obj = vm.obj /\ Me \in Threads /\ Keeps(k, k)
  BY <1>1, CallerOK DEF Me
<1>3. CASE CanSatisfy(vm, objs, type, Me)
  <2>1. CanSatisfy(k, objs, type, Me)
    BY <1>2, <1>3 DEF CanSatisfy, SignaledAt, AllSignaled
  <2>2. Return(l, "SUCCESS", wait)
    BY <1>3 DEF DoWait
  <2>3. Sound(l) /\ Keeps(k, l)
    BY <1>2, <2>1, SatisfySound
  <2> HIDE DEF l
  <2>4. QED BY <1>1, <2>2, <2>3, ReturnOK
<1>4. CASE ~CanSatisfy(vm, objs, type, Me) /\ wait # "FINITE"
  <2>1. Return(k, "TIMEOUT", wait)
    BY <1>4 DEF DoWait
  <2>2. QED BY <1>1, <1>2, <2>1, ReturnOK
<1>5. CASE ~CanSatisfy(vm, objs, type, Me) /\ wait = "FINITE"
  <2>1. BlockEnter(objs, type)
    BY <1>5 DEF DoWait
  <2>2. QED BY <1>1, <2>1, BlockEnterOK
<1>6. QED BY <1>3, <1>4, <1>5

---------------------------------------------------------------------------
(* The calls on objects.                                                   *)

LEMMA NewObjectOK ==
  ASSUME IInv, NEW o \in Objects, NEW r \in Object, ObjectOK(r), NewObject(o, r)
  PROVE  CallOK
<1> DEFINE k == Executed(vm)
           l == [k EXCEPT !.obj[o] = r]
<1>1. GuestRuns /\ Return(l, "SUCCESS", "NONE")
  BY DEF NewObject, Call
<1>2. Sound(k)
  BY <1>1, CallerOK
<1>3. Sound(l) /\ Keeps(k, l)
  BY <1>2, ObjectSound
<1> HIDE DEF l
<1>4. QED BY <1>1, <1>3, ReturnOK

LEMMA CreatedOK ==
  /\ \A type \in EventTypes, initial \in BOOLEAN :
       CreateEvent(type, initial) \in Object /\ ObjectOK(CreateEvent(type, initial))
  /\ \A initial, limit \in Int : initial <= limit =>
       /\ CreateSemaphore(initial, limit) \in Object
       /\ ObjectOK(CreateSemaphore(initial, limit))
  /\ \A t \in Tids : CreateMutant(t) \in Object /\ ObjectOK(CreateMutant(t))
<1>1. /\ 0 \in Int /\ 1 \in Int /\ -1 \in Int /\ -1 < 0 /\ Idle \in Tids
      /\ EventTypes \subseteq DispTypes /\ "Semaphore" \in DispTypes /\ "Mutant" \in DispTypes
  BY DEF DispTypes, Tids
<1>2. ASSUME NEW type \in EventTypes, NEW initial \in BOOLEAN
      PROVE  CreateEvent(type, initial) \in Object /\ ObjectOK(CreateEvent(type, initial))
  <2> DEFINE n == IF initial THEN 1 ELSE 0
             x == Header(type, n, 0, Idle, 0)
  <2>1. n \in {0, 1} /\ n \in Int
    OBVIOUS
  <2>2. CreateEvent(type, initial) = x
    BY DEF CreateEvent
  <2> HIDE DEF n
  <2>3. x \in Object /\ x.type = type /\ x.signal = n
    BY <1>1, <2>1, HeaderFields
  <2> HIDE DEF x
  <2>4. QED
    BY <2>1, <2>2, <2>3 DEF ObjectOK, EventOK, MutantOK, LimitOK, EventTypes
<1>3. ASSUME NEW initial \in Int, NEW limit \in Int, initial <= limit
      PROVE  /\ CreateSemaphore(initial, limit) \in Object
             /\ ObjectOK(CreateSemaphore(initial, limit))
  <2> DEFINE x == Header("Semaphore", initial, limit, Idle, 0)
  <2>1. x \in Object /\ x.type = "Semaphore" /\ x.signal = initial /\ x.limit = limit
    BY <1>1, HeaderFields
  <2>2. CreateSemaphore(initial, limit) = x
    BY DEF CreateSemaphore
  <2> HIDE DEF x
  <2>3. QED BY <1>3, <2>1, <2>2 DEF ObjectOK, EventOK, MutantOK, LimitOK, EventTypes
<1>4. ASSUME NEW t \in Tids
      PROVE  CreateMutant(t) \in Object /\ ObjectOK(CreateMutant(t))
  <2>1. CASE t = Idle
    <3> DEFINE x == Header("Mutant", 1, 0, Idle, 0)
    <3>1. x \in Object /\ x.type = "Mutant" /\ x.signal = 1 /\ x.owner = Idle
          /\ x.depth = 0
      BY <1>1, HeaderFields
    <3>2. CreateMutant(t) = x
      BY <2>1 DEF CreateMutant
    <3> HIDE DEF x
    <3>3. QED BY <3>1, <3>2 DEF ObjectOK, EventOK, MutantOK, LimitOK, EventTypes
  <2>2. CASE t # Idle
    <3> DEFINE n == -1
               x == Header("Mutant", n, 0, t, 1)
    <3>1. n \in Int /\ n < 0 /\ t \in Threads
      BY <2>2 DEF Tids
    <3>2. CreateMutant(t) = x
      BY <2>2 DEF CreateMutant
    <3> HIDE DEF n
    <3>3. x \in Object /\ x.type = "Mutant" /\ x.signal = n /\ x.owner = t
          /\ x.depth = 1
      BY <1>1, <3>1, HeaderFields
    <3> HIDE DEF x
    <3>4. QED BY <3>1, <3>2, <3>3 DEF ObjectOK, EventOK, MutantOK, LimitOK, EventTypes
  <2>3. QED BY <2>1, <2>2
<1>5. QED BY <1>2, <1>3, <1>4

\* Writing signal_state and signalling, with nobody to wake.
LEMMA SetSignalSound ==
  ASSUME NEW k, Sound(k), NEW o \in Objects, NEW n \in Int,
         k.obj[o].type \in EventTypes => n \in {0, 1},
         k.obj[o].type # "Mutant",
         k.obj[o].type = "Semaphore" => n <= k.obj[o].limit
  PROVE  /\ Sound(SetSignal(k, o, n)) /\ Keeps(k, SetSignal(k, o, n))
         /\ SignalObject(SetSignal(k, o, n), o) = SetSignal(k, o, n)
         /\ SetSignal(k, o, n).obj[o].type = k.obj[o].type
<1> DEFINE x == k.obj[o]
           y == [x EXCEPT !.signal = n]
           l == SetSignal(k, o, n)
<1>1. x \in Object
  BY DEF Sound, VM
<1>2. l = [k EXCEPT !.obj[o] = y]
  BY DEF SetSignal
<1> HIDE DEF x
<1>3. y \in Object /\ y.type = x.type /\ y.signal = n /\ y.limit = x.limit
  BY <1>1 DEF Object
<1> HIDE DEF y
<1>4. ObjectOK(y)
  BY <1>3 DEF ObjectOK, EventOK, MutantOK, LimitOK, x
<1>5. Sound(l) /\ Keeps(k, l)
  BY <1>2, <1>3, <1>4, ObjectSound
<1>6. l.obj[o] = y
  BY <1>2, <1>3, ObjectFields DEF Sound
<1> HIDE DEF l
<1>7. SignalObject(l, o) = l
  BY <1>5, SignalNobody DEF Sound
<1>8. QED BY <1>3, <1>5, <1>6, <1>7 DEF l, x

LEMMA HandleTypes ==
  ASSUME NEW x
  PROVE  /\ HandleType(x) = "EVENT" <=> x.type \in EventTypes
         /\ HandleType(x) = "SEMAPHORE" => x.type = "Semaphore"
         /\ HandleType(x) = "MUTANT" => x.type = "Mutant"
         /\ x.type \in EventTypes => x.type # "Mutant" /\ x.type # "Semaphore"
  BY DEF HandleType, EventTypes

\* A call whose effect is SetSignal on a sound scheduler.
LEMMA CalledOK ==
  ASSUME IInv, NEW k, GuestRuns => Sound(k) /\ Keeps(Executed(vm), k), Call(k)
  PROVE  CallOK
  BY ReturnOK DEF Call

LEMMA EventCallsOK ==
  ASSUME IInv, NEW o \in Objects, NtSetEvent(o) \/ NtResetEvent(o) \/ NtPulseEvent(o)
  PROVE  CallOK
<1> DEFINE k == Executed(vm)
           set == SetSignal(k, o, 1)
<1>1. GuestRuns /\ HandleType(vm.obj[o]) = "EVENT"
  BY DEF NtSetEvent, NtResetEvent, NtPulseEvent, Call
<1>2. Sound(k) /\ k.obj = vm.obj
  BY <1>1, CallerOK
<1>3. k.obj[o].type \in EventTypes /\ k.obj[o].type # "Mutant" /\ k.obj[o].type # "Semaphore"
  BY <1>1, <1>2, HandleTypes
<1> HIDE DEF k
<1>4. /\ Sound(set) /\ Keeps(k, set) /\ SignalObject(set, o) = set
      /\ set.obj[o].type = k.obj[o].type
  BY <1>2, <1>3, SetSignalSound
<1>5. Sound(SetSignal(k, o, 0)) /\ Keeps(k, SetSignal(k, o, 0))
  BY <1>2, <1>3, SetSignalSound
<1> HIDE DEF set
<1>6. Sound(SetSignal(set, o, 0)) /\ Keeps(set, SetSignal(set, o, 0))
  BY <1>3, <1>4, SetSignalSound
<1>7. CASE NtSetEvent(o)
  <2>1. Return(set, "SUCCESS", "NONE")
    BY <1>4, <1>7 DEF NtSetEvent, Call, k, set
  <2>2. QED BY <1>1, <1>4, <2>1, ReturnOK DEF k
<1>8. CASE NtResetEvent(o)
  <2>1. Return(SetSignal(k, o, 0), "SUCCESS", "NONE")
    BY <1>8 DEF NtResetEvent, Call, k
  <2>2. QED BY <1>1, <1>5, <2>1, ReturnOK DEF k
<1>9. CASE NtPulseEvent(o)
  <2>1. Return(SetSignal(set, o, 0), "SUCCESS", "NONE")
    BY <1>4, <1>9 DEF NtPulseEvent, Call, k, set
  <2>2. Keeps(k, SetSignal(set, o, 0))
    BY <1>4, <1>6 DEF Keeps
  <2>3. QED BY <1>1, <1>6, <2>1, <2>2, ReturnOK DEF k
<1>10. QED BY <1>7, <1>8, <1>9

LEMMA NtReleaseSemaphoreOK ==
  ASSUME IInv, NEW o \in Objects, NEW n \in Releases, NtReleaseSemaphore(o, n)
  PROVE  CallOK
<1> DEFINE k == Executed(vm)
           x == vm.obj[o]
           sum == x.signal + n
           l == SetSignal(k, o, Wrap32(sum))
<1>1. PICK tested \in {sum, Wrap32(sum)} :
        IF tested > x.limit
        THEN GuestRuns /\ Return(k, "LIMIT_EXCEEDED", "NONE")
        ELSE Call(SignalObject(l, o))
  BY DEF NtReleaseSemaphore
<1>2. GuestRuns
  BY <1>1 DEF Call
<1>3. Sound(k) /\ k.obj = vm.obj /\ vm \in VM /\ Keeps(k, k)
  BY <1>2, CallerOK
<1>4. x.type = "Semaphore" /\ x \in Object /\ x.type \notin EventTypes
  BY <1>3, HandleTypes DEF NtReleaseSemaphore, VM
<1>5. CASE tested > x.limit
  BY <1>1, <1>2, <1>3, <1>5, ReturnOK
<1>6. CASE ~(tested > x.limit)
  <2>1. sum \in Int /\ Wrap32(sum) \in Int /\ Wrap32(sum) <= sum /\ x.limit \in Int
    BY <1>4, SchedulerAssumption, IntMaxAssumption DEF Object, Wrap32
  <2>2. Wrap32(sum) <= x.limit
    BY <1>1, <1>6, <2>1
  <2>3. Sound(l) /\ Keeps(k, l) /\ SignalObject(l, o) = l
    BY <1>3, <1>4, <2>1, <2>2, SetSignalSound
  <2>4. Return(l, "SUCCESS", "NONE")
    BY <1>1, <1>6, <2>3 DEF Call
  <2> HIDE DEF l
  <2>5. QED BY <1>2, <2>3, <2>4, ReturnOK
<1>7. QED BY <1>5, <1>6

LEMMA ReleasedOK ==
  ASSUME NEW x \in Object, ObjectOK(x), x.type = "Mutant", x.owner \in Threads
  PROVE  Released(x) \in Object /\ ObjectOK(Released(x))
<1>1. x.signal \in Int /\ x.depth \in Int /\ x.signal < 0 /\ x.depth > 0
  BY ThreadAssumption DEF Object, ObjectOK, MutantOK
<1>2. CASE x.depth = 1
  <2> DEFINE y == Owned(x, 1, Idle, 0)
  <2>1. Released(x) = y
    BY <1>2 DEF Released, Owned
  <2>2. Idle \in Tids /\ 0 \in Int /\ 1 \in Int
    BY DEF Tids
  <2>3. y \in Object /\ y.type = x.type /\ y.depth = 0 /\ y.owner = Idle /\ y.signal = 1
    BY <2>2, OwnedFields
  <2> HIDE DEF y
  <2>4. QED BY <2>1, <2>3 DEF ObjectOK, EventOK, MutantOK, LimitOK, EventTypes
<1>3. CASE x.depth # 1
  <2> DEFINE d == x.depth - 1
             y == [x EXCEPT !.depth = d]
  <2>1. Released(x) = y
    BY <1>3 DEF Released
  <2>2. d \in Int /\ d > 0
    BY <1>1, <1>3
  <2> HIDE DEF d
  <2>3. y \in Object /\ y.type = x.type /\ y.depth = d /\ y.owner = x.owner
        /\ y.signal = x.signal
    BY <2>2 DEF Object
  <2> HIDE DEF y
  <2>4. QED BY <1>1, <2>1, <2>2, <2>3 DEF ObjectOK, EventOK, MutantOK, LimitOK, EventTypes
<1>4. QED BY <1>2, <1>3

LEMMA NtReleaseMutantOK ==
  ASSUME IInv, NEW o \in Objects, NtReleaseMutant(o)
  PROVE  CallOK
<1> DEFINE k == Executed(vm)
           x == vm.obj[o]
           l == [k EXCEPT !.obj[o] = Released(x)]
<1>1. GuestRuns /\ HandleType(x) = "MUTANT"
  BY DEF NtReleaseMutant, Call
<1>2. /\ Sound(k) /\ k.obj = vm.obj /\ vm \in VM /\ Keeps(k, k) /\ Sound(vm)
      /\ vm.current \in Threads
  BY <1>1, CallerOK
<1>3. x.type = "Mutant" /\ x \in Object /\ ObjectOK(x)
  BY <1>1, <1>2, HandleTypes DEF VM, Sound
<1>4. CASE x.owner # Me
  BY <1>1, <1>2, <1>4, ReturnOK DEF NtReleaseMutant
<1>5. CASE x.owner = Me
  <2>1. Released(x) \in Object /\ ObjectOK(Released(x))
    BY <1>2, <1>3, <1>5, ReleasedOK DEF Me
  <2>2. Sound(l) /\ Keeps(k, l)
    BY <1>2, <2>1, ObjectSound
  <2>3. [k EXCEPT !.obj[o] = Released(@)] = l
    BY <1>2
  <2> HIDE DEF l, k
  <2>4. SignalObject(l, o) = l
    BY <2>2, SignalNobody DEF Sound
  <2>5. Return(l, "SUCCESS", "NONE")
    BY <1>5, <2>3, <2>4 DEF NtReleaseMutant, Call, k
  <2>6. QED BY <1>1, <2>2, <2>5, ReturnOK DEF k
<1>6. QED BY <1>4, <1>5

LEMMA CloseObjectOK ==
  ASSUME IInv, NEW o \in Objects, CloseObject(o)
  PROVE  CallOK
<1> DEFINE k == Executed(vm)
           l == [k EXCEPT !.obj[o] = NoObject]
<1>1. GuestRuns /\ Return(l, "SUCCESS", "NONE")
  BY DEF CloseObject, Call
<1>2. Sound(k)
  BY <1>1, CallerOK
<1>3. Sound(l) /\ Keeps(k, l)
  BY <1>2, NoObjectOK, ObjectSound
<1> HIDE DEF l
<1>4. QED BY <1>1, <1>3, ReturnOK

LEMMA CreateCallsOK ==
  ASSUME IInv, NEW o \in Objects,
         \/ \E type \in EventTypes, initial \in BOOLEAN : NtCreateEvent(o, type, initial)
         \/ \E limit \in Limits, initial \in 0..IntMax : NtCreateSemaphore(o, initial, limit)
         \/ \E owned \in BOOLEAN : NtCreateMutant(o, owned)
  PROVE  CallOK
<1>1. ASSUME NEW type \in EventTypes, NEW initial \in BOOLEAN, NtCreateEvent(o, type, initial)
      PROVE  CallOK
  BY <1>1, CreatedOK, NewObjectOK DEF NtCreateEvent
<1>2. ASSUME NEW limit \in Limits, NEW initial \in 0..IntMax,
             NtCreateSemaphore(o, initial, limit)
      PROVE  CallOK
  <2>1. limit \in Int /\ initial \in Int /\ initial <= limit
    BY <1>2, SchedulerAssumption, IntMaxAssumption DEF NtCreateSemaphore
  <2>2. QED BY <1>2, <2>1, CreatedOK, NewObjectOK DEF NtCreateSemaphore
<1>3. ASSUME NEW owned \in BOOLEAN, NtCreateMutant(o, owned)
      PROVE  CallOK
  <2> DEFINE owner == IF owned THEN Me ELSE Idle
  <2>1. GuestRuns
    BY <1>3 DEF NtCreateMutant, NewObject, Call
  <2>2. owner \in Tids
    BY <2>1, CallerOK DEF Me, Tids
  <2>3. NewObject(o, CreateMutant(owner))
    BY <1>3 DEF NtCreateMutant
  <2> HIDE DEF owner
  <2>4. QED BY <2>2, <2>3, CreatedOK, NewObjectOK
<1>4. QED BY <1>1, <1>2, <1>3

LEMMA WaitCallsOK ==
  ASSUME IInv, NEW o \in Objects, NEW wait \in Waits,
         \/ NtWaitForSingleObject(o, wait)
         \/ \E o2 \in Objects, type \in {"ANY", "ALL"} :
              NtWaitForMultipleObjects(o, o2, type, wait)
  PROVE  CallOK \/ BlockOK
<1>1. CASE NtWaitForSingleObject(o, wait)
  <2>1. CASE SingleWaitable(HandleType(vm.obj[o]))
    BY <1>1, <2>1, DoWaitOK DEF NtWaitForSingleObject, Arrays
  <2>2. CASE ~SingleWaitable(HandleType(vm.obj[o]))
    <3>1. GuestRuns /\ Return(Executed(vm), "TYPE_MISMATCH", wait)
      BY <1>1, <2>2 DEF NtWaitForSingleObject
    <3>2. QED BY <3>1, CallerOK, ReturnOK
  <2>3. QED BY <2>1, <2>2
<1>2. ASSUME NEW o2 \in Objects, NEW type \in {"ANY", "ALL"},
             NtWaitForMultipleObjects(o, o2, type, wait)
      PROVE  CallOK \/ BlockOK
  <2>1. <<o, o2>> \in Arrays
    BY DEF Arrays
  <2>2. QED BY <1>2, <2>1, DoWaitOK DEF NtWaitForMultipleObjects
<1>3. QED BY <1>1, <1>2

LEMMA ObjectCallOK ==
  ASSUME IInv, NEW o \in Objects, ObjectCall(o)
  PROVE  CallOK \/ BlockOK
<1>1. CASE \/ \E type \in EventTypes, initial \in BOOLEAN : NtCreateEvent(o, type, initial)
           \/ \E limit \in Limits, initial \in 0..IntMax : NtCreateSemaphore(o, initial, limit)
           \/ \E owned \in BOOLEAN : NtCreateMutant(o, owned)
  BY <1>1, CreateCallsOK
<1>2. CASE NtSetEvent(o) \/ NtResetEvent(o) \/ NtPulseEvent(o)
  BY <1>2, EventCallsOK
<1>3. CASE \E n \in Releases : NtReleaseSemaphore(o, n)
  BY <1>3, NtReleaseSemaphoreOK
<1>4. CASE NtReleaseMutant(o)
  BY <1>4, NtReleaseMutantOK
<1>5. CASE CloseObject(o)
  BY <1>5, CloseObjectOK
<1>6. CASE \/ \E wait \in Waits : NtWaitForSingleObject(o, wait)
           \/ \E o2 \in Objects, type \in {"ANY", "ALL"}, wait \in Waits :
                NtWaitForMultipleObjects(o, o2, type, wait)
  BY <1>6, WaitCallsOK
<1>7. QED BY <1>1, <1>2, <1>3, <1>4, <1>5, <1>6 DEF ObjectCall

---------------------------------------------------------------------------
(* The calls on threads.                                                   *)

\* The caller goes on running after a call that touched other threads.
LEMMA StillRunning ==
  ASSUME NEW k, Sound(k), k.current \in Threads, NEW l \in VM,
         QueueOK(l), LinkedOK(l), l.current = k.current,
         l.current \in l.all, l.state[l.current] = "RUNNING",
         ~l.idle, l.exitReq => l.exited,
         l.wait = k.wait, l.waitList = k.waitList, l.obj = k.obj,
         \A u \in Threads : l.state[u] # "WAITING"
  PROVE  Sound(l)
<1>1. RunsOK(l) /\ IdleOK(l)
  BY ThreadAssumption DEF RunsOK, IdleOK
<1>2. QED BY <1>1 DEF Sound, NoWaits

\* A new thread, linked into all_threads.
LinkedNew(k, t, st) == [NewThread(k, t, st) EXCEPT !.all = @ \cup {t}]

LEMMA NewThreadFields ==
  ASSUME NEW k \in VM, NEW t \in Threads, NEW st \in States
  PROVE  /\ NewThread(k, t, st).state[t] = st
         /\ LinkedNew(k, t, st) \in VM
         /\ LinkedNew(k, t, st).all = k.all \cup {t}
         /\ \A u \in Tids : LinkedNew(k, t, st).state[u] = IF u = t THEN st ELSE k.state[u]
         /\ LinkedNew(k, t, st).current = k.current
         /\ LinkedNew(k, t, st).ready = k.ready
         /\ LinkedNew(k, t, st).idle = k.idle
         /\ LinkedNew(k, t, st).exitReq = k.exitReq
         /\ LinkedNew(k, t, st).exited = k.exited
         /\ LinkedNew(k, t, st).wait = k.wait
         /\ LinkedNew(k, t, st).waitList = k.waitList
         /\ LinkedNew(k, t, st).obj = k.obj
<1> DEFINE c == [valid |-> TRUE, of |-> t, fresh |-> TRUE]
           sf == [k.state EXCEPT ![t] = st]
           qf == [k.quantum EXCEPT ![t] = QuantumReset]
           cf == [k.ctx EXCEPT ![t] = c]
           hf == k.handles \cup {t}
           af == k.all \cup {t}
           l == NewThread(k, t, st)
           n == LinkedNew(k, t, st)
<1>1. t \in Tids /\ QuantumReset \in 0..QuantumReset /\ c \in Context
  BY SchedulerAssumption DEF Tids, Context
<1> HIDE DEF c
<1>2. /\ k.state \in [Tids -> States] /\ k.quantum \in [Tids -> 0..QuantumReset]
      /\ k.ctx \in [Tids -> Context] /\ k.handles \in SUBSET Threads
      /\ k.all \in SUBSET Threads
  BY DEF VM
<1>3. /\ sf \in [Tids -> States] /\ qf \in [Tids -> 0..QuantumReset]
      /\ cf \in [Tids -> Context] /\ hf \in SUBSET Threads /\ af \in SUBSET Threads
      /\ \A u \in Tids : sf[u] = IF u = t THEN st ELSE k.state[u]
  BY <1>1, <1>2
<1>4. l = [k EXCEPT !.state = sf, !.quantum = qf, !.ctx = cf, !.handles = hf]
  BY DEF NewThread, c
<1> HIDE DEF sf, qf, cf, hf
<1>5. /\ l.all = k.all /\ l.state = sf
      /\ l = [k EXCEPT !.state = sf, !.quantum = qf, !.ctx = cf, !.handles = hf]
  BY <1>4 DEF VM
<1> HIDE DEF l
<1>6. n = [l EXCEPT !.all = af]
  BY <1>5 DEF LinkedNew, l
<1> HIDE DEF n, af
<1>7. /\ n \in VM /\ n.all = af /\ n.state = sf
      /\ n.current = k.current /\ n.ready = k.ready /\ n.idle = k.idle
      /\ n.exitReq = k.exitReq /\ n.exited = k.exited
      /\ n.wait = k.wait /\ n.waitList = k.waitList /\ n.obj = k.obj
  BY <1>3, <1>5, <1>6, ZenonT(60) DEF VM
<1>8. QED BY <1>1, <1>3, <1>5, <1>7 DEF n, l, af

LEMMA NtCreateThreadOK ==
  ASSUME IInv, NEW t \in Threads, NEW suspended \in BOOLEAN, NtCreateThread(t, suspended)
  PROVE  CallOK
<1> DEFINE k == Executed(vm)
           st == IF suspended THEN "INITIALIZED" ELSE "READY"
           n == LinkedNew(k, t, st)
           l == AddThread(NewThread(k, t, st), t)
<1>1. GuestRuns /\ Return(l, "SUCCESS", "NONE") /\ vm.state[t] = "ABSENT"
  BY DEF NtCreateThread, Call
<1>2. /\ Sound(k) /\ k \in VM /\ k.current \in Threads /\ k.current \in k.all
      /\ k.state[k.current] = "RUNNING" /\ ~k.idle /\ (k.exitReq => k.exited)
      /\ k.state[t] = "ABSENT"
  BY <1>1, CallerOK DEF SameThreads
<1> HIDE DEF k
<1>3. t \in Tids /\ k.current \in Tids /\ t # k.current /\ t \notin k.all
  BY <1>2 DEF Sound, LinkedOK, Tids
<1>4. st \in States /\ st \in {"INITIALIZED", "READY"}
  BY DEF States
<1> HIDE DEF st
<1>5. /\ n \in VM /\ n.all = k.all \cup {t} /\ NewThread(k, t, st).state[t] = st
      /\ \A u \in Tids : n.state[u] = IF u = t THEN st ELSE k.state[u]
      /\ n.current = k.current /\ n.ready = k.ready /\ n.idle = k.idle
      /\ n.exitReq = k.exitReq /\ n.exited = k.exited
      /\ n.wait = k.wait /\ n.waitList = k.waitList /\ n.obj = k.obj
  BY <1>2, <1>4, NewThreadFields
<1>6. l = IF st = "READY" THEN AddReady(n, t) ELSE n
  BY <1>5 DEF AddThread, LinkedNew
<1> HIDE DEF n, l
<1>7. QueueBut(n, t)
  BY <1>2, <1>3, <1>5 DEF QueueBut, Sound, QueueOK
<1>8. /\ l \in VM /\ QueueOK(l) /\ SameWaits(n, l) /\ l.current = n.current
      /\ l.state = n.state /\ ~l.idle /\ (l.exitReq => n.exitReq)
  <2>1. CASE st = "READY"
    BY <1>3, <1>5, <1>6, <1>7, <2>1, AddReadyQueue
  <2>2. CASE st # "READY"
    BY <1>2, <1>3, <1>5, <1>6, <1>7, <2>2, QueueButOK DEF SameWaits
  <2>3. QED BY <2>1, <2>2
<1>9. /\ l.all = k.all \cup {t} /\ l.current = k.current
      /\ \A u \in Tids : l.state[u] = IF u = t THEN st ELSE k.state[u]
      /\ l.wait = k.wait /\ l.waitList = k.waitList /\ l.obj = k.obj
      /\ (l.exitReq => l.exited)
  BY <1>2, <1>5, <1>8 DEF SameWaits
<1>10. LinkedOK(l)
  BY <1>2, <1>4, <1>9 DEF Sound, LinkedOK, Tids
<1>11. \A u \in Threads : l.state[u] # "WAITING"
  BY <1>2, <1>4, <1>9 DEF Sound, NoWaits, Tids
<1>12. Sound(l)
  BY <1>2, <1>3, <1>8, <1>9, <1>10, <1>11, StillRunning
<1>13. Keeps(k, l)
  BY <1>2, <1>9 DEF Keeps, Tids
<1>14. QED BY <1>1, <1>12, <1>13, ReturnOK DEF l, k, st

\* scheduler_remove_thread for a thread that has just been terminated.
LEMMA RemovedSound ==
  ASSUME NEW k, Sound(k), k.current \in Threads, ~k.exitReq, NEW t \in Threads
  PROVE  LET s == [k EXCEPT !.state[t] = "TERMINATED"]
             l == RemoveThread(s, t)
         IN Sound(l) /\ Keeps(k, l) /\ (l.exitReq => l.idle)
<1> DEFINE s == [k EXCEPT !.state[t] = "TERMINATED"]
           rest == k.all \ {t}
           u == [s EXCEPT !.all = @ \ {t}]
           g == RemoveReady(u, t)
           l == RemoveThread(s, t)
<1>1. /\ k \in VM /\ k.current \in k.all /\ k.state[k.current] = "RUNNING"
      /\ ~k.idle /\ ~k.exitReq /\ t \in Tids /\ k.current # Idle
      /\ \A x \in Threads : k.state[x] # "WAITING"
  BY ThreadAssumption DEF Sound, RunsOK, IdleOK, Tids, NoWaits
<1>2. /\ s \in VM /\ SameWaits(k, s) /\ s.current = k.current /\ s.ready = k.ready
      /\ s.idle = k.idle /\ s.exitReq = k.exitReq
      /\ \A x \in Tids : s.state[x] = IF x = t THEN "TERMINATED" ELSE k.state[x]
  BY <1>1, StateFields DEF States
<1> HIDE DEF s
<1>3. u = [s EXCEPT !.all = rest] /\ rest \in SUBSET Threads
  BY <1>1, <1>2 DEF SameWaits, VM
<1> HIDE DEF u, rest
<1>4. /\ u \in VM /\ u.all = rest /\ u.current = k.current /\ u.ready = k.ready
      /\ u.idle = k.idle /\ u.exitReq = k.exitReq /\ u.exited = k.exited
      /\ u.state = s.state
      /\ u.wait = k.wait /\ u.waitList = k.waitList /\ u.obj = k.obj
  BY <1>2, <1>3 DEF VM, SameWaits
<1>5. Distinct(u.ready) /\ \A x \in Tids \ {t} :
        Queued(u.ready, x) <=> (x \in u.all /\ u.state[x] = "READY")
  BY <1>2, <1>4 DEF Sound, QueueOK, rest
<1>6. /\ g \in VM /\ QueueBut(g, t) /\ SameWaits(u, g) /\ g.current = k.current
      /\ g.state = u.state /\ g.idle = k.idle /\ g.exitReq = k.exitReq
  BY <1>1, <1>4, <1>5, RemoveReadyQueue
<1>7. l = IF k.current = t THEN Switch(g) ELSE g
  BY <1>2 DEF RemoveThread, u
<1> HIDE DEF g
<1>8. /\ g.all = k.all \ {t} /\ g.exited = k.exited
      /\ g.wait = k.wait /\ g.waitList = k.waitList /\ g.obj = k.obj
      /\ \A x \in Tids : g.state[x] = IF x = t THEN "TERMINATED" ELSE k.state[x]
  BY <1>2, <1>4, <1>6 DEF SameWaits, rest
<1>9. QueueOK(g)
  BY <1>1, <1>6, <1>8, QueueButOK
<1>10. LinkedOK(g)
  BY <1>8 DEF Sound, LinkedOK, Tids
<1>11. \A x \in Threads : g.state[x] # "WAITING"
  BY <1>1, <1>8 DEF Tids
<1>12. Keeps(k, g)
  BY <1>1, <1>8 DEF Keeps, Tids
<1>13. \A o \in Objects : ObjectOK(g.obj[o])
  BY <1>8 DEF Sound
<1> HIDE DEF l
<1>14. CASE k.current = t
  <2>1. NoWaits(g)
    BY <1>8, <1>11 DEF Sound, NoWaits
  <2>2. Sound(Switch(g)) /\ Keeps(g, Switch(g))
    BY <1>1, <1>6, <1>9, <1>10, <1>13, <2>1, SwitchSound
  <2>3. SameWaits(g, Switch(g))
    BY <1>1, <1>6, <1>9, <1>10, SwitchStep
  <2>4. Switch(g).exitReq => Switch(g).idle
    BY <1>1, <1>6, <1>9, <1>10, SwitchStep
  <2>5. QED BY <1>7, <1>12, <1>14, <2>2, <2>4 DEF Keeps, l, s
<1>15. CASE k.current # t
  <2>1. g.current \in g.all /\ g.state[g.current] = "RUNNING"
    BY <1>1, <1>6, <1>8, <1>15 DEF VM
  <2>2. Sound(g)
    BY <1>1, <1>6, <1>8, <1>9, <1>10, <1>11, <2>1, StillRunning
  <2>3. QED BY <1>1, <1>6, <1>7, <1>12, <1>15, <2>2 DEF l, s
<1>16. QED BY <1>14, <1>15

LEMMA NtTerminateThreadOK ==
  ASSUME IInv, NEW t \in Threads, NtTerminateThread(t)
  PROVE  CallOK
<1> DEFINE k == Executed(vm)
           s == [k EXCEPT !.state[t] = "TERMINATED"]
           r == RemoveThread(s, t)
           done == r.all = {}
           l == [r EXCEPT !.exited = done]
<1>1. GuestRuns /\ Return(l, "SUCCESS", "NONE") /\ ~vm.exitReq
  BY DEF NtTerminateThread, Call, GuestRuns
<1>2. Sound(k) /\ k.current \in Threads /\ ~k.exitReq
  BY <1>1, CallerOK DEF SameThreads
<1> HIDE DEF k
<1>3. Sound(r) /\ Keeps(k, r) /\ (r.exitReq => r.idle)
  BY <1>2, RemovedSound
<1> HIDE DEF s, r
<1>4. done \in BOOLEAN
  OBVIOUS
<1> HIDE DEF done
<1>5. /\ l \in VM /\ l.current = r.current /\ l.ready = r.ready /\ l.all = r.all
      /\ l.idle = r.idle /\ l.exitReq = r.exitReq /\ l.state = r.state
      /\ l.wait = r.wait /\ l.waitList = r.waitList /\ l.obj = r.obj
  BY <1>3, <1>4 DEF Sound, VM
<1> HIDE DEF l
<1>6. Sound(l) /\ Keeps(k, l)
  BY <1>3, <1>5 DEF Sound, QueueOK, LinkedOK, RunsOK, IdleOK, NoWaits, Keeps
<1>7. QED BY <1>1, <1>6, ReturnOK DEF k, l, r, s, done

LEMMA NtResumeThreadOK ==
  ASSUME IInv, NEW t \in Threads, NtResumeThread(t)
  PROVE  CallOK
<1> DEFINE k == Executed(vm)
           s == [k EXCEPT !.state[t] = "READY"]
           l == AddReady(s, t)
<1>1. GuestRuns
  BY DEF NtResumeThread, Call
<1>2. /\ Sound(k) /\ k \in VM /\ k.current \in Threads /\ k.current \in k.all
      /\ k.state[k.current] = "RUNNING" /\ ~k.idle /\ (k.exitReq => k.exited)
      /\ k.state = vm.state /\ Keeps(k, k) /\ t \in Tids
  BY <1>1, CallerOK DEF SameThreads, Tids
<1> HIDE DEF k
<1>3. CASE k.state[t] # "INITIALIZED"
  <2>1. Return(k, "SUCCESS", "NONE")
    BY <1>2, <1>3 DEF NtResumeThread, Call, k
  <2>2. QED BY <1>1, <1>2, <2>1, ReturnOK DEF k
<1>4. CASE k.state[t] = "INITIALIZED"
  <2>1. Return(l, "SUCCESS", "NONE")
    BY <1>2, <1>4 DEF NtResumeThread, Call, k
  <2>2. /\ s \in VM /\ SameWaits(k, s) /\ s.current = k.current /\ s.ready = k.ready
        /\ s.idle = k.idle /\ s.exitReq = k.exitReq
        /\ \A u \in Tids : s.state[u] = IF u = t THEN "READY" ELSE k.state[u]
    BY <1>2, StateFields, ZenonT(60) DEF States
  <2> HIDE DEF s
  <2>3. t \in s.all /\ QueueBut(s, t) /\ s.state[t] = "READY"
    BY <1>2, <1>4, <2>2 DEF Sound, QueueOK, LinkedOK, QueueBut, SameWaits
  <2>4. /\ l \in VM /\ QueueOK(l) /\ SameWaits(s, l) /\ l.current = s.current
        /\ l.state = s.state /\ l.idle = FALSE /\ (l.exitReq => s.exitReq)
    <3>1. s \in VM /\ t \in Tids
      BY <1>2, <2>2
    <3>2. QED BY <2>3, <3>1, AddReadyQueue
  <2> HIDE DEF l
  <2>5. /\ l.all = k.all /\ l.current = k.current
        /\ \A u \in Tids : l.state[u] = IF u = t THEN "READY" ELSE k.state[u]
        /\ l.wait = k.wait /\ l.waitList = k.waitList /\ l.obj = k.obj
        /\ (l.exitReq => l.exited) /\ k.current \in Tids /\ t # k.current
    BY <1>2, <1>4, <2>2, <2>4 DEF SameWaits, Tids
  <2>6. LinkedOK(l)
    BY <1>2, <1>4, <2>5 DEF Sound, LinkedOK, Tids
  <2>7. \A u \in Threads : l.state[u] # "WAITING"
    BY <1>2, <2>5 DEF Sound, NoWaits, Tids
  <2>8. Sound(l)
    BY <1>2, <2>4, <2>5, <2>6, <2>7, StillRunning
  <2>9. Keeps(k, l)
    BY <1>4, <2>5 DEF Keeps, Tids
  <2>10. QED BY <1>1, <2>1, <2>8, <2>9, ReturnOK DEF k
<1>5. QED BY <1>3, <1>4

\* NtSuspendThread on the thread t, before a switch away from it.
Stopped(k, t) ==
  LET queued == IF k.state[t] = "READY" THEN RemoveReady(k, t) ELSE k
  IN IF k.state[t] \in {"READY", "RUNNING"}
     THEN [queued EXCEPT !.state[t] = "INITIALIZED"] ELSE queued

LEMMA StoppedStep ==
  ASSUME NEW k, Sound(k), k.current \in Threads, NEW t \in Threads
  PROVE  LET n == Stopped(k, t) IN
         /\ n \in VM /\ QueueOK(n) /\ LinkedOK(n) /\ SameWaits(k, n)
         /\ n.current = k.current /\ n.idle = k.idle /\ n.exitReq = k.exitReq
         /\ \A u \in Tids \ {t} : n.state[u] = k.state[u]
         /\ \A u \in Threads : n.state[u] # "WAITING"
         /\ Keeps(k, n)
<1> DEFINE q == RemoveReady(k, t)
           p == IF k.state[t] = "READY" THEN q ELSE k
           n == Stopped(k, t)
<1>1. k \in VM /\ t \in Tids /\ QueueOK(k) /\ LinkedOK(k)
      /\ \A u \in Threads : k.state[u] # "WAITING"
  BY DEF Sound, NoWaits, Tids
<1>2. CASE k.state[t] \notin {"READY", "RUNNING"}
  <2>1. n = k
    BY <1>2 DEF Stopped
  <2> HIDE DEF n
  <2>2. QED BY <1>1, <2>1 DEF Keeps, SameWaits, n
<1>3. CASE k.state[t] \in {"READY", "RUNNING"}
  <2>1. n = [p EXCEPT !.state[t] = "INITIALIZED"]
    BY <1>3 DEF Stopped
  <2>2. /\ q \in VM /\ QueueBut(q, t) /\ SameWaits(k, q) /\ q.current = k.current
        /\ q.state = k.state /\ q.idle = k.idle /\ q.exitReq = k.exitReq
    BY <1>1, RemoveReadyQueue DEF QueueOK
  <2> HIDE DEF q, n
  <2>3. /\ p \in VM /\ QueueBut(p, t) /\ SameWaits(k, p) /\ p.current = k.current
        /\ p.state = k.state /\ p.idle = k.idle /\ p.exitReq = k.exitReq
    <3>1. CASE k.state[t] = "READY"
      BY <2>2, <3>1
    <3>2. CASE k.state[t] # "READY"
      BY <1>1, <3>2 DEF QueueOK, QueueBut, SameWaits
    <3>3. QED BY <3>1, <3>2
  <2> HIDE DEF p
  <2>4. /\ n \in VM /\ SameWaits(p, n) /\ n.current = p.current /\ n.ready = p.ready
        /\ n.idle = p.idle /\ n.exitReq = p.exitReq
        /\ \A u \in Tids : n.state[u] = IF u = t THEN "INITIALIZED" ELSE p.state[u]
    <3>1. "INITIALIZED" \in States
      BY DEF States
    <3>2. QED BY <1>1, <2>1, <2>3, <3>1, StateFields
  <2>5. SameWaits(k, n)
    BY <2>3, <2>4 DEF SameWaits
  <2>6. QueueBut(n, t) /\ n.state[t] # "READY"
    BY <1>1, <2>3, <2>4 DEF QueueBut, SameWaits
  <2>7. QueueOK(n)
    BY <1>1, <2>6, QueueButOK
  <2>8. LinkedOK(n)
    BY <1>1, <1>3, <2>3, <2>4, <2>5 DEF LinkedOK, SameWaits, Tids
  <2>9. Keeps(k, n) /\ \A u \in Threads : n.state[u] # "WAITING"
    BY <1>1, <1>3, <2>3, <2>4 DEF Keeps, Tids
  <2>10. QED BY <2>3, <2>4, <2>5, <2>7, <2>8, <2>9 DEF n
<1>4. QED BY <1>2, <1>3

LEMMA NtSuspendThreadOK ==
  ASSUME IInv, NEW t \in Threads, NtSuspendThread(t)
  PROVE  CallOK
<1> DEFINE k == Executed(vm)
           n == Stopped(k, t)
<1>1. GuestRuns
  BY DEF NtSuspendThread, Call
<1>2. /\ Sound(k) /\ k \in VM /\ k.current \in Threads /\ k.current \in k.all
      /\ k.state[k.current] = "RUNNING" /\ ~k.idle /\ (k.exitReq => k.exited)
      /\ k.state = vm.state /\ k.current = vm.current /\ k.current \in Tids
  BY <1>1, CallerOK DEF SameThreads, Tids
<1>3. Return(IF t = k.current THEN Switch(n) ELSE n, "SUCCESS", "NONE")
  BY <1>2 DEF NtSuspendThread, Call, Stopped, Me
<1> HIDE DEF k
<1>4. /\ n \in VM /\ QueueOK(n) /\ LinkedOK(n) /\ SameWaits(k, n)
      /\ n.current = k.current /\ n.idle = k.idle /\ n.exitReq = k.exitReq
      /\ \A u \in Tids \ {t} : n.state[u] = k.state[u]
      /\ \A u \in Threads : n.state[u] # "WAITING"
      /\ Keeps(k, n)
  BY <1>2, StoppedStep
<1> HIDE DEF n
<1>5. CASE t = k.current
  <2>1. NoWaits(n) /\ \A o \in Objects : ObjectOK(n.obj[o])
    BY <1>2, <1>4 DEF Sound, NoWaits, SameWaits
  <2>2. Sound(Switch(n)) /\ Keeps(n, Switch(n))
    BY <1>2, <1>4, <2>1, SwitchSound DEF SameWaits
  <2>3. Keeps(k, Switch(n))
    BY <1>4, <2>2 DEF Keeps
  <2>4. QED BY <1>1, <1>3, <1>5, <2>2, <2>3, ReturnOK DEF k
<1>6. CASE t # k.current
  <2>1. Sound(n)
    BY <1>2, <1>4, <1>6, StillRunning DEF SameWaits
  <2>2. QED BY <1>1, <1>3, <1>4, <1>6, <2>1, ReturnOK DEF k
<1>7. QED BY <1>5, <1>6

LEMMA CloseThreadOK ==
  ASSUME IInv, NEW t \in Threads, CloseThread(t)
  PROVE  CallOK
<1> DEFINE k == Executed(vm)
           h == k.handles \ {t}
           f == k.freed \cup {t}
           l == [k EXCEPT !.handles = h, !.freed = f]
<1>1. GuestRuns /\ Return(l, "SUCCESS", "NONE")
  BY DEF CloseThread, Call
<1>2. Sound(k) /\ k \in VM
  BY <1>1, CallerOK
<1> HIDE DEF k
<1>3. h \in SUBSET Threads /\ f \in SUBSET Threads
  BY <1>2 DEF VM
<1> HIDE DEF h, f
<1>4. l \in VM /\ SameThreads(k, l) /\ l.obj = k.obj
  BY <1>2, <1>3 DEF VM, SameThreads
<1> HIDE DEF l
<1>5. Sound(l) /\ Keeps(k, l)
  BY <1>2, <1>4, SameThreadsSound DEF Sound
<1>6. QED BY <1>1, <1>5, ReturnOK DEF k, l, h, f

LEMMA ThreadCallOK ==
  ASSUME IInv, NEW t \in Threads, ThreadCall(t)
  PROVE  CallOK
  BY NtCreateThreadOK, NtTerminateThreadOK, NtResumeThreadOK, NtSuspendThreadOK,
     CloseThreadOK DEF ThreadCall

\* The end of the program, asked for by a call or by closing the window.
LEMMA ExitedSound ==
  ASSUME NEW k, Sound(k), NEW e \in {k.exitReq, TRUE}
  PROVE  LET l == [k EXCEPT !.exited = TRUE, !.exitReq = e] IN
         Sound(l) /\ Keeps(k, l)
<1> DEFINE l == [k EXCEPT !.exited = TRUE, !.exitReq = e]
<1>1. e \in BOOLEAN /\ (k.idle => e)
  BY DEF Sound, VM, IdleOK
<1>2. /\ l \in VM /\ l.current = k.current /\ l.ready = k.ready /\ l.all = k.all
      /\ l.idle = k.idle /\ l.exitReq = e /\ l.exited = TRUE /\ l.state = k.state
      /\ l.wait = k.wait /\ l.waitList = k.waitList /\ l.obj = k.obj
  BY <1>1 DEF Sound, VM
<1> HIDE DEF l
<1>3. QED
  BY <1>1, <1>2 DEF Sound, QueueOK, LinkedOK, RunsOK, IdleOK, NoWaits, Keeps, l

LEMMA NtTerminateProcessOK ==
  ASSUME IInv, NtTerminateProcess
  PROVE  CallOK
<1> DEFINE k == Executed(vm)
           l == [k EXCEPT !.exited = TRUE, !.exitReq = TRUE]
<1>1. GuestRuns /\ Return(l, "SUCCESS", "NONE")
  BY DEF NtTerminateProcess, Call
<1>2. Sound(k)
  BY <1>1, CallerOK
<1> HIDE DEF k
<1>3. Sound(l) /\ Keeps(k, l)
  BY <1>2, ExitedSound
<1> HIDE DEF l
<1>4. QED BY <1>1, <1>3, ReturnOK DEF k, l

LEMMA NtDelayExecutionOK ==
  ASSUME IInv, NEW zero \in BOOLEAN, NtDelayExecution(zero)
  PROVE  CallOK \/ BlockOK
<1>1. GuestRuns
  BY DEF NtDelayExecution
<1>2. CASE zero
  <2>1. Return(Executed(vm), "SUCCESS", "NONE")
    BY <1>2 DEF NtDelayExecution
  <2>2. QED BY <1>1, <2>1, CallerOK, ReturnOK
<1>3. CASE ~zero
  <2>1. BlockEnter(<<>>, "ANY")
    BY <1>3 DEF NtDelayExecution
  <2>2. QED BY <1>1, <2>1, BlockEnterOK
<1>4. QED BY <1>2, <1>3

---------------------------------------------------------------------------
(* The steps of the host.                                                  *)

\* A step after which no system call is on the host stack.
HostOK ==
  /\ frame' = NoFrame
  /\ Sound(vm') /\ Keeps(vm, vm')
  /\ inExec' \in BOOLEAN /\ clock' \in Clocks

LEMMA BlockReturnOK ==
  ASSUME IInv, BlockReturn
  PROVE  HostOK
<1>1. Blocked(vm, frame.thread) /\ inExec \in BOOLEAN /\ clock \in Clocks
  BY DEF IInv, TypeOK, BlockReturn
<1>2. QED BY <1>1, UnblockedStep DEF BlockReturn, HostOK

LEMMA ClockEndsOK ==
  ASSUME IInv, ClockEnds
  PROVE  HostOK
<1>1. Sound(vm') /\ Keeps(vm, vm')
  BY ExecutedSound DEF IInv, ClockEnds, GuestRuns
<1>2. QED BY <1>1 DEF HostOK, ClockEnds, GuestRuns, Clocks, IInv, TypeOK

LEMMA ExecReturnsOK ==
  ASSUME IInv, ExecReturns
  PROVE  HostOK
<1>1. Sound(vm)
  BY DEF IInv, ExecReturns, ExecDone
<1>2. Sound(Tick(vm)) /\ Keeps(vm, Tick(vm))
  BY <1>1, TickSound
<1>3. vm' = Tick(vm)
  BY <1>2, LoopSound DEF ExecReturns
<1>4. inExec' \in BOOLEAN /\ clock' \in Clocks /\ frame' = NoFrame
  BY DEF ExecReturns, ExecDone, LoopsOn, IInv, TypeOK
<1>5. QED BY <1>2, <1>3, <1>4 DEF HostOK

LEMMA IdleLoopOK ==
  ASSUME IInv, IdleLoop
  PROVE  HostOK
<1>1. Sound(vm) /\ frame = NoFrame
  BY DEF IInv, IdleLoop
<1>2. vm' = vm
  BY <1>1, LoopSound DEF IdleLoop
<1>3. frame' = NoFrame
  BY <1>1 DEF IdleLoop
<1>4. inExec' \in BOOLEAN /\ clock' \in Clocks
  BY DEF IdleLoop, LoopsOn, IInv, TypeOK
<1>5. QED BY <1>1, <1>2, <1>3, <1>4 DEF HostOK, Keeps

LEMMA WindowClosedOK ==
  ASSUME IInv, WindowClosed
  PROVE  HostOK
<1>1. Sound(vm) /\ frame' = NoFrame /\ inExec' \in BOOLEAN /\ clock' \in Clocks
  BY DEF IInv, TypeOK, WindowClosed
<1>2. ASSUME NEW l, Sound(l)
      PROVE  Sound([l EXCEPT !.exited = TRUE]) /\ Keeps(l, [l EXCEPT !.exited = TRUE])
  <2>1. [l EXCEPT !.exited = TRUE] = [l EXCEPT !.exited = TRUE, !.exitReq = l.exitReq]
    BY <1>2 DEF Sound, VM
  <2>2. QED BY <1>2, <2>1, ExitedSound
<1>3. CASE vm' = [Tick(vm) EXCEPT !.exited = TRUE]
  <2>1. Sound(Tick(vm)) /\ Keeps(vm, Tick(vm))
    BY <1>1, TickSound
  <2>2. Sound(vm') /\ Keeps(Tick(vm), vm')
    BY <1>2, <1>3, <2>1
  <2>3. QED BY <1>1, <2>1, <2>2 DEF HostOK, Keeps
<1>4. CASE vm' = [vm EXCEPT !.exited = TRUE]
  BY <1>1, <1>2, <1>4 DEF HostOK
<1>5. QED BY <1>3, <1>4 DEF WindowClosed

---------------------------------------------------------------------------
(* The inductive invariant holds initially and every step preserves it.    *)

LEMMA InitSound == Init => Sound(vm)
<1> SUFFICES ASSUME Init PROVE Sound(vm)
  OBVIOUS
<1> DEFINE st == [t \in Tids |-> IF t = Main THEN "RUNNING"
                                 ELSE IF t = Idle THEN "READY" ELSE "ABSENT"]
           qu == [t \in Tids |-> IF t = Main THEN QuantumReset ELSE 0]
           wa == [t \in Threads |-> NoWait]
           cx == [t \in Tids |-> NoContext]
           ob == [o \in Objects |-> NoObject]
           wl == [o \in Objects |-> {}]
<1>1. /\ Main \in Threads /\ Main \in Tids /\ Main # Idle /\ Idle \in Tids
      /\ 0 \in 0..QuantumReset /\ QuantumReset \in 0..QuantumReset
  BY SchedulerAssumption, ThreadAssumption DEF Tids
<1>2. NoContext \in Context /\ NoWait \in Wait /\ NoObject \in Object
  BY <1>1, NoObjectOK DEF NoContext, Context, NoWait, Wait
<1>3. /\ st \in [Tids -> States] /\ qu \in [Tids -> 0..QuantumReset]
      /\ wa \in [Threads -> Wait] /\ cx \in [Tids -> Context]
      /\ ob \in [Objects -> Object]
      /\ wl \in [Objects -> SUBSET (Threads \X (1..2))]
  BY <1>1, <1>2 DEF States
<1>4. /\ \A t \in Tids : st[t] = IF t = Main THEN "RUNNING"
                                 ELSE IF t = Idle THEN "READY" ELSE "ABSENT"
      /\ \A o \in Objects : ob[o] = NoObject
  OBVIOUS
<1> HIDE DEF st, qu, cx, ob
<1>5. vm = [current |-> Main, ready |-> <<>>, all |-> {Main}, idle |-> FALSE,
            exitReq |-> FALSE, exited |-> FALSE, state |-> st, quantum |-> qu,
            wait |-> wa, ctx |-> cx, cpu |-> Main, obj |-> ob, waitList |-> wl,
            handles |-> {}, freed |-> {}]
  BY DEF Init, InitialScheduler, st, qu, cx, ob
<1> HIDE DEF wa, wl
<1>6. vm \in VM
  BY <1>1, <1>3, <1>5 DEF VM
<1>7. /\ vm.current = Main /\ vm.ready = <<>> /\ vm.all = {Main}
      /\ vm.idle = FALSE /\ vm.exitReq = FALSE
      /\ vm.wait = wa /\ vm.waitList = wl /\ vm.obj = ob
      /\ \A t \in Tids : vm.state[t] = IF t = Main THEN "RUNNING"
                                       ELSE IF t = Idle THEN "READY" ELSE "ABSENT"
  BY <1>4, <1>5
<1>8. QueueOK(vm)
  BY <1>1, <1>7 DEF QueueOK, Distinct, Queued, Tids
<1>9. LinkedOK(vm)
  <2>1. \A t \in Threads : t \in Tids /\ t # Idle
    BY ThreadAssumption DEF Tids
  <2>2. QED BY <1>1, <1>7, <2>1 DEF LinkedOK
<1>10. RunsOK(vm) /\ IdleOK(vm)
  BY <1>1, <1>7 DEF RunsOK, IdleOK
<1>11. NoWaits(vm)
  <2>1. \A t \in Threads : vm.state[t] # "WAITING"
    BY <1>7 DEF Tids
  <2>2. vm.wait = [t \in Threads |-> NoWait] /\ vm.waitList = [o \in Objects |-> {}]
    BY <1>7 DEF wa, wl
  <2>3. QED BY <2>1, <2>2 DEF NoWaits
<1>12. \A o \in Objects : ObjectOK(vm.obj[o])
  BY <1>4, <1>7, NoObjectOK
<1>13. QED BY <1>6, <1>8, <1>9, <1>10, <1>11, <1>12 DEF Sound

LEMMA NoFrameOK == NoFrame \in [thread: Tids, stream: Tids] /\ NoFrame.thread = Idle
  BY DEF NoFrame, Tids

LEMMA InitIInv == Init => IInv
  BY InitSound, NoFrameOK DEF Init, InitialScheduler, IInv, TypeOK, Clocks, WaitSavesContext,
                               Sound

LEMMA HostIInv ==
  ASSUME HostOK
  PROVE  IInv'
  BY NoFrameOK DEF HostOK, IInv, TypeOK, WaitSavesContext, Sound

LEMMA BlockIInv ==
  ASSUME BlockOK
  PROVE  IInv'
<1> DEFINE f == [thread |-> vm.current, stream |-> vm.cpu]
<1>1. frame' = f /\ vm.current \in Threads /\ vm.cpu \in Tids
  BY DEF BlockOK
<1>2. /\ f \in [thread: Tids, stream: Tids] /\ f.thread = vm.current
      /\ f.stream = vm.cpu
  BY <1>1 DEF Tids
<1> HIDE DEF f
<1>3. f # NoFrame
  BY <1>1, <1>2, NoFrameOK, ThreadAssumption
<1>4. QED BY <1>1, <1>2, <1>3 DEF BlockOK, IInv, TypeOK, WaitSavesContext, Blocked

\* Every step keeps the invariant, and no step revives a terminated thread.
LEMMA NextIInv ==
  ASSUME IInv, [Next]_vars
  PROVE  IInv' /\ Keeps(vm, vm')
<1>1. CASE \E o \in Objects : ObjectCall(o)
  <2>1. CallOK \/ BlockOK
    BY <1>1, ObjectCallOK
  <2>2. QED BY <2>1, HostIInv, BlockIInv DEF CallOK, BlockOK, HostOK
<1>2. CASE \E t \in Threads : ThreadCall(t)
  <2>1. CallOK
    BY <1>2, ThreadCallOK
  <2>2. QED BY <2>1, HostIInv DEF CallOK, HostOK
<1>3. CASE \E zero \in BOOLEAN : NtDelayExecution(zero)
  <2>1. CallOK \/ BlockOK
    BY <1>3, NtDelayExecutionOK
  <2>2. QED BY <2>1, HostIInv, BlockIInv DEF CallOK, BlockOK, HostOK
<1>4. CASE NtTerminateProcess
  <2>1. CallOK
    BY <1>4, NtTerminateProcessOK
  <2>2. QED BY <2>1, HostIInv DEF CallOK, HostOK
<1>5. CASE BlockReturn
  <2>1. HostOK
    BY <1>5, BlockReturnOK
  <2>2. QED BY <2>1, HostIInv DEF HostOK
<1>6. CASE ExecReturns
  <2>1. HostOK
    BY <1>6, ExecReturnsOK
  <2>2. QED BY <2>1, HostIInv DEF HostOK
<1>7. CASE WindowClosed
  <2>1. HostOK
    BY <1>7, WindowClosedOK
  <2>2. QED BY <2>1, HostIInv DEF HostOK
<1>8. CASE IdleLoop
  <2>1. HostOK
    BY <1>8, IdleLoopOK
  <2>2. QED BY <2>1, HostIInv DEF HostOK
<1>9. CASE ClockEnds
  <2>1. HostOK
    BY <1>9, ClockEndsOK
  <2>2. QED BY <2>1, HostIInv DEF HostOK
<1>10. CASE Spins
  BY <1>10 DEF Spins, Clocks, IInv, TypeOK, WaitSavesContext, Keeps
<1>11. CASE UNCHANGED vars
  BY <1>11 DEF vars, IInv, TypeOK, WaitSavesContext, Keeps
<1>12. QED
  BY <1>1, <1>2, <1>3, <1>4, <1>5, <1>6, <1>7, <1>8, <1>9, <1>10, <1>11
     DEF Next, Exited, Hung

---------------------------------------------------------------------------
(* The theorems.                                                           *)

\* Whatever the guest calls and whenever the host ticks, between system
\* calls the scheduler is sound and nobody waits, and inside
\* scheduler_block_thread exactly the blocked thread does.
THEOREM Inductive == Spec => []IInv
<1>1. Init => IInv
  BY InitIInv
<1>2. IInv /\ [Next]_vars => IInv'
  BY NextIInv
<1>3. QED BY <1>1, <1>2, PTL DEF Spec

\* What the invariant says of every reachable state.
LEMMA IInvImplies ==
  ASSUME IInv
  PROVE  /\ TypeOK /\ ReadyQueueSound /\ LinkedIsAlive /\ CurrentRuns
         /\ IdleMeansNoWork /\ WaitListsMatch /\ WaitSavesContext
         /\ MutantSound /\ SemaphoreWithinLimit
<1>1. TypeOK /\ WaitSavesContext
  BY DEF IInv
<1>2. CASE frame = NoFrame
  <2>1. Sound(vm) /\ frame.thread = Idle
    BY <1>2, NoFrameOK DEF IInv
  <2>2. WaitListsMatch
    BY <2>1, NoWaitsOK DEF Sound, WaitListsMatch
  <2>3. ReadyQueueSound /\ LinkedIsAlive /\ CurrentRuns /\ IdleMeansNoWork
    BY <2>1 DEF Sound, ReadyQueueSound, LinkedIsAlive, CurrentRuns, IdleMeansNoWork
  <2>4. MutantSound /\ SemaphoreWithinLimit
    BY <2>1 DEF Sound, ObjectOK, MutantSound, SemaphoreWithinLimit
  <2>5. QED BY <1>1, <2>2, <2>3, <2>4
<1>3. CASE frame # NoFrame
  <2>1. Blocked(vm, frame.thread)
    BY <1>3 DEF IInv
  <2>2. WaitListsMatch
    BY <2>1 DEF Blocked, WaitListsMatch
  <2>3. ReadyQueueSound /\ LinkedIsAlive /\ CurrentRuns /\ IdleMeansNoWork
    BY <1>3, <2>1 DEF Blocked, ReadyQueueSound, LinkedIsAlive, CurrentRuns, IdleMeansNoWork
  <2>4. MutantSound /\ SemaphoreWithinLimit
    BY <2>1 DEF Blocked, ObjectOK, MutantSound, SemaphoreWithinLimit
  <2>5. QED BY <1>1, <2>2, <2>3, <2>4
<1>4. QED BY <1>2, <1>3

\* Every field keeps its type; scheduler_tick never underflows a quantum.
THEOREM TypeCorrect == Spec => []TypeOK
  BY Inductive, IInvImplies, PTL

\* The callers of scheduler_add_ready and scheduler_remove_ready keep the
\* run queue equal to the READY threads of all_threads, without duplicates.
THEOREM ReadyQueueCorrect == Spec => []ReadyQueueSound
  BY Inductive, IInvImplies, PTL

\* all_threads, by which NtTerminateThread decides that the program has
\* ended, links exactly the threads that were created and not terminated.
THEOREM LinkedCorrect == Spec => []LinkedIsAlive
  BY Inductive, IInvImplies, PTL

\* No path of suspend, terminate, preempt or block leaves current_thread on
\* a thread that is not running.
THEOREM CurrentCorrect == Spec => []CurrentRuns
  BY Inductive, IInvImplies, PTL

\* The scheduler never idles over a queued thread, and the exit request of
\* exec386 stands exactly when it should.
THEOREM IdleCorrect == Spec => []IdleMeansNoWork
  BY Inductive, IInvImplies, PTL

\* At most one thread waits, it is the one inside scheduler_block_thread,
\* and the wait lists hold its blocks and no other.
THEOREM WaitsCorrect == Spec => []WaitListsMatch
  BY Inductive, IInvImplies, PTL

\* The run queue, the list of threads, current_thread and the idle state agree
\* after any sequence of calls and ticks, for any number of threads.
THEOREM DispatchCorrect == Spec => []DispatchSound
<1>1. IInv => DispatchSound
  BY IInvImplies DEF DispatchSound
<1>2. QED BY <1>1, Inductive, PTL

\* The wait lists and the objects' fields agree after any sequence of waits,
\* signals, releases and closes, for any number of threads and objects.
THEOREM ObjectsCorrect == Spec => []ObjectsSound
<1>1. IInv => ObjectsSound
  BY IInvImplies DEF ObjectsSound
<1>2. QED BY <1>1, Inductive, PTL

\* A waiting thread's context is saved at the point where it blocked.
THEOREM WaitContextCorrect == Spec => []WaitSavesContext
  BY Inductive, IInvImplies, PTL

\* The fields of a mutant agree after any order of waits, releases and
\* closes, and an event is never signalled twice.
THEOREM MutantCorrect == Spec => []MutantSound
  BY Inductive, IInvImplies, PTL

\* NtReleaseSemaphore never lifts the count over the limit, even when its
\* sum overflows.
THEOREM SemaphoreCorrect == Spec => []SemaphoreWithinLimit
  BY Inductive, IInvImplies, PTL

\* No call and no tick brings a terminated thread back.
THEOREM TerminatedStays == Spec => TerminatedIsFinal
<1>1. IInv /\ [Next]_vars
        => [\A t \in Threads : vm.state[t] = "TERMINATED" => vm'.state[t] = "TERMINATED"]_vars
  BY NextIInv DEF Keeps
<1>2. QED BY <1>1, Inductive, PTL DEF Spec, TerminatedIsFinal

---------------------------------------------------------------------------
(* What one step may do to the run queue and to the objects: FifoOrder,    *)
(* MutantHandover, FailedCallChangesNothing.                               *)
(*                                                                         *)
(* The first lemmas need no types.  They follow the two fields through the *)
(* C functions: only scheduler_add_ready, scheduler_remove_ready and       *)
(* scheduler_switch change the queue, and none of them touches an object.  *)

Fields(k) == {"obj", "ready"} \subseteq DOMAIN k

\* l is k but for other fields than the queue and the objects.
Quiet(k, l) == Fields(l) /\ l.obj = k.obj /\ l.ready = k.ready

\* The queue after scheduler_switch has taken its head.
AfterHead(q) == IF q = <<>> THEN <<>> ELSE Tail(q)

LEMMA ExecutedQuiet ==
  ASSUME NEW k, Fields(k)
  PROVE  Quiet(k, Executed(k))
  BY DEF Fields, Quiet, Executed

LEMMA SaveContextQuiet ==
  ASSUME NEW k, NEW t, Fields(k)
  PROVE  Quiet(k, SaveContext(k, t))
  BY DEF Fields, Quiet, SaveContext

LEMMA AddReadyEffect ==
  ASSUME NEW k, NEW t, Fields(k)
  PROVE  /\ Fields(AddReady(k, t)) /\ AddReady(k, t).obj = k.obj
         /\ AddReady(k, t).ready = Append(k.ready, t)
  BY DEF Fields, AddReady

LEMMA RemoveReadyEffect ==
  ASSUME NEW k, NEW t, Fields(k)
  PROVE  /\ Fields(RemoveReady(k, t)) /\ RemoveReady(k, t).obj = k.obj
         /\ RemoveReady(k, t).ready = Unlink(k.ready, t)
  BY DEF Fields, RemoveReady

LEMMA SwitchEffect ==
  ASSUME NEW k, Fields(k)
  PROVE  /\ Fields(Switch(k)) /\ Switch(k).obj = k.obj
         /\ Switch(k).ready = AfterHead(k.ready)
<1>1. CASE k.ready = <<>>
  BY <1>1 DEF Fields, Switch, AfterHead
<1>2. CASE k.ready # <<>>
  <2> DEFINE s == IF k.state[k.current] = "RUNNING"
                  THEN SaveContext(k, k.current) ELSE k
             r == RestoreContext(s, Head(k.ready))
  <2>1. Quiet(k, s)
    BY SaveContextQuiet DEF Quiet
  <2> HIDE DEF s
  <2>2. Quiet(k, r)
    BY <2>1 DEF Fields, Quiet, RestoreContext
  <2>3. Switch(k) = [r EXCEPT !.ready = Tail(@), !.current = Head(k.ready),
                              !.state[Head(k.ready)] = "RUNNING", !.idle = FALSE]
    BY <1>2 DEF Switch, SwitchTo, s
  <2> HIDE DEF r
  <2>4. QED BY <1>2, <2>2, <2>3 DEF Fields, Quiet, AfterHead
<1>3. QED BY <1>1, <1>2

LEMMA TickEffect ==
  ASSUME NEW k, Fields(k)
  PROVE  /\ Fields(Tick(k)) /\ Tick(k).obj = k.obj
         /\ \/ Tick(k).ready = k.ready
            \/ Tick(k).ready = AfterHead(Append(k.ready, k.current))
<1> DEFINE c == k.current
           d == [k EXCEPT !.quantum[c] = @ - 1]
           r == [k EXCEPT !.quantum[c] = Reset(c)]
           s == [r EXCEPT !.state[c] = "READY"]
<1>1. Quiet(k, d) /\ Quiet(k, r)
  BY DEF Fields, Quiet
<1>2. \/ Tick(k) = d
      \/ Tick(k) = r
      \/ Tick(k) = Switch(AddReady(s, c))
  BY DEF Tick
<1> HIDE DEF c, d, r
<1>3. Quiet(k, s)
  BY <1>1 DEF Fields, Quiet
<1> HIDE DEF s
<1>4. /\ Fields(AddReady(s, c)) /\ AddReady(s, c).obj = k.obj
      /\ AddReady(s, c).ready = Append(k.ready, c)
  BY <1>3, AddReadyEffect DEF Quiet
<1>5. LET l == Switch(AddReady(s, c)) IN
      /\ Fields(l) /\ l.obj = k.obj
      /\ l.ready = AfterHead(Append(k.ready, c))
  BY <1>4, SwitchEffect
<1>6. QED BY <1>1, <1>2, <1>5 DEF Quiet, c

LEMMA CheckTimeoutsEffect ==
  ASSUME NEW k, Fields(k)
  PROVE  LET l == CheckTimeouts(k)
             t == CHOOSE t \in Waiting(k) : TRUE
         IN /\ Fields(l) /\ l.obj = k.obj
            /\ l.ready = IF Waiting(k) = {} THEN k.ready ELSE Append(k.ready, t)
<1> DEFINE t == CHOOSE t \in Waiting(k) : TRUE
           w == [k EXCEPT !.waitList = [o \in Objects |-> {b \in @[o] : b[1] # t}],
                          !.wait[t] = NoWait, !.state[t] = "READY"]
<1>1. Quiet(k, w)
  BY DEF Fields, Quiet
<1>2. CheckTimeouts(k) = IF Waiting(k) = {} THEN k ELSE AddReady(w, t)
  BY DEF CheckTimeouts, Wake
<1> HIDE DEF t, w
<1>3. QED BY <1>1, <1>2, AddReadyEffect DEF Quiet, t

LEMMA BlockThreadEffect ==
  ASSUME NEW k, Fields(k), NEW objs, NEW type
  PROVE  LET l == BlockThread(k, objs, type) IN
         Fields(l) /\ l.obj = k.obj /\ l.ready = AfterHead(k.ready)
<1> DEFINE p == PushBlocks(k, k.current, objs)
           a == ArmWait(k, objs, type)
           s == SaveContext(a, k.current)
           w == [s EXCEPT !.state[k.current] = "WAITING"]
<1>1. Quiet(k, p)
  BY DEF Fields, Quiet, PushBlocks
<1>2. Quiet(k, a)
  <2> HIDE DEF p
  <2>1. QED BY <1>1 DEF Fields, Quiet, ArmWait, p
<1> HIDE DEF a
<1>3. Quiet(k, s)
  BY <1>2, SaveContextQuiet DEF Quiet
<1>4. BlockThread(k, objs, type) = Switch(w)
  BY DEF BlockThread, s, a
<1> HIDE DEF s
<1>5. Quiet(k, w)
  BY <1>3 DEF Fields, Quiet
<1> HIDE DEF w
<1>6. QED BY <1>4, <1>5, SwitchEffect DEF Quiet

LEMMA UnblockedEffect ==
  ASSUME NEW k, NEW t, Fields(k)
  PROVE  LET l == Unblocked(k, t) IN
         Fields(l) /\ l.obj = k.obj /\ l.ready = Unlink(k.ready, t)
<1> DEFINE c == [k EXCEPT !.current = t]
           r == RemoveReady(c, t)
<1>1. Quiet(k, c)
  BY DEF Fields, Quiet
<1>2. Unblocked(k, t) = [r EXCEPT !.state[t] = "RUNNING", !.idle = FALSE]
  BY DEF Unblocked
<1> HIDE DEF c
<1>3. Fields(r) /\ r.obj = k.obj /\ r.ready = Unlink(k.ready, t)
  BY <1>1, RemoveReadyEffect DEF Quiet
<1> HIDE DEF r
<1>4. QED BY <1>2, <1>3 DEF Fields

LEMMA LeaveIdleEffect ==
  ASSUME NEW k, Fields(k)
  PROVE  LET l == LeaveIdle(k) IN
         /\ Fields(l) /\ l.obj = k.obj
         /\ l.ready = k.ready \/ l.ready = AfterHead(k.ready)
  BY SwitchEffect DEF LeaveIdle

LEMMA AddThreadEffect ==
  ASSUME NEW k, Fields(k), NEW t, NEW st
  PROVE  LET l == AddThread(NewThread(k, t, st), t) IN
         /\ Fields(l) /\ l.obj = k.obj
         /\ l.ready = k.ready \/ l.ready = Append(k.ready, t)
<1> DEFINE n == NewThread(k, t, st)
           a == [n EXCEPT !.all = @ \cup {t}]
<1>1. Quiet(k, n)
  BY DEF Fields, Quiet, NewThread
<1>2. AddThread(n, t) = IF n.state[t] = "READY" THEN AddReady(a, t) ELSE a
  BY DEF AddThread
<1> HIDE DEF n
<1>3. Quiet(k, a)
  BY <1>1 DEF Fields, Quiet
<1> HIDE DEF a
<1>4. QED BY <1>2, <1>3, AddReadyEffect DEF Quiet, n

LEMMA RemoveThreadEffect ==
  ASSUME NEW k, Fields(k), NEW t
  PROVE  LET l == RemoveThread(k, t)
             q == Unlink(k.ready, t)
         IN /\ Fields(l) /\ l.obj = k.obj
            /\ l.ready = q \/ l.ready = AfterHead(q)
<1> DEFINE a == [k EXCEPT !.all = @ \ {t}]
           g == RemoveReady(a, t)
<1>1. Quiet(k, a)
  BY DEF Fields, Quiet
<1>2. RemoveThread(k, t) = IF k.current = t THEN Switch(g) ELSE g
  BY DEF RemoveThread
<1> HIDE DEF a
<1>3. Fields(g) /\ g.obj = k.obj /\ g.ready = Unlink(k.ready, t)
  BY <1>1, RemoveReadyEffect DEF Quiet
<1> HIDE DEF g
<1>4. QED BY <1>2, <1>3, SwitchEffect

---------------------------------------------------------------------------
(* The order of the queue.                                                 *)

LEMMA FifoSame ==
  ASSUME NEW S, NEW q \in Seq(S), Distinct(q)
  PROVE  Fifo(q, q)
<1>1. DOMAIN q = 1..Len(q) /\ Len(q) \in Nat
  OBVIOUS
<1>2. QED BY <1>1 DEF Fifo, Distinct

LEMMA FifoAppend ==
  ASSUME NEW S, NEW q \in Seq(S), NEW t, Distinct(q), ~Queued(q, t)
  PROVE  Fifo(q, Append(q, t))
<1> DEFINE r == Append(q, t)
<1>1. /\ DOMAIN q = 1..Len(q) /\ Len(q) \in Nat /\ DOMAIN r = 1..(Len(q) + 1)
      /\ \A i \in 1..Len(q) : r[i] = q[i]
      /\ r[Len(q) + 1] = t
  OBVIOUS
<1> HIDE DEF r
<1>2. QED BY <1>1 DEF Fifo, Distinct, Queued

LEMMA FifoTail ==
  ASSUME NEW S, NEW q \in Seq(S), Distinct(q)
  PROVE  Fifo(q, AfterHead(q))
<1>1. CASE q = <<>>
  BY <1>1 DEF Fifo, AfterHead
<1>2. CASE q # <<>>
  <2> DEFINE r == Tail(q)
  <2>1. /\ DOMAIN q = 1..Len(q) /\ Len(q) \in Nat /\ DOMAIN r = 1..(Len(q) - 1)
        /\ \A i \in 1..(Len(q) - 1) : r[i] = q[i + 1]
    BY <1>2
  <2> HIDE DEF r
  <2>2. SUFFICES ASSUME NEW i \in 1..Len(q), NEW m \in 1..(Len(q) - 1),
                        NEW n \in 1..(Len(q) - 1),
                        r[m] = q[i], \A j \in 1..i : q[j] # r[n]
                 PROVE  m < n
    BY <1>2, <2>1 DEF Fifo, AfterHead, r
  <2>3. i = m + 1
    BY <2>1, <2>2 DEF Distinct
  <2>4. ~(n + 1 <= i)
    BY <2>1, <2>2
  <2>5. QED BY <2>3, <2>4
<1>3. QED BY <1>1, <1>2

LEMMA FifoUnlink ==
  ASSUME NEW S, NEW q \in Seq(S), NEW t, Distinct(q)
  PROVE  Fifo(q, Unlink(q, t))
<1>1. CASE ~Queued(q, t)
  BY <1>1, FifoSame DEF Unlink
<1>2. CASE Queued(q, t)
  <2> DEFINE r == Unlink(q, t)
  <2>1. PICK x \in 1..Len(q) : UnlinkedAt(q, r, t, x)
    BY <1>2, UnlinkShifts
  <2> HIDE DEF r
  <2>2. Fifo(q, r)
    <3>1. SUFFICES ASSUME NEW i \in 1..Len(q), NEW m \in 1..(Len(q) - 1),
                          NEW n \in 1..(Len(q) - 1),
                          r[m] = q[i], \A j \in 1..i : q[j] # r[n]
                   PROVE  m < n
      BY <2>1, ZenonT(60) DEF Fifo, UnlinkedAt
    <3>2. i = IF m < x THEN m ELSE m + 1
      BY <2>1, <3>1 DEF Distinct, UnlinkedAt
    <3>3. PICK y \in 1..Len(q) : r[n] = q[y] /\ y = IF n < x THEN n ELSE n + 1
      BY <2>1 DEF UnlinkedAt
    <3>4. ~(y <= i)
      BY <3>1, <3>3
    <3>5. QED BY <2>1, <3>2, <3>3, <3>4
  <2>3. QED BY <2>2 DEF r
<1>3. QED BY <1>1, <1>2

LEMMA FifoTrans ==
  ASSUME NEW q, NEW r, NEW s, Fifo(q, r), Fifo(r, s),
         DOMAIN r \subseteq Int, DOMAIN s \subseteq Int,
         \A i \in DOMAIN r : 1..i \subseteq DOMAIN r,
         \A u : Queued(q, u) /\ Queued(s, u) => Queued(r, u)
  PROVE  Fifo(q, s)
<1>1. SUFFICES ASSUME NEW i \in DOMAIN q, NEW m \in DOMAIN s, NEW n \in DOMAIN s,
                      s[m] = q[i], \A j \in 1..i : q[j] # s[n]
               PROVE  m < n
  BY DEF Fifo
<1>2. PICK x \in DOMAIN r : r[x] = q[i]
  BY <1>1 DEF Queued
<1>3. \A j \in 1..x : r[j] # s[n]
  <2>1. SUFFICES ASSUME NEW j \in 1..x, r[j] = s[n] PROVE FALSE
    OBVIOUS
  <2>2. j \in DOMAIN r /\ x < j
    BY <1>1, <1>2, <2>1 DEF Fifo
  <2>3. QED BY <1>2, <2>1, <2>2
<1>4. QED BY <1>1, <1>2, <1>3 DEF Fifo

\* What the calls do to the queue, one after the other.
LEMMA FifoSteps ==
  ASSUME NEW S, NEW q \in Seq(S), Distinct(q), NEW t \in S
  PROVE  /\ Fifo(q, q)
         /\ Fifo(q, AfterHead(q))
         /\ Fifo(q, Unlink(q, t))
         /\ Fifo(q, AfterHead(Unlink(q, t)))
         /\ ~Queued(q, t) => /\ Fifo(q, Append(q, t))
                             /\ Fifo(q, AfterHead(Append(q, t)))
                             /\ \A u \in S : Fifo(q, Unlink(Append(q, t), u))
<1>1. Fifo(q, q) /\ Fifo(q, AfterHead(q)) /\ Fifo(q, Unlink(q, t))
  BY FifoSame, FifoTail, FifoUnlink
<1>2. \A r \in Seq(S) : /\ DOMAIN r \subseteq Int
                        /\ \A i \in DOMAIN r : 1..i \subseteq DOMAIN r
  OBVIOUS
<1>3. ASSUME NEW r \in Seq(S), Distinct(r)
      PROVE  /\ AfterHead(r) \in Seq(S)
             /\ Fifo(r, AfterHead(r))
             /\ \A x : Queued(AfterHead(r), x) => Queued(r, x)
  <2>1. Fifo(r, AfterHead(r))
    BY <1>3, FifoTail
  <2>2. CASE r = <<>>
    BY <2>1, <2>2 DEF AfterHead
  <2>3. CASE r # <<>>
    BY <1>3, <2>1, <2>3, TailQueue DEF AfterHead
  <2>4. QED BY <2>2, <2>3
<1>4. Fifo(q, AfterHead(Unlink(q, t)))
  <2> DEFINE r == Unlink(q, t)
  <2>1. r \in Seq(S) /\ Distinct(r) /\ \A x : Queued(r, x) <=> Queued(q, x) /\ x # t
    BY RemoveQueue
  <2>2. Fifo(q, r)
    BY <1>1
  <2> HIDE DEF r
  <2>3. Fifo(q, AfterHead(r))
    BY <1>2, <1>3, <2>1, <2>2, FifoTrans
  <2>4. QED BY <2>3 DEF r
<1>5. ASSUME ~Queued(q, t)
      PROVE  /\ Fifo(q, Append(q, t))
             /\ Fifo(q, AfterHead(Append(q, t)))
             /\ \A u \in S : Fifo(q, Unlink(Append(q, t), u))
  <2> DEFINE r == Append(q, t)
  <2>1. r \in Seq(S) /\ Distinct(r) /\ \A x : Queued(r, x) <=> Queued(q, x) \/ x = t
    BY <1>5, AppendQueue
  <2>2. Fifo(q, r)
    BY <1>5, FifoAppend
  <2> HIDE DEF r
  <2>3. Fifo(q, AfterHead(r))
    BY <1>2, <1>3, <2>1, <2>2, FifoTrans
  <2>4. ASSUME NEW u \in S PROVE Fifo(q, Unlink(r, u))
    <3> DEFINE s == Unlink(r, u)
    <3>1. s \in Seq(S) /\ \A x : Queued(s, x) <=> Queued(r, x) /\ x # u
      BY <2>1, RemoveQueue
    <3>2. Fifo(r, s)
      BY <2>1, FifoUnlink
    <3> HIDE DEF s
    <3>3. Fifo(q, s)
      BY <1>2, <2>1, <2>2, <3>1, <3>2, FifoTrans
    <3>4. QED BY <3>3 DEF s
  <2>5. QED BY <2>2, <2>3, <2>4 DEF r
<1>6. QED BY <1>1, <1>4, <1>5

---------------------------------------------------------------------------
(* What the three properties ask of a step.                                *)

StepOK == OwnersKept /\ NothingOnFailure /\ QueueKeepsOrder

LEMMA QueueIsReady ==
  ASSUME IInv
  PROVE  /\ vm \in VM /\ Fields(vm) /\ vm.ready \in Seq(Tids) /\ Distinct(vm.ready)
         /\ \A t \in Tids : Queued(vm.ready, t) => t \in Threads /\ vm.state[t] = "READY"
<1>1. vm \in VM /\ QueueOK(vm)
  BY IInvImplies DEF TypeOK, ReadyQueueSound
<1>2. Fields(vm) /\ vm.ready \in Seq(Tids) /\ vm.all \subseteq Threads
  BY <1>1 DEF VM, Fields
<1>3. QED BY <1>1, <1>2 DEF QueueOK

\* The guest code before a call touches neither the queue nor the objects.
LEMMA CodeRan ==
  ASSUME IInv
  PROVE  /\ Quiet(vm, Executed(vm)) /\ Executed(vm).state = vm.state
         /\ Executed(vm).current = vm.current
  BY QueueIsReady, ExecutedQuiet, ExecutedFields DEF SameThreads

\* A step that leaves the objects alone.
LEMMA QueueStep ==
  ASSUME vm'.obj = vm.obj, Fifo(vm.ready, vm'.ready)
  PROVE  StepOK
  BY DEF StepOK, OwnersKept, OwnerKept, NothingOnFailure, QueueKeepsOrder

LEMMA SameStep ==
  ASSUME IInv, vm'.obj = vm.obj, vm'.ready = vm.ready
  PROVE  StepOK
  BY QueueIsReady, FifoSame, QueueStep

---------------------------------------------------------------------------
(* The calls on threads.                                                   *)

LEMMA CallReturns ==
  ASSUME NEW k, Call(k)
  PROVE  vm' = k /\ GuestRuns /\ reply'.status = "SUCCESS"
  BY DEF Call, Return

LEMMA NtCreateThreadStep ==
  ASSUME IInv, NEW t \in Threads, NEW suspended \in BOOLEAN, NtCreateThread(t, suspended)
  PROVE  StepOK
<1> DEFINE k == Executed(vm)
           st == IF suspended THEN "INITIALIZED" ELSE "READY"
           l == AddThread(NewThread(k, t, st), t)
<1>1. vm' = l /\ vm.state[t] = "ABSENT"
  BY CallReturns DEF NtCreateThread
<1>2. Quiet(vm, k)
  BY CodeRan
<1> HIDE DEF k, st
<1>3. /\ l.obj = vm.obj
      /\ l.ready = vm.ready \/ l.ready = Append(vm.ready, t)
  BY <1>2, AddThreadEffect DEF Quiet
<1> HIDE DEF l
<1>4. t \in Tids
  BY DEF Tids
<1>5. ~Queued(vm.ready, t)
  BY <1>1, <1>4, QueueIsReady
<1>6. QED BY <1>1, <1>3, <1>4, <1>5, QueueIsReady, FifoSteps, QueueStep

LEMMA NtTerminateThreadStep ==
  ASSUME IInv, NEW t \in Threads, NtTerminateThread(t)
  PROVE  StepOK
<1> DEFINE k == Executed(vm)
           s == [k EXCEPT !.state[t] = "TERMINATED"]
           r == RemoveThread(s, t)
           done == r.all = {}
           l == [r EXCEPT !.exited = done]
           q == Unlink(vm.ready, t)
<1>1. vm' = l
  BY CallReturns DEF NtTerminateThread
<1>2. Quiet(vm, k)
  BY CodeRan
<1> HIDE DEF k
<1>3. Quiet(vm, s)
  BY <1>2 DEF Quiet, Fields
<1> HIDE DEF s
<1>4. /\ Fields(r) /\ r.obj = vm.obj
      /\ r.ready = q \/ r.ready = AfterHead(q)
  BY <1>3, RemoveThreadEffect DEF Quiet
<1> HIDE DEF r, done
<1>5. Quiet(r, l)
  BY <1>4 DEF Quiet, Fields
<1> HIDE DEF l
<1>6. t \in Tids
  BY DEF Tids
<1>7. QED BY <1>1, <1>4, <1>5, <1>6, QueueIsReady, FifoSteps, QueueStep DEF Quiet

LEMMA NtResumeThreadStep ==
  ASSUME IInv, NEW t \in Threads, NtResumeThread(t)
  PROVE  StepOK
<1> DEFINE k == Executed(vm)
           s == [k EXCEPT !.state[t] = "READY"]
           l == AddReady(s, t)
<1>1. vm' = IF vm.state[t] = "INITIALIZED" THEN l ELSE k
  BY CallReturns DEF NtResumeThread
<1>2. Quiet(vm, k)
  BY CodeRan
<1> HIDE DEF k
<1>3. CASE vm.state[t] # "INITIALIZED"
  BY <1>1, <1>2, <1>3, SameStep DEF Quiet
<1>4. CASE vm.state[t] = "INITIALIZED"
  <2>1. Quiet(vm, s)
    BY <1>2 DEF Quiet, Fields
  <2> HIDE DEF s
  <2>2. l.obj = vm.obj /\ l.ready = Append(vm.ready, t)
    BY <2>1, AddReadyEffect DEF Quiet
  <2> HIDE DEF l
  <2>3. t \in Tids
    BY DEF Tids
  <2>4. ~Queued(vm.ready, t)
    BY <1>4, <2>3, QueueIsReady
  <2>5. QED BY <1>1, <1>4, <2>2, <2>3, <2>4, QueueIsReady, FifoSteps, QueueStep
<1>5. QED BY <1>3, <1>4

LEMMA NtSuspendThreadStep ==
  ASSUME IInv, NEW t \in Threads, NtSuspendThread(t)
  PROVE  StepOK
<1> DEFINE k == Executed(vm)
           g == RemoveReady(k, t)
           p == IF vm.state[t] = "READY" THEN g ELSE k
           i == [p EXCEPT !.state[t] = "INITIALIZED"]
           n == IF vm.state[t] \in {"READY", "RUNNING"} THEN i ELSE p
           l == IF t = Me THEN Switch(n) ELSE n
           q == Unlink(vm.ready, t)
<1>1. vm' = l
  BY CallReturns DEF NtSuspendThread
<1>2. Quiet(vm, k)
  BY CodeRan
<1> HIDE DEF k
<1>3. Fields(g) /\ g.obj = vm.obj /\ g.ready = q
  BY <1>2, RemoveReadyEffect DEF Quiet
<1> HIDE DEF g
<1>4. Fields(p) /\ p.obj = vm.obj /\ (p.ready = vm.ready \/ p.ready = q)
  BY <1>2, <1>3 DEF Quiet
<1> HIDE DEF p
<1>5. Quiet(p, i)
  BY <1>4 DEF Quiet, Fields
<1> HIDE DEF i
<1>6. Fields(n) /\ n.obj = vm.obj /\ (n.ready = vm.ready \/ n.ready = q)
  BY <1>4, <1>5 DEF Quiet
<1> HIDE DEF n
<1>7. /\ l.obj = vm.obj
      /\ l.ready \in {vm.ready, q, AfterHead(vm.ready), AfterHead(q)}
  BY <1>6, SwitchEffect
<1> HIDE DEF l
<1>8. t \in Tids
  BY DEF Tids
<1>9. QED BY <1>1, <1>7, <1>8, QueueIsReady, FifoSteps, QueueStep

LEMMA CloseThreadStep ==
  ASSUME IInv, NEW t \in Threads, CloseThread(t)
  PROVE  StepOK
<1> DEFINE k == Executed(vm)
           h == k.handles \ {t}
           f == k.freed \cup {t}
           l == [k EXCEPT !.handles = h, !.freed = f]
<1>1. vm' = l
  BY CallReturns DEF CloseThread
<1>2. Quiet(vm, k)
  BY CodeRan
<1> HIDE DEF k, h, f
<1>3. Quiet(vm, l)
  BY <1>2 DEF Quiet, Fields
<1> HIDE DEF l
<1>4. QED BY <1>1, <1>3, SameStep DEF Quiet

LEMMA ThreadCallStep ==
  ASSUME IInv, NEW t \in Threads, ThreadCall(t)
  PROVE  StepOK
  BY NtCreateThreadStep, NtTerminateThreadStep, NtResumeThreadStep, NtSuspendThreadStep,
     CloseThreadStep DEF ThreadCall

LEMMA NtTerminateProcessStep ==
  ASSUME IInv, NtTerminateProcess
  PROVE  StepOK
<1> DEFINE k == Executed(vm)
           l == [k EXCEPT !.exited = TRUE, !.exitReq = TRUE]
<1>1. vm' = l
  BY CallReturns DEF NtTerminateProcess
<1>2. Quiet(vm, k)
  BY CodeRan
<1> HIDE DEF k
<1>3. Quiet(vm, l)
  BY <1>2 DEF Quiet, Fields
<1> HIDE DEF l
<1>4. QED BY <1>1, <1>3, SameStep DEF Quiet

---------------------------------------------------------------------------
(* The steps of the host, and a call that blocks.                          *)

LEMMA BlockEnterStep ==
  ASSUME IInv, NEW objs, NEW type, BlockEnter(objs, type)
  PROVE  StepOK
<1> DEFINE k == Executed(vm)
           l == BlockThread(k, objs, type)
<1>1. vm' = l
  BY DEF BlockEnter
<1>2. Quiet(vm, k)
  BY CodeRan
<1> HIDE DEF k
<1>3. l.obj = vm.obj /\ l.ready = AfterHead(vm.ready)
  BY <1>2, BlockThreadEffect DEF Quiet
<1> HIDE DEF l
<1>4. QED BY <1>1, <1>3, QueueIsReady, FifoTail, QueueStep

LEMMA BlockReturnStep ==
  ASSUME IInv, BlockReturn
  PROVE  StepOK
<1> DEFINE w == CheckTimeouts(vm)
           l == Unblocked(w, frame.thread)
           t == CHOOSE x \in Waiting(vm) : TRUE
<1>1. vm' = l /\ frame.thread \in Threads /\ frame.thread \in Tids
  BY DEF BlockReturn, IInv, Blocked, Tids
<1>2. /\ Fields(w) /\ w.obj = vm.obj
      /\ w.ready = IF Waiting(vm) = {} THEN vm.ready ELSE Append(vm.ready, t)
  BY QueueIsReady, CheckTimeoutsEffect
<1>3. Waiting(vm) # {} => t \in Tids /\ vm.state[t] = "WAITING"
  BY QueueIsReady DEF Waiting, VM, Tids
<1> HIDE DEF w, t
<1>4. l.obj = vm.obj /\ l.ready = Unlink(w.ready, frame.thread)
  BY <1>2, UnblockedEffect
<1> HIDE DEF l
<1>5. Waiting(vm) # {} => ~Queued(vm.ready, t)
  BY <1>3, QueueIsReady
<1>6. QED BY <1>1, <1>2, <1>3, <1>4, <1>5, QueueIsReady, FifoSteps, QueueStep

\* The thread whose quantum expires is not in the queue it is appended to.
LEMMA TickStep ==
  ASSUME IInv, frame = NoFrame
  PROVE  LET l == Tick(vm) IN
         Fields(l) /\ l.obj = vm.obj /\ Fifo(vm.ready, l.ready)
<1> DEFINE l == Tick(vm)
<1>1. Fields(vm)
  BY QueueIsReady
<1>2. /\ Fields(l) /\ l.obj = vm.obj
      /\ l.ready = vm.ready \/ l.ready = AfterHead(Append(vm.ready, vm.current))
  BY <1>1, TickEffect
<1> HIDE DEF l
<1>3. vm.current \in Tids /\ RunsOK(vm)
  BY QueueIsReady DEF IInv, Sound, VM
<1>4. ~Queued(vm.ready, vm.current)
  BY <1>3, QueueIsReady, ThreadAssumption DEF RunsOK
<1>5. Fifo(vm.ready, l.ready)
  BY <1>2, <1>3, <1>4, QueueIsReady, FifoSteps
<1>6. QED BY <1>2, <1>5 DEF l

LEMMA ClockEndsStep ==
  ASSUME IInv, ClockEnds
  PROVE  StepOK
<1>1. vm' = Executed(vm)
  BY DEF ClockEnds
<1>2. QED BY <1>1, CodeRan, SameStep DEF Quiet

LEMMA ExecReturnsStep ==
  ASSUME IInv, ExecReturns
  PROVE  StepOK
<1>1. frame = NoFrame /\ Sound(Tick(vm))
  BY TickSound DEF IInv, ExecReturns, ExecDone
<1>2. vm' = Tick(vm)
  BY <1>1, LoopSound DEF ExecReturns
<1>3. QED BY <1>1, <1>2, TickStep, QueueStep

LEMMA IdleLoopStep ==
  ASSUME IInv, IdleLoop
  PROVE  StepOK
<1>1. Sound(vm)
  BY DEF IInv, IdleLoop
<1>2. vm' = vm
  BY <1>1, LoopSound DEF IdleLoop
<1>3. QED BY <1>2, SameStep

LEMMA WindowClosedStep ==
  ASSUME IInv, WindowClosed
  PROVE  StepOK
<1> DEFINE l == Tick(vm)
<1>1. frame = NoFrame
  BY DEF WindowClosed
<1>2. Fields(l) /\ l.obj = vm.obj /\ Fifo(vm.ready, l.ready)
  BY <1>1, TickStep
<1>3. Fields(vm) /\ vm' \in {[l EXCEPT !.exited = TRUE], [vm EXCEPT !.exited = TRUE]}
  BY QueueIsReady DEF WindowClosed
<1> HIDE DEF l
<1>4. Quiet(l, vm') \/ Quiet(vm, vm')
  BY <1>2, <1>3 DEF Quiet, Fields
<1>5. QED BY <1>2, <1>4, SameStep, QueueStep DEF Quiet

LEMMA NtDelayExecutionStep ==
  ASSUME IInv, NEW zero \in BOOLEAN, NtDelayExecution(zero)
  PROVE  StepOK
<1>1. CASE zero
  <2>1. vm' = Executed(vm)
    BY <1>1 DEF NtDelayExecution, Return
  <2>2. QED BY <2>1, CodeRan, SameStep DEF Quiet
<1>2. CASE ~zero
  BY <1>2, BlockEnterStep DEF NtDelayExecution
<1>3. QED BY <1>1, <1>2

---------------------------------------------------------------------------
(* The calls on objects.                                                   *)

\* l is k with other contents of the object o.
Touches(k, l, o) ==
  l.ready = k.ready /\ \A p \in Objects \ {o} : l.obj[p] = k.obj[p]

\* A call that succeeds and touches one object, whose owner is kept.
LEMMA ObjectStep ==
  ASSUME IInv, NEW o \in Objects, NEW k, Call(k), Touches(vm, k, o),
         OwnerKept(vm.obj[o], k.obj[o], vm.current)
  PROVE  StepOK
<1>1. vm' = k /\ reply'.status = "SUCCESS"
  BY CallReturns
<1>2. \A p \in Objects : OwnerKept(vm.obj[p], k.obj[p], vm.current)
  BY DEF Touches, OwnerKept
<1>3. Fifo(vm.ready, k.ready)
  BY QueueIsReady, FifoSame DEF Touches
<1>4. QED
  BY <1>1, <1>2, <1>3 DEF StepOK, OwnersKept, NothingOnFailure, Failures, QueueKeepsOrder

\* A call that fails at once.
LEMMA FailedStep ==
  ASSUME IInv, NEW st, NEW wt, Return(Executed(vm), st, wt)
  PROVE  StepOK
  BY CodeRan, SameStep DEF Return, Quiet

\* Writing one object after the guest code ran.
LEMMA WriteObject ==
  ASSUME IInv, GuestRuns, NEW o \in Objects, NEW r \in Object
  PROVE  LET l == [Executed(vm) EXCEPT !.obj[o] = r] IN
         Touches(vm, l, o) /\ l.obj[o] = r /\ l.waitList = vm.waitList
<1> DEFINE k == Executed(vm)
           l == [k EXCEPT !.obj[o] = r]
<1>1. k \in VM /\ SameThreads(vm, k) /\ k.obj = vm.obj
  BY CallerOK
<1> HIDE DEF k
<1>2. /\ SameThreads(k, l)
      /\ \A p \in Objects : l.obj[p] = IF p = o THEN r ELSE k.obj[p]
  BY <1>1, ObjectFields
<1> HIDE DEF l
<1>3. QED BY <1>1, <1>2 DEF Touches, SameThreads, l, k

LEMMA NewObjectStep ==
  ASSUME IInv, NEW o \in Objects, NEW r \in Object, NewObject(o, r)
  PROVE  StepOK
<1> DEFINE l == [Executed(vm) EXCEPT !.obj[o] = r]
<1>1. Call(l) /\ GuestRuns /\ vm.obj[o].type # "Mutant"
  BY CallReturns DEF NewObject, Exists
<1>2. Touches(vm, l, o)
  BY <1>1, WriteObject
<1>3. OwnerKept(vm.obj[o], l.obj[o], vm.current)
  BY <1>1 DEF OwnerKept
<1> HIDE DEF l
<1>4. QED BY <1>1, <1>2, <1>3, ObjectStep

LEMMA CreateCallsStep ==
  ASSUME IInv, NEW o \in Objects,
         \/ \E type \in EventTypes, initial \in BOOLEAN : NtCreateEvent(o, type, initial)
         \/ \E limit \in Limits, initial \in 0..IntMax : NtCreateSemaphore(o, initial, limit)
         \/ \E owned \in BOOLEAN : NtCreateMutant(o, owned)
  PROVE  StepOK
<1>1. ASSUME NEW type \in EventTypes, NEW initial \in BOOLEAN, NtCreateEvent(o, type, initial)
      PROVE  StepOK
  BY <1>1, CreatedOK, NewObjectStep DEF NtCreateEvent
<1>2. ASSUME NEW limit \in Limits, NEW initial \in 0..IntMax,
             NtCreateSemaphore(o, initial, limit)
      PROVE  StepOK
  <2>1. limit \in Int /\ initial \in Int /\ initial <= limit
    BY <1>2, SchedulerAssumption, IntMaxAssumption DEF NtCreateSemaphore
  <2>2. QED BY <1>2, <2>1, CreatedOK, NewObjectStep DEF NtCreateSemaphore
<1>3. ASSUME NEW owned \in BOOLEAN, NtCreateMutant(o, owned)
      PROVE  StepOK
  <2> DEFINE owner == IF owned THEN Me ELSE Idle
  <2>1. owner \in Tids
    BY QueueIsReady DEF Me, Tids, VM
  <2>2. NewObject(o, CreateMutant(owner))
    BY <1>3 DEF NtCreateMutant
  <2> HIDE DEF owner
  <2>3. QED BY <2>1, <2>2, CreatedOK, NewObjectStep
<1>4. QED BY <1>1, <1>2, <1>3

LEMMA CloseObjectStep ==
  ASSUME IInv, NEW o \in Objects, CloseObject(o)
  PROVE  StepOK
<1> DEFINE l == [Executed(vm) EXCEPT !.obj[o] = NoObject]
<1>1. Call(l) /\ GuestRuns
  BY CallReturns DEF CloseObject
<1>2. Touches(vm, l, o) /\ l.obj[o] = NoObject
  BY <1>1, NoObjectOK, WriteObject
<1>3. NoObject.type # "Mutant"
  BY DEF NoObject, Header
<1> HIDE DEF l
<1>4. QED BY <1>1, <1>2, <1>3, ObjectStep DEF OwnerKept

\* An event or a semaphore is written and signalled, with nobody to wake.
LEMMA SetSignalEffect ==
  ASSUME NEW k \in VM, NoWaits(k), NEW o \in Objects, NEW n \in Int
  PROVE  LET l == SetSignal(k, o, n) IN
         /\ l \in VM /\ NoWaits(l) /\ Touches(k, l, o)
         /\ SignalObject(l, o) = l
<1> DEFINE x == k.obj[o]
           r == [x EXCEPT !.signal = n]
           l == SetSignal(k, o, n)
<1>1. l = [k EXCEPT !.obj[o] = r]
  BY DEF SetSignal
<1>2. x \in Object
  BY DEF VM
<1> HIDE DEF x
<1>3. r \in Object
  BY <1>2 DEF Object
<1> HIDE DEF r
<1>4. l \in VM /\ SameThreads(k, l) /\ \A p \in Objects \ {o} : l.obj[p] = k.obj[p]
  BY <1>1, <1>3, ObjectFields
<1> HIDE DEF l
<1>5. NoWaits(l) /\ Touches(k, l, o)
  BY <1>4 DEF NoWaits, SameThreads, Touches
<1>6. SignalObject(l, o) = l
  BY <1>5, SignalNobody
<1>7. QED BY <1>4, <1>5, <1>6 DEF l

LEMMA SignalCallsStep ==
  ASSUME IInv, NEW o \in Objects,
         \/ NtSetEvent(o) \/ NtResetEvent(o) \/ NtPulseEvent(o)
         \/ \E n \in Releases : NtReleaseSemaphore(o, n)
  PROVE  StepOK
<1> DEFINE k == Executed(vm)
           set == SetSignal(k, o, 1)
<1>1. GuestRuns /\ vm.obj[o].type # "Mutant"
  BY CallReturns, HandleTypes
     DEF NtSetEvent, NtResetEvent, NtPulseEvent, NtReleaseSemaphore
<1>2. k \in VM /\ NoWaits(k) /\ k.ready = vm.ready /\ k.obj = vm.obj
  BY <1>1, CallerOK DEF Sound, SameThreads
<1>3. ASSUME NEW l, Call(l), Touches(k, l, o)
      PROVE  StepOK
  <2>1. Touches(vm, l, o)
    BY <1>2, <1>3 DEF Touches
  <2>2. QED BY <1>1, <1>3, <2>1, ObjectStep DEF OwnerKept
<1> HIDE DEF k
<1>4. /\ set \in VM /\ NoWaits(set) /\ Touches(k, set, o)
      /\ SignalObject(set, o) = set
  BY <1>2, SetSignalEffect
<1> HIDE DEF set
<1>5. CASE NtSetEvent(o)
  <2>1. Call(set)
    BY <1>4, <1>5 DEF NtSetEvent, set, k
  <2>2. QED BY <1>3, <1>4, <2>1
<1>6. CASE NtResetEvent(o)
  <2> DEFINE l == SetSignal(k, o, 0)
  <2>1. Call(l)
    BY <1>6 DEF NtResetEvent, k
  <2>2. Touches(k, l, o)
    BY <1>2, SetSignalEffect
  <2> HIDE DEF l
  <2>3. QED BY <1>3, <2>1, <2>2
<1>7. CASE NtPulseEvent(o)
  <2> DEFINE l == SetSignal(set, o, 0)
  <2>1. Call(l)
    BY <1>4, <1>7 DEF NtPulseEvent, set, k
  <2>2. Touches(set, l, o)
    BY <1>4, SetSignalEffect
  <2> HIDE DEF l
  <2>3. Touches(k, l, o)
    BY <1>4, <2>2 DEF Touches
  <2>4. QED BY <1>3, <2>1, <2>3
<1>8. ASSUME NEW n \in Releases, NtReleaseSemaphore(o, n)
      PROVE  StepOK
  <2> DEFINE sum == vm.obj[o].signal + n
             l == SetSignal(k, o, Wrap32(sum))
  <2>1. \/ Return(k, "LIMIT_EXCEEDED", "NONE")
        \/ Call(SignalObject(l, o))
    BY <1>8 DEF NtReleaseSemaphore, k
  <2>2. Wrap32(sum) \in Int
    BY <1>2, SchedulerAssumption, IntMaxAssumption DEF VM, Object, Wrap32
  <2>3. Touches(k, l, o) /\ SignalObject(l, o) = l
    BY <1>2, <2>2, SetSignalEffect
  <2> HIDE DEF l
  <2>4. QED BY <1>3, <2>1, <2>3, FailedStep DEF k
<1>9. QED BY <1>5, <1>6, <1>7, <1>8

LEMMA NtReleaseMutantStep ==
  ASSUME IInv, NEW o \in Objects, NtReleaseMutant(o)
  PROVE  StepOK
<1> DEFINE x == vm.obj[o]
           r == Released(x)
           l == [Executed(vm) EXCEPT !.obj[o] = r]
<1>1. GuestRuns /\ x.type = "Mutant"
  BY CallReturns, HandleTypes DEF NtReleaseMutant
<1>2. /\ x \in Object /\ ObjectOK(x) /\ NoWaits(vm) /\ vm.current \in Threads
      /\ Executed(vm).obj = vm.obj
  BY <1>1, CallerOK DEF Sound, VM
<1>3. CASE x.owner # Me
  BY <1>3, FailedStep DEF NtReleaseMutant
<1>4. CASE x.owner = Me
  <2>1. r \in Object
    BY <1>1, <1>2, <1>4, ReleasedOK DEF Me
  <2>2. r.owner = Idle \/ r.owner = x.owner
    BY <1>2 DEF Released, Object
  <2>3. [Executed(vm) EXCEPT !.obj[o] = Released(@)] = l
    BY <1>2
  <2>4. Touches(vm, l, o) /\ l.obj[o] = r /\ l.waitList = vm.waitList
    BY <1>1, <2>1, WriteObject
  <2> HIDE DEF r, l
  <2>5. SignalObject(l, o) = l
    BY <1>2, <2>4 DEF SignalObject, NoWaits
  <2>6. Call(l)
    BY <1>4, <2>3, <2>5 DEF NtReleaseMutant
  <2>7. OwnerKept(x, r, vm.current)
    BY <1>4, <2>2 DEF OwnerKept, Me
  <2>8. QED BY <2>4, <2>6, <2>7, ObjectStep
<1>5. QED BY <1>3, <1>4

---------------------------------------------------------------------------
(* The waits.  A wait that is satisfied takes a free mutant for its caller *)
(* and leaves the owner of every other one; it may take an object twice,   *)
(* when the array names it twice.                                          *)

Takes(x, y, t) ==
  /\ y.type = x.type
  /\ x.type = "Mutant" => y.owner = x.owner \/ (x.owner = Idle /\ y.owner = t)

TakesAll(k, l, t) ==
  l.ready = k.ready /\ \A o \in Objects : Takes(k.obj[o], l.obj[o], t)

LEMMA SatisfyWaitTakes ==
  ASSUME NEW x \in Object, ObjectOK(x), NEW t \in Threads
  PROVE  Takes(x, SatisfyWait(x, t), t)
<1>1. CASE x.type = "EventSynchronization"
  BY <1>1 DEF SatisfyWait, Takes, Object
<1>2. CASE x.type = "Semaphore"
  <2> DEFINE y == [x EXCEPT !.signal = @ - 1]
  <2>1. SatisfyWait(x, t) = y \/ SatisfyWait(x, t) = x
    BY <1>2 DEF SatisfyWait
  <2>2. y.type = x.type
    BY DEF Object
  <2> HIDE DEF y
  <2>3. QED BY <1>2, <2>1, <2>2 DEF Takes
<1>3. CASE x.type = "Mutant" /\ x.signal > 0
  <2> DEFINE n == -1
             y == Owned(x, n, t, 1)
  <2>1. SatisfyWait(x, t) = y
    BY <1>3 DEF SatisfyWait, Owned, Object
  <2>2. x.owner = Idle
    BY <1>3 DEF ObjectOK, MutantOK, Object
  <2>3. n \in Int /\ 1 \in Int /\ t \in Tids
    BY DEF Tids
  <2> HIDE DEF n
  <2>4. y.type = x.type /\ y.owner = t
    BY <2>3, OwnedFields
  <2> HIDE DEF y
  <2>5. QED BY <1>3, <2>1, <2>2, <2>4 DEF Takes
<1>4. CASE x.type = "Mutant" /\ ~(x.signal > 0)
  <2> DEFINE y == [x EXCEPT !.signal = @ - 1, !.depth = @ + 1]
  <2>1. SatisfyWait(x, t) = y \/ SatisfyWait(x, t) = x
    BY <1>4 DEF SatisfyWait
  <2>2. y.type = x.type /\ y.owner = x.owner
    BY DEF Object
  <2> HIDE DEF y
  <2>3. QED BY <1>4, <2>1, <2>2 DEF Takes
<1>5. CASE x.type \notin {"EventSynchronization", "Semaphore", "Mutant"}
  BY <1>5 DEF SatisfyWait, Takes
<1>6. QED BY <1>1, <1>2, <1>3, <1>4, <1>5

LEMMA SatisfyEntryTakes ==
  ASSUME NEW k, Sound(k), NEW o \in Objects, NEW t \in Threads
  PROVE  TakesAll(k, SatisfyEntry(k, o, t), t)
<1> DEFINE r == SatisfyWait(k.obj[o], t)
           l == [k EXCEPT !.obj[o] = r]
<1>1. k \in VM /\ k.obj[o] \in Object /\ ObjectOK(k.obj[o])
  BY DEF Sound, VM
<1>2. r \in Object /\ Takes(k.obj[o], r, t)
  BY <1>1, SatisfyWaitOK, SatisfyWaitTakes
<1>3. SatisfyEntry(k, o, t) = l
  BY DEF SatisfyEntry
<1> HIDE DEF r
<1>4. SameThreads(k, l) /\ \A p \in Objects : l.obj[p] = IF p = o THEN r ELSE k.obj[p]
  BY <1>1, <1>2, ObjectFields
<1> HIDE DEF l
<1>5. QED BY <1>2, <1>3, <1>4 DEF TakesAll, Takes, SameThreads

LEMMA TakesTrans ==
  ASSUME NEW k, NEW l, NEW m, NEW t, TakesAll(k, l, t), TakesAll(l, m, t)
  PROVE  TakesAll(k, m, t)
  BY DEF TakesAll, Takes

LEMMA SatisfyTakes ==
  ASSUME NEW k, Sound(k), NEW objs \in Arrays, NEW type \in {"ANY", "ALL"},
         NEW t \in Threads, CanSatisfy(k, objs, type, t)
  PROVE  TakesAll(k, Satisfy(k, objs, type, t), t)
<1>1. /\ Len(objs) \in 1..2 /\ DOMAIN objs = 1..Len(objs)
      /\ \A i \in 1..Len(objs) : objs[i] \in Objects
  BY DEF Arrays
<1>2. CASE type = "ANY"
  <2> DEFINE i == FirstSignaled(k, objs, t)
  <2>1. SignaledAt(k, objs, t) # {} /\ SignaledAt(k, objs, t) \subseteq 1..2
    BY <1>1, <1>2 DEF CanSatisfy, SignaledAt
  <2>2. \E x \in SignaledAt(k, objs, t) : \A y \in SignaledAt(k, objs, t) : x <= y
    BY <2>1
  <2>3. i \in SignaledAt(k, objs, t)
    BY <2>2 DEF FirstSignaled
  <2>4. objs[i] \in Objects
    BY <1>1, <2>3 DEF SignaledAt
  <2>5. Satisfy(k, objs, type, t) = SatisfyEntry(k, objs[i], t)
    BY <1>2 DEF Satisfy
  <2>6. QED BY <2>4, <2>5, SatisfyEntryTakes
<1>3. CASE type = "ALL"
  <2> DEFINE f == SatisfyEntry(k, objs[1], t)
  <2>1. objs[1] \in Objects
    BY <1>1
  <2>2. Sound(f) /\ TakesAll(k, f, t)
    BY <2>1, SatisfyEntrySound, SatisfyEntryTakes
  <2>3. CASE Len(objs) = 1
    BY <1>3, <2>2, <2>3 DEF Satisfy, SatisfyAll
  <2>4. CASE Len(objs) = 2
    <3> DEFINE g == SatisfyEntry(f, objs[2], t)
    <3>1. objs[2] \in Objects
      BY <1>1, <2>4
    <3>2. TakesAll(f, g, t)
      BY <2>2, <3>1, SatisfyEntryTakes
    <3>3. Satisfy(k, objs, type, t) = g
      BY <1>3, <2>4 DEF Satisfy, SatisfyAll
    <3> HIDE DEF f, g
    <3>4. QED BY <2>2, <3>2, <3>3, TakesTrans
  <2>5. QED BY <1>1, <2>3, <2>4
<1>4. QED BY <1>2, <1>3

LEMMA DoWaitStep ==
  ASSUME IInv, NEW objs \in Arrays, NEW type \in {"ANY", "ALL"}, NEW wait \in Waits,
         DoWait(objs, type, wait)
  PROVE  StepOK
<1> DEFINE k == Executed(vm)
           l == Satisfy(k, objs, type, Me)
<1>1. GuestRuns
  BY DEF DoWait
<1>2. CASE CanSatisfy(vm, objs, type, Me)
  <2>1. Sound(k) /\ k.obj = vm.obj /\ k.ready = vm.ready /\ Me \in Threads
    BY <1>1, CallerOK DEF Me, SameThreads
  <2>2. vm' = l /\ reply'.status = "SUCCESS"
    BY <1>2 DEF DoWait, Return
  <2> HIDE DEF k
  <2>3. CanSatisfy(k, objs, type, Me)
    BY <1>2, <2>1 DEF CanSatisfy, SignaledAt, AllSignaled
  <2>4. TakesAll(k, l, Me)
    BY <2>1, <2>3, SatisfyTakes
  <2> HIDE DEF l
  <2>5. Fifo(vm.ready, vm'.ready)
    BY <2>1, <2>2, <2>4, QueueIsReady, FifoSame DEF TakesAll
  <2>6. OwnersKept
    BY <2>1, <2>2, <2>4 DEF TakesAll, Takes, OwnersKept, OwnerKept, Me
  <2>7. QED BY <2>2, <2>5, <2>6 DEF StepOK, NothingOnFailure, Failures, QueueKeepsOrder
<1>3. CASE ~CanSatisfy(vm, objs, type, Me) /\ wait # "FINITE"
  BY <1>3, FailedStep DEF DoWait
<1>4. CASE ~CanSatisfy(vm, objs, type, Me) /\ wait = "FINITE"
  BY <1>4, BlockEnterStep DEF DoWait
<1>5. QED BY <1>2, <1>3, <1>4

LEMMA WaitCallsStep ==
  ASSUME IInv, NEW o \in Objects, NEW wait \in Waits,
         \/ NtWaitForSingleObject(o, wait)
         \/ \E o2 \in Objects, type \in {"ANY", "ALL"} :
              NtWaitForMultipleObjects(o, o2, type, wait)
  PROVE  StepOK
<1>1. CASE NtWaitForSingleObject(o, wait)
  <2>1. CASE SingleWaitable(HandleType(vm.obj[o]))
    BY <1>1, <2>1, DoWaitStep DEF NtWaitForSingleObject, Arrays
  <2>2. CASE ~SingleWaitable(HandleType(vm.obj[o]))
    BY <1>1, <2>2, FailedStep DEF NtWaitForSingleObject
  <2>3. QED BY <2>1, <2>2
<1>2. ASSUME NEW o2 \in Objects, NEW type \in {"ANY", "ALL"},
             NtWaitForMultipleObjects(o, o2, type, wait)
      PROVE  StepOK
  <2>1. <<o, o2>> \in Arrays
    BY DEF Arrays
  <2>2. QED BY <1>2, <2>1, DoWaitStep DEF NtWaitForMultipleObjects
<1>3. QED BY <1>1, <1>2

LEMMA ObjectCallStep ==
  ASSUME IInv, NEW o \in Objects, ObjectCall(o)
  PROVE  StepOK
<1>1. CASE \/ \E type \in EventTypes, initial \in BOOLEAN : NtCreateEvent(o, type, initial)
           \/ \E limit \in Limits, initial \in 0..IntMax : NtCreateSemaphore(o, initial, limit)
           \/ \E owned \in BOOLEAN : NtCreateMutant(o, owned)
  BY <1>1, CreateCallsStep
<1>2. CASE \/ NtSetEvent(o) \/ NtResetEvent(o) \/ NtPulseEvent(o)
           \/ \E n \in Releases : NtReleaseSemaphore(o, n)
  BY <1>2, SignalCallsStep
<1>3. CASE NtReleaseMutant(o)
  BY <1>3, NtReleaseMutantStep
<1>4. CASE CloseObject(o)
  BY <1>4, CloseObjectStep
<1>5. CASE \/ \E wait \in Waits : NtWaitForSingleObject(o, wait)
           \/ \E o2 \in Objects, type \in {"ANY", "ALL"}, wait \in Waits :
                NtWaitForMultipleObjects(o, o2, type, wait)
  BY <1>5, WaitCallsStep
<1>6. QED BY <1>1, <1>2, <1>3, <1>4, <1>5 DEF ObjectCall

---------------------------------------------------------------------------
(* The theorems.                                                           *)

LEMMA NextStep ==
  ASSUME IInv, [Next]_vars
  PROVE  StepOK
<1>1. CASE \E o \in Objects : ObjectCall(o)
  BY <1>1, ObjectCallStep
<1>2. CASE \E t \in Threads : ThreadCall(t)
  BY <1>2, ThreadCallStep
<1>3. CASE \E zero \in BOOLEAN : NtDelayExecution(zero)
  BY <1>3, NtDelayExecutionStep
<1>4. CASE NtTerminateProcess
  BY <1>4, NtTerminateProcessStep
<1>5. CASE BlockReturn
  BY <1>5, BlockReturnStep
<1>6. CASE ExecReturns
  BY <1>6, ExecReturnsStep
<1>7. CASE IdleLoop
  BY <1>7, IdleLoopStep
<1>8. CASE WindowClosed
  BY <1>8, WindowClosedStep
<1>9. CASE ClockEnds
  BY <1>9, ClockEndsStep
<1>10. CASE Spins
  BY <1>10, SameStep DEF Spins
<1>11. CASE UNCHANGED vars
  BY <1>11, SameStep DEF vars
<1>12. QED
  BY <1>1, <1>2, <1>3, <1>4, <1>5, <1>6, <1>7, <1>8, <1>9, <1>10, <1>11
     DEF Next, Exited, Hung

\* sync_satisfy_wait and NtReleaseMutant are the only writers of a mutant's
\* owner, and both name the thread that makes the call: no sequence of waits,
\* releases and preemptions takes a mutant from a thread or hands it on.
THEOREM HandoverCorrect == Spec => MutantHandover
<1>1. IInv /\ [Next]_vars => [OwnersKept]_vars
  BY NextStep DEF StepOK
<1>2. QED BY <1>1, Inductive, PTL DEF Spec, MutantHandover

\* The wait calls test every object before they satisfy the first one, and
\* the release calls test before they write: whatever time-out, wrong type,
\* full semaphore or foreign mutant a call reports, no object has changed.
THEOREM FailureCorrect == Spec => FailedCallChangesNothing
<1>1. IInv /\ [Next]_vars => [NothingOnFailure]_vars
  BY NextStep DEF StepOK
<1>2. QED BY <1>1, Inductive, PTL DEF Spec, FailedCallChangesNothing

\* Queueing at the tail, dispatching from the head and unlinking from the
\* middle, alone or one after the other inside one call, never let a thread
\* overtake one that was queued before it.
THEOREM FifoCorrect == Spec => FifoOrder
<1>1. IInv /\ [Next]_vars => [QueueKeepsOrder]_vars
  BY NextStep DEF StepOK
<1>2. QED BY <1>1, Inductive, PTL DEF Spec, FifoOrder
=============================================================================
