----------------------------- MODULE Dispatcher -----------------------------
(***************************************************************************)
(* The data of the thread scheduler and the C functions that other code    *)
(* calls on it: the run queue, contexts and switching, waiting and waking, *)
(* and the list of threads (thread/scheduler.c, thread/thread.c).          *)
(*                                                                         *)
(* One record k holds wbox_scheduler_t, the fields of every wbox_thread_t  *)
(* and the synchronisation objects.  Each C function is an operator from   *)
(* one such record to the next, with the function's name.                  *)
(*                                                                         *)
(* A register set is abstracted to the instruction stream it is a point    *)
(* of: k.cpu is the stream that the CPU registers continue, and a saved    *)
(* context records its stream and whether that stream has executed since   *)
(* the save (fresh = FALSE: restoring it runs code again).                 *)
(***************************************************************************)
EXTENDS SyncObjects, Sequences, FiniteSets, SequencesExt

CONSTANTS
  Main,         \* the main thread, which scheduler_init wraps
  Objects,      \* slots for synchronisation objects
  QuantumReset  \* THREAD_DEFAULT_QUANTUM

States == {"ABSENT", "INITIALIZED", "READY", "RUNNING", "WAITING",
           "TERMINATED"}

NoWait == [objs |-> <<>>, type |-> "ANY", armed |-> FALSE]

\* context_valid, and the point of execution the saved registers hold.
NoContext == [valid |-> FALSE, of |-> Idle, fresh |-> FALSE]

---------------------------------------------------------------------------
(***************************************************************************)
(* scheduler_init: the main thread runs, the idle thread is READY but in   *)
(* no list, and there is no other thread and no object.                    *)
(***************************************************************************)
InitialScheduler ==
  [current  |-> Main,
   ready    |-> <<>>,
   all      |-> {Main},
   idle     |-> FALSE,
   exitReq  |-> FALSE,
   exited   |-> FALSE,
   state    |-> [t \in Tids |-> IF t = Main THEN "RUNNING"
                                ELSE IF t = Idle THEN "READY"
                                ELSE "ABSENT"],
   quantum  |-> [t \in Tids |-> IF t = Main THEN QuantumReset ELSE 0],
   wait     |-> [t \in Threads |-> NoWait],
   ctx      |-> [t \in Tids |-> NoContext],
   cpu      |-> Main,
   obj      |-> [o \in Objects |-> NoObject],
   waitList |-> [o \in Objects |-> {}],
   handles  |-> {},
   freed    |-> {}]

---------------------------------------------------------------------------
(* The run queue: scheduler_add_ready and scheduler_remove_ready.          *)

\* Mutant of AddReady: a push on the head.
AddReadyAtHead(k, t) ==
  [k EXCEPT !.ready = <<t>> \o @, !.idle = FALSE,
            !.exitReq = IF k.idle THEN FALSE ELSE @]

AddReady(k, t) ==
  [k EXCEPT !.ready = Append(@, t),
            !.exitReq = IF k.idle THEN FALSE ELSE @,
            !.idle = FALSE]

Queued(q, t) == \E i \in DOMAIN q : q[i] = t

FirstNode(q, t) ==
  CHOOSE i \in DOMAIN q : q[i] = t /\ \A j \in 1..(i - 1) : q[j] # t

\* One node is unlinked, the first that is t.
Unlink(q, t) == IF Queued(q, t) THEN RemoveAt(q, FirstNode(q, t)) ELSE q

RemoveReady(k, t) == [k EXCEPT !.ready = Unlink(@, t)]

---------------------------------------------------------------------------
(* Contexts and switching: thread_save_context, thread_restore_context,    *)
(* scheduler_switch, scheduler_tick.                                       *)

SaveContext(k, t) ==
  [k EXCEPT !.ctx[t] = [valid |-> TRUE, of |-> k.cpu, fresh |-> TRUE]]

RestoreContext(k, t) ==
  [k EXCEPT !.cpu = IF k.ctx[t].valid THEN k.ctx[t].of ELSE @]

\* Guest instructions ran: every saved point of that stream is behind it.
Executed(k) ==
  [k EXCEPT !.ctx = [t \in Tids |->
     IF @[t].of = k.cpu THEN [@[t] EXCEPT !.fresh = FALSE] ELSE @[t]]]

SwitchTo(k, new) ==
  LET saved == IF k.state[k.current] = "RUNNING"
               THEN SaveContext(k, k.current) ELSE k
  IN [RestoreContext(saved, new) EXCEPT !.ready = Tail(@),
                                        !.current = new,
                                        !.state[new] = "RUNNING",
                                        !.idle = FALSE]

Switch(k) ==
  IF k.ready = <<>>
  THEN [k EXCEPT !.idle = TRUE, !.current = Idle, !.exitReq = TRUE]
  ELSE SwitchTo(k, Head(k.ready))

\* The idle thread has quantum and quantum_reset 0.
Reset(t) == IF t = Idle THEN 0 ELSE QuantumReset

\* Mutant of Expired: the decrement without its test for a positive quantum.
ExpiredExactly(k) == k.quantum[k.current] = 1

\* scheduler_tick decrements a positive quantum, and expires it at 0.
Expired(k) == k.quantum[k.current] <= 1

Tick(k) ==
  LET c == k.current IN
  IF ~Expired(k) THEN [k EXCEPT !.quantum[c] = @ - 1]
  ELSE LET r == [k EXCEPT !.quantum[c] = Reset(c)] IN
       IF k.ready = <<>> THEN r
       ELSE Switch(AddReady([r EXCEPT !.state[c] = "READY"], c))

---------------------------------------------------------------------------
(* Waiting and waking: the bookkeeping of scheduler_block_thread,          *)
(* scheduler_check_timeouts and scheduler_signal_object.                   *)

\* Mutant of Wake: the wait blocks stay linked.
WakeStillLinked(k, t) ==
  AddReady([k EXCEPT !.wait[t] = NoWait, !.state[t] = "READY"], t)

\* t's wait blocks leave every wait list, and t becomes READY.
Wake(k, t) ==
  AddReady([k EXCEPT
              !.waitList = [o \in Objects |-> {b \in @[o] : b[1] # t}],
              !.wait[t] = NoWait,
              !.state[t] = "READY"], t)

Waiting(k) == {t \in k.all : k.state[t] = "WAITING" /\ k.wait[t].armed}

\* One pass over all_threads after the deadlines have passed.  At most one
\* thread waits at any time (WaitListsMatch), so the pass wakes that one.
CheckTimeouts(k) ==
  IF Waiting(k) = {} THEN k ELSE Wake(k, CHOOSE t \in Waiting(k) : TRUE)

\* The objects an entry of the object array may name; a NULL entry (no such
\* object) is skipped by every loop over the array.
AllSignaled(k, objs, t) ==
  \A i \in DOMAIN objs : Exists(k.obj[objs[i]]) =>
                           IsSignaled(k.obj[objs[i]], t)

\* The array indices whose object satisfies a WaitAny.
SignaledAt(k, objs, t) ==
  {i \in DOMAIN objs : IsSignaled(k.obj[objs[i]], t)}

FirstSignaled(k, objs, t) ==
  CHOOSE i \in SignaledAt(k, objs, t) :
    \A j \in SignaledAt(k, objs, t) : i <= j

SatisfyEntry(k, o, t) == [k EXCEPT !.obj[o] = SatisfyWait(@, t)]

\* Satisfying every entry of the array in turn (an object may occur twice).
\* Bound: an array has at most two entries.
SatisfyAll(k, objs, t) ==
  IF Len(objs) = 1 THEN SatisfyEntry(k, objs[1], t)
  ELSE SatisfyEntry(SatisfyEntry(k, objs[1], t), objs[2], t)

\* The immediate part of a wait: can it be satisfied, and what it takes.
CanSatisfy(k, objs, type, t) ==
  IF type = "ANY" THEN SignaledAt(k, objs, t) # {} ELSE AllSignaled(k, objs, t)

Satisfy(k, objs, type, t) ==
  IF type = "ANY"
  THEN SatisfyEntry(k, objs[FirstSignaled(k, objs, t)], t)
  ELSE SatisfyAll(k, objs, t)

\* One node of the wait list of o: wake its thread if its wait can be
\* satisfied now, and stop after an object that is no longer signalled.
SignalNode(o, acc, t) ==
  LET w == acc.k.wait[t]
      can == IF w.type = "ANY" THEN IsSignaled(acc.k.obj[o], t)
             ELSE AllSignaled(acc.k, w.objs, t)
      took == IF w.type = "ANY"
              THEN SatisfyEntry(acc.k, o, t)
              ELSE SatisfyAll(acc.k, w.objs, t)
  IN IF acc.stop \/ acc.k.state[t] # "WAITING" \/ ~can THEN acc
     ELSE [k |-> Wake(took, t),
           stop |-> /\ took.obj[o].type \in {"EventSynchronization", "Semaphore"}
                    /\ ~IsSignaled(took.obj[o], Idle)]

\* The nodes of o's list from its head: a thread pushes its blocks on the
\* front in index order, and at most one thread has any (WaitListsMatch).
ListOf(k, o) == SetToSortSeq(k.waitList[o], LAMBDA a, b : a[2] > b[2])

SignalObject(k, o) ==
  IF ~HasHeader(HandleType(k.obj[o])) \/ k.waitList[o] = {} THEN k
  ELSE FoldLeft(LAMBDA acc, b : SignalNode(o, acc, b[1]),
                [k |-> k, stop |-> FALSE], ListOf(k, o)).k

\* A wait block <<t, i>> goes on the list of the i-th object of the wait.
PushBlocks(k, t, objs) ==
  [k EXCEPT !.waitList = [o \in Objects |->
     @[o] \cup {<<t, i>> : i \in {j \in DOMAIN objs :
                                   objs[j] = o /\ Exists(k.obj[o])}}]]

(***************************************************************************)
(* scheduler_block_thread from the point where the wait must block: push   *)
(* the wait blocks, save the context, become WAITING and switch away.      *)
(***************************************************************************)
ArmWait(k, objs, type) ==
  [PushBlocks(k, k.current, objs) EXCEPT
     !.wait[k.current] = [objs |-> objs, type |-> type, armed |-> TRUE]]

\* Mutant of BlockThread: the context is left for scheduler_switch to save.
BlockThreadUnsaved(k, objs, type) ==
  Switch([ArmWait(k, objs, type) EXCEPT !.state[k.current] = "WAITING"])

BlockThread(k, objs, type) ==
  Switch([SaveContext(ArmWait(k, objs, type), k.current)
            EXCEPT !.state[k.current] = "WAITING"])

Unblocked(k, t) ==
  [RemoveReady([k EXCEPT !.current = t], t) EXCEPT !.state[t] = "RUNNING",
                                                   !.idle = FALSE]

---------------------------------------------------------------------------
(* The list of threads: thread_create, scheduler_add_thread,               *)
(* scheduler_remove_thread.                                                *)

\* Mutant of AddThread: a thread created suspended is queued too.
AddThreadQueued(k, t) == AddReady([k EXCEPT !.all = @ \cup {t}], t)

AddThread(k, t) ==
  LET linked == [k EXCEPT !.all = @ \cup {t}]
  IN IF k.state[t] = "READY" THEN AddReady(linked, t) ELSE linked

\* thread_create, whose context starts at the thread's own entry point, and
\* the handle of the new thread.
NewThread(k, t, st) ==
  [k EXCEPT !.state[t] = st,
            !.quantum[t] = QuantumReset,
            !.ctx[t] = [valid |-> TRUE, of |-> t, fresh |-> TRUE],
            !.handles = @ \cup {t}]

RemoveThread(k, t) ==
  LET gone == RemoveReady([k EXCEPT !.all = @ \ {t}], t)
  IN IF k.current = t THEN Switch(gone) ELSE gone

\* The main loops switch away from the idle thread when somebody is ready.
LeaveIdle(k) ==
  IF k.current = Idle /\ k.ready # <<>> THEN Switch(k) ELSE k
=============================================================================
