----------------------------- MODULE Scheduler -----------------------------
(***************************************************************************)
(* The thread scheduler (thread/scheduler.c), the thread life cycle        *)
(* (thread/thread.c) and the thread and wait system calls of nt/ntdll.c,   *)
(* driven by the main loop of vm/vm.c.                                     *)
(*                                                                         *)
(* One host thread runs everything: the main loop calls exec386, which     *)
(* executes guest instructions of the CPU's registers; a SYSENTER enters a *)
(* system call, which may call scheduler_block_thread and return from it.  *)
(* A system call is therefore one action, except that a call that blocks   *)
(* is two (BlockEnter inside the call, BlockReturn), so that the states in *)
(* which a thread waits are states of the model.                           *)
(*                                                                         *)
(* vm is the record of module Dispatcher, whose operators are the C        *)
(* functions the system calls use.                                         *)
(***************************************************************************)
EXTENDS Dispatcher

CONSTANTS
  MaxDepth,     \* bound on how deep -signal_state of a mutant goes
  Limits,       \* the semaphore limits the guest asks for
  Releases,     \* the release counts the guest asks for
  CloseLive     \* whether the guest closes the handle of a live thread

ASSUME SchedulerAssumption ==
  /\ Main \in Threads
  /\ QuantumReset \in Nat \ {0}
  /\ MaxDepth \in Nat
  /\ Limits \subseteq 1..IntMax
  /\ Releases \subseteq 1..IntMax
  /\ CloseLive \in BOOLEAN

VARIABLES
  vm,     \* the scheduler, its threads and the synchronisation objects
  inExec, \* the host is inside exec386 (FALSE: it idles in the main loop)
  clock,  \* the cycle counter of exec386 against timer_target
  frame,  \* the scheduler_block_thread call on the host stack, or NoFrame
  reply   \* the last syscall_return: what it returned, from whom, to whom

vars == <<vm, inExec, clock, frame, reply>>

\* exec386 leaves its inner loop when an instruction asked for it, or when
\* the cycles executed (tsc) have passed timer_target; the 1000 cycles it is
\* given do not end it.  "runs": not there yet.  "over": passed, with the
\* count cycles far below 0, so that exec386 returns at once until the calls
\* to come have paid it back.  "spins": cycles is positive again, and the
\* outer loop turns without executing anything.
Clocks == {"runs", "over", "spins"}

NoFrame == [thread |-> Idle, stream |-> Idle]
NoReply == [status |-> "NONE", wait |-> "NONE", from |-> Main, to |-> Main]

---------------------------------------------------------------------------
\* scheduler_init has run, and vm_start enters exec386.
Init ==
  /\ vm = InitialScheduler
  /\ inExec = TRUE
  /\ clock = "runs"
  /\ frame = NoFrame
  /\ reply = NoReply

---------------------------------------------------------------------------
(***************************************************************************)
(* System calls.  Guest code of the stream vm.cpu executes up to a         *)
(* SYSENTER, and the call acts for vm.current.                             *)
(***************************************************************************)
GuestRuns == /\ inExec /\ clock = "runs"
             /\ frame = NoFrame
             /\ vm.current # Idle
             /\ ~vm.exitReq

Me == vm.current

\* syscall_return(status) after the call turned the scheduler into k: it
\* writes EAX of the registers that are in the CPU now.
Return(k, status, wait) ==
  /\ vm' = k
  /\ reply' = [status |-> status, wait |-> wait, from |-> vm.cpu, to |-> k.cpu]
  /\ UNCHANGED <<inExec, clock, frame>>

Call(k) == GuestRuns /\ Return(k, "SUCCESS", "NONE")

BlockEnter(objs, type) ==
  /\ vm' = BlockThread(Executed(vm), objs, type)
  /\ frame' = [thread |-> Me, stream |-> vm.cpu]
  /\ UNCHANGED <<inExec, clock, reply>>

(***************************************************************************)
(* The rest of scheduler_block_thread: no guest code runs; the loop checks *)
(* the timeouts and advances the virtual clock past the deadline, so the   *)
(* wait times out; the thread is made current again, taken from the ready  *)
(* queue and returned to.  The registers stay as the switch left them.     *)
(***************************************************************************)
BlockReturn ==
  /\ frame # NoFrame
  /\ vm' = Unblocked(CheckTimeouts(vm), frame.thread)
  /\ reply' = [status |-> "TIMEOUT", wait |-> "FINITE",
               from |-> frame.stream, to |-> vm.cpu]
  /\ frame' = NoFrame
  /\ UNCHANGED <<inExec, clock>>

(***************************************************************************)
(* The three outcomes of a wait.  wait is POLL (a timeout of 0), INFINITE  *)
(* (no timeout) or FINITE.  scheduler_block_thread gets the timeout 0 for  *)
(* an infinite wait, and returns STATUS_TIMEOUT for a timeout of 0.        *)
(***************************************************************************)
Waits == {"POLL", "INFINITE", "FINITE"}

\* Bound: a mutant is not acquired more than MaxDepth times over.
WithinDepth(objs) ==
  \A i \in DOMAIN objs :
    vm.obj[objs[i]].type = "Mutant" => -vm.obj[objs[i]].signal < MaxDepth

\* Mutant of DoWait: objects are taken one by one before all are known to be
\* signalled.
DoWaitGreedy(objs, type, wait) ==
  /\ GuestRuns
  /\ WithinDepth(objs)
  /\ Return(SatisfyAll(Executed(vm), objs, Me),
            IF CanSatisfy(vm, objs, type, Me) THEN "SUCCESS" ELSE "TIMEOUT", wait)

DoWait(objs, type, wait) ==
  /\ GuestRuns
  /\ WithinDepth(objs)
  /\ IF CanSatisfy(vm, objs, type, Me)
     THEN Return(Satisfy(Executed(vm), objs, type, Me), "SUCCESS", wait)
     ELSE IF wait # "FINITE"
     THEN Return(Executed(vm), "TIMEOUT", wait)
     ELSE BlockEnter(objs, type)

NtWaitForSingleObject(o, wait) ==
  /\ Exists(vm.obj[o])
  /\ IF SingleWaitable(HandleType(vm.obj[o]))
     THEN DoWait(<<o>>, "ANY", wait)
     ELSE GuestRuns /\ Return(Executed(vm), "TYPE_MISMATCH", wait)

\* Entries may repeat, and may name no object.
NtWaitForMultipleObjects(o1, o2, type, wait) == DoWait(<<o1, o2>>, type, wait)

\* A delay of 0 returns at once; any other blocks on no object.
NtDelayExecution(zero) ==
  /\ GuestRuns
  /\ IF zero THEN Return(Executed(vm), "SUCCESS", "NONE")
     ELSE BlockEnter(<<>>, "ANY")

---------------------------------------------------------------------------
(* Synchronisation objects.                                                *)

NewObject(o, record) ==
  /\ ~Exists(vm.obj[o])
  /\ Call([Executed(vm) EXCEPT !.obj[o] = record])

NtCreateEvent(o, type, initial) == NewObject(o, CreateEvent(type, initial))

NtCreateSemaphore(o, initial, limit) ==
  /\ initial <= limit
  /\ NewObject(o, CreateSemaphore(initial, limit))

NtCreateMutant(o, owned) ==
  NewObject(o, CreateMutant(IF owned THEN Me ELSE Idle))

SetSignal(k, o, n) == [k EXCEPT !.obj[o].signal = n]

NtSetEvent(o) ==
  /\ HandleType(vm.obj[o]) = "EVENT"
  /\ Call(SignalObject(SetSignal(Executed(vm), o, 1), o))

\* NtClearEvent is the same without the previous state.
NtResetEvent(o) ==
  /\ HandleType(vm.obj[o]) = "EVENT"
  /\ Call(SetSignal(Executed(vm), o, 0))

NtPulseEvent(o) ==
  /\ HandleType(vm.obj[o]) = "EVENT"
  /\ Call(SetSignal(SignalObject(SetSignal(Executed(vm), o, 1), o), o, 0))

\* The sum with the count is computed in int: when it overflows, the limit
\* test may see the wrapped value or the mathematical one.
NtReleaseSemaphore(o, n) ==
  /\ HandleType(vm.obj[o]) = "SEMAPHORE"
  /\ LET sum == vm.obj[o].signal + n IN
     \E tested \in {sum, Wrap32(sum)} :
       IF tested > vm.obj[o].limit
       THEN GuestRuns /\ Return(Executed(vm), "LIMIT_EXCEEDED", "NONE")
       ELSE Call(SignalObject(SetSignal(Executed(vm), o, Wrap32(sum)), o))

\* Only the last release of a recursive acquisition touches signal_state.
Released(m) ==
  IF m.depth = 1 THEN [m EXCEPT !.signal = 1, !.owner = Idle, !.depth = 0]
  ELSE [m EXCEPT !.depth = @ - 1]

\* Mutant of NtReleaseMutant: no owner test.
NtReleaseMutantUnchecked(o) ==
  /\ HandleType(vm.obj[o]) = "MUTANT"
  /\ vm.obj[o].depth > 0
  /\ Call(SignalObject([Executed(vm) EXCEPT !.obj[o] = Released(@)], o))

NtReleaseMutant(o) ==
  /\ HandleType(vm.obj[o]) = "MUTANT"
  /\ IF vm.obj[o].owner # Me
     THEN GuestRuns /\ Return(Executed(vm), "NOT_OWNED", "NONE")
     ELSE LET k == [Executed(vm) EXCEPT !.obj[o] = Released(@)]
          IN Call(IF k.obj[o].depth = 0 THEN SignalObject(k, o) ELSE k)

\* NtClose of an object's handle frees the object (handles_remove).
CloseObject(o) ==
  /\ Exists(vm.obj[o])
  /\ Call([Executed(vm) EXCEPT !.obj[o] = NoObject])

---------------------------------------------------------------------------
(* Threads.  A thread other than the main one is named by its handle.      *)

NtCreateThread(t, suspended) ==
  /\ vm.state[t] = "ABSENT"
  /\ LET st == IF suspended THEN "INITIALIZED" ELSE "READY"
     IN Call(AddThread(NewThread(Executed(vm), t, st), t))

Targets == vm.handles \cup {Me}

\* thread_terminate leaves the mutants the thread owns as they are.
NtTerminateThread(t) ==
  /\ t \in Targets
  /\ LET k == RemoveThread([Executed(vm) EXCEPT !.state[t] = "TERMINATED"], t)
     IN Call([k EXCEPT !.exited = k.all = {}])

\* Mutant of NtResumeThread: it does not look at the state.
NtResumeThreadAny(t) ==
  /\ t \in vm.handles
  /\ Call(AddReady([Executed(vm) EXCEPT !.state[t] = "READY"], t))

NtResumeThread(t) ==
  /\ t \in vm.handles
  /\ LET k == Executed(vm)
     IN Call(IF vm.state[t] = "INITIALIZED"
             THEN AddReady([k EXCEPT !.state[t] = "READY"], t) ELSE k)

\* Suspending the current thread switches away without saving its context:
\* its state is no longer RUNNING.
NtSuspendThread(t) ==
  /\ t \in vm.handles
  /\ LET k == Executed(vm)
         queued == IF vm.state[t] = "READY" THEN RemoveReady(k, t) ELSE k
         stopped == IF vm.state[t] \in {"READY", "RUNNING"}
                    THEN [queued EXCEPT !.state[t] = "INITIALIZED"] ELSE queued
     IN Call(IF t = Me THEN Switch(stopped) ELSE stopped)

\* NtClose of a thread's handle frees the wbox_thread_t, linked or not.
\* Bound: the guest closes live threads' handles only under CloseLive.
Closable ==
  IF CloseLive THEN vm.handles
  ELSE {t \in vm.handles : vm.state[t] = "TERMINATED"}

CloseThread(t) ==
  /\ t \in Closable
  /\ Call([Executed(vm) EXCEPT !.handles = @ \ {t}, !.freed = @ \cup {t}])

\* Mutant of NtTerminateProcess: vm_request_exit alone.
NtTerminateProcessAsks == Call([Executed(vm) EXCEPT !.exited = TRUE])

NtTerminateProcess ==
  Call([Executed(vm) EXCEPT !.exited = TRUE, !.exitReq = TRUE])

---------------------------------------------------------------------------
(***************************************************************************)
(* exec386 and the main loop of vm_start.  When exec386 returns, the       *)
(* scheduler ticks, the timeouts are checked, and if the idle thread is    *)
(* current a ready thread is switched to.  The loop then runs exec386      *)
(* again unless the idle thread is current.                                *)
(***************************************************************************)
\* tsc passes timer_target while guest code runs.
ClockEnds ==
  /\ GuestRuns
  /\ vm' = Executed(vm)
  /\ clock' = "over"
  /\ UNCHANGED <<inExec, frame, reply>>

\* The calls of exec386 have paid the cycles back.
Spins ==
  /\ inExec /\ clock = "over"
  /\ clock' = "spins"
  /\ UNCHANGED <<vm, inExec, frame, reply>>

Hung == clock = "spins" /\ UNCHANGED vars

ExecDone == inExec /\ frame = NoFrame /\ (vm.exitReq \/ clock = "over")

LoopsOn(k) == k.current # Idle /\ ~k.exited

ExecReturns ==
  /\ ExecDone
  /\ vm' = LeaveIdle(CheckTimeouts(Tick(vm)))
  /\ inExec' = LoopsOn(vm')
  /\ UNCHANGED <<clock, frame, reply>>

IdleLoop ==
  /\ ~inExec /\ ~vm.exited
  /\ vm' = LeaveIdle(CheckTimeouts(vm))
  /\ inExec' = LoopsOn(vm')
  /\ UNCHANGED <<clock, frame, reply>>

\* In GUI mode display_poll_events, between the tick and the timeouts, may
\* end the loop.
WindowClosed ==
  /\ frame = NoFrame
  /\ \/ ExecDone /\ vm' = [Tick(vm) EXCEPT !.exited = TRUE]
     \/ ~inExec /\ ~vm.exited /\ vm' = [vm EXCEPT !.exited = TRUE]
  /\ inExec' = FALSE
  /\ UNCHANGED <<clock, frame, reply>>

\* vm_start has returned.
Exited == ~inExec /\ vm.exited /\ UNCHANGED vars

ObjectCall(o) ==
  \/ \E type \in EventTypes, initial \in BOOLEAN : NtCreateEvent(o, type, initial)
  \/ \E limit \in Limits, initial \in 0..IntMax : NtCreateSemaphore(o, initial, limit)
  \/ \E owned \in BOOLEAN : NtCreateMutant(o, owned)
  \/ NtSetEvent(o)
  \/ NtResetEvent(o)
  \/ NtPulseEvent(o)
  \/ \E n \in Releases : NtReleaseSemaphore(o, n)
  \/ NtReleaseMutant(o)
  \/ CloseObject(o)
  \/ \E wait \in Waits : NtWaitForSingleObject(o, wait)
  \/ \E o2 \in Objects, type \in {"ANY", "ALL"}, wait \in Waits :
       NtWaitForMultipleObjects(o, o2, type, wait)

ThreadCall(t) ==
  \/ \E suspended \in BOOLEAN : NtCreateThread(t, suspended)
  \/ NtTerminateThread(t)
  \/ NtResumeThread(t)
  \/ NtSuspendThread(t)
  \/ CloseThread(t)

Next ==
  \/ \E o \in Objects : ObjectCall(o)
  \/ \E t \in Threads : ThreadCall(t)
  \/ \E zero \in BOOLEAN : NtDelayExecution(zero)
  \/ NtTerminateProcess
  \/ BlockReturn
  \/ ClockEnds
  \/ Spins
  \/ Hung
  \/ ExecReturns
  \/ IdleLoop
  \/ WindowClosed
  \/ Exited

Spec == Init /\ [][Next]_vars

(***************************************************************************)
(* Every instruction costs cycles and timer_target is never moved on, so   *)
(* the clock of a guest that keeps executing ends, however often it enters *)
(* a blocking call in between (strong fairness), and every exec386(1000)   *)
(* pays 1000 cycles back.  The host always carries on: out of an exec386   *)
(* that is done, with the rest of a blocking call and with the idle loop.  *)
(* Nothing obliges guest code to make calls.                               *)
(***************************************************************************)
FairSpec == /\ Spec
            /\ SF_vars(ClockEnds)
            /\ WF_vars(Spins)
            /\ WF_vars(ExecReturns)
            /\ WF_vars(BlockReturn)
            /\ WF_vars(IdleLoop)

---------------------------------------------------------------------------
(* Properties.                                                             *)

Context == [valid: BOOLEAN, of: Tids, fresh: BOOLEAN]
Wait == [objs: Seq(Objects), type: {"ANY", "ALL"}, armed: BOOLEAN]

\* The fields of the scheduler, its threads and the objects.
VM == [current: Tids, ready: Seq(Tids), all: SUBSET Threads,
       idle: BOOLEAN, exitReq: BOOLEAN, exited: BOOLEAN,
       state: [Tids -> States], quantum: [Tids -> 0..QuantumReset],
       wait: [Threads -> Wait], ctx: [Tids -> Context], cpu: Tids,
       obj: [Objects -> Object],
       waitList: [Objects -> SUBSET (Threads \X (1..2))],
       handles: SUBSET Threads, freed: SUBSET Threads]

\* The type invariant: every field of the scheduler, the threads and the
\* objects has its type; the quantum never underflows.
TypeOK ==
  /\ vm \in VM
  /\ inExec \in BOOLEAN /\ clock \in Clocks
  /\ frame \in [thread: Tids, stream: Tids]

\* The run queue holds exactly the READY threads of all_threads, each once
\* (scheduler_add_ready appends without looking, so this rests on every
\* caller), and never the idle thread, although that is READY for ever and
\* scheduler_tick would queue it.
Distinct(q) == \A i, j \in DOMAIN q : q[i] = q[j] => i = j

QueueOK(k) ==
  /\ Distinct(k.ready)
  /\ \A t \in Tids : Queued(k.ready, t) <=> (t \in k.all /\ k.state[t] = "READY")

ReadyQueueSound == QueueOK(vm)

\* all_threads, which decides when the program has ended, links every thread
\* that was created and not terminated, and no other.
LinkedOK(k) == k.all = {t \in Threads : k.state[t] \notin {"ABSENT", "TERMINATED"}}

LinkedIsAlive == LinkedOK(vm)

\* Between system calls the current thread is the idle thread or a linked
\* thread in state RUNNING: every path that takes the CPU away from a thread
\* (suspend, terminate, preempt, block) also replaces current_thread.
RunsOK(k) ==
  k.current = Idle \/ (k.current \in k.all /\ k.state[k.current] = "RUNNING")

CurrentRuns == frame = NoFrame => RunsOK(vm)

\* The idle flag, the idle thread and the exit request move together: the
\* scheduler is idle only with an empty run queue, the guest is not executed
\* then (exec386 was told to exit), and add_ready withdraws the request.
IdleOK(k) ==
  /\ k.idle => k.current = Idle /\ k.ready = <<>> /\ k.exitReq
  /\ k.current = Idle => k.idle
  /\ k.exitReq => k.idle \/ k.exited

IdleMeansNoWork == IdleOK(vm)

\* The run queue, the list of threads, the current thread and the idle state
\* agree, whatever is created, suspended, resumed, preempted and terminated.
DispatchSound == ReadyQueueSound /\ LinkedIsAlive /\ CurrentRuns /\ IdleMeansNoWork

\* Only the thread of the scheduler_block_thread call in progress waits, and
\* the wait lists hold its blocks and nothing else: no block dangles once
\* the call has returned, and none is left on an object that is freed.
WaitsOK(k, waiter) ==
  /\ \A t \in Threads : k.state[t] = "WAITING" <=> t = waiter
  /\ \A t \in Threads : IF t = waiter THEN k.wait[t].armed ELSE k.wait[t] = NoWait
  /\ \A o \in Objects :
       k.waitList[o] =
         {b \in Threads \X (1..2) :
            /\ b[1] = waiter
            /\ b[2] \in DOMAIN k.wait[waiter].objs
            /\ k.wait[waiter].objs[b[2]] = o /\ Exists(k.obj[o])}

WaitListsMatch == WaitsOK(vm, frame.thread)

\* While a thread waits, its saved context is the point at which its own
\* code entered the call ("this is critical!", scheduler.c:414).
WaitSavesContext ==
  frame # NoFrame =>
    vm.ctx[frame.thread] = [valid |-> TRUE, of |-> frame.stream, fresh |-> TRUE]

\* A semaphore's count never passes its limit, whatever counts are released,
\* even when the sum overflows and comes out negative.
SemaphoreWithinLimit == \A o \in Objects : LimitOK(vm.obj[o])

\* An event is 0 or 1, and the three fields of a mutant agree: free with no
\* owner and depth 0, or owned by a guest thread with a positive depth.
MutantSound == \A o \in Objects : EventOK(vm.obj[o]) /\ MutantOK(vm.obj[o])

\* The waits and the objects together, at every point between and inside the
\* calls: no dangling wait block, no overrun limit, no half-owned mutant.
ObjectsSound == WaitListsMatch /\ SemaphoreWithinLimit /\ MutantSound

\* A mutant's owner changes only from none to the calling thread or from the
\* calling thread to none: it is never taken from its owner, nor handed on.
OwnerKept(m, n, caller) ==
  m.type = "Mutant" /\ n.type = "Mutant" /\ m.owner # n.owner =>
    \/ m.owner = Idle /\ n.owner = caller
    \/ m.owner = caller /\ n.owner = Idle

OwnersKept == \A o \in Objects : OwnerKept(vm.obj[o], vm'.obj[o], vm.current)
MutantHandover == [][OwnersKept]_vars

\* A call that reports failure has taken nothing and set nothing: a WaitAll
\* that times out leaves even those of its objects that were signalled.
Failures == {"TIMEOUT", "TYPE_MISMATCH", "LIMIT_EXCEEDED", "NOT_OWNED"}
NothingOnFailure == reply'.status \in Failures => vm'.obj = vm.obj
FailedCallChangesNothing == [][NothingOnFailure]_vars

\* A terminated thread is never queued or run again, whatever is resumed,
\* suspended or terminated through handles that are still open.
TerminatedIsFinal ==
  [][\A t \in Threads : vm.state[t] = "TERMINATED" => vm'.state[t] = "TERMINATED"]_vars

\* The run queue is first in, first out: whatever is queued, removed or
\* dispatched in a step, a thread that stays queued stays ahead of every
\* thread that was behind it or not queued.
Fifo(q, r) ==
  \A i \in DOMAIN q, m, n \in DOMAIN r :
    r[m] = q[i] /\ (\A j \in 1..i : q[j] # r[n]) => m < n

QueueKeepsOrder == Fifo(vm.ready, vm'.ready)
FifoOrder == [][QueueKeepsOrder]_vars

\* Only a request to exit takes the host out of exec386 in time, and the
\* calls that end the program or leave nobody to run raise it each in its
\* own place (sys_process.c:52, scheduler.c:231), apart from the flag that
\* ends the main loop: whoever ends the program, and whoever is the last
\* thread to stop, no guest code runs on.
NobodyRuns == vm.exited \/ (frame = NoFrame /\ vm.current = Idle)
EndStopsGuest == NobodyRuns ~> ~inExec

---------------------------------------------------------------------------
(* What the source's comments promise and the code does not do; each is    *)
(* checked by a run that finds it violated.                                *)

\* scheduler.h: scheduler_tick is "Called every N CPU cycles from main loop",
\* and preempts.  Every queued thread leaves the queue (it is dispatched,
\* suspended or terminated) unless the program exits.
QueuedIsDispatched ==
  \A t \in Threads :
    Queued(vm.ready, t) ~> vm.exited \/ ~Queued(vm.ready, t)

\* scheduler.h: scheduler_switch "Saves current context, restores next
\* thread's context".  A queued thread's saved context is where its own code
\* stopped.
QueuedContextFresh ==
  \A i \in DOMAIN vm.ready :
    vm.ctx[vm.ready[i]] = [valid |-> TRUE, of |-> vm.ready[i], fresh |-> TRUE]

=============================================================================
