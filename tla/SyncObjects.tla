---------------------------- MODULE SyncObjects ----------------------------
(***************************************************************************)
(* The NT synchronisation objects of nt/sync.c: what creating one, testing *)
(* it and satisfying a wait on it do to its dispatcher header.  An object  *)
(* is a record; an object that does not exist (never created, or closed    *)
(* and freed) is NoObject.  A thread is named by its thread id, and the    *)
(* idle thread's id is the owner_thread_id 0 that means "no owner".        *)
(***************************************************************************)
EXTENDS Integers

CONSTANTS
  Threads,   \* the guest threads (their ids; never 0)
  Idle,      \* thread id 0: the idle thread, and "no owner"
  IntMax     \* the largest value of the C int (2^31 - 1 in the build)

ASSUME ThreadAssumption == Idle \notin Threads
ASSUME IntMaxAssumption == IntMax \in Nat \ {0}

Tids == Threads \cup {Idle}

EventTypes == {"EventNotification", "EventSynchronization"}
DispTypes == EventTypes \cup {"Semaphore", "Mutant"}

\* An int after the addition of two non-negative ones, which may have wrapped.
Wrap32(n) == IF n > IntMax THEN n - 2 * (IntMax + 1) ELSE n

\* A dispatcher header and the fields behind it, as calloc and the creating
\* function leave them.
Header(type, signal, limit, owner, depth) ==
  [type |-> type, signal |-> signal, limit |-> limit, owner |-> owner,
   depth |-> depth, abandoned |-> FALSE]

NoObject == Header("None", 0, 0, Idle, 0)

Object ==
  [type: DispTypes \cup {"None"}, signal: Int, limit: Int, owner: Tids,
   depth: Int, abandoned: BOOLEAN]

Exists(o) == o.type # "None"

CreateEvent(type, initial) == Header(type, IF initial THEN 1 ELSE 0, 0, Idle, 0)

CreateSemaphore(initial, limit) == Header("Semaphore", initial, limit, Idle, 0)

\* owner is Idle when the creator does not ask to be the initial owner.
CreateMutant(owner) ==
  IF owner = Idle THEN Header("Mutant", 1, 0, Idle, 0)
  ELSE Header("Mutant", -1, 0, owner, 1)

IsSignaled(o, tid) ==
  \/ Exists(o) /\ o.signal > 0
  \/ o.type = "Mutant" /\ o.owner = tid /\ tid # Idle

SatisfyWait(o, tid) ==
  CASE o.type = "EventSynchronization" -> [o EXCEPT !.signal = 0]
    [] o.type = "Semaphore" /\ o.signal > 0 -> [o EXCEPT !.signal = @ - 1]
    [] o.type = "Mutant" /\ o.signal > 0 ->
         [o EXCEPT !.signal = -1, !.owner = tid, !.depth = 1]
    [] o.type = "Mutant" /\ o.signal <= 0 /\ o.owner = tid ->
         [o EXCEPT !.signal = @ - 1, !.depth = @ + 1]
    [] OTHER -> o

(***************************************************************************)
(* The handle types of nt/handles.h the creating system calls register the *)
(* object under.  sync_get_header knows EVENT, SEMAPHORE and MUTEX, and    *)
(* NtWaitForSingleObject accepts the same three: NtCreateMutant registers  *)
(* MUTANT, which is neither.                                               *)
(***************************************************************************)
HandleType(o) ==
  IF o.type \in EventTypes THEN "EVENT"
  ELSE IF o.type = "Semaphore" THEN "SEMAPHORE"
  ELSE IF o.type = "Mutant" THEN "MUTANT" ELSE "NONE"

HasHeader(handleType) == handleType \in {"EVENT", "SEMAPHORE", "MUTEX"}
SingleWaitable(handleType) == handleType \in {"EVENT", "SEMAPHORE", "MUTEX"}

(***************************************************************************)
(* What every object that exists must look like: an event is 0 or 1, and a *)
(* mutant is either free (signalled, no owner, depth 0) or owned (not      *)
(* signalled, an owner, a positive depth).                                 *)
(***************************************************************************)
EventOK(o) == o.type \in EventTypes => o.signal \in {0, 1}

MutantOK(o) ==
  o.type = "Mutant" =>
    \/ o.signal = 1 /\ o.owner = Idle /\ o.depth = 0
    \/ o.signal < 0 /\ o.owner \in Threads /\ o.depth > 0

LimitOK(o) == o.type = "Semaphore" => o.signal <= o.limit
=============================================================================
