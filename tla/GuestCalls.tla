----------------------------- MODULE GuestCalls -----------------------------
(***************************************************************************)
(* Guest code that the host calls and waits for: window procedures         *)
(* (user/user_callback.c) and DLL entry points (vm_call_dll_entry and      *)
(* vm_init_dlls in vm/vm.c), composed with the threads of module           *)
(* Dispatcher.                                                             *)
(*                                                                         *)
(* Each such call is a C function that saves the registers, points the CPU *)
(* at guest code, runs exec386 in a loop of its own until a flag is set,   *)
(* and restores the registers.  The guest code may make a system call that *)
(* calls the guest again, so these functions nest on the host's stack:     *)
(* calls, innermost last.  Window procedures also share the global array   *)
(* g_callback_stack (slots) and its depth, which every thread uses.        *)
(*                                                                         *)
(* The system calls that switch threads work inside a nested loop too, but *)
(* no nested loop ticks or looks at the current thread.  A wait blocks and *)
(* times out within one system call (module Scheduler), so it is one step. *)
(*                                                                         *)
(* A run is one stream of guest instructions that the host started; vm.cpu *)
(* is a run or, outside every call, a thread.                              *)
(***************************************************************************)
EXTENDS Dispatcher

CONSTANTS
  DllRuns,    \* the runs of the DLL entry points, in the order of the calls
  CallRuns,   \* bound: the runs of window procedures, in the order of the calls
  Windows,    \* the windows that have a window procedure
  Copied,     \* those with a copy in guest memory (guest_wnd_va)
  NoWnd,      \* hwnd 0
  NoRun,      \* no result was stored
  MaxDepth    \* MAX_CALLBACK_DEPTH

RunSet == {DllRuns[i] : i \in DOMAIN DllRuns} \cup
          {CallRuns[i] : i \in DOMAIN CallRuns}

ASSUME GuestCallsAssumption ==
  /\ Main \in Threads
  /\ DllRuns \in Seq(RunSet) /\ CallRuns \in Seq(RunSet)
  /\ \A i \in DOMAIN DllRuns, j \in DOMAIN CallRuns : DllRuns[i] # CallRuns[j]
  /\ QuantumReset \in Nat \ {0}
  /\ Copied \subseteq Windows
  /\ NoWnd \notin Windows
  /\ MaxDepth \in Nat \ {0}

VARIABLES
  vm,       \* the scheduler and the registers (module Dispatcher)
  inExec,   \* the host is inside exec386 of the innermost loop
  calls,    \* the host's stack of calls into the guest
  slots,    \* g_callback_stack
  depth,    \* g_callback_depth
  cache,    \* the window in CallbackWnd of the main thread's TEB
  dllDone,  \* dll_init_done: NoRun, or the run that set it
  dlls,     \* how many DLL entry points have been called
  started,  \* main has entered vm_start
  made,     \* how many window procedures have been started
  answer    \* the last call that ended: its run, its result, its caller

vars == <<vm, inExec, calls, slots, depth, cache, dllDone, dlls, started,
          made, answer>>

Streams == Tids \cup RunSet

EmptySlot == [saved |-> Main, completed |-> FALSE, result |-> NoRun]
NoAnswer == [of |-> NoRun, from |-> NoRun, saved |-> Main, to |-> Main,
             mixed |-> FALSE]

Init ==
  /\ vm = InitialScheduler
  /\ inExec = FALSE
  /\ calls = <<>>
  /\ slots = [i \in 1..MaxDepth |-> EmptySlot]
  /\ depth = 0
  /\ cache = NoWnd
  /\ dllDone = NoRun
  /\ dlls = 0
  /\ started = FALSE
  /\ made = 0
  /\ answer = NoAnswer

Innermost == calls[Len(calls)]
Outer == SubSeq(calls, 1, Len(calls) - 1)
In(kind) == calls # <<>> /\ Innermost.kind = kind

---------------------------------------------------------------------------
(***************************************************************************)
(* System calls about threads and the process.  exec386 looks at           *)
(* cpu_exit_requested after the instruction.  (The tick that follows in    *)
(* vm_start finds the idle thread current or the program ended.)  A call   *)
(* in progress is mixed when another thread or other registers took over   *)
(* before it ended.                                                        *)
(***************************************************************************)
Marked(k) ==
  [i \in DOMAIN calls |->
     [calls[i] EXCEPT !.mixed = @ \/ k.current # vm.current \/ k.cpu # vm.cpu]]

GuestStep(k) ==
  /\ inExec
  /\ vm' = k
  /\ inExec' = ~k.exitReq
  /\ calls' = Marked(k)
  /\ answer' = NoAnswer
  /\ UNCHANGED <<slots, depth, cache, dllDone, dlls, started, made>>

NtCreateThread(t) ==
  /\ vm.state[t] = "ABSENT"
  /\ GuestStep(AddThread(NewThread(vm, t, "READY"), t))

\* NULL or -1 names the current thread, the idle thread included.
NtTerminateThread(t) ==
  /\ t \in vm.handles \cup {vm.current}
  /\ LET k == RemoveThread([vm EXCEPT !.state[t] = "TERMINATED"], t)
     IN GuestStep([k EXCEPT !.exited = @ \/ k.all = {}])

NtSuspendThread(t) ==
  /\ t \in vm.handles
  /\ LET k == IF vm.state[t] = "READY" THEN RemoveReady(vm, t) ELSE vm
         stopped == IF vm.state[t] \in {"READY", "RUNNING"}
                    THEN [k EXCEPT !.state[t] = "INITIALIZED"] ELSE k
     IN GuestStep(IF t = vm.current THEN Switch(stopped) ELSE stopped)

NtResumeThread(t) ==
  /\ t \in vm.handles
  /\ GuestStep(IF vm.state[t] = "INITIALIZED"
               THEN AddReady([vm EXCEPT !.state[t] = "READY"], t) ELSE vm)

\* The registers stay those of the thread that scheduler_switch chose.
NtDelayExecution ==
  /\ vm.current # Idle
  /\ GuestStep(Unblocked(CheckTimeouts(BlockThread(vm, <<>>, "ANY")), vm.current))

NtTerminateProcess == GuestStep([vm EXCEPT !.exited = TRUE, !.exitReq = TRUE])

---------------------------------------------------------------------------
(* Entering and leaving a window procedure: user_call_wndproc_addr.        *)

Opened(s) == [saved |-> s, completed |-> FALSE, result |-> NoRun]

\* Mutant of FillSlot: the flag and the result of the last use stay.
FillSlotStale(i, s) == [slots EXCEPT ![i].saved = s]

\* The slot takes the registers; completed and result are reset.
FillSlot(i, s) == [slots EXCEPT ![i] = Opened(s)]

\* The procedure of w is called from the registers s with d slots in use.
\* A procedure that is called while the program exits does not run.
Enter(w, send, outer, s, d) ==
  IF d = MaxDepth \/ vm.exited
  THEN /\ calls' = outer
       /\ slots' = IF d = MaxDepth THEN slots ELSE FillSlot(d + 1, s)
       /\ depth' = d
       /\ cache' = IF d < MaxDepth /\ w \in Copied THEN NoWnd ELSE cache
       /\ vm' = [vm EXCEPT !.cpu = s, !.exitReq = @ /\ d = MaxDepth /\ inExec]
       /\ inExec' = TRUE
       /\ UNCHANGED made
  ELSE /\ calls' = Append(outer, [kind |-> "WNDPROC", run |-> CallRuns[made + 1],
                                  saved |-> s, slot |-> d + 1, wnd |-> w,
                                  send |-> send, mixed |-> FALSE])
       /\ slots' = FillSlot(d + 1, s)
       /\ depth' = d + 1
       /\ cache' = IF w \in Copied THEN w ELSE cache
       /\ vm' = [vm EXCEPT !.cpu = CallRuns[made + 1],
                           !.exitReq = @ /\ inExec]
       /\ inExec' = FALSE
       /\ made' = made + 1

\* Bound: there is a run for this call and for every WM_CREATE to come.
RunsLeft(send) ==
  made + (IF send = "FIRST" THEN 2 ELSE 1)
    + Cardinality({i \in DOMAIN calls : calls[i].send = "FIRST"}) <= Len(CallRuns)

(***************************************************************************)
(* DispatchMessage and SendMessage call the procedure once (LAST).         *)
(* CreateWindowEx sends WM_NCCREATE and then WM_CREATE (FIRST), without a  *)
(* guest instruction in between.                                           *)
(***************************************************************************)
CallWindow(w, send) ==
  /\ inExec /\ RunsLeft(send)
  /\ Enter(w, send, calls, vm.cpu, depth)
  /\ answer' = NoAnswer
  /\ UNCHANGED <<dllDone, dlls, started>>

\* user_callback_return: the callback on top of the global stack.
CallbackReturn ==
  slots' = [slots EXCEPT ![depth].completed = TRUE, ![depth].result = vm.cpu]

\* A window procedure returns, by its return stub or by NtCallbackReturn.
WndProcReturn ==
  /\ inExec
  /\ vm.cpu \in {CallRuns[i] : i \in DOMAIN CallRuns}
  /\ IF depth = 0 THEN UNCHANGED <<slots, vm>>
     ELSE CallbackReturn /\ vm' = [vm EXCEPT !.exitReq = TRUE]
  /\ inExec' = ~vm'.exitReq
  /\ answer' = NoAnswer
  /\ UNCHANGED <<calls, depth, cache, dllDone, dlls, started, made>>

\* A DLL's entry point returns to its stub.
DllInitDone ==
  /\ inExec
  /\ vm.cpu \in {DllRuns[i] : i \in DOMAIN DllRuns}
  /\ dllDone' = vm.cpu
  /\ vm' = [vm EXCEPT !.exitReq = TRUE]
  /\ inExec' = FALSE
  /\ answer' = NoAnswer
  /\ UNCHANGED <<calls, slots, depth, cache, dlls, started, made>>

---------------------------------------------------------------------------
(***************************************************************************)
(* The host's loops.  exec386 returns to the innermost; only the one of    *)
(* vm_start ticks.  Without a request to exit exec386 returns only once    *)
(* tsc has passed timer_target, and executes nothing from then on (module  *)
(* Scheduler): bound: this module ends there.                              *)
(***************************************************************************)
ExecReturns ==
  /\ inExec /\ vm.exitReq
  /\ inExec' = FALSE
  /\ vm' = IF calls = <<>> THEN LeaveIdle(Tick(vm)) ELSE vm
  /\ answer' = NoAnswer
  /\ UNCHANGED <<calls, slots, depth, cache, dllDone, dlls, started, made>>

Again ==
  /\ inExec' = TRUE
  /\ answer' = NoAnswer
  /\ UNCHANGED <<vm, calls, slots, depth, cache, dllDone, dlls, started, made>>

\* Mutant of CallbackOver: the loop does not look at exit_requested.
CallbackOverCompletedOnly == slots[Innermost.slot].completed

CallbackOver == slots[Innermost.slot].completed \/ vm.exited

CallbackLoop ==
  /\ ~inExec
  /\ In("WNDPROC")
  /\ ~CallbackOver
  /\ Again

\* Mutant of CacheAfter: the entry is left for the next callback to replace.
CacheAfterKept(f) == cache

CacheAfter(f) == IF f.wnd \in Copied THEN NoWnd ELSE cache

\* Mutant of DepthAfter: a callback cut short by an exit keeps its slot.
DepthAfterExit == IF vm.exited THEN depth ELSE depth - 1

DepthAfter == depth - 1

\* The end of a callback: restore the registers, whoever's they are by now,
\* and return to the system call that made it.
EndCallback ==
  LET f == Innermost
      s == slots[f.slot].saved
  IN /\ answer' = [of |-> f.run, from |-> slots[f.slot].result,
                   saved |-> f.saved, to |-> s, mixed |-> f.mixed]
     /\ IF f.send = "FIRST"
        THEN Enter(f.wnd, "LAST", Outer, s, DepthAfter)
        ELSE /\ calls' = Outer
             /\ depth' = DepthAfter
             /\ cache' = CacheAfter(f)
             /\ vm' = [vm EXCEPT !.cpu = s, !.exitReq = FALSE]
             /\ inExec' = TRUE
             /\ UNCHANGED <<slots, made>>
     /\ UNCHANGED <<dllDone, dlls, started>>

CallbackEnds == ~inExec /\ In("WNDPROC") /\ CallbackOver /\ EndCallback

\* max_iterations: bound: it may be reached after any iteration, provided the
\* loop keeps being told to leave exec386.
CallbackGivesUp ==
  ~inExec /\ In("WNDPROC") /\ ~CallbackOver /\ vm.exitReq /\ EndCallback

---------------------------------------------------------------------------
(* DLL entry points: vm_init_dlls and vm_call_dll_entry.                   *)

CallDll ==
  /\ ~inExec /\ ~started /\ calls = <<>>
  /\ dlls < Len(DllRuns)
  /\ calls' = <<[kind |-> "DLL", run |-> DllRuns[dlls + 1], saved |-> vm.cpu,
                 slot |-> 0, wnd |-> NoWnd, send |-> "LAST", mixed |-> FALSE]>>
  /\ vm' = [vm EXCEPT !.cpu = DllRuns[dlls + 1], !.exitReq = FALSE]
  /\ dllDone' = NoRun
  /\ dlls' = dlls + 1
  /\ answer' = NoAnswer
  /\ UNCHANGED <<inExec, slots, depth, cache, started, made>>

DllOver == dllDone # NoRun \/ vm.exited

DllLoop ==
  /\ ~inExec
  /\ In("DLL")
  /\ ~DllOver /\ ~vm.idle
  /\ Again

\* Nobody can run and nobody waits with a timeout: the loop gives up.
DllDeadlock ==
  /\ ~inExec
  /\ In("DLL")
  /\ ~DllOver /\ vm.idle
  /\ vm' = [vm EXCEPT !.exited = TRUE]
  /\ answer' = NoAnswer
  /\ UNCHANGED <<inExec, calls, slots, depth, cache, dllDone, dlls, started,
                 made>>

\* The end of vm_call_dll_entry also takes back a request to exit.
DllEnds ==
  /\ ~inExec
  /\ In("DLL")
  /\ DllOver
  /\ answer' = [of |-> Innermost.run, from |-> dllDone, saved |-> Innermost.saved,
                to |-> Innermost.saved, mixed |-> Innermost.mixed]
  /\ calls' = Outer
  /\ vm' = [vm EXCEPT !.cpu = Innermost.saved, !.exited = FALSE, !.exitReq = FALSE]
  /\ dllDone' = NoRun
  /\ UNCHANGED <<inExec, slots, depth, cache, dlls, started, made>>

\* vm_start resets both flags and enters its loop.
VmStart ==
  /\ ~inExec /\ ~started /\ calls = <<>>
  /\ dlls = Len(DllRuns)
  /\ started' = TRUE
  /\ vm' = [vm EXCEPT !.exited = FALSE, !.exitReq = FALSE]
  /\ answer' = NoAnswer
  /\ UNCHANGED <<inExec, calls, slots, depth, cache, dllDone, dlls, made>>

\* The loop of vm_start runs the guest unless the idle thread is current.
MainLoop ==
  /\ ~inExec /\ started /\ calls = <<>>
  /\ ~vm.exited /\ vm.current # Idle
  /\ Again

Stopped ==
  /\ ~inExec /\ started /\ calls = <<>>
  /\ vm.exited \/ vm.current = Idle
  /\ UNCHANGED vars

Guest ==
  \/ \E t \in Tids : NtTerminateThread(t)
  \/ \E t \in Threads : NtCreateThread(t) \/ NtSuspendThread(t) \/ NtResumeThread(t)
  \/ NtDelayExecution
  \/ NtTerminateProcess
  \/ \E w \in Windows, send \in {"FIRST", "LAST"} : CallWindow(w, send)
  \/ WndProcReturn
  \/ DllInitDone

Host == ExecReturns \/ CallbackLoop \/ CallbackEnds \/ DllLoop \/ DllDeadlock
        \/ DllEnds \/ CallDll \/ VmStart \/ MainLoop

Next == Guest \/ Host \/ CallbackGivesUp \/ Stopped

Spec == Init /\ [][Next]_vars

(***************************************************************************)
(* Fairness: the host is a loop, and exec386, once cpu_exit_requested is   *)
(* set, returns after the next instruction.  Nothing obliges guest code to *)
(* return or to make a call.                                               *)
(***************************************************************************)
FairSpec == Spec /\ WF_vars(Host)

---------------------------------------------------------------------------
\* The types of the variables (those of vm are Scheduler's TypeOK).
Frame == [kind: {"DLL", "WNDPROC"}, run: RunSet, saved: Streams,
          slot: 0..MaxDepth, wnd: Windows \cup {NoWnd}, send: {"FIRST", "LAST"},
          mixed: BOOLEAN]

TypeOK ==
  /\ vm.cpu \in Streams
  /\ inExec \in BOOLEAN /\ started \in BOOLEAN
  /\ \A i \in DOMAIN calls : calls[i] \in Frame
  /\ slots \in [1..MaxDepth -> [saved: Streams, completed: BOOLEAN,
                                result: RunSet \cup {NoRun}]]
  /\ depth \in 0..MaxDepth
  /\ cache \in Windows \cup {NoWnd}
  /\ dllDone \in RunSet \cup {NoRun}
  /\ dlls \in 0..Len(DllRuns) /\ made \in 0..Len(CallRuns)

\* Every call but an outermost one of a DLL's entry point.
Procedures == IF calls # <<>> /\ calls[1].kind = "DLL" THEN Tail(calls) ELSE calls

(***************************************************************************)
(* The global array and its depth, which user_call_wndproc_addr and        *)
(* user_callback_return index independently (user_callback.c:223, :507),   *)
(* mirror the host's own stack whatever the threads do: entry points are   *)
(* not called from guest code, the n-th procedure in progress owns slot n, *)
(* with the registers of its caller, and only the innermost one can have   *)
(* returned.                                                               *)
(***************************************************************************)
SlotsMirrorHostStack ==
  /\ depth = Len(Procedures)
  /\ \A i \in DOMAIN Procedures :
       /\ Procedures[i].kind = "WNDPROC"
       /\ Procedures[i].slot = i
       /\ slots[i].saved = Procedures[i].saved
       /\ slots[i].completed => i = depth /\ In("WNDPROC") /\ ~inExec

\* Every call into the guest gives its caller back the registers it had.
CallerResumes == answer.to = answer.saved

CallsSound == TypeOK /\ SlotsMirrorHostStack /\ CallerResumes

(***************************************************************************)
(* A call ends with no result or with the result of the run it started,    *)
(* unless another thread or other registers took over meanwhile.  (A slot  *)
(* is used again and again, and so is dll_init_done.)                      *)
(***************************************************************************)
ResultIsOwn == answer.mixed \/ answer.from \in {NoRun, answer.of}

(***************************************************************************)
(* ValidateHwnd in user32 trusts the CallbackWnd entry of the TEB: it      *)
(* names a window only while a procedure of that window is in progress     *)
(* (user_callback.c:373-405).                                              *)
(***************************************************************************)
CacheNamesCalled ==
  cache # NoWnd => \E i \in DOMAIN Procedures : Procedures[i].wnd = cache

(***************************************************************************)
(* A request to exit ends the innermost call, whatever its procedure does: *)
(* the nested loop is left, for good when the call is one of the two of    *)
(* CreateWindowEx (the second is entered and left without running), and    *)
(* the caller has a call less above it (user_callback.c:387, vm.c:645).    *)
(***************************************************************************)
ExitUnwinds ==
  \A n \in 1..(MaxDepth + 1) :
    vm.exited /\ ~inExec /\ Len(calls) = n ~> Len(calls) < n

=============================================================================
