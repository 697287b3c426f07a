# A verification project for wbox

wbox runs a 32-bit Windows program on another operating system: it emulates
the CPU, loads ntdll, user32 and gdi32 of a real Windows into the emulated
memory, and implements the NT and win32k system calls they make. Everything
runs on one host thread. Guest code runs inside `exec386`; a `SYSENTER` leaves
it for a C function that changes the host's tables and returns a status in
EAX.

Paths below are relative to the repository; the C sources are under
`src/src/`.

* [Inventory](#inventory)
* [The modules and the code](#the-modules-and-the-code)
* [The runs](#the-runs)
* [Fairness](#fairness)
* [Proofs](#proofs)
* [Where code and comments disagree](#where-code-and-comments-disagree)
* [What is not modelled](#what-is-not-modelled)
* [Plan](#plan)

## Inventory

### The modelled parts

**Scheduler, threads, wait objects** (`thread/scheduler.c`, `thread/thread.c`,
`nt/sync.c`, the wait and thread calls of `nt/ntdll.c`, the loop of `vm/vm.c`).
*State:* the run queue, the list of all threads, the current thread, the idle
flag, each thread's state, quantum, saved context and wait blocks; per object a
dispatcher header and a wait list. *Operations:* `scheduler_add_ready`,
`_remove_ready`, `_switch`, `_tick`, `_block_thread`, `_check_timeouts`,
`_signal_object`, `_add_thread`, `_remove_thread`, and the system calls that
create, wait for, signal, release and close events, semaphores and mutants, and
create, suspend, resume, terminate and close threads. *Interaction:* a system
call acts for `current_thread` while the CPU registers belong to whatever
stream of instructions runs; the scheduler tells `exec386` to stop through
`cpu_exit_requested`. *Hard:* preemption between any two instructions, waits on
several objects, timeouts, threads that end while queued or waited for; a
preemption that has to wait for `exec386` to return, which it rarely does.
*Correct when:* the queue, the list, the states and the current
thread agree; a queued thread is dispatched (it need not be, see
[disagreements](#where-code-and-comments-disagree)); a request to end the
process ends the loop; wait lists hold exactly the live
waits; mutants are handed over only by their owners; failing calls change
nothing.

**Calls into the guest** (`user/user_callback.c`, `vm_call_dll_entry` and
`vm_init_dlls` in `vm/vm.c`). *State:* the global `g_callback_stack` with its
depth, `dll_init_done`, the `CallbackWnd` cache in the main thread's TEB, and
the C stack of the functions that wait. *Operations:* calling a window
procedure, its return by stub or `NtCallbackReturn`, calling a DLL's entry
point and its return, the loops around `exec386` and their three ways to end.
*Interaction:* with the scheduler, whose calls switch threads inside a nested
loop that knows nothing of it. *Hard:* the global slots are indexed by whoever
is on top, the registers are restored whoever has them by then, and every
nested loop clears the request that ended it. *Correct when:* the global stack
mirrors the C stack, every caller gets its registers back and its own result,
a request to exit ends the innermost loop.

**USER handle table** (`user/user_handle_table.c`). *State:* entries with a
type, a 16-bit generation and a pointer, which links the free entries; the head
of the free list; a count. *Operations:* `user_handle_alloc`, `_free`,
`_get_typed`, `_set_guest_ptr`. *Interaction:* the window code allocates and
frees; the guest keeps handle values as long as it likes. *Hard:* reuse of
entries under values that are still in circulation. *Correct when:* the table is
a map from the handles given out to their objects.

**USER classes and the desktop heap** (`user/user_class.c`, `user/guest_cls.c`,
`user/desktop_heap.c`). *State:* the list of classes, the table of atoms, the
heap with the copies of classes and windows that user32 reads. *Operations:*
registration by name and by atom, the three ways to look a class up, counting
the windows of a class, allocation. *Interaction:* window creation looks classes
up by atom, by module, or by name alone; two modules share the atom of a name.
*Hard:* a name or an atom may mean another class after a registration; the heap
is shared and never given back. *Correct when:* the atom of a class is its
name's, no class hides another's, copies do not overlap.

**USER windows** (`user/user_window.c`, `user/guest_wnd.c`, window creation and
search in `user/user_syscalls.c`). *State:* the tree of `WBOX_WND` (parent,
child, next, prev), the class of each, the desktop, a copy of every window in
guest memory, the guest's handle entries, the calls under way. *Operations:*
`NtUserCreateWindowEx` up to, between and after its two callbacks,
`user_window_destroy`, `NtUserFindWindowEx`. *Interaction:* window procedures
run inside the call and make calls again. *Hard:* a call resumes with pointers
it took before the guest ran; every link is kept twice; creation fails at five
different places. *Correct when:* the links form one tree, handles name live
windows, counts are exact, the copies follow, destruction takes a subtree and
nothing else.

**USER message queue** (`user/user_message.c`, the message calls of
`user/user_syscalls.c`). *State:* a ring of 256 messages, the focus and active
windows, the bits that ask for `WM_PAINT`, the display's quit request.
*Operations:* post, peek with a filter, get, show, hide, focus, activation, the
default procedure's `WM_CLOSE` and `WM_PAINT`. *Hard:* removal from the middle
of a ring that wraps, `WM_PAINT` made up from the tree, a ring that is full.
*Correct when:* it is a first-in, first-out queue, `WM_PAINT` misses no window
and yields to posted messages, `WM_QUIT` arrives.

**GDI handles, device contexts, objects** (`gdi/gdi_handle_table.c`,
`gdi/gdi_dc.c`, creation in `gdi/gdi_drawing.c`, deletion in
`nt/win32k_dispatcher.c`). *State:* entries with a reuse count, a search hint,
the table mapped into the guest, object pools with a heap behind them, the chain
of saved states of each DC, the bitmap each DC has and the DC each bitmap is in.
*Operations:* create, delete, release, `SaveDC`, `RestoreDC`, `SelectBrush`, `SelectBitmap`,
attribute changes. *Hard:* stale handles, pools that run out, saved states that
are whole copies with pointers of their own. *Correct when:* every object has
one owner, a kept handle leads to its own object or none, saved states are a
stack, the guest's table has the type of every handle in use.

**Kernel handles and files** (`nt/handles.c`, `nt/sys_file.c`,
`nt/vfs_jail.c`). *State:* the table of handles with `next_handle`, the host's
descriptors and files, the mapped drives. *Operations:* `handles_add`,
`_resolve`, `_remove`, `NtCreateFile`, `NtOpenFile`, `NtReadFile`,
`NtWriteFile`, `NtClose`, and the translation of a path with the check of what
the host resolved. *Hard:* handle numbers and the host's descriptors are both
given out again at once; an open acts on the host before it knows whether it
may; the translation edits its own output, character by character. *Correct
when:* a call changes its own handle's file and nothing else, nothing is lost
when a call fails half way, a path means what its names say.

**Address space** (`vm/paging.c`, `thread_allocate_teb` and `_stack` in
`thread/thread.c`). *State:* the page directory and tables as words of guest
memory, the next free table and frame, the next TEB and stack addresses.
*Operations:* `paging_map_page`, `_get_or_create_pt`, `_alloc_phys`, mapping
the low memory, the TEB and stack of a created thread. *Hard:* tables and
frames come from fixed areas and run out in the middle of a call that gives
nothing back. *Correct when:* no two pages share a frame, tables have frames of
their own, a mapped page stays unless two parts of the program claim it.

**Loader and start-up** (`loader/loader.c`, `imports.c`, `exports.c`,
`stubs.c`, `module.c`, `vm_load_pe_with_dlls` and `vm_init_dlls` in `vm/vm.c`,
`main.c`, the regions the USER subsystem maps). *State:* the module list with
its flags, what each import is bound to, the stub registry, the guest's loader
entries, the entry points still to be called. *Operations:* mapping a region,
loading an image, resolving an import through stubs and forwarders, the passes
over the list, the two loops of entry points. *Interaction:* everything it loads
goes through the address space. *Hard:* the list grows at its head while a pass
walks it, images import from each other, any region may not fit, an image is
mapped at the address it asks for without a look at what else belongs there. *Correct
when:* every import of every module was bound to what its forwarders lead to,
entry points are called once and in their order, loading ends.

### The parts that are not, or hardly, modelled

| part | state and operations | standing |
|---|---|---|
| CPU emulator (`cpu/`) | taken over from 86Box, some 120,000 of the repository's 150,000 lines of code | a guest that may make any call at any time; the two ways out of `exec386`: it was asked to, or its clock has run out |
| guest heap (`nt/heap.c`) | a pointer that moves up | its region in `Loader` |
| shared USER data (`user_shared.c`) | constant tables | the guest's handle entries in `UserWindows`, the regions in `Loader` |
| display (`gdi/display.c`) | quit request, pixels | the quit request in `MsgQueue` |
| process and memory calls (`nt/ntdll.c`) | constant structures, clocks; `NtAllocateVirtualMemory` is not implemented | left out |
| PE parser, dispatch tables, text and drawing, options | data, generated code or straight-line code | left out |

`PROJECT.json` has the same list with the source files, and under `hazards` what
can go wrong in this code at which line and which property is about it.

## The modules and the code

`map` in `PROJECT.json` gives the lines of every definition. Functions keep the
names of the C functions without their prefix. Where several functions act on
one structure in a call, each is an operator from one record of the state to
the next (`AddReady(k, t)`), and an action applies them in the code's order.

| module | what it is |
|---|---|
| `SyncObjects` | the dispatcher header of events, semaphores, mutants: creating, testing, satisfying |
| `Dispatcher` | the data of the scheduler and its C functions; extends `SyncObjects` |
| `Scheduler` | the system calls on threads and objects, waiting, the main loop; extends `Dispatcher` |
| `GuestCalls` | window procedures and DLL entry points that the host calls, with the threads; extends `Dispatcher` |
| `HandleMap` | abstract: a map from handles to things |
| `HandleTable` | the USER handle table as a record and functions on it |
| `UserHandles` | `HandleTable` and its callers; implements `HandleMap` |
| `UserClasses` | classes, atoms and the desktop heap as a record and functions on it; extends `HandleTable` |
| `UserWindows` | registration, windows, callbacks, the guest's copies; extends `UserClasses` |
| `WindowQueries` | the searches of the window tree; extends `UserWindows` |
| `MessageQueue` | abstract: a bounded first-in, first-out queue with filters |
| `MsgQueue` | the ring, `WM_PAINT`, the calls; implements `MessageQueue` |
| `GdiObjects` | GDI handles, pools, DCs, bitmaps, brushes |
| `OpenFiles` | abstract: a file and a position for every open handle |
| `NtHandles` | the kernel handle table |
| `VfsPaths` | the translation of paths, and what a path means |
| `NtFiles` | the file calls over a host; extends `NtHandles` and `VfsPaths`, implements `OpenFiles` |
| `AddressMap` | abstract: a partial map from pages to frames in which nothing is shared |
| `AddressSpace` | page tables, frames, TEBs and stacks; implements `AddressMap` |
| `Loader` | from start-up to the program; extends `AddressSpace` |
| `MC*` | the constants of the runs |
| `*Proofs` | inductive invariants, theorems, proofs |

**Scheduler.** `vm` is `wbox_scheduler_t`, the fields of every
`wbox_thread_t` and the objects. A system call is one action: nothing else runs
between its entry and its return. `scheduler_block_thread` is the exception. It
loops in the host until the wait ends, so it is two steps, `BlockEnter` (push
the wait blocks, save the context, switch away) and `BlockReturn` (the clock
reaches the deadline, the wait times out, the thread is made current by hand).
No guest instruction runs between them, so nobody can signal the object: in this
code a wait that blocks always ends by its timeout, and no signal ever finds a
thread on a wait list; the model shows both because it keeps the loop as it is. Registers are abstracted to the stream of
instructions they belong to (`cpu`, and `of` in a saved context), and to whether
that stream has run since the save (`fresh`). `ExecReturns` is one pass of the
loop of `vm_start` after `exec386`: tick, timeouts, leave idle. `exec386` is
given a number of cycles, which does not end it: its inner loop goes on until
`cpu_exit_requested` is set or `tsc` has passed `timer_target`
(`cpu/386_dynarec.c:894`), which is 2^31 - 2 for ever, because the `timer_process`
of `cpu/stubs.c` is empty. `clock` says how far that is: while it `runs`, guest
code runs and only a request ends `exec386`; when it is `over`, `exec386` returns
without an instruction and pays 1000 cycles back each time; when
all are paid, it enters its outer loop, whose inner one never runs, and `spins`.
Overflow of
`int` in `NtReleaseSemaphore` is undefined in C, so the limit test may see the
wrapped sum or the mathematical one.

**GuestCalls.** `calls` is the host's own stack of C functions that wait for
guest code, `slots` and `depth` are the global array they share. A run is the
stream of guest instructions that one of them started; `vm.cpu` is a run or,
outside all calls, a thread. `Enter` and `EndCallback` are the two halves of
`user_call_wndproc_addr`; `CreateWindowEx`, which sends two messages, enters
again as it ends. `exec386` returns here only when it was asked to: the module
follows a program for its first 2^31 cycles, before `tsc` passes `timer_target`.
Only the loop of `vm_start` ticks, but the system calls that
switch threads work in the nested loops as well. `answer` records how the last
call ended and is what `ResultIsOwn` and `CallerResumes` speak of; `mixed`
marks the calls during which another thread took over.

**UserHandles.** `held` (handles given out and not freed) and `seen` are history
variables. The owner frees a handle once, as `user_window_destroy` does; the
guest asks for any value it ever saw.

**UserWindows.** `u` holds the C globals and `stack` the `NtUserCreateWindowEx`
calls that wait for a window procedure. `NtUserCreateWindowEx` runs up to
`WM_NCCREATE`, `NcCreateReturns` from there to `WM_CREATE`, `CreateReturns` to
the end. Between them the guest may make any call. A guest address is an index
in the desktop heap. Running out of handles, memory, desktop heap or callback
depth and a class that is not found are alternatives of the action. The program
destroys a window only after a failed `WM_CREATE`, because `NtUserDestroyWindow`
is not implemented. `user_window_destroy` calls itself for the first child as long
as there is one; so it ends windows one by one, each time the one it comes to by
first children only (`FirstLeaf`), until its own is gone. `Destroy` is that as a
function of the number of windows ended, of which there are no more than windows.
`WindowQueries` holds what changes nothing: the walks over children and
descendants that `NtUserFindWindowEx` makes, as functions on windows: a loop over
siblings is `FirstFrom`, the call of `user_window_find_recursive` for a child and the
step to its next sibling are the two cases of `FindRecursive`.

A class is its place in the list, which only grows (nothing calls
`user_class_unregister`), and 0 is NULL. The desktop has the class NULL: it asks
for `ICLS_DIALOG`, which is not among the classes the system registers.
Atoms count from 1; those above `MaxAtoms` stand for values that no name has.
`read_guest_unicode_string` has no `return` on the path that reads a string, so
`NtUserRegisterClassExWOW` gets whatever the result register holds: any of
`NameReads`. The other calls read names with other functions.

**MsgQueue.** The ring is `slots`, `head`, `tail`, `count` as in C, and
`Remove(r, k)` moves the later messages down one place. The window tree is a
constant here. `GetMessage` with nothing to return stays in a host loop
(`waiting`), which polls the display again (`GetMessageLoops`); the guest does
not run meanwhile. `refused` is a history variable.

**GdiObjects.** `g` is the table, the guest's copy and the objects by pool
place. Brushes stand for pens, fonts and regions, which go through the same
code. A saved state is a DC record that no handle names; `Chain` follows the
links. `gdi_create_bitmap` frees the pixels twice when there is a place for
the bitmap and no handle, which glibc answers with an abort: `CreateBitmapAborts`
is that outcome, and the model stops there.

**NtFiles.** A file of the host is its size, a descriptor its file, position
and mode; the host may refuse any open, read or write. `OpenFile` is
`sys_NtCreateFile` in its order: translate, open (which may make or empty the
file), check what the host resolved, take a handle. A path is the characters
after its drive, because what the translation glues together can be told apart
only by characters; `Meaning` is the reference it is compared with. `asked`, what the last call
opened a file for, is a history variable that no step reads; TLC compares states
without it (`WithoutHistory`). Handles 0,
1 and 2 resolve to the standard streams whatever the table holds, as in
`handles_resolve`.

**AddressSpace and Loader.** Addresses count pages. `mem` holds the words of the
directory and the tables, `Walk` is the walk of the processor and of
`paging_get_phys`, and the refinement of `AddressMap` is computed from it. In
`Loader` a program is a record of what its images import, export and need;
`program` is chosen at the start. `VisitModule`, `LoadTarget` and
`ResolveFunction` are one import at a time, so that the list of modules grows
under the pass that walks it. Regions are mapped one per step, and any of them
may find no memory. An image has the base that its header asks for, which may be
anywhere; `Contested` are the pages that two parts of the program claim.

## The runs

| run | instance | states | what it shows |
|---|---|---|---|
| `sched_threads` | 3 threads, quantum 2, no objects | 9,998 | `DispatchSound`, `WaitSavesContext`, `TerminatedIsFinal`, `FifoOrder`, `EndStopsGuest`: queue, list, current thread and idle state agree under creation, suspension, delay, preemption and termination in any order; the queue is first in, first out; when the program has ended or nobody is left to run, guest code stops |
| `sched_objects` | 2 threads, 2 objects of any kind, limit 2, releases of 1 and 3, `int` up to 3 | 283,032 | `TypeOK`, `ObjectsSound`, `MutantHandover`, `FailedCallChangesNothing`: wait lists, counts and owners stay consistent; failing calls take nothing; overflow keeps semaphores within their limit |
| `guest_calls` | 2 threads, 1 DLL, 3 procedure calls, depth 2, quantum 1 | 381,883 | `CallsSound`, `ResultIsOwn`, `CacheNamesCalled`, `ExitUnwinds`: nested calls and thread switches inside them; a request to exit ends the innermost call |
| `user_handles` | 4 entries, 4 windows, 2 frees per entry, 3 generations | 12,944 | `TableSound`, `NeverReissued`, `ImplementsHandleMap` |
| `user_windows` | 4 addresses, 1 system class and 2 more of 2 names, 2 modules and 2 atoms, depth 2, heap of 4, 5 creations | 191,314 | `WindowsSound`, `RecordsExact`, `MirrorSound`, `EnumerationComplete`, `CallsKeep` under registrations that collide and nested, failing creations |
| `msg_ring` | ring of 3, 4 filters, posts to live and destroyed windows, a window that is shown, so that `WM_PAINT` is made up for it without end | 108,148 | `QueueSound`, `ImplementsMessageQueue`, `QuitEndsLoop`: removal from the middle, wrapping, a full ring; `WM_QUIT` arrives |
| `msg_windows` | ring of 2, tree of three levels, focus, activation, show and hide, keys, `WM_CLOSE` | 380,343 | `PaintsInOrder`, `FocusToldRight` |
| `gdi` | 2 entries used twice each, pool of 2 DCs and 2 more from the heap | 371,551 | `HandlesSound`, `ObjectsOwned`, `SaveRestoreIsStack` |
| `files` | 4 handles, 2 descriptors, 5 paths, a link out of the drive, paths of up to 7 characters | 43,149 | `FilesSound`, `FullMeansFull`, `PathsMeant`, `ImplementsOpenFiles`, `ContentsKept` |
| `loader` | 5 images, one of which may ask for the heap's first page, 1,080 programs, 64 pages, 8 page tables, 42 frames | 137,651 | `SpaceSound`, `LoaderSound`, `EntriesOnce`, `ImplementsAddressMap`, `MappedStays`, `LoadEnds` |
| `find_context`, `find_starved` | as `sched_threads` with 2 threads | | each finds one comment violated, see [disagreements](#where-code-and-comments-disagree) |

What the properties say beyond their comments in the modules:

* `DispatchSound` rests on every caller of `scheduler_add_ready`, which
  appends without looking. It ties the run queue, the list of threads, the
  current thread and the idle flag together.
* `FifoOrder` is the order in which queued threads get their turn. That each gets
  one is not true: `find_starved` shows a thread that makes no blocking call and is
  never preempted. What the host owes is `EndStopsGuest`: the flags
  that stop `exec386` and the loop of `vm_start` are two, set in several places.
* `ExitUnwinds` says that one loop ends and not that all do: the call that is left
  clears `cpu_exit_requested`, and the caller's loop ends only when its guest code
  makes a call that asks again.
* `ObjectsSound` includes the exactness of the wait lists: no block is left
  after a wait ends, for an object that is freed or waited for twice by one call.
* `CallsSound` compares the global callback array with the host's own stack,
  which the code never does; it holds although threads are switched inside a
  callback, because only the function that entered a slot leaves it.
  `ResultIsOwn` has an exception the code needs: a call during which another
  thread took over may end with that thread's result.
* `ImplementsHandleMap`, `ImplementsMessageQueue`, `ImplementsOpenFiles` and
  `ImplementsAddressMap` are refinements: the concrete steps map to steps of the
  abstract module or to stuttering.
* `CallsKeep` is about what another caller relies on while a call is under way:
  its children, in order, its windows, and what a class name means to it. A
  global class registered later may take a name over; the code allows that.
* `MirrorSound` and `HandlesSound` are about data kept twice, in the host and in
  guest memory, where user32 and gdi32 read it without a system call. Of the GDI
  table it is the type of each handle in use; the field for the upper half
  of the handle does not have it.
* `EnumerationComplete` is about a chain of calls in one tree: windows made or
  destroyed between two calls are not covered.
* `ImplementsMessageQueue` cannot tell a call that loses a post from one that
  posts nothing; `FocusToldRight` can, for the messages about the focus.
* `ContentsKept` is about every call, whatever becomes of it: which files it may
  make, empty or extend depends on what it asked for (`asked`).
* `MappedStays` leaves out the pages that two parts of the program claim
  (`Contested`), where the later mapping hides the earlier.
* `ObjectsOwned` and `FilesSound` count owners, so they catch a lost object or
  descriptor as well as one owned twice.
* `LoaderSound` compares what was written for each import with `Final`, which
  follows the forwarders in the export tables, as many hops as the program has
  forwarders, and knows nothing of passes.

### Bounds

Every bound is a constant. Three threads are the least with a running thread, a
queued one and one behind it; a quantum of 2 separates ticks that preempt from
ticks that do not. Two objects make `WaitAll` partly satisfied and let one
array name an object twice; `IntMax` 3 lets a release overflow; arrays have two
entries. `MaxDepth` bounds recursive acquisition of mutants in `Scheduler`. In
`GuestCalls`, depth 2 nests one procedure in another and refuses the third; the
three runs allow a `CreateWindowEx`, which uses two, with a call inside. Four
handle entries leave three to give out, so that the free list has a head, a
middle and an end in every order; with 3 generations and 2 frees the counter
wraps without giving a value out again. Four handles for windows are
the desktop and three more, siblings or a chain, so that handles and addresses
both run out; guest memory is never given back, so with a heap of 4 for two
registrations and five creations later windows and classes have no copy. Two
modules, two names and two atoms make every collision of a pair of classes: one
name in two modules, a global class and a local one, a class by atom and the
class whose name has that atom. A ring of 3 wraps
and has a middle; of 2, it fills while one call posts two messages. The window
tree has a node to go down, right and up two levels from. `msg_ring` shows one window, which is
enough for a `WM_PAINT` to be there at every later call. Two GDI entries with
two uses each make every stale handle; four DC places hold two DCs with a saved
state each, one with three, and run out.

In `files` the values 1 to 4 are the three standard entries and one more, all of
which can be closed and given out again, so the search wraps and the table
fills; two descriptors run out before it does. The paths climb, leave their
drive, name a drive on the root directory, a link and a form that is refused;
seven characters out of a letter, a dot and the separator hold every doubled,
leading and trailing separator with two components of dots. In `loader` the five
sizes of the executable make memory run out before loading, while images are
loaded, after it, when threads are created, and at once; the imports make
cycles, a missing image, a missing function, a forwarder and a stub; in half of
the programs one DLL asks for the first page of the heap. Cyclic
forwarders are excluded: the code recurses on them without end.

The runs that switch the deadlock check off model programs that may stop:
`user_windows` (creations and classes are used up), the `msg`
runs (the machine has stopped), `gdi` (the allocator has aborted,
or the bound on reuse is reached), `loader` (start-up failed, or
addresses for threads are used up).

Symmetry: `sched_objects` permutes the objects and `user_windows` the host
addresses. No operator chooses among either, and both runs have no liveness
property.

## Fairness

`Scheduler!FairSpec`: every instruction costs cycles and `timer_target` stays
where it is, so the clock of a guest that goes on executing runs out (strong
fairness of `ClockEnds`: a guest that blocks again and again disables it in
between). The host, a C program in a loop, carries on: it pays cycles back
(`Spins`), leaves an `exec386` that is done (`ExecReturns`), finishes a
blocking call and its idle loop (weak fairness of each). `ExecReturns` is
enabled only after a request to exit or once the clock has run out; that
`exec386` returns after the cycles it is given is not assumed, because it does not.
No guest call is fair: nothing obliges a program to make one.

`GuestCalls!FairSpec`: weak fairness of the host. `exec386` returns because
`cpu_exit_requested` is set: its inner loop looks at it after every instruction or
block of them. That a window procedure returns is not assumed: `ExitUnwinds` holds
because a request to exit sets that flag, not because the guest cooperates.

`MsgQueue!FairSpec`: the guest has a message loop that comes back to
`GetMessage` for all messages (strong fairness, because it may be inside another
call), and the host goes on with a `GetMessage` that loops. `QuitEndsLoop` says
nothing of a program that has no such loop; it excludes a `GetMessage` with
another filter, which never returns when no message fits it.

`Loader!Spec`: weak fairness of `HostStep`, the sequential C code of loading and
start-up. The guest's steps (an entry point returns, a thread is created) have
none, and `LoadEnds` needs none.

The other specifications have no fairness and no liveness property.

## Proofs

Eight modules hold theorems; each EXTENDS the module it is about. The theorems
hold for every value of the constants under the named assumptions, which TLC
evaluates in the runs.

`SchedulerProofs`: every set of threads and objects, every quantum, every `int`
width and every set of limits.

| theorem | property |
|---|---|
| `Inductive` | `IInv`, the inductive invariant |
| `TypeCorrect` | `TypeOK` |
| `DispatchCorrect` | `DispatchSound` |
| `ObjectsCorrect` | `ObjectsSound` |
| `WaitContextCorrect` | `WaitSavesContext` |
| `TerminatedStays` | `TerminatedIsFinal` |
| `SemaphoreCorrect`, `MutantCorrect` | `SemaphoreWithinLimit`, `MutantSound` |
| `HandoverCorrect` | `MutantHandover` |
| `FailureCorrect` | `FailedCallChangesNothing` |
| `FifoCorrect` | `FifoOrder` |

*Assumptions:* `ThreadAssumption` (the idle thread is not a guest thread),
`IntMaxAssumption` and `SchedulerAssumption`.

*Argument.* None of the properties is inductive alone: that a tick may queue the
current thread needs that it is RUNNING and hence not queued; that a woken
thread may be queued needs that it was WAITING; that it is the only one needs
that nobody waits between system calls. `IInv` puts this
together: `Sound(vm)` between system calls, where nobody waits, and
`Blocked(vm, t)` inside `scheduler_block_thread`, where exactly `t` waits and the
current thread is another one or the idle thread. `Sound` is the conjunction of
the properties above, as predicates on the record of the state. One lemma per C
function says what it does to a sound state, on top of lemmas on sequences
without duplicates (`AppendQueue`, `TailQueue`, `RemoveQueue`); one lemma per
action puts them together. Waking in `SignalObject` is a fold over a wait list,
which cannot be unfolded for an unknown length; between system calls every wait
list is empty, so `SignalObject` returns its argument, and that is what the
proof uses.

*Argument for the action properties.* `HandoverCorrect`, `FailureCorrect` and
`FifoCorrect` are about one step, from a state that satisfies `IInv`. A
first group of lemmas follows the queue and the objects through the C functions
without any types: only `scheduler_add_ready`, `scheduler_remove_ready` and
`scheduler_switch` change the queue, and none of them an object. A second group
is about the order of a sequence without duplicates (`FifoAppend`, `FifoTail`,
`FifoUnlink`), and `FifoTrans` composes them for the calls that do two of these
in a row (suspend unlinks and switches, a tick appends and switches, a blocking
call appends and unlinks). `FifoTrans` needs that a thread is not taken out and
put back in between, and `FifoAppend` that the thread was not queued: this is
where `IInv` comes in, through the state the thread is in. For the objects,
`Takes` says what satisfying a wait may do to an owner; it composes, so an array
that names a mutant twice is covered.

`UserHandlesProofs`: every size of the table, every span of the generation
counter and every set of objects.

| theorem | property |
|---|---|
| `Inductive` | `IInv`, the inductive invariant |
| `TableCorrect` | `TableSound`, and its parts `TypeCorrect`, `FreeListCorrect`, `CountCorrect` |
| `HandleMapCorrect` | `ImplementsHandleMap`: `UserHandles` refines `HandleMap` |
| `NeverReissuedCorrect` | `NeverReissued`, if `MaxFrees < GenSpan` |

*Assumptions:* `HandleTableAssumption` and `UserHandlesAssumption`.

*Argument.* A sound table alone does not make a free safe: the entry must be in
use under the generation of the handle. `IInv` therefore says of the table that
it is well typed, that some list threads its free entries (`Linked`) and that
its count is right, and of `held` that the handles given out are exactly the
entries in use. The list is not part of the state, so each step exhibits the
next one: an allocation drops its head, a free puts the entry in front. That no
lookup answers another owner's object follows because a handle is determined by
its index and generation. A full table refuses only when every other entry is
given out, by a bijection between handles and entries. `NeverReissued` needs a
second invariant (`GenOK`): the generation of an entry tells how often it was
freed, which is true only until the counter wraps; with the counter's 2^16
values this is 65,535 frees of one entry.

`MsgQueueProofs`: every size of the ring, every window tree, every set of
filters, posts and arguments.

| theorem | property |
|---|---|
| `QueueCorrect` | `QueueSound` |
| `MessageQueueCorrect` | `ImplementsMessageQueue`: `MsgQueue` refines `MessageQueue` |
| `FocusToldCorrect` | `FocusToldRight` |
| `PaintsCorrect` | `PaintsInOrder` |

*Assumptions:* `MsgQueueAssumption`; `TreeAssumption` (finitely many windows, links
that agree with each other, no circle of parents or siblings: `WindowsSound`, which
`UserWindowsSound` shows of the trees `UserWindows` makes); for `FocusToldCorrect` also `FocusUnparted`: the
guest posts no focus messages of its own, and each filter admits both of their
numbers or neither.

*Argument.* `Sound(r)` says of a ring, as a record, that its indices are in
range and that tail is head plus count modulo the capacity. A group of lemmas
about addition modulo the capacity says which place the k-th message has;
`PostSound` and `RemoveSound` say what a post and a removal do to the contents as
a sequence: one is appended, or the k-th is taken out and the others keep their
order. `FirstOldest` says that what the peek loop finds is the oldest that
fits. One lemma per call then maps it to the abstract queue; calls that post two
messages map to one step that appends up to two. What a filter matches and which
window the paint walk finds stay opaque there: the refinement holds for any answer.
`FocusToldRight` is inductive with the ring (`FocusInv`): `FocusMoves` is what
`SetFocus` does to it, and `RemoveAllRight` what a removal does. The first
message that fits is removed; if it was the last for a window about the focus, an
earlier one would have fitted too, so it was the only one.
`PaintsInOrder` is about the walk alone. `Reach`, the smallest set that a link does
not lead out of, shows that the recursive functions on the tree exist; `TreeInduct`
is induction along links that make no circle; `ListHolds` says that a list of
children holds them all, as going back along it ends. With `After(w)` the windows
after `w` in tree order, `FollowNext` says that a step of the walk leads to a `v`
in `After(w)` with `After(v) = After(w) \ {v}`, by cases: the first child, the next
sibling, or up. `WalkFinds` is then an induction on the size of `After(w)`.

`NtFilesProofs`: every size of the table, every number of descriptors, every host
and every set of paths.

| theorem | property |
|---|---|
| `Inductive` | `FilesSound /\ FullMeansFull`, which is inductive |
| `FilesCorrect`, `FullCorrect` | `FilesSound`, `FullMeansFull` |
| `ContentsCorrect` | `ContentsKept` |
| `OpenFilesCorrect` | `ImplementsOpenFiles`: `NtFiles` refines `OpenFiles` |
| `PathsCorrect` | `PathsMeant`, for paths of any length over any characters |

*Assumptions:* `HandlesAssumption`, `FilesAssumption`; `PathsAssumption`, by which the
characters of a path are those of its texts, separators are written `\` (the code takes
`/` for one too), and `Refused` is no path and `NoDrive` no drive.

*Argument.* That each descriptor has one owner makes the map from handles to
files and positions (`At`) change at one handle only when a descriptor does, and
that a closed entry takes its descriptor with it. A file that is opened gets a
descriptor nobody has and a handle nobody has; a failed open gives back the
descriptor it took, so `At` stays while the file on the host may have changed,
which is what `OpenFails` allows. `ContentsCorrect` says how the file may have
changed. It needs that every descriptor is for a file that is there (`FileThere`),
or a write through it would make the file: no step takes a file away
(`NoneGone`), and an open gives out a descriptor only for a file it has found or
made (`OpenFileThere`, `StepThere`). How the path is translated does not matter here.

The loop of `vfs_translate_path_ex` goes over characters and edits in place what it
has written; what a path means is a walk along its names. `Follows` relates the
two after each character: what is written before the component at hand is the names
of the directory the walk has reached, each with its separator (`Clean`), no
separator stands alone, and `depth` counts the names. `BackIs` says that the search for
the slash takes exactly the last name away. After a `.` that is not the first name
the separator before it is gone, so the names written are right but the next
letter would join the last of them (`Dotted`): that letter makes an inner `.`, and
only there is the excluded case needed. `LetterOK` and `SeparatorOK` are the two
kinds of characters, `WithinIs` the end of the path. The folds are shown to exist
and to follow their steps (`FoldExists`, `FoldAppend`) by `Induct`, induction for a
set of numbers, before anything is said of them. The lemma `TranslationIs` says it
for every path over these characters; `PathsCorrect` adds that the drives stay as
they were mapped. Paths that `VFS_MAX_PATH` would cut short are not modelled.

`GuestCallsProofs`: every set of threads and windows, any number of entry points
and of procedures called, every depth of `g_callback_stack`.

| theorem | property |
|---|---|
| `Inductive` | `IInv`, the inductive invariant |
| `CallsCorrect` | `CallsSound` |
| `ResultCorrect` | `ResultIsOwn` |
| `CacheCorrect` | `CacheNamesCalled` |

*Assumptions:* `GuestCallsAssumption` (the slots are at least one; no run is both
an entry point's and a procedure's), `ThreadAssumption`, `IntMaxAssumption`.

*Argument.* `IInv` relates the host's stack to the array position by position
(`MirrorOK`), and adds what `ResultIsOwn` rests on (`OwnOK`): a call that nobody
disturbed has undisturbed calls above it, its registers are either in the CPU or
saved by the next call, and so only its own run can have stored its result.
That the run of `WM_CREATE` is still there when `WM_NCCREATE` has returned
concerns the bound on procedures and is the cardinality in `RoomOK`. One group of
lemmas says what removing and adding an innermost call does to each part;
`CreateWindowEx`, which does both in one step, combines them. The scheduler's
functions are shown again to keep their types, here with registers that may
continue a call as well as a thread; nothing else about them is needed, so the
theorems hold whichever thread a tick or a wait chooses.

`LoaderProofs`: every size of page, directory and physical memory, every set of
programs, images, regions and priority DLLs.

| theorem | property |
|---|---|
| `SpaceAlwaysSound` | `SpaceSound`: `TablesOwn`, `GuestKeptOut`, `ThreadsApart` and the types |
| `MappedAlwaysStays` | `MappedStays` |
| `SpaceImplements` | `ImplementsAddressMap`: the page tables refine `AddressMap` |
| `LoaderAlwaysSound` | `LoaderSound` |
| `EntriesAlwaysOnce` | `EntriesOnce` |

*Assumptions.* `AddressSpaceAssumption`: the constants of the layout lie as the
code has them (stacks below TEBs, tables within physical memory).
`LoaderAssumption`: types, the export tables of a program have finitely many
forwarders, the loader heap has room for one entry, the priority list names no
DLL twice, and the pages a program may reach take fewer tables than are reserved. The code does not look
at the latter: `alloc_page_table` would go on into the frames of the guest. 255
tables map 1020 MB, and the addresses of the code together with the images of a
program are far from that. `LayoutAssumption`: the regions of start-up, whose addresses are
constants of the code, have addresses of their own. Nothing is assumed of the
images: two may ask for the same base, or one for the place of a region, a TEB or
a stack. The pages concerned are `Contested`, and `MappedStays` speaks of the others.

*Argument.* `MapPagesLays` says what `paging_map_range` does: if the tables
present are distinct, within the frames reserved, and as many as have been
counted (`Tables`), then they are so afterwards, and of the pages exactly those
asked for walk to a new entry (`Laid`). It rests on the arithmetic of page
indices (`DivModInv`: a page is determined by its directory and table index) and
on `BelowCounts`: the tables allocated in one call are numbered by how many
missing ones come before, which is injective. Every mapping of the program is an
instance of it with fresh frames (`RegionOK`, `ThreadPagesOK`) or the identity
(`LowOK`). The inductive invariant `IInv` then says which pages are still
untouched: the regions after the place the start has come to (`Placed`), the
images that are not in the list, the TEBs below `next_teb_addr`. A step maps
some of these and leaves the others (`UntouchedLater`). That what it maps was
untouched is so up to pages that are contested (`Clear`), so that no other page is
ever mapped twice. The stack region is among the contested ones: the stack
of the main thread and the first created one do meet in it.

`LoaderSound` has an invariant of its own, `BindInv`. While the loader runs
(`LoadInv`), every module that has been taken, but for the one that is busy, has
its imports resolved; of the busy one the imports before the one at hand are,
and forwarders lead from that one to `target` (`Leads`); what has not been taken
is unwritten; and when the current pass has resolved nothing yet, no module it
has come by has anything to resolve, which is why the last pass may end. Loading
an image may come between any two of these steps, and so may a stub for another
module: a target is `Settled` if nothing leads on from it now or later, because
its stub is registered, or there is no room for one and it is no forwarder, or
its image cannot be loaded. `SettledLater` and `LeadsLater` carry this and the
value bound across every later step; memory and stub room only shrink.
`Final` is a walk of a fixed number of hops: `ShortWay` shows that a way of
forwarders that is as short as possible comes by none twice and so has no more
hops than there are forwarders (by the pigeonhole principle), and `FinalIs` that
the walk then stands at its end. A circle of forwarders never ends a
resolution, so the theorem, like the property, says nothing of it.

`EntriesOnce` has an invariant of its own
(`EntriesInv`): what is left to look at is the end of the two lists, one after
the other, from some place on, and every entry point before that place has been
called; the rank of those called is at most that place while it is in the
priority list (`RankGrows`).

`GdiObjectsProofs`: every size of the table and of the pools, every set of
attributes and of levels.

| theorem | property |
|---|---|
| `HandlesAlwaysSound` | `HandlesSound` |
| `ObjectsAlwaysOwned` | `ObjectsOwned` |
| `SaveRestoreAlwaysStack` | `SaveRestoreIsStack` |

*Assumptions.* `GdiObjectsAssumption`, and in each theorem `NoWrap`: no entry is
given out so often that its reuse count comes round (`MaxReuse < ReuseSpan`, 128
in the code). The run satisfies it. Without it the theorems are not claimed: a
handle that old passes for another object of its entry, of another kind even, and
`gdi_delete_dc` then frees a DC whose entry stays.

*Argument.* `IInv` says of the state (`Good`) that every entry in use leads to an
object which has its handle, that bitmaps and brushes all have an entry, that the
guest's copy mirrors the table and that the count is right; of the DCs (`Linked`)
that the saved states form chains: the level falls by one along `saved`, two DCs
never save the same state, and a DC without an entry is saved by another;
and of each kept handle (`SeenOK`) that its reuse count is not above that of its
entry and, if equal, its kind is the entry's, which is where `NoWrap` is needed.
`Chain` is a recursive function on numbers; `Induct`, induction for a set of
numbers out of the well-foundedness of `<`, shows that it exists and follows
`saved` (`FollowsExists`, `ChainFollows`). As levels fall along a chain, no chain
is longer than there are places (`ChainLevels`), so the bounded walk of the
model is the whole one. `LinkedMake`, `LinkedSave`, `LinkedRestore` and
`LinkedDelete` are what the C functions do to the chains; `KeptSame` says that a
chain whose links are untouched reads the same, which is what every other DC
needs for `SaveRestoreIsStack`. A deletion goes by the handle's index and type,
so the lemma on it (`RemoveOK`) is about any handle that passes the code's test,
stale or not.

`UserWindowsProofs`: every number of windows, classes, handles, atoms and cells of
the desktop heap, every depth of callbacks, every set of structures the guest
registers and of values `read_guest_unicode_string` leaves behind.

| theorem | property |
|---|---|
| `UserWindowsSound` | `WindowsSound`: the types, one tree, the calls under way |
| `UserRecordsExact` | `RecordsExact`: handles, reference counts, names and atoms |
| `UserMirrorSound` | `MirrorSound` |
| `UserCallsKeep` | `CallsKeep` |
| `UserEnumerationComplete` | `EnumerationComplete` |

*Assumptions:* `HandleTableAssumption`; `UserClassesAssumption`, by which the
classes of `system_class_defs` have names of their own, as they do in the code,
and the atom table holds them; `UserWindowsAssumption`, by which there are finitely many
addresses for a `WBOX_WND`.

*Argument.* None of the four is inductive alone. That a failed `WM_CREATE` destroys
its window without harm needs that no call further out is for a window below it,
which is a fact about the tree and the stack together; that the handle is freed
right needs that the table holds exactly the windows; that the copies are
refreshed right needs that no two windows share a copy. `IInv` puts these
together as `Good`, a predicate on the globals and the stack:

* `Sound`: the table's free list and entries (`TableOK`), the reference counts
  (`RefsOK`), the copies (`CopiesOK`, `LinksBut`) and the classes (`ClassesOK`).
* `Tree`: the links agree, and there is a rank for every window, which
  the state does not hold and which each step exhibits anew: a new
  window gets a higher rank than all others, and parents and next siblings are
  of lower rank. That rules out circles, in the tree as well as in each list.
* `Frames`: the windows of the calls under way rise in rank from the outermost to the innermost.
  Everything below the window of the innermost call is of higher rank than it, so a failed
  creation cannot take the window of a call further out.
* `Counts`: there are no more windows than were created, and no more were
  created than `MaxCreates` and the desktop; this bounds ranks and reference
  counts. The theorems hold for every value of the bound.

The proof goes up from single assignments: what setting one link does
(`SetNextOK` and its like), what refreshing one copy does (`MirrorOK`), what
`user_window_unlink` and `user_window_link_child` do to links and copies
(`UnlinkOK`, `LinkChildOK`). In between, a link is set but its copy is not
refreshed yet; `LinksBut(k, W)` says that the copies outside `W` are right, and each C
function leaves `W` empty again. `Destroy` is a function on numbers, so `Induct`
(induction for a set of numbers) shows that it exists and follows its step
(`GoesExists`); `LeafOK` that first children lead to a window without any, as
ranks rise on the way and there are finitely many windows; `DestroyOK` that what
is destroyed is the window with all below it, because each step takes one of
these, and leaves a tree. `CallsKeep` is about a step: `Keeps` says what one
function may do to children and class names, and each action is a chain of a few
of them (`KeepsThen`, `KeepsAfter`).

`EnumerationComplete` follows from the parts of `IInv` that say the windows are one
finite tree (`Tidy`) and that handles lead back to windows. Its walks are recursive
functions, which are shown to exist before anything is said of them: a walk along
one link through `Reach`, the smallest set that the link does not lead out of
(`LaterIs`, `FirstIs`, `AboveIs`), the search of all windows by finding it for those
with little left to search first (`LookExists`). `ListHolds` says that the list of a
window's children holds them all; `FirstFinds` then says which of a set the loop
stops at, and which of the set are left after it. What `FindRecursive` looks at
from a window on is `Scope`: the window, the scope of its first child and that of its
next sibling, both without the window (`ScopeIs`), so the search goes on with
less each time and covers every window but the desktop.

*Only model-checked:* the liveness properties (`EndStopsGuest`,
`QuitEndsLoop`, `ExitUnwinds`, `LoadEnds`), which are out of the prover's reach.
Every other property of a passing run has its theorem.

## Where code and comments disagree

Runs that find a statement of the source violated:

| run | the source says | the code does |
|---|---|---|
| `find_context` | `scheduler.h:67`: switching "saves current context" | `scheduler_tick` sets the thread READY first, and only a RUNNING thread is saved (`scheduler.c:194`, `:234`): a preempted thread loses its registers |
| `find_starved` | `scheduler.h:59`: `scheduler_tick` is "Called every N CPU cycles from main loop", "may trigger preemption" | `exec386(1000)` goes on until `tsc` passes `timer_target`, 2^31 - 2 for ever, or until it is asked to exit (`386_dynarec.c:894`, `stubs.c:89`, `:168`): a thread that computes is not preempted. Once the target is passed, no guest code runs any more, and when the cycles are paid back, `exec386` does not return |

Further ones met while reading, modelled as the code has them or left out, with
no run of their own:

* *Scheduler.* A wait with no timeout ends at once with `STATUS_TIMEOUT`
  (`scheduler.c:389`), although `scheduler.h:108` says 0 is infinite.
  The thread that was dispatched during another's blocking
  call stays RUNNING, off the queue, when the caller is made current
  (`scheduler.c:476`). Each recursive acquisition lowers a
  mutant's `signal_state` and only the last release raises it, so it drifts from
  `recursion_count` (`ntdll.c:1321`). Terminating a thread leaves the mutants it
  owns; nothing sets `abandoned` (`ntdll.c:1617`).
  `syscall_return` writes EAX of whatever thread is in the registers
  (`ntdll.c:59`). `NtWaitForSingleObject` refuses the handle type that
  `NtCreateMutant` registers (`ntdll.c:251`), and `sync_get_header` does not know
  it. The sum of `NtReleaseSemaphore` may come out negative (`ntdll.c:1188`).
* *Threads.* `NtCreateThread` keeps the frames of a TEB or stack it could not
  finish, and compares a failed handle with `INVALID_HANDLE_VALUE`, which
  `handles_add` never returns. The first created stack begins at
  `STACK_REGION_END`, which is the top of the main thread's stack: the page below
  it is mapped although `thread.c:479` says "Guard page is not mapped", and its
  own pages replace the main thread's. After some 174,000 calls `next_teb_addr` wraps.
* *Calls into the guest.* A nested loop that a request to exit ends clears the
  request (`user_callback.c:421`, `:493`, `vm.c:750`), and the caller's guest code
  executes on until a call of it asks again, although `sys_process.c:51` says
  "Signal CPU to exit immediately". A callback's result may come from another thread's
  procedure (`user_callback.h:62`). A nested callback clears the `CallbackWnd`
  cache and does not restore it (`user_callback.c:404`). `vm_call_dll_entry`
  discards a request to exit that came during the call (`vm.c:750`).
* *Handles.* The generation of a USER handle wraps after 2^16 frees of one entry,
  and the free list is last in, first out (`user_handle_table.c:124`): a value
  that old is valid again. `NeverReissued` is stated for fewer frees. Closing a
  kernel handle frees the object behind it, a thread that is still linked too
  (`handles.c:121`; `handles.h:32` calls it a sync object).
* *Files.* A `.` between two names removes the separator, so `a\.\b` is taken for
  `ab` (`vfs_jail.c:291`, "stay in current directory, remove it"); `PathsMeant`
  excludes it. A drive mapped to `/` fails `check_path_in_drive` for every file.
  `NtCreateFile` makes or empties the file before the path is checked and before
  it knows of a free handle. A file whose handle is 1 or 2 cannot be read or
  written, because those values stand for the standard streams; entry 1 is the
  console input and value 1 the output. `FILE_SUPERSEDE` and `FILE_OVERWRITE_IF`
  never report that they created the file; `FILE_APPEND_DATA` does not append;
  `file_offset` is not kept up by writes.
* *Classes.* `read_guest_unicode_string` "Returns 0 and fills buffer if it's a
  regular string" (`user_syscalls.c:108`) and has no `return` on that path (`:161`).
  The result is undefined: GCC 12 leaves bits of a stack address (`-O0`), the last
  character (`-O1`), the length (`-O2`) or 0 (`-O3`). `NtUserRegisterClassExWOW` takes
  any other value than 0 for an atom and registers the class under a made-up name, by
  which `NtUserCreateWindowEx` does not find it. `CreateWindowEx` by atom takes the newest class that has the atom,
  whichever module registered it. A global class registered after a local one of
  the same name hides it from its own module. The reference count in the guest's
  copy of a class stays 0, and system classes have no copy. The desktop's class
  is NULL.
* *Windows.* The guest's handle entry stays after a window is destroyed
  (`user_window.c:254`). A search of the desktop after a
  child is not recursive although the first is, so an enumeration of the desktop
  may stop early (`user_syscalls.c`, `sys_NtUserFindWindowEx`); `GA_ROOT` answers
  the desktop (`user_syscalls.c:1583`).
* *Messages.* `WM_PAINT` "persists until validated" (`user_message.c:221`), and
  nothing validates: the bits are never cleared. `GetMessage` waits with
  `nanosleep` in the host although the comment says it yields
  (`user_syscalls.c:1030`): no other guest thread runs meanwhile. Focus messages
  and `WM_QUIT` are dropped at a full ring while the focus and `quitPosted`
  change. With a window filter only the first window that needs painting is
  considered. A quit request is posted again by each poll.
* *GDI.* `wUpper` of the table mapped into the guest is the "Upper 16 bits of
  handle" and the entry "matches Windows/ReactOS" (`gdi_handle_table.h:27`, `:22`), but
  `update_shared_entry` writes the reuse count there (`gdi_handle_table.c:20`); the upper
  half of a handle has the type as well. `TableSound` says nothing of this field.
  `gdi_free_handle` compares the type and not the reuse count, so a
  stale handle deletes a newer object (`gdi_handle_table.h:128` says it returns
  false for an invalid one). `RestoreDC` brings a bitmap back without looking at
  its DC (`gdi_dc.c:564`), so one bitmap may be in two DCs, which `gdi_dc.c:271`
  rules out. Deleting a DC leaves its bitmap marked as selected.
  Deleting a selected brush, pen, font or bitmap leaves the pointer of the DC
  and of its saved states, which then name what takes its place in the pool. The pixels
  of a bitmap without a handle are freed twice (`gdi_drawing.c:700`).
* *Memory and loading.* `heap_alloc` adds size and place in 32 bits, so a request
  close to 4 GB passes the limit (`heap.c:95`). So does `paging_alloc_phys`
  (`paging.c:119`) for an image whose `SizeOfImage`, which `pe_loader.c:190` takes as it
  is, is close to 4 GB: the next frame then moves back to ones that are taken. In
  the model addition does not wrap, so `MapFresh` refuses such an image.
  `alloc_page_table` (`paging.c:32`) does not look whether the area of the tables is
  used up, which `LoaderAssumption` excludes. `user_fill_userconnect` and
  `user_alloc_guest_handle_table` note an address before the memory is there, and
  a second call takes it for allocated. The layout in `vm.h:38` has the stack at
  0x02000000 to 0x04000000 and the heap at 0x05000000; by `vm.h:28` the stack is
  0x04000000 to 0x08000000, by `heap.h:19` the heap is at 0x10000000. The heap is at 0x10000000 "to
  avoid overlap with" images (`heap.h:15`), which is the linker's default base of a
  DLL: an image is mapped where it asks to be (`loader.c:185`) and the heap over it
  (`heap.c:68`). Images whose base is taken are not relocated to another. `vm.c:763` speaks of dependency order, but entry points
  other than those of the priority list are called in the order of loading.
  Forwarders that lead in a circle recurse without end.

## What is not modelled

The CPU emulator, which is four fifths of the repository's code, is taken over
from 86Box: the semantics of instructions, descriptor tables and a dynamic
recompiler. Its state space is that of a processor, and what wbox depends on
is that guest code runs and when `exec386` returns. Of that function the loops and
the conditions that end them are in `Scheduler`. For this reason
the mapped lines are a small share of all lines, and stay one: of the 19,000
lines of C outside `cpu/` they are nearly two fifths.

Register contents, stacks and the rest of a TEB; geometry, styles, text
and properties of windows; parameters of messages; drawing, text output and the
pixels of bitmaps; regions; UTF-16, the search that
ignores case, the query calls on files; the layout of PE images. They are data
that no property here tells apart. `paging_unmap_page` and
`user_class_unregister` have no caller. Waiting for a thread handle in
`NtWaitForMultipleObjects` casts a thread to a dispatcher header; the outcome is
undefined and the arrays of the model hold synchronisation objects only. The
guest heap is a pointer that moves up: any property of it would restate one
line, or run into the sum that wraps at `heap.c:95`.

## Plan

What would add most from here:

1. `UserWindows` with several threads: its callbacks and those of `GuestCalls`
   in one module.
