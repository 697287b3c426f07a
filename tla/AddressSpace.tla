---------------------------- MODULE AddressSpace ----------------------------
(* The address space of the guest: vm/paging.c, which builds the page tables
   in the guest's physical memory, and the two allocators of thread/thread.c
   that lay out the stack and the TEB of every created thread.

   Addresses count pages and frames of 4 KB. The physical memory holds, from
   the bottom: the Low frames that are mapped to themselves, the page
   directory, the frames reserved for page tables, and the frames that
   paging_alloc_phys hands out in order and never takes back. Only the words
   of the directory and of the tables are modelled, not what the guest keeps
   in its own frames.                                                       *)
EXTENDS Integers, FiniteSets, Sequences

CONSTANTS
  Words,        \* entries of the directory and of a table (1024)
  Low,          \* frames below the directory, mapped to themselves (256)
  Reserved,     \* frames kept for the directory and the tables (256)
  Frames,       \* frames of physical memory
  Absent,       \* an entry whose present bit is clear
  StackBase,    \* STACK_REGION_BASE
  StackTop,     \* STACK_REGION_END, which is also VM_USER_STACK_TOP
  StackPages,   \* THREAD_DEFAULT_STACK_SIZE
  MainTeb,      \* MAIN_THREAD_TEB_ADDR
  TebFloor,     \* no TEB is put below this page
  TebStep       \* TEB_ALLOCATION_STEP

Pages  == 0 .. Words * Words - 1
Index  == 0 .. Words - 1
Frame  == 0 .. Frames - 1
Entry  == [frame : Frame, user : BOOLEAN, write : BOOLEAN]

Pde(va) == va \div Words
Pte(va) == va % Words
Pd == Low
AllocBase == Pd + Reserved
TableFrame == Pd .. AllocBase - 1

\* The pages of the stacks of all threads.
StackRegion == StackBase .. StackTop

(* What the constants of the code satisfy: page 0 to the last page of the
   stacks, of the TEBs and of the low memory are pages, the TEBs are above the
   stacks, and there is physical memory for the reserved frames.            *)
ASSUME AddressSpaceAssumption ==
  /\ Words \in Nat \ {0} /\ Reserved \in Nat \ {0} /\ Low \in Nat /\ Frames \in Nat
  /\ AllocBase <= Frames /\ Low <= Words * Words
  /\ Absent \notin Nat /\ Absent \notin Entry
  /\ StackBase \in Nat /\ StackTop \in Nat /\ StackPages \in Nat
  /\ MainTeb \in Pages /\ TebFloor \in Nat /\ TebStep \in 1 .. MainTeb
  /\ StackTop < TebFloor /\ TebFloor <= MainTeb

VARIABLES
  mem,          \* the words of the frames reserved for directory and tables
  nextPt,       \* next_pt_phys
  allocPtr,     \* phys_alloc_ptr
  nextTeb,      \* next_teb_addr
  nextStack,    \* next_stack_addr
  threads       \* of every created thread: its TEB and the ends of its stack

memory == <<mem, nextPt, allocPtr>>
spaceVars == <<mem, nextPt, allocPtr, nextTeb, nextStack, threads>>

\* Mutant of SpaceInit: the first TEB is put next to the main one.
SpaceInitNextPage ==
  /\ mem = [f \in TableFrame |-> [i \in Index |-> Absent]]
  /\ nextPt = Pd + 1
  /\ allocPtr = AllocBase
  /\ nextTeb = MainTeb - 1
  /\ nextStack = StackTop
  /\ threads = <<>>

SpaceInit ==
  /\ mem = [f \in TableFrame |-> [i \in Index |-> Absent]]
  /\ nextPt = Pd + 1
  /\ allocPtr = AllocBase
  /\ nextTeb = MainTeb - TebStep
  /\ nextStack = StackTop
  /\ threads = <<>>

-----------------------------------------------------------------------------
(* The walk from the directory through a table to the entry of a page: the
   one of the processor and the one of paging_is_mapped and
   paging_get_phys.                                                         *)
Walk(m, va) ==
  LET pde == m[Pd][Pde(va)]
  IN  IF pde = Absent THEN Absent ELSE m[pde.frame][Pte(va)]

IsMapped(m, va) == Walk(m, va) # Absent
GetPhys(m, va)  == Walk(m, va).frame

(* Mapping the pages of a set to the entries given, in ascending order as the
   callers do: every directory entry that is absent gets the next table of the
   reserved area, cleared; an entry that is present is overwritten without a
   look.                                                                    *)
Missing(m, pages) == { Pde(va) : va \in { v \in pages : m[Pd][Pde(v)] = Absent } }

TableOf(m, pt, pages, d) ==
  IF m[Pd][d] # Absent THEN m[Pd][d].frame
  ELSE pt + Cardinality({ c \in Missing(m, pages) : c < d })

MapPages(m, pt, new) ==
  LET pages == DOMAIN new
      fresh == Missing(m, pages)
      Holds(va, f, i) == TableOf(m, pt, pages, Pde(va)) = f /\ Pte(va) = i
  IN  [f \in TableFrame |-> [i \in Index |->
        IF f = Pd /\ i \in fresh
        THEN [frame |-> TableOf(m, pt, pages, i), user |-> TRUE, write |-> TRUE]
        ELSE IF \E va \in pages : Holds(va, f, i)
        THEN new[CHOOSE va \in pages : Holds(va, f, i)]
        ELSE IF \E d \in fresh : TableOf(m, pt, pages, d) = f THEN Absent
        ELSE m[f][i]]]

\* Mutant of PtAfter: one table is counted whatever the range takes.
PtAfterOne(m, pt, pages) == IF Missing(m, pages) = {} THEN pt ELSE pt + 1

PtAfter(m, pt, pages) == pt + Cardinality(Missing(m, pages))

(* paging_alloc_phys hands out the next n frames, when there are so many,
   and some pages are mapped to them. Bound: the code rounds the size and adds
   it in 32 bits; sizes so close to 4 GB that this wraps are left out.      *)
Room == Frames - allocPtr

MapFresh(n, new) ==
  /\ n <= Room
  /\ mem' = MapPages(mem, nextPt, new)
  /\ nextPt' = PtAfter(mem, nextPt, DOMAIN new)
  /\ allocPtr' = allocPtr + n

Span(at, n) == at .. at + n - 1
\* Mutant of ToFrames: every region begins at the first frame.
ToFramesFromBase(at, n, first, write) ==
  [va \in Span(at, n) |-> [frame |-> AllocBase + (va - at), user |-> TRUE, write |-> write]]

ToFrames(at, n, first, write) ==
  [va \in Span(at, n) |-> [frame |-> first + (va - at), user |-> TRUE, write |-> write]]

(* paging_alloc_phys followed by paging_map_range, which every subsystem uses
   for its region.                                                          *)
MapRegion(at, n, write) == MapFresh(n, ToFrames(at, n, allocPtr, write))

(* The identity mapping of the low memory, for the kernel only.             *)
MapLow ==
  LET new == [va \in 0 .. Low - 1 |-> [frame |-> va, user |-> FALSE, write |-> TRUE]]
  IN  /\ mem' = MapPages(mem, nextPt, new)
      /\ nextPt' = PtAfter(mem, nextPt, DOMAIN new)
      /\ UNCHANGED allocPtr

-----------------------------------------------------------------------------
(* thread_create as NtCreateThread calls it: the address of a TEB is used up
   by every call; the TEB and then the pages of the stack are mapped one by
   one, and a call that runs out of frames leaves behind what it has mapped. *)
TebRefused == nextTeb < TebFloor \/ Room = 0

StackRefused == nextStack < StackBase + StackPages + 1

StackLimit == nextStack - StackPages

(* What thread_create maps: the TEB and got pages from the stack's lower
   end up.                                                                  *)
ThreadPages(got) ==
  [va \in {nextTeb} \cup Span(StackLimit, got) |->
    [frame |-> IF va = nextTeb THEN allocPtr ELSE allocPtr + 1 + (va - StackLimit),
     user |-> TRUE, write |-> TRUE]]

NoTeb ==
  /\ TebRefused
  /\ UNCHANGED <<memory, nextStack, threads>>

NoStackAddress ==
  /\ ~TebRefused /\ StackRefused
  /\ MapRegion(nextTeb, 1, TRUE)
  /\ UNCHANGED <<nextStack, threads>>

NoStackMemory ==
  /\ ~TebRefused /\ ~StackRefused
  /\ Room - 1 < StackPages
  /\ MapFresh(Room, ThreadPages(Room - 1))
  /\ nextStack' = StackLimit - 1
  /\ UNCHANGED threads

ThreadCreated ==
  /\ ~TebRefused /\ ~StackRefused
  /\ MapFresh(StackPages + 1, ThreadPages(StackPages))
  /\ nextStack' = StackLimit - 1
  /\ threads' = Append(threads, [teb |-> nextTeb, base |-> nextStack, limit |-> StackLimit])

(* The bound: next_teb_addr has not passed below zero.                      *)
TebAddressLeft == nextTeb >= TebStep

NtCreateThread ==
  /\ TebAddressLeft
  /\ nextTeb' = nextTeb - TebStep
  /\ NoTeb \/ NoStackAddress \/ NoStackMemory \/ ThreadCreated

-----------------------------------------------------------------------------
(* The address space as the specification AddressMap has it.                *)
Map == [va \in Pages |-> IF IsMapped(mem, va) THEN GetPhys(mem, va) ELSE Absent]

Abstract == INSTANCE AddressMap
  WITH map <- Map, used <- AllocBase .. allocPtr - 1, Nowhere <- Absent

(* Every step of the program is one that AddressMap allows: the tables that
   the host builds and the processor walks never lead two pages to one frame
   nor to a frame that was handed out before (paging_map_page,
   paging_alloc_phys).                                                      *)
ImplementsAddressMap == Abstract!Spec

SpaceTypeOK ==
  /\ mem \in [TableFrame -> [Index -> Entry \cup {Absent}]]
  /\ nextPt \in Nat /\ allocPtr \in Nat
  /\ nextTeb \in Nat /\ nextStack \in Nat
  /\ threads \in Seq([teb : Pages, base : Pages, limit : Pages])

(* The directory leads to tables of its own, one each, within the frames that
   paging_init reserves: none is the directory or a frame of the guest.     *)
TablesOwn ==
  /\ nextPt \in Pd + 1 .. AllocBase
  /\ \A d \in Index : mem[Pd][d] # Absent => mem[Pd][d].frame \in Pd + 1 .. nextPt - 1
  /\ \A c, d \in Index : /\ mem[Pd][c] # Absent /\ mem[Pd][d] # Absent
                         /\ mem[Pd][c].frame = mem[Pd][d].frame
                         => c = d

(* What the guest can reach is memory that was handed out: neither the tables
   nor the descriptor tables below them, nor what nobody has allocated.     *)
GuestKeptOut ==
  \A va \in Pages : IsMapped(mem, va) /\ Walk(mem, va).user
                    => GetPhys(mem, va) \in AllocBase .. allocPtr - 1

(* Created threads share neither stack nor TEB, also after calls that failed
   half way, and all of their pages are there (thread_allocate_teb,
   thread_allocate_stack).                                                  *)
StackOf(t) == t.limit .. t.base - 1
ThreadsApart ==
  /\ \A i \in DOMAIN threads : \A va \in StackOf(threads[i]) \cup {threads[i].teb} :
       IsMapped(mem, va) /\ Walk(mem, va).user /\ Walk(mem, va).write
  /\ \A i, j \in DOMAIN threads : i < j =>
       /\ threads[j].base < threads[i].limit
       /\ threads[j].teb < threads[i].teb

(* The address space is sound: types, tables, frames and threads.           *)
SpaceSound == SpaceTypeOK /\ TablesOwn /\ GuestKeptOut /\ ThreadsApart

=============================================================================
