------------------------------- MODULE Loader -------------------------------
(* Bringing a process up: main.c, vm_load_pe_with_dlls and vm_init_dlls
   (vm/vm.c) around the loader (loader/loader.c, imports.c, exports.c,
   stubs.c, module.c), over the address space they map everything into.

   Which images exist, what they import and what they export is the program,
   chosen at the start among Programs. A record of a program has
     size      the pages of every image that can be found and read,
     base      the page each of them is loaded at, the one it asks for,
     imports   for every image its import table, a sequence of
               <<image, function>> pairs,
     exports   for every image a function from the names it exports to
               "code" or to the <<image, function>> it forwards to,
     entry     the images that have an entry point of their own.            *)
EXTENDS AddressSpace, SequencesExt

CONSTANTS
  Images, Exe, Ntdll,   \* the images, the main executable and ntdll.dll
  Priority,             \* priority_dlls: initialised first, in this order
  Programs,
  BeforeLoad, AfterLoad, AfterPaging,  \* the regions mapped before the loader
                        \* runs, after it and after paging is on:
                        \* [at, pages, write, must]
  Shared,               \* the regions the USER subsystem maps for a process
  StubNames,            \* the functions of ntdll that have a stub
  StubRoom, LdrRoom     \* what fits into the stub region and the loader heap

Starting == BeforeLoad \o AfterLoad \o AfterPaging \o Shared
RegionPages(r) == Span(r.at, r.pages)

\* The images of a program that memory is large enough for, and their pages.
Fitting(p) == { m \in DOMAIN p.size : p.size[m] <= Frames - AllocBase }
ImagePages(p, m) == Span(p.base[m], p.size[m])

\* The functions a program's images export as forwarders to other functions.
Forwarders(p) ==
  UNION { { <<m, f>> : f \in { g \in DOMAIN p.exports[m] : p.exports[m][g] # "code" } } :
          m \in DOMAIN p.size }

LowPages == 0 .. Low - 1
TebPages == TebFloor .. MainTeb - TebStep

\* The pages that starting and running a program may map.
Reachable(p) ==
  LowPages \cup TebPages \cup StackRegion
    \cup (UNION { RegionPages(Starting[i]) : i \in DOMAIN Starting })
    \cup (UNION { ImagePages(p, m) : m \in Fitting(p) })

(* Types; and the tables reserved are enough for the program, which the code
   does not look at: a table maps 4 MB, and 255 are reserved.               *)
ASSUME LoaderAssumption ==
  /\ \A list \in {BeforeLoad, AfterLoad, AfterPaging, Shared} :
       list \in Seq([at : Pages, pages : Nat, write : BOOLEAN, must : BOOLEAN])
  /\ Exe \in Images
  /\ Priority \in Seq(Images) /\ IsInjective(Priority)
  /\ Absent \notin Images /\ StubRoom \in Nat /\ LdrRoom \in Nat \ {0}
  /\ \A p \in Programs :
       /\ DOMAIN p.size \subseteq Images
       /\ \A m \in DOMAIN p.size :
            /\ p.size[m] \in Nat /\ p.base[m] \in Pages
            /\ Len(p.imports[m]) \in Nat /\ DOMAIN p.imports[m] = 1 .. Len(p.imports[m])
       /\ IsFiniteSet(Forwarders(p))
       /\ Reachable(p) \subseteq Pages
       /\ Cardinality({ Pde(va) : va \in Reachable(p) }) < Reserved

(* The regions, whose addresses are constants of the code, have addresses of
   their own. Nothing is assumed of the images: each is loaded at the address
   it asks for without a look at what is there.                             *)
Apart(S, T) == S \cap T = {}
ASSUME LayoutAssumption ==
  /\ \A i, j \in DOMAIN Starting :
       i # j => Apart(RegionPages(Starting[i]), RegionPages(Starting[j]))
  /\ \A i \in DOMAIN Starting : Apart(RegionPages(Starting[i]), LowPages \cup TebPages)
  /\ \A i \in DOMAIN Shared : Apart(RegionPages(Shared[i]), StackRegion)
  /\ Apart(LowPages, TebPages \cup StackRegion)

(* The pages that more than one part of a program claims: those of the stacks,
   where the first created thread begins at the very address at which the stack
   of the main thread does (next_stack_addr, VM_USER_STACK_TOP), and those of an
   image that also belong to a region, to a TEB or to another image.        *)
Fixed == LowPages \cup TebPages
           \cup (UNION { RegionPages(Starting[i]) : i \in DOMAIN Starting })
Contested(p) ==
  StackRegion \cup UNION { ImagePages(p, m) \cap
    (Fixed \cup UNION { ImagePages(p, n) : n \in Fitting(p) \ {m} }) : m \in Fitting(p) }

VARIABLES
  program,
  phase,      \* "before", "load", "after", "process", "dlls", "run", "stopped"
  regions,    \* the regions still to be mapped in this phase
  modules,    \* the module list, its head first
  resolved,   \* the modules whose imports_resolved flag is set
  busy,       \* the module whose imports are being resolved, or Absent
  import,     \* the number of its import at hand
  target,     \* where the forwarders have led so far: <<image, function>>
  cursor,     \* the place in the list, counted from its tail
  again,      \* the last pass over the list has resolved something
  iat,        \* what was written for every import, Absent where nothing was
  stubs,      \* the stub registry: names, in the order of their code
  ldr,        \* the modules with a loader entry, in load order
  entries,    \* the DLLs still to be looked at for an entry point to call
  inited,     \* the modules whose entry point has been called, in order
  connected   \* how many of the Shared regions count as mapped

importing == <<busy, import, target, iat, stubs>>
passing   == <<resolved, cursor, again>>
starting  == <<ldr, entries, inited>>
vars == <<spaceVars, program, phase, regions, modules, importing, passing, starting,
          connected>>

Known == DOMAIN program.size
Listed == { modules[i] : i \in DOMAIN modules }
Imports(m) == program.imports[m]

Init ==
  /\ SpaceInit
  /\ program \in Programs
  /\ phase = "before" /\ regions = BeforeLoad
  /\ modules = <<>> /\ resolved = {} /\ cursor = 0 /\ again = FALSE
  /\ busy = Absent /\ import = 0 /\ target = Absent
  /\ iat = [m \in Images |-> [i \in DOMAIN Imports(m) |-> Absent]] /\ stubs = <<>>
  /\ ldr = <<>> /\ entries = <<>> /\ inited = <<>>
  /\ connected = 0

-----------------------------------------------------------------------------
(* Regions. A failed allocation ends the start, except for the GDI table and
   the heap, which the program goes on without. A failed allocation of the
   USER subsystem ends its call, and all but the first region then count as
   mapped: their addresses are set before the allocation.                   *)
GuestRuns == phase \in {"dlls", "run"}

RegionMapped ==
  /\ regions # <<>>
  /\ LET r == Head(regions) IN MapRegion(r.at, r.pages, r.write)
  /\ regions' = Tail(regions)
  /\ connected' = IF GuestRuns THEN connected + 1 ELSE connected
  /\ UNCHANGED <<nextTeb, nextStack, threads, program, phase, modules, importing, passing,
                 starting>>

StartRefused ==
  /\ ~GuestRuns
  /\ IF Head(regions).must THEN phase' = "stopped" /\ regions' = <<>>
                           ELSE regions' = Tail(regions) /\ UNCHANGED phase
  /\ UNCHANGED connected

ConnectRefused ==
  /\ GuestRuns
  /\ regions' = <<>>
  /\ connected' = CASE connected = 0 -> 0
                    [] connected = 1 -> 2
                    [] OTHER -> Len(Shared)
  /\ UNCHANGED phase

RegionRefused ==
  /\ regions # <<>>
  /\ Head(regions).pages > Room
  /\ StartRefused \/ ConnectRefused
  /\ UNCHANGED <<spaceVars, program, modules, importing, passing, starting>>

-----------------------------------------------------------------------------
(* load_pe_internal: an image that can be read and for which there is memory
   is mapped at its base and put at the head of the module list.            *)
CanLoad(m) == m \in Known /\ program.size[m] <= Room

LoadImage(m) ==
  /\ CanLoad(m)
  /\ MapRegion(program.base[m], program.size[m], TRUE)
  /\ modules' = <<m>> \o modules
  /\ UNCHANGED <<nextTeb, nextStack, threads>>

(* The import at hand becomes the nth of module m, if it has so many.       *)
Begin(m, n) ==
  IF n > Len(Imports(m))
  THEN busy' = Absent /\ import' = 0 /\ target' = Absent
  ELSE busy' = m /\ import' = n /\ target' = Imports(m)[n]

(* The main executable: its image, its loader entry, then its imports.      *)
LoadExe ==
  /\ phase = "before" /\ regions = <<>>
  /\ LoadImage(Exe)
  /\ phase' = "load" /\ ldr' = <<Exe>> /\ again' = TRUE
  /\ Begin(Exe, 1)
  /\ UNCHANGED <<program, regions, iat, stubs, resolved, cursor, entries, inited, connected>>

LoadExeFails ==
  /\ phase = "before" /\ regions = <<>>
  /\ ~CanLoad(Exe)
  /\ phase' = "stopped"
  /\ UNCHANGED <<spaceVars, program, regions, modules, importing, passing, starting, connected>>

-----------------------------------------------------------------------------
(* imports_resolve and imports_resolve_function, an import at a time: the
   image it names is found in the list or loaded; a function of ntdll with a
   stub is bound to it; any other is looked up among the exports, where a
   forwarder leads to another image and function. An import that leads nowhere
   is counted, and its table entry stays as it is.                          *)
Resolving == phase = "load" /\ busy # Absent

LoadTarget ==
  /\ Resolving /\ target[1] \notin Listed
  /\ LoadImage(target[1])
  /\ UNCHANGED <<program, phase, regions, importing, passing, starting, connected>>

Bind(value) ==
  /\ iat' = [iat EXCEPT ![busy][import] = value]
  /\ Begin(busy, import + 1)

Registered(name) == \E i \in DOMAIN stubs : stubs[i] = name
StubOf(registry, name) == CHOOSE i \in DOMAIN registry : registry[i] = name
UsesStub ==
  /\ target[1] = Ntdll /\ target[2] \in StubNames
  /\ Registered(target[2]) \/ Len(stubs) < StubRoom

BindStub ==
  /\ UsesStub
  /\ stubs' = IF Registered(target[2]) THEN stubs ELSE Append(stubs, target[2])
  /\ Bind(<<"stub", StubOf(stubs', target[2])>>)

Exports == program.exports[target[1]]

BindCode ==
  /\ ~UsesStub
  /\ target[2] \in DOMAIN Exports /\ Exports[target[2]] = "code"
  /\ Bind(target)
  /\ UNCHANGED stubs

FollowForwarder ==
  /\ ~UsesStub
  /\ target[2] \in DOMAIN Exports /\ Exports[target[2]] # "code"
  /\ target' = Exports[target[2]]
  /\ UNCHANGED <<iat, stubs, busy, import>>

SkipImport == Begin(busy, import + 1) /\ UNCHANGED <<iat, stubs>>

NotExported ==
  /\ ~UsesStub
  /\ target[2] \notin DOMAIN Exports
  /\ SkipImport

NotLoaded == ~CanLoad(target[1]) /\ SkipImport

ResolveFunction ==
  /\ Resolving
  /\ IF target[1] \in Listed THEN BindStub \/ BindCode \/ FollowForwarder \/ NotExported
                             ELSE NotLoaded
  /\ UNCHANGED <<spaceVars, program, phase, regions, modules, passing, starting, connected>>

-----------------------------------------------------------------------------
(* The passes over the module list until one resolves nothing more. The list
   grows at its head while the cursor moves on towards its tail.            *)
BetweenModules == phase = "load" /\ busy = Absent

StartPass ==
  /\ BetweenModules /\ cursor = 0 /\ again
  /\ cursor' = Len(modules) /\ again' = FALSE
  /\ UNCHANGED <<spaceVars, program, phase, regions, modules, importing, resolved, starting,
                 connected>>

AtCursor == modules[Len(modules) + 1 - cursor]
\* Mutant of NeedsResolving: imports_resolved is not looked at.
NeedsResolvingAgain(m) == m # Exe /\ Imports(m) # <<>>

NeedsResolving(m) == m # Exe /\ m \notin resolved /\ Imports(m) # <<>>

\* Mutant of VisitModule: a module loaded by the pass is left out.
VisitModuleOnePass ==
  /\ BetweenModules /\ cursor > 0
  /\ cursor' = cursor - 1
  /\ IF NeedsResolving(AtCursor)
     THEN resolved' = resolved \cup {AtCursor} /\ Begin(AtCursor, 1)
     ELSE UNCHANGED <<resolved, busy, import, target>>
  /\ UNCHANGED <<spaceVars, program, phase, regions, modules, again, iat, stubs, starting,
                 connected>>

VisitModule ==
  /\ BetweenModules /\ cursor > 0
  /\ cursor' = cursor - 1
  /\ IF NeedsResolving(AtCursor)
     THEN /\ resolved' = resolved \cup {AtCursor}
          /\ again' = TRUE
          /\ Begin(AtCursor, 1)
     ELSE UNCHANGED <<resolved, again, busy, import, target>>
  /\ UNCHANGED <<spaceVars, program, phase, regions, modules, iat, stubs, starting, connected>>

(* Loader entries for the DLLs, from the head of the list on, as far as the
   loader heap goes.                                                        *)
Dlls == RemoveAt(modules, CHOOSE i \in DOMAIN modules : modules[i] = Exe)

CreateLdrEntries ==
  /\ BetweenModules /\ cursor = 0 /\ ~again
  /\ ldr' = ldr \o SubSeq(Dlls, 1, IF Len(Dlls) < LdrRoom THEN Len(Dlls) ELSE LdrRoom - 1)
  /\ phase' = "after" /\ regions' = AfterLoad
  /\ UNCHANGED <<spaceVars, program, modules, importing, passing, entries, inited, connected>>

-----------------------------------------------------------------------------
(* vm_setup_paging, then the structures of the process.                     *)
SetupPaging ==
  /\ phase = "after" /\ regions = <<>>
  /\ MapLow
  /\ phase' = "process" /\ regions' = AfterPaging
  /\ UNCHANGED <<nextTeb, nextStack, threads, program, modules, importing, passing, starting,
                 connected>>

(* vm_init_dlls looks at the priority DLLs, in the order of that list, then at
   all modules from the tail of the module list to its head, and calls the
   entry point of each that is due: one whose inited flag is not set.       *)
HasEntry(m) == m # Exe /\ m \in program.entry

\* Mutant of Due: the inited flags are not looked at.
DueAgain(m) == m \in Listed /\ HasEntry(m)

Due(m) == m \in Listed /\ HasEntry(m) /\ ~Contains(inited, m)

StartDlls ==
  /\ phase = "process" /\ regions = <<>>
  /\ phase' = "dlls"
  /\ entries' = Priority \o Reverse(modules)
  /\ UNCHANGED <<spaceVars, program, regions, modules, importing, passing, ldr, inited,
                 connected>>

Idle == GuestRuns /\ regions = <<>>

InitDll ==
  /\ phase = "dlls" /\ regions = <<>>
  /\ \E i \in DOMAIN entries :
       /\ Due(entries[i]) /\ \A j \in 1 .. i - 1 : ~Due(entries[j])
       /\ inited' = Append(inited, entries[i])
       /\ entries' = SubSeq(entries, i + 1, Len(entries))
  /\ UNCHANGED <<spaceVars, program, phase, regions, modules, importing, passing, ldr, connected>>

StartProgram ==
  /\ phase = "dlls" /\ regions = <<>>
  /\ \A i \in DOMAIN entries : ~Due(entries[i])
  /\ phase' = "run"
  /\ UNCHANGED <<spaceVars, program, regions, modules, importing, passing, starting, connected>>

-----------------------------------------------------------------------------
(* The guest, in an entry point or in the program: it creates threads and
   connects to the USER subsystem, which maps its regions.                  *)
CreateThread ==
  /\ Idle /\ (inited # <<>> \/ phase = "run")
  /\ NtCreateThread
  /\ UNCHANGED <<program, phase, regions, modules, importing, passing, starting, connected>>

ProcessConnect ==
  /\ Idle /\ (inited # <<>> \/ phase = "run")
  /\ connected < Len(Shared)
  /\ regions' = SubSeq(Shared, connected + 1, Len(Shared))
  /\ UNCHANGED <<spaceVars, program, phase, modules, importing, passing, starting, connected>>

HostStep ==
  \/ RegionMapped \/ RegionRefused
  \/ LoadExe \/ LoadExeFails \/ LoadTarget \/ ResolveFunction
  \/ StartPass \/ VisitModule \/ CreateLdrEntries
  \/ SetupPaging \/ StartDlls

GuestStep == InitDll \/ StartProgram \/ CreateThread \/ ProcessConnect

Next == HostStep \/ GuestStep

Spec == Init /\ [][Next]_vars /\ WF_vars(HostStep)

-----------------------------------------------------------------------------
(* paging_map_page overwrites an entry that is present without a look; still a
   page that is mapped stays where it is, whichever calls fail half way, unless
   two parts of the program claim it.                                       *)
MappedStays ==
  [][\A va \in Pages \ Contested(program) :
       IsMapped(mem, va) => Walk(mem', va) = Walk(mem, va)]_mem

(* Where an import leads in the end, forwarders followed: as many hops as the
   program has forwarders lead to the end of every chain that has one.      *)
Exported(t) == t[1] \in Listed /\ t[2] \in DOMAIN program.exports[t[1]]
Stubbed(t) == t[1] \in Listed /\ t[1] = Ntdll /\ Registered(t[2])
ForwardedTo(t) == program.exports[t[1]][t[2]]
Forwards(t) == Exported(t) /\ ~Stubbed(t) /\ ForwardedTo(t) # "code"
Hop(t) == IF Forwards(t) THEN ForwardedTo(t) ELSE t

Final(t) ==
  LET hops == Cardinality(Forwarders(program))
      after[n \in 0 .. hops] == IF n = 0 THEN t ELSE Hop(after[n - 1])
  IN  after[hops]

\* A stub goes before the code, and an import that leads nowhere is not bound.
BoundTo(t, value) ==
  value = IF Stubbed(t) THEN <<"stub", StubOf(stubs, t[2])>>
          ELSE IF Exported(t) THEN t ELSE Absent

Loaded == phase \in {"after", "process", "dlls", "run"}

(* When loading is over the module list holds no image twice, every import of
   every module in it has been resolved, whichever pass found the module, what
   was written for it is the function at the end of its forwarders or that
   function's one stub, and the guest's own list of modules has them all, the
   main executable first (loader_load_executable).                          *)
LoaderSound ==
  /\ IsInjective(modules) /\ IsInjective(stubs)
  /\ Loaded =>
       /\ \A m \in Listed : \A i \in DOMAIN Imports(m) :
            BoundTo(Final(Imports(m)[i]), iat[m][i])
       /\ IsInjective(ldr) /\ ldr[1] = Exe
       /\ ToSet(ldr) \subseteq Listed
       /\ Len(modules) <= LdrRoom => ToSet(ldr) = Listed

Rank(m) == IF Contains(Priority, m) THEN CHOOSE i \in DOMAIN Priority : Priority[i] = m
           ELSE Len(Priority) + 1

(* Every entry point is called once, whichever of the two loops of
   vm_init_dlls comes to it, the priority DLLs before all others and in their
   order, and all of them before the program starts.                        *)
EntriesOnce ==
  /\ IsInjective(inited)
  /\ \A i, j \in DOMAIN inited : i < j => Rank(inited[i]) <= Rank(inited[j])
  /\ ToSet(inited) \subseteq { m \in Listed : HasEntry(m) }
  /\ phase = "run" => ToSet(inited) = { m \in Listed : HasEntry(m) }

(* Loading comes to an end, whatever imports whatever: the passes over the
   module list stop although resolving an import may load another image.    *)
LoadEnds == <>(phase \in {"dlls", "run", "stopped"})

=============================================================================
