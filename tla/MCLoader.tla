------------------------------ MODULE MCLoader ------------------------------
(* A small program: an executable, ntdll, kernel32 and two further DLLs that
   may import from each other, may be missing and may forward a function, in
   64 pages of virtual addresses over 8 page tables. The sizes of the
   executable make memory run out at every stage. One of the DLLs may ask for
   the first page of the heap, 0x10000000, where a linker puts a DLL unless
   told otherwise.                                                          *)
EXTENDS Loader

CONSTANTS exe, ntdll, kernel32, a, b

Region(at, pages, write, must) ==
  [at |-> at, pages |-> pages, write |-> write, must |-> must]

\* the loader heap, the stubs and the PEB
MCBeforeLoad == << Region(20, 1, TRUE, TRUE), Region(21, 1, FALSE, TRUE),
                   Region(31, 1, TRUE, TRUE) >>
\* the stack of the main thread, its TEB and KUSER_SHARED_DATA
MCAfterLoad == << Region(8, 7, TRUE, TRUE), Region(32, 1, TRUE, TRUE),
                  Region(33, 1, FALSE, TRUE) >>
\* the GDI table and the heap
MCAfterPaging == << Region(18, 1, TRUE, FALSE), Region(34, 2, TRUE, FALSE) >>
\* the desktop heap, the server information, the handle table and its entries
MCShared == << Region(15, 1, TRUE, FALSE), Region(16, 1, TRUE, FALSE),
               Region(17, 1, TRUE, FALSE), Region(22, 1, TRUE, FALSE) >>

MCPriority == << kernel32, b >>

Program(size, known, ofExe, ofA, ofB, ofKernel, forward) ==
  [size    |-> [m \in known |-> IF m = exe THEN size ELSE 1],
   base    |-> (exe :> 40) @@ (a :> 3) @@ (b :> IF forward THEN 4 ELSE 34)
               @@ (kernel32 :> 5) @@ (ntdll :> 6),
   imports |-> (exe :> ofExe) @@ (a :> ofA) @@ (b :> ofB) @@ (kernel32 :> ofKernel)
               @@ (ntdll :> <<>>),
   exports |-> (exe :> <<>>) @@ (a :> ("f" :> IF forward THEN <<b, "g">> ELSE "code"))
               @@ (b :> [f |-> "code", g |-> "code"])
               @@ (kernel32 :> [f |-> IF forward THEN <<ntdll, "s">> ELSE "code", g |-> "code"])
               @@ (ntdll :> [f |-> "code", s |-> "code"]),
   entry   |-> {a, b, kernel32, exe}]

MCPrograms ==
  { Program(size, known, e, i, j, k, fwd) :
      size \in {2, 8, 14, 20, 99},
      known \in { Images, Images \ {b} },
      e \in { << <<a, "f">> >>, << <<kernel32, "f">>, <<a, "f">> >>,
              << <<a, "g">>, <<ntdll, "s">>, <<b, "f">> >> },
      i \in { <<>>, << <<b, "f">> >>, << <<kernel32, "f">>, <<ntdll, "s">> >> },
      j \in { <<>>, << <<a, "f">> >>, << <<kernel32, "g">> >> },
      k \in { <<>>, << <<ntdll, "s">>, <<ntdll, "t">>, <<ntdll, "f">> >> },
      fwd \in BOOLEAN }
=============================================================================
