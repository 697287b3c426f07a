---------------------------- MODULE UserClasses ----------------------------
(***************************************************************************)
(* Window classes: user/user_class.c, the copy of a class that             *)
(* user/guest_cls.c puts into the desktop heap, and the allocator of that  *)
(* heap, user/desktop_heap.c.  Functions on a record k with the globals:   *)
(*   classes  the WBOX_CLS, oldest first (g_class_list is newest first);   *)
(*            nothing calls user_class_unregister, so the list only grows  *)
(*   atoms    the names of g_atom_table                                    *)
(*   heap     the copies in the desktop heap, in the order they were made  *)
(* A class is its index in classes, 0 is NULL.  An atom is its number      *)
(* counted from 0xC000, the first is 1; what lies above MaxAtoms stands    *)
(* for the values no table entry has.  Names are taken up to case.  Every  *)
(* copy in the heap takes one cell, whatever its size.                     *)
(***************************************************************************)
EXTENDS HandleTable, SequencesExt

CONSTANTS
  Names,      \* class names a program may use
  SystemDefs, \* system_class_defs: a name, and whether windows have extra bytes
  Instances,  \* hInstance values of modules
  NoInstance, \* hInstance 0
  MaxAtoms,   \* MAX_ATOMS
  TopAtom,    \* the greatest value taken for an atom
  HeapSize    \* how many copies fit in the desktop heap

ASSUME UserClassesAssumption ==
  /\ SystemDefs \in Seq([name : Names, extra : BOOLEAN])
  /\ \A i, j \in DOMAIN SystemDefs :
       SystemDefs[i].name = SystemDefs[j].name => i = j
  /\ NoInstance \notin Instances
  /\ MaxAtoms \in Nat /\ MaxAtoms >= Len(SystemDefs)
  /\ TopAtom \in Nat /\ TopAtom >= MaxAtoms
  /\ HeapSize \in Nat

Atoms == 1 .. TopAtom

\* "#%04X" of an atom, the name of a class registered by atom.
Synthetic(a) == <<"#", a>>

---------------------------------------------------------------------------
(* The desktop heap: desktop_heap_alloc moves one pointer.                 *)

NoCell == [h |-> NoHandle, next |-> 0, prev |-> 0, parent |-> 0, child |-> 0,
           pcls |-> 0, atom |-> 0]

HeapAlloc(heap) == IF Len(heap) < HeapSize THEN Len(heap) + 1 ELSE 0
HeapPut(heap, cell) == IF HeapAlloc(heap) = 0 THEN heap ELSE Append(heap, cell)

---------------------------------------------------------------------------
(* Looking a class up, from the head of g_class_list.                      *)

Newest(cs) == IF cs = {} THEN 0 ELSE Max(cs)

\* user_class_find
Find(k, name, inst) ==
  Newest({i \in DOMAIN k.classes :
            LET c == k.classes[i]
            IN /\ c.name = name
               /\ c.global \/ c.system \/ c.inst = inst \/ inst = NoInstance})

\* user_class_find_by_atom
FindByAtom(k, a) == Newest({i \in DOMAIN k.classes : k.classes[i].atom = a})

---------------------------------------------------------------------------
(* Registering.                                                            *)

\* user_class_add_atom: the atom of a name, and the table with it.
AtomFor(atoms, name) ==
  IF Contains(atoms, name) THEN CHOOSE i \in DOMAIN atoms : atoms[i] = name
  ELSE IF Len(atoms) < MaxAtoms THEN Len(atoms) + 1 ELSE 0
AddAtom(atoms, name) ==
  IF Contains(atoms, name) \/ Len(atoms) = MaxAtoms THEN atoms
  ELSE Append(atoms, name)

\* What NtUserRegisterClassExWOW fills in from the guest's WNDCLASSEX wc.
NewClass(name, wc, a) ==
  [name |-> name, inst |-> wc.inst, global |-> wc.global, system |-> FALSE,
   proc |-> wc.proc, extra |-> wc.extra, atom |-> a, refs |-> 0, va |-> 0]

\* The atom of a class that may have one already.
OwnAtom(k, c) == IF c.atom # 0 THEN c.atom ELSE AtomFor(k.atoms, c.name)

\* guest_cls_create: the copy the guest reads.
GuestClass(c) == [NoCell EXCEPT !.atom = c.atom]

\* user_class_register: when it refuses, and what it leaves when it does not.
MayRegister(k, c) == Find(k, c.name, c.inst) = 0 /\ OwnAtom(k, c) # 0
Register(k, c) ==
  LET new == [c EXCEPT !.atom = OwnAtom(k, c), !.va = HeapAlloc(k.heap)]
  IN [k EXCEPT !.classes = Append(k.classes, new),
               !.atoms = IF c.atom = 0 THEN AddAtom(k.atoms, c.name) ELSE k.atoms,
               !.heap = HeapPut(k.heap, GuestClass(new))]

\* user_class_register_system_classes: no copies for the guest are made.
SystemClasses ==
  [i \in DOMAIN SystemDefs |->
     [name |-> SystemDefs[i].name, inst |-> NoInstance, global |-> TRUE,
      system |-> TRUE, proc |-> FALSE, extra |-> SystemDefs[i].extra,
      atom |-> i, refs |-> 0, va |-> 0]]

\* user_class_add_ref and user_class_release, for a class that may be NULL.
AddRef(k, c) == IF c = 0 THEN k ELSE [k EXCEPT !.classes[c].refs = @ + 1]
Release(k, c) ==
  IF c = 0 \/ k.classes[c].refs = 0 THEN k
  ELSE [k EXCEPT !.classes[c].refs = @ - 1]

---------------------------------------------------------------------------
(* The list and the atoms after any sequence of registrations by name and  *)
(* by atom, refused or not: a later class of the same name belongs to      *)
(* another module and hides no global one, the atom of a class with a      *)
(* name is that name's entry, and a class registered by atom was the       *)
(* first to have it.                                                       *)
ClassesSound(k) ==
  /\ IsInjective(k.atoms)
  /\ \A j \in DOMAIN k.classes :
       LET c == k.classes[j]
           older == {k.classes[i] : i \in 1 .. (j - 1)}
       IN /\ \A o \in older : o.name = c.name => ~o.global /\ o.inst # c.inst
          /\ \/ c.atom \in DOMAIN k.atoms /\ k.atoms[c.atom] = c.name
             \/ c.name = Synthetic(c.atom) /\ \A o \in older : o.atom # c.atom

=============================================================================
