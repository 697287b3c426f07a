---------------------------- MODULE UserWindows ----------------------------
(***************************************************************************)
(* Windows: user/user_window.c over the handle table, with the copy of     *)
(* every window that user/guest_wnd.c keeps in the desktop heap for the    *)
(* guest's user32, and the system calls of user/user_syscalls.c that       *)
(* register classes (UserClasses), create windows and look for them.       *)
(*                                                                         *)
(* NtUserCreateWindowEx calls the window procedure twice, through the      *)
(* callback machinery of user/user_callback.c, which runs the guest inside *)
(* the call: the guest may make any of these calls again before the first  *)
(* returns.  stack holds the calls that are under way, innermost last.     *)
(*                                                                         *)
(* A window that fails WM_CREATE is destroyed with its children.  No other *)
(* call destroys a window (NtUserDestroyWindow is not implemented).        *)
(*                                                                         *)
(* read_guest_unicode_string ends without a return statement when it has   *)
(* read a string: its callers, who take a value other than 0 for an atom,  *)
(* get whatever the register holds.  NameReads are the values it may hold. *)
(*                                                                         *)
(* u holds what the C globals hold.  A window is the host address of its   *)
(* WBOX_WND; a guest address is an index into the desktop heap, 0 none.    *)
(***************************************************************************)
EXTENDS UserClasses

CONSTANTS
  Wnds,       \* host addresses of WBOX_WND
  WndClasses, \* the WNDCLASSEX structures the guest registers
  NameReads,  \* what read_guest_unicode_string returns for a string
  MaxDepth,   \* MAX_CALLBACK_DEPTH
  MaxClasses, \* bound on the classes
  MaxCreates  \* bound on the windows created in a behaviour

ASSUME UserWindowsAssumption ==
  /\ WndClasses \subseteq [inst : Instances, global : BOOLEAN,
                           proc : BOOLEAN, extra : BOOLEAN]
  /\ NameReads \subseteq Atoms \cup {0}
  /\ {MaxDepth, MaxClasses, MaxCreates} \subseteq Nat
  /\ IsFiniteSet(Wnds) /\ Nothing \notin Wnds

VARIABLES
  u,      \* the windows, tables and heap
  stack,  \* NtUserCreateWindowEx calls waiting for a window procedure
  seen    \* every handle value the guest was given

vars == <<u, stack, seen>>

NewWnd(h, c) ==
  [alive |-> TRUE, hwnd |-> h, cls |-> c, va |-> 0, parent |-> Nothing,
   next |-> Nothing, prev |-> Nothing, child |-> Nothing]
NoWnd == [NewWnd(NoHandle, 0) EXCEPT !.alive = FALSE]
NoEntry == [va |-> 0, gen |-> 0]

Init ==
  /\ u = [table   |-> NewTable,
          wnd     |-> [w \in Wnds |-> NoWnd],
          classes |-> SystemClasses,
          atoms   |-> [i \in DOMAIN SystemDefs |-> SystemDefs[i].name],
          heap    |-> <<>>,
          entry   |-> [i \in Slots |-> NoEntry],
          desktop |-> Nothing,
          cache   |-> [hwnd |-> NoHandle, va |-> 0],
          created |-> 0]
  /\ stack = <<>>
  /\ seen = {}

Live(k) == {w \in Wnds : k.wnd[w].alive}

\* user_window_from_hwnd
FromHwnd(k, h) == IF h = NoHandle THEN k.desktop ELSE GetTyped(k.table, h, "WINDOW")

---------------------------------------------------------------------------
(* The mirror in the desktop heap: guest_wnd.c.                            *)

\* guest_wnd_get_va
Va(k, w) == IF w = Nothing THEN 0 ELSE k.wnd[w].va

\* user_handle_set_guest_ptr
SetGuestPtr(k, h, va) ==
  IF IsValid(k.table, h)
  THEN [k EXCEPT !.entry[h.index] = [va |-> va, gen |-> h.gen]] ELSE k

\* guest_wnd_create, and the entry of the handle when it has succeeded.
GuestCreate(k, w) ==
  LET va == HeapAlloc(k.heap)
      me == k.wnd[w]
      copy == [NoCell EXCEPT !.h = me.hwnd,
                             !.pcls = IF me.cls = 0 THEN 0 ELSE k.classes[me.cls].va]
  IN IF va = 0 THEN k
     ELSE SetGuestPtr([k EXCEPT !.heap = HeapPut(k.heap, copy), !.wnd[w].va = va],
                      me.hwnd, va)

\* guest_wnd_destroy: the memory stays, and so does the guest's entry.
GuestDestroy(k, w) ==
  IF k.wnd[w].va = 0 THEN k ELSE [k EXCEPT !.heap[k.wnd[w].va].h = NoHandle]

\* guest_wnd_update_hierarchy
WithLinks(k, cell, me) ==
  [cell EXCEPT !.next = Va(k, me.next), !.prev = Va(k, me.prev),
               !.parent = Va(k, me.parent), !.child = Va(k, me.child)]
Mirror(k, w) ==
  IF w = Nothing \/ Va(k, w) = 0 THEN k
  ELSE [k EXCEPT !.heap[Va(k, w)] = WithLinks(k, k.heap[Va(k, w)], k.wnd[w])]
MirrorBoth(k, v, w) == Mirror(Mirror(k, v), w)

---------------------------------------------------------------------------
(* The tree: user_window_unlink and user_window_link_child.                *)

SetNext(k, w, x) == IF w = Nothing THEN k ELSE [k EXCEPT !.wnd[w].next = x]
SetPrev(k, w, x) == IF w = Nothing THEN k ELSE [k EXCEPT !.wnd[w].prev = x]
SetChild(k, w, x) == IF w = Nothing THEN k ELSE [k EXCEPT !.wnd[w].child = x]

\* The links without w, whose children stay below it.
\* Mutant: the next sibling keeps its link back.
CutForgetsPrev(k, w) ==
  LET me == k.wnd[w]
      linked == SetNext(k, me.prev, me.next)
      out == IF me.parent # Nothing /\ k.wnd[me.parent].child = w
             THEN SetChild(linked, me.parent, me.next) ELSE linked
  IN [out EXCEPT !.wnd[w].parent = Nothing, !.wnd[w].next = Nothing,
                 !.wnd[w].prev = Nothing]

Cut(k, w) ==
  LET me == k.wnd[w]
      linked == SetPrev(SetNext(k, me.prev, me.next), me.next, me.prev)
      out == IF me.parent # Nothing /\ k.wnd[me.parent].child = w
             THEN SetChild(linked, me.parent, me.next) ELSE linked
  IN [out EXCEPT !.wnd[w].parent = Nothing, !.wnd[w].next = Nothing,
                 !.wnd[w].prev = Nothing]

\* Mutant of Unlink: a sibling's copy is not refreshed.
UnlinkForgetsMirror(k, w) ==
  MirrorBoth(Mirror(Cut(k, w), w), k.wnd[w].prev, k.wnd[w].parent)

Unlink(k, w) ==
  LET me == k.wnd[w]
  IN MirrorBoth(MirrorBoth(Cut(k, w), w, me.prev), me.next, me.parent)

\* w, which has no links, in front of the children of p.
Placed(k, p, w) ==
  LET first == k.wnd[p].child
  IN SetPrev([k EXCEPT !.wnd[w].parent = p, !.wnd[w].next = first,
                       !.wnd[w].prev = Nothing], first, w)

\* Mutant of LinkChild: the former children are lost.
LinkChildLosesSiblings(k, p, w) ==
  MirrorBoth(SetChild([Unlink(k, w) EXCEPT !.wnd[w].parent = p], p, w), w, p)

LinkChild(k, p, w) ==
  LET alone == Unlink(k, w)
      behind == Mirror(Placed(alone, p, w), alone.wnd[p].child)
  IN MirrorBoth(SetChild(behind, p, w), w, p)

---------------------------------------------------------------------------
(* Creating and destroying: window_create_internal, user_window_init,      *)
(* user_window_create, user_window_destroy.                                *)

\* The steps of window_create_internal that cannot fail, once the window
\* has a handle.
Fill(k, w, c) ==
  GuestCreate(AddRef([k EXCEPT !.table = Alloc(k.table, w, "WINDOW"),
                               !.wnd[w] = NewWnd(AllocHandle(k.table), c),
                               !.created = @ + 1], c), w)

\* Mutant of FailedFill: the handle of the window that failed is not freed.
FailedFillKeepsHandle(k, w) ==
  [k EXCEPT !.table = Alloc(k.table, w, "WINDOW"), !.created = @ + 1]

\* calloc of the extra bytes failed: the handle is freed again.
FailedFill(k, w) ==
  [k EXCEPT !.table = Free(Alloc(k.table, w, "WINDOW"), AllocHandle(k.table)),
            !.created = @ + 1]

\* The desktop is created by the first NtUserCreateWindowEx.  Its class is
\* that of ICLS_DIALOG, which system_class_defs does not have: NULL.
WithDesktop(k, w) ==
  IF k.desktop # Nothing THEN k
  ELSE [Fill(k, w, 0) EXCEPT !.desktop = w]

\* user_window_destroy of a window that has no children (left).
DestroyLeaf(k, w) ==
  LET out == GuestDestroy(Unlink(k, w), w)
  IN [Release(out, k.wnd[w].cls) EXCEPT !.table = Free(k.table, k.wnd[w].hwnd),
                                        !.wnd[w] = NoWnd]

\* The window whose call has no child to call itself for first.
FirstLeaf(k, w) ==
  LET deep[n \in 0 .. Cardinality(Live(k))] ==
        IF n = 0 THEN w
        ELSE LET x == deep[n - 1]
             IN IF k.wnd[x].child = Nothing THEN x ELSE k.wnd[x].child
  IN deep[Cardinality(Live(k))]

\* user_window_destroy: one window after the other, until w is gone itself.
DestroyNext(k, w) ==
  IF k.wnd[w].alive THEN DestroyLeaf(k, FirstLeaf(k, w)) ELSE k
Destroy(k, w) ==
  LET after[n \in 0 .. Cardinality(Live(k))] ==
        IF n = 0 THEN k ELSE DestroyNext(after[n - 1], w)
  IN after[Cardinality(Live(k))]

---------------------------------------------------------------------------
(* Calling the window procedure: user_call_wndproc and, when it returns,   *)
(* user_callback_return and the rest of user_call_wndproc_addr.            *)

CanCall(k, s, w) == k.classes[k.wnd[w].cls].proc /\ Len(s) < MaxDepth

\* set_callbackwnd_cache, for a window that has a guest address.
Enter(k, w) ==
  IF k.wnd[w].va = 0 THEN k
  ELSE [k EXCEPT !.cache = [hwnd |-> k.wnd[w].hwnd, va |-> k.wnd[w].va]]

\* clear_callbackwnd_cache
Leave(k, w) ==
  IF k.wnd[w].va = 0 THEN k
  ELSE [k EXCEPT !.cache = [hwnd |-> NoHandle, va |-> 0]]

Return(k, h) ==
  /\ u' = k
  /\ seen' = IF h = NoHandle THEN seen ELSE seen \cup {h}

---------------------------------------------------------------------------
(* NtUserRegisterClassExWOW, by atom or by name.                           *)

\* calloc or user_class_register failed: the guest gets 0.
RegisterFails == UNCHANGED u

\* The class cl is new, or the call answers the atom of the one it found.
RegisterAs(cl, found) ==
  \/ /\ found = 0
     /\ MayRegister(u, cl)
     /\ Len(u.classes) < MaxClasses
     /\ u' = Register(u, cl)
  \/ found # 0 /\ UNCHANGED u

RegisterByAtom(a, wc) == RegisterAs(NewClass(Synthetic(a), wc, a), FindByAtom(u, a))

RegisterByName(name, wc, r) ==
  IF r # 0 THEN RegisterByAtom(r, wc)
  ELSE RegisterAs(NewClass(name, wc, 0), Find(u, name, wc.inst))

NtUserRegisterClassExWOW ==
  /\ \E wc \in WndClasses :
       \/ \E a \in Atoms : RegisterByAtom(a, wc)
       \/ \E name \in Names, r \in NameReads : RegisterByName(name, wc, r)
       \/ RegisterFails
  /\ UNCHANGED <<stack, seen>>

---------------------------------------------------------------------------
(* NtUserCreateWindowEx, up to the WM_NCCREATE it sends.                   *)

Fresh(k) == {w \in Wnds : ~k.wnd[w].alive}

\* The window of a class is made under a parent, or under the desktop.
Parent(k, hParent) ==
  LET p == IF hParent = NoHandle THEN Nothing ELSE FromHwnd(k, hParent)
  IN IF p = Nothing THEN k.desktop ELSE p

Created(k, w, c, hParent) == LinkChild(Fill(k, w, c), Parent(k, hParent), w)

\* The class: by atom whichever module registered it, by name that of the
\* module or else of any.
ClassesAsked(k) ==
  {FindByAtom(k, a) : a \in Atoms} \cup
  {LET own == Find(k, name, inst)
   IN IF own # 0 THEN own ELSE Find(k, name, NoInstance) :
     name \in Names, inst \in Instances}

\* The guest may know the handle in the window procedure already.
CreateWindow(k, c, hParent, w) ==
  /\ c # 0 /\ AllocHandle(k.table) # NoHandle
  /\ LET k1 == Created(k, w, c, hParent)
     IN IF CanCall(k1, stack, w)
        THEN /\ u' = Enter(k1, w)
             /\ stack' = Append(stack, [wnd |-> w, msg |-> "WM_NCCREATE"])
             /\ seen' = seen \cup {k1.wnd[w].hwnd}
        ELSE Return(k1, k1.wnd[w].hwnd) /\ UNCHANGED stack

\* No such class, no memory for the WBOX_WND or no handle for it.
CreateRefused(k) == Return(k, NoHandle) /\ UNCHANGED stack

\* No memory for the extra bytes of the window.
CreateOutOfMemory(k, c, w) ==
  /\ c # 0 /\ AllocHandle(k.table) # NoHandle
  /\ k.classes[c].extra
  /\ Return(FailedFill(k, w), NoHandle)
  /\ UNCHANGED stack

\* user_window_init failed; the next call tries again.
DesktopRefused ==
  /\ u.desktop = Nothing
  /\ Return(u, NoHandle)
  /\ UNCHANGED stack

NtUserCreateWindowEx(c, hParent) ==
  /\ u.created < MaxCreates
  /\ \E d, w \in Fresh(u) :
       /\ (u.desktop = Nothing) <=> d # w
       /\ LET k == WithDesktop(u, d)
          IN \/ CreateWindow(k, c, hParent, w)
             \/ CreateRefused(k)
             \/ CreateOutOfMemory(k, c, w)
             \/ DesktopRefused

\* WM_NCCREATE has returned: its result is ignored and WM_CREATE is sent.
NcCreateReturns ==
  /\ stack # <<>>
  /\ Last(stack).msg = "WM_NCCREATE"
  /\ LET w == Last(stack).wnd
     IN /\ u' = Enter(Leave(u, w), w)
        /\ stack' = Append(Front(stack), [wnd |-> w, msg |-> "WM_CREATE"])
  /\ UNCHANGED seen

\* WM_CREATE has returned -1 (fails) or anything else.
CreateReturns(fails) ==
  /\ stack # <<>>
  /\ Last(stack).msg = "WM_CREATE"
  /\ LET w == Last(stack).wnd
         k == Leave(u, w)
     IN IF fails THEN Return(Destroy(k, w), NoHandle)
                 ELSE Return(k, k.wnd[w].hwnd)
  /\ stack' = Front(stack)

---------------------------------------------------------------------------
Next ==
  \/ NtUserRegisterClassExWOW
  \/ \E c \in ClassesAsked(u), h \in seen \cup {NoHandle} : NtUserCreateWindowEx(c, h)
  \/ NcCreateReturns
  \/ \E fails \in BOOLEAN : CreateReturns(fails)

Spec == Init /\ [][Next]_vars

---------------------------------------------------------------------------
Links == {"parent", "next", "prev", "child"}

(* The globals have their types, and links lead to windows that exist.     *)
TypeOK ==
  /\ \A w \in Live(u) :
       /\ u.wnd[w].hwnd \in AllHandles \ {NoHandle}
       /\ u.wnd[w].cls \in 0 .. Len(u.classes)
       /\ u.wnd[w].va \in 0..Len(u.heap)
       /\ \A l \in Links : u.wnd[w][l] \in Live(u) \cup {Nothing}
  /\ \A i \in DOMAIN u.classes :
       /\ u.classes[i].refs \in 0 .. (MaxCreates + 1)
       /\ u.classes[i].atom \in Atoms
  /\ Len(u.heap) <= HeapSize
  /\ Len(stack) <= MaxDepth
  /\ seen \subseteq AllHandles

Agrees(w) ==
  LET me == u.wnd[w] IN
  /\ {me.parent, me.next, me.prev, me.child} \subseteq Live(u) \cup {Nothing}
  /\ me.parent = Nothing <=> w = u.desktop
  /\ me.next # Nothing => /\ u.wnd[me.next].prev = w
                          /\ u.wnd[me.next].parent = me.parent
  /\ me.prev # Nothing => u.wnd[me.prev].next = w
  /\ me.prev = Nothing /\ me.parent # Nothing => u.wnd[me.parent].child = w
  /\ me.child # Nothing => u.wnd[me.child].parent = w /\ u.wnd[me.child].prev = Nothing

(* After any nesting of creations and failed creations (user_window_link_  *)
(* child, user_window_unlink), the windows are one tree under the desktop: *)
(* the links agree, and parents and next siblings lead to the desktop in   *)
(* the end, never round in a circle.                                       *)
TreeSound ==
  /\ \A w \in Live(u) : Agrees(w)
  /\ \A ring \in SUBSET Live(u) : ring # {} =>
       \E w \in ring : u.wnd[w].parent \notin ring /\ u.wnd[w].next \notin ring

(* The handle table holds the windows that exist and nothing else, so a    *)
(* handle the guest keeps never leads to a WBOX_WND that was freed.        *)
HandlesNameWindows ==
  /\ \A w \in Live(u) : GetTyped(u.table, u.wnd[w].hwnd, "WINDOW") = w
  /\ u.table.count = Cardinality(Live(u)) + 1
  /\ \A h \in seen : FromHwnd(u, h) \in Live(u) \cup {Nothing}

(* cWndReferenceCount, which user_class_unregister trusts before it frees  *)
(* a class, counts the windows that point to the class.                    *)
RefsExact ==
  \A c \in DOMAIN u.classes :
    u.classes[c].refs = Cardinality({w \in Live(u) : u.wnd[w].cls = c})

(* NtUserCreateWindowEx uses wnd again after the window procedure ran: the *)
(* guest's own calls from there never freed it, and each call under way    *)
(* is for a window of its own.                                             *)
FramesAlive ==
  /\ \A i \in DOMAIN stack : stack[i].wnd \in Live(u)
  /\ \A i, j \in DOMAIN stack : stack[i].wnd = stack[j].wnd => i = j

(* Creations nested in each other and failing half-way leave one tree and  *)
(* no call holding a window that is gone.                                  *)
WindowsSound == TypeOK /\ TreeSound /\ FramesAlive

(* What the handle table and the classes say of the windows is exact, and  *)
(* so are the list of classes and their atoms (ClassesSound).              *)
RecordsExact == HandlesNameWindows /\ RefsExact /\ ClassesSound(u)

\* The copy the guest should find of a window and of a class.
WndCopy(w) ==
  LET me == u.wnd[w]
  IN [NoCell EXCEPT !.h      = me.hwnd,
                    !.next   = Va(u, me.next),
                    !.prev   = Va(u, me.prev),
                    !.parent = Va(u, me.parent),
                    !.child  = Va(u, me.child),
                    !.pcls   = IF me.cls = 0 THEN 0 ELSE u.classes[me.cls].va]
ClsCopy(c) == [NoCell EXCEPT !.atom = u.classes[c].atom]

(* The guest's copy of a window (guest_wnd_update_hierarchy) has the links *)
(* of the window, whichever neighbour changed last, and leads to the copy  *)
(* of its class; the copy of one that was destroyed has no handle; no two  *)
(* copies share memory, also when the heap is full; and the guest's handle *)
(* entry of a window leads to its copy.                                    *)
MirrorSound ==
  /\ \A w \in Live(u) : u.wnd[w].va # 0 =>
       /\ u.heap[u.wnd[w].va] = WndCopy(w)
       /\ u.entry[u.wnd[w].hwnd.index] = [va |-> u.wnd[w].va, gen |-> u.wnd[w].hwnd.gen]
  /\ \A c \in DOMAIN u.classes : u.classes[c].va # 0 => u.heap[u.classes[c].va] = ClsCopy(c)
  /\ \A a \in DOMAIN u.heap : u.heap[a].h # NoHandle =>
       \E w \in Live(u) : u.wnd[w].va = a

\* A window that stays keeps its parent and its place among its siblings; a
\* new sibling comes first.
ChildrenKept(w, dead) ==
  LET past(x) == IF x \in dead THEN u.wnd[x].next ELSE x
      first   == u'.wnd[w].child
  IN /\ u'.wnd[w].parent = u.wnd[w].parent
     /\ u'.wnd[w].next = past(u.wnd[w].next)
     /\ \/ first = past(u.wnd[w].child)
        \/ first \notin Live(u) /\ u'.wnd[first].next = past(u.wnd[w].child)

\* A name leads a module to the class it did, unless to a new global one.
ClassKept(name, inst) ==
  LET old == Find(u, name, inst)
      new == Find(u', name, inst)
  IN old = 0 \/ new = old \/ (new > Len(u.classes) /\ u'.classes[new].global)

(* What a call may not do to what others rely on: user_window_destroy      *)
(* takes a window with everything below it and nothing else, whatever      *)
(* happened to the tree while its procedure ran; the other windows keep    *)
(* their children; and no module takes the class of a name away from       *)
(* another, except with a global one.                                      *)
CallsKeep ==
  [][LET dead == Live(u) \ Live(u')
     IN /\ dead # {} =>
            /\ stack # <<>>
            /\ Last(stack).wnd \in dead
            /\ \A w \in Live(u) \ {Last(stack).wnd} :
                 w \in dead <=> u.wnd[w].parent \in dead
        /\ \A w \in Live(u) \cap Live(u') : ChildrenKept(w, dead)
        /\ \A name \in Names, inst \in Instances : ClassKept(name, inst)]_vars

=============================================================================
