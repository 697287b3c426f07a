----------------------------- MODULE GdiObjects -----------------------------
(***************************************************************************)
(* The GDI handle table (gdi_handle_table.c), the objects behind its       *)
(* handles and the device contexts that save and restore their state and   *)
(* have bitmaps selected into them (gdi_dc.c, win32k_dispatcher.c).        *)
(*                                                                         *)
(* Three kinds of objects are enough: device contexts, bitmaps, and        *)
(* brushes, which stand for pens, fonts and regions too: those are made,   *)
(* pooled and deleted by the same code.  Stock objects are outside the     *)
(* table and never change.                                                 *)
(***************************************************************************)
EXTENDS Integers, FiniteSets, Sequences, Functions

CONSTANTS
  MaxHandles, \* GDI_MAX_HANDLES
  ReuseSpan,  \* how many reuse counts a handle can tell apart (2^7)
  PoolSize,   \* how many objects of each kind the pool holds
  HeapSize,   \* bound: how many more calloc provides
  Colors,     \* the attributes a DC may have, 0 by default
  Levels,     \* the levels the guest gives RestoreDC
  MaxReuse    \* bound: how often one entry is allocated

Kinds == {"DC", "BITMAP", "BRUSH"}
Slots == 1..(MaxHandles - 1)

ASSUME GdiObjectsAssumption ==
  /\ MaxHandles \in Nat \ {0, 1}
  /\ ReuseSpan \in Nat \ {0, 1}
  /\ PoolSize \in [Kinds -> Nat]
  /\ HeapSize \in [Kinds -> Nat]
  /\ 0 \in Colors
  /\ Levels \subseteq Int
  /\ MaxReuse \in Nat

Null == -1
Handle(i, kind, reuse) == [index |-> i, kind |-> kind, reuse |-> reuse % ReuseSpan]
NoHandle == [index |-> 0, kind |-> "NONE", reuse |-> 0]

\* The addresses of the objects of a kind: the pool's, then those of the heap.
Places(kind) == 0..(PoolSize[kind] + HeapSize[kind] - 1)

VARIABLES
  g,      \* the table, its copy for the guest, and the objects
  seen,   \* every handle the guest was ever given
  aborted \* the host's allocator has stopped the program

vars == <<g, seen, aborted>>

Free == [used |-> FALSE, kind |-> "NONE", reuse |-> 0, object |-> Null]
NotShared == [kind |-> "NONE", upper |-> 0]

Init ==
  /\ g = [entry  |-> [i \in Slots |-> Free],
          next   |-> 1,
          count  |-> 1,
          shared |-> [i \in Slots |-> NotShared],
          object |-> [kind \in Kinds |-> << >>]]
  /\ seen = {}
  /\ aborted = FALSE

---------------------------------------------------------------------------
(* The handle table.                                                       *)

Lowest(S) == CHOOSE i \in S : \A j \in S : i <= j

Unused(k) == {i \in Slots : ~k.entry[i].used}

\* The entry gdi_alloc_handle finds, from next_free on and then from 1; or 0.
FreeSlot(k) ==
  IF Unused(k) = {} THEN 0
  ELSE IF \E i \in Unused(k) : i >= k.next
       THEN Lowest({i \in Unused(k) : i >= k.next})
       ELSE Lowest(Unused(k))

NewHandle(k, kind) ==
  IF FreeSlot(k) = 0 THEN NoHandle
  ELSE Handle(FreeSlot(k), kind, k.entry[FreeSlot(k)].reuse + 1)

\* gdi_alloc_handle, when there is a free entry; update_shared_entry.
AllocHandle(k, kind, n) ==
  LET i == FreeSlot(k)
      reuse == k.entry[i].reuse + 1
  IN [k EXCEPT !.entry[i] = [used |-> TRUE, kind |-> kind, reuse |-> reuse, object |-> n],
               !.next = IF i + 1 >= MaxHandles THEN 1 ELSE i + 1,
               !.count = @ + 1,
               !.shared[i] = [kind |-> kind, upper |-> reuse % ReuseSpan]]

\* gdi_get_object
GetObject(k, h, kind) ==
  IF /\ h # NoHandle
     /\ k.entry[h.index].used
     /\ k.entry[h.index].kind = kind
     /\ k.entry[h.index].reuse % ReuseSpan = h.reuse
  THEN k.entry[h.index].object ELSE Null

\* gdi_get_object_any: the entry, whatever the handle's kind and reuse count.
GetObjectAny(k, h) == IF h = NoHandle THEN Free ELSE k.entry[h.index]

\* Would gdi_free_handle free the handle?
Frees(k, h) == /\ h # NoHandle
               /\ k.entry[h.index].used
               /\ k.entry[h.index].kind = h.kind

\* Mutant of FreeHandle: the guest's copy stays.
FreeHandleShared(k, h) ==
  IF Frees(k, h)
  THEN [k EXCEPT !.entry[h.index] = [@ EXCEPT !.used = FALSE, !.object = Null],
                 !.count = @ - 1,
                 !.next = IF h.index < @ THEN h.index ELSE @]
  ELSE k

\* gdi_free_handle; clear_shared_entry.
FreeHandle(k, h) ==
  IF Frees(k, h)
  THEN [k EXCEPT !.entry[h.index] = [@ EXCEPT !.used = FALSE, !.object = Null],
                 !.count = @ - 1,
                 !.shared[h.index] = NotShared,
                 !.next = IF h.index < @ THEN h.index ELSE @]
  ELSE k

---------------------------------------------------------------------------
(* The objects.                                                            *)

\* gdi_alloc_dc, gdi_alloc_bitmap, gdi_alloc_brush: the first free one of the
\* pool, or one from calloc; Null when there is none.
FreePlace(k, kind) ==
  LET free == Places(kind) \ DOMAIN k.object[kind]
  IN IF free = {} THEN Null ELSE Lowest(free)

Put(k, kind, n, x) ==
  [k EXCEPT !.object[kind] = [m \in DOMAIN @ \cup {n} |-> IF m = n THEN x ELSE @[m]]]

\* gdi_free_dc, gdi_free_bitmap, gdi_free_brush
FreeObjects(k, kind, S) == [k EXCEPT !.object[kind] = Restrict(@, DOMAIN @ \ S)]

Dc(k, n) == k.object["DC"][n]
NewDc(type, color) ==
  [handle |-> NoHandle, type |-> type, color |-> color, brush |-> Null,
   bitmap |-> Null, level |-> 0, saved |-> Null]

\* What the create functions share: an object, then a handle for it; the
\* object is given back when there is no handle.
Make(k, kind, x) ==
  LET n == FreePlace(k, kind)
      h == NewHandle(k, kind)
  IN IF n = Null \/ h = NoHandle THEN k
     ELSE AllocHandle(Put(k, kind, n, [x EXCEPT !.handle = h]), kind, n)

\* The saved states below n, the newest first, and n itself at 0.
Chain(k, n) ==
  LET at[i \in 0..Cardinality(Places("DC"))] ==
        IF i = 0 THEN n
        ELSE IF at[i - 1] \notin DOMAIN k.object["DC"] THEN Null
        ELSE Dc(k, at[i - 1]).saved
  IN at

\* Mutant of DeleteDc: the saved states are not freed.
DeleteDcOnly(k, h) ==
  LET n == GetObject(k, h, "DC")
  IN IF n = Null THEN k
     ELSE FreeObjects(FreeHandle(k, h), "DC", {n})

\* gdi_delete_dc
DeleteDc(k, h) ==
  LET n == GetObject(k, h, "DC")
  IN IF n = Null THEN k
     ELSE FreeObjects(FreeHandle(k, h), "DC", Range(Chain(k, n)))

\* gdi_save_dc, for the DC n.
Save(k, n) ==
  LET s == FreePlace(k, "DC")
      dc == Dc(k, n)
  IN IF s = Null THEN k
     ELSE Put(Put(k, "DC", s, dc), "DC", n, [dc EXCEPT !.saved = s, !.level = @ + 1])

\* The level RestoreDC goes back to: a negative one counts from the newest.
Target(dc, level) == IF level < 0 THEN dc.level + level + 1 ELSE level

\* Mutant of Restore: only the newest state is copied back.
RestoreNewest(k, n, level) ==
  LET dc == Dc(k, n)
      depth == dc.level - Target(dc, level) + 1
      at == Chain(k, n)
      last == Dc(k, at[depth])
  IN IF Target(dc, level) \notin 1..dc.level THEN k
     ELSE FreeObjects(Put(k, "DC", n, [Dc(k, at[1]) EXCEPT !.saved = last.saved,
                                                         !.level = last.level]),
                      "DC", {at[i] : i \in 1..depth})

\* gdi_restore_dc, for the DC n: every state down to the target is copied back
\* in turn and freed, so the last one copied stays.
Restore(k, n, level) ==
  LET dc == Dc(k, n)
      depth == dc.level - Target(dc, level) + 1
      at == Chain(k, n)
      last == Dc(k, at[depth])
  IN IF Target(dc, level) \notin 1..dc.level THEN k
     ELSE FreeObjects(Put(k, "DC", n, [last EXCEPT !.handle = dc.handle]),
                      "DC", {at[i] : i \in 1..depth})

\* gdi_select_bitmap, for a memory DC n and a bitmap b: the bitmap selected
\* before is released, if its place still holds one.
Select(k, n, h, b) ==
  LET old == Dc(k, n).bitmap
      bitmaps == k.object["BITMAP"]
      out == IF old \in DOMAIN bitmaps
             THEN Put(k, "BITMAP", old, [bitmaps[old] EXCEPT !.hdc = NoHandle]) ELSE k
  IN IF bitmaps[b].hdc \notin {NoHandle, h} THEN k
     ELSE Put(Put(out, "BITMAP", b, [bitmaps[b] EXCEPT !.hdc = h]),
              "DC", n, [Dc(k, n) EXCEPT !.bitmap = b])

---------------------------------------------------------------------------
(* The system calls.                                                       *)

Runs == ~aborted /\ UNCHANGED aborted

\* Bound: no entry is allocated more than MaxReuse times.
MayMake == FreeSlot(g) # 0 => g.entry[FreeSlot(g)].reuse < MaxReuse

Creates(kind, x) ==
  /\ Runs
  /\ MayMake
  /\ g' = Make(g, kind, x)
  /\ seen' = IF g' = g THEN seen ELSE seen \cup {NewHandle(g, kind)}

\* gdi_create_display_dc, also for a window.
CreateDisplayDc == Creates("DC", NewDc("DIRECT", 0))

CreateCompatibleDc(ref) ==
  LET r == GetObject(g, ref, "DC")
  IN Creates("DC", NewDc("MEMORY", IF r = Null THEN 0 ELSE Dc(g, r).color))

CreateBrush == Creates("BRUSH", [handle |-> NoHandle])

\* gdi_create_bitmap frees the pixels twice when there is a place for the
\* bitmap and no handle: the allocator detects it and stops the program.
CreateBitmap ==
  /\ FreeSlot(g) # 0 \/ FreePlace(g, "BITMAP") = Null
  /\ Creates("BITMAP", [handle |-> NoHandle, hdc |-> NoHandle])

CreateBitmapAborts ==
  /\ ~aborted
  /\ FreeSlot(g) = 0 /\ FreePlace(g, "BITMAP") # Null
  /\ aborted' = TRUE
  /\ UNCHANGED <<g, seen>>

\* NtGdiDeleteObjectApp: the entry tells the kind and the object, whatever the
\* handle's kind and reuse count are.
DeleteObject(h) ==
  LET e == GetObjectAny(g, h)
  IN /\ Runs
     /\ e.used
     /\ g' = IF e.kind = "DC" THEN DeleteDc(g, h)
             ELSE IF Frees(g, h) THEN FreeObjects(FreeHandle(g, h), e.kind, {e.object})
             ELSE g
     /\ UNCHANGED seen

ReleaseDc(h) ==
  LET n == GetObject(g, h, "DC")
  IN /\ Runs
     /\ n # Null
     /\ Dc(g, n).type = "DIRECT"
     /\ g' = DeleteDc(g, h)
     /\ UNCHANGED seen

OnDc(h, k) == Runs /\ GetObject(g, h, "DC") # Null /\ g' = k /\ UNCHANGED seen

SaveDc(h) == OnDc(h, Save(g, GetObject(g, h, "DC")))

RestoreDc(h, level) == OnDc(h, Restore(g, GetObject(g, h, "DC"), level))

SetTextColor(h, c) ==
  LET n == GetObject(g, h, "DC")
  IN OnDc(h, Put(g, "DC", n, [Dc(g, n) EXCEPT !.color = c]))

\* gdi_select_brush.  Nothing counts the DCs a brush is selected into; Null is
\* the stock brush.
SelectBrush(h, hbrush) ==
  LET n == GetObject(g, h, "DC")
      b == GetObject(g, hbrush, "BRUSH")
  IN /\ b # Null
     /\ OnDc(h, Put(g, "DC", n, [Dc(g, n) EXCEPT !.brush = b]))

SelectBitmap(h, hbitmap) ==
  LET n == GetObject(g, h, "DC")
      b == GetObject(g, hbitmap, "BITMAP")
  IN /\ n # Null /\ b # Null
     /\ Dc(g, n).type = "MEMORY"
     /\ OnDc(h, Select(g, n, h, b))

Next ==
  \/ CreateDisplayDc \/ CreateBrush \/ CreateBitmap \/ CreateBitmapAborts
  \/ \E ref \in seen \cup {NoHandle} : CreateCompatibleDc(ref)
  \/ \E h \in seen : \/ DeleteObject(h) \/ ReleaseDc(h) \/ SaveDc(h)
                     \/ \E level \in Levels : RestoreDc(h, level)
                     \/ \E c \in Colors : SetTextColor(h, c)
                     \/ \E b \in seen : SelectBrush(h, b) \/ SelectBitmap(h, b)

Spec == Init /\ [][Next]_vars

---------------------------------------------------------------------------
Used == {i \in Slots : g.entry[i].used}

TypeOK ==
  /\ g.next \in Slots
  /\ g.entry \in [Slots -> [used : BOOLEAN, kind : Kinds \cup {"NONE"},
                            reuse : 0..MaxReuse, object : Int]]
  /\ \A kind \in Kinds : DOMAIN g.object[kind] \subseteq Places(kind)
  /\ seen \subseteq [index : Slots, kind : Kinds, reuse : 0..(ReuseSpan - 1)]
  /\ aborted \in BOOLEAN

(* handle_count counts the entries in use and the reserved one, and wType  *)
(* of the table mapped into the guest says of every index what its entry   *)
(* is in use for, or nothing.  (Of wUpper nothing is said: it is the reuse   *)
(* count, and not the upper half of the handle.)                           *)
TableSound ==
  /\ g.count = 1 + Cardinality(Used)
  /\ \A i \in Slots : g.shared[i].kind = IF i \in Used THEN g.entry[i].kind ELSE "NONE"

(* reuse_count is "For handle validation": a handle the guest kept, of     *)
(* whatever object, leads to the object made for it or to none.            *)
HandleNamesOwnObject ==
  \A h \in seen :
    LET n == GetObject(g, h, h.kind)
    IN n # Null => n \in DOMAIN g.object[h.kind] /\ g.object[h.kind][n].handle = h

(* The host's table, the guest's copy of it and the handles the guest has  *)
(* kept agree.                                                             *)
HandlesSound == TypeOK /\ TableSound /\ HandleNamesOwnObject

Owned(kind) == {g.entry[i].object : i \in {j \in Used : g.entry[j].kind = kind}}

Depth(n) == Cardinality({i \in 1..Cardinality(Places("DC")) : Chain(g, n)[i] # Null})

(* Every object in use has exactly one owner: an entry of the table, or,   *)
(* for the state SaveDC put away, one place in the chain of one DC.  So no *)
(* pool slot is lost or used twice, whatever is saved, restored and        *)
(* deleted; and save_level is the length of the chain.                     *)
ObjectsOwned ==
  /\ Cardinality(Used) = Cardinality(Owned("DC")) + Cardinality(Owned("BITMAP"))
                           + Cardinality(Owned("BRUSH"))
  /\ Owned("BITMAP") = DOMAIN g.object["BITMAP"]
  /\ Owned("BRUSH") = DOMAIN g.object["BRUSH"]
  /\ \A s \in DOMAIN g.object["DC"] :
       Cardinality({place \in Owned("DC") \X (0..Cardinality(Places("DC"))) :
                      Chain(g, place[1])[place[2]] = s}) = 1
  /\ \A n \in DOMAIN g.object["DC"] : Dc(g, n).level = Depth(n)

\* What SaveDC promises to keep, and what the chain of n has kept, oldest first.
Look(k, n) == LET dc == Dc(k, n) IN <<dc.type, dc.color, dc.brush, dc.bitmap>>
Kept(k, n) == LET at == Chain(k, n)
              IN [j \in 1..Dc(k, n).level |-> Look(k, at[Dc(k, n).level + 1 - j])]

(* SaveDC and RestoreDC are a stack: a DC's saved states stay, or the      *)
(* state it is in is put on top, or they are cut at one of them and the DC *)
(* is then in that state.                                                  *)
SaveRestoreIsStack ==
  [][\A h \in seen :
       LET n == GetObject(g, h, "DC")
           was == Kept(g, n)
           is == Kept(g', n)
       IN n # Null /\ GetObject(g', h, "DC") = n =>
            \/ is = was
            \/ is = Append(was, Look(g, n)) /\ Look(g', n) = Look(g, n)
            \/ \E j \in DOMAIN was : is = SubSeq(was, 1, j - 1) /\ Look(g', n) = was[j]]_vars

=============================================================================
