-------------------------- MODULE GdiObjectsProofs --------------------------
(* Proofs about GdiObjects.                                                *)
EXTENDS GdiObjects, FiniteSetTheorems, SequenceTheorems, WellFoundedInduction, TLAPS

---------------------------------------------------------------------------
(* Numbers and sets of numbers.                                            *)

\* Induction over the natural numbers, for a set instead of a predicate.
LEMMA Induct ==
  ASSUME NEW S, 0 \in S, \A n \in Nat : n \in S => n + 1 \in S
  PROVE  Nat \subseteq S
<1> DEFINE T == Nat \ S
           R == OpToRel(<, Nat)
<1>1. SUFFICES ASSUME T # {} PROVE FALSE
  OBVIOUS
<1>2. IsWellFoundedOn(R, Nat)
  BY NatLessThanWellFounded
<1>3. PICK x \in T : \A y \in T : <<y, x>> \notin R
  <2> HIDE DEF R
  <2> QED BY <1>1, <1>2, WFMin
<1>4. x \in Nat /\ x # 0 /\ x \notin S
  OBVIOUS
<1>5. x - 1 \in Nat /\ x - 1 \notin S
  BY <1>4
<1>6. <<x - 1, x>> \in R
  <2>1. x - 1 < x /\ <<x - 1, x>> \in Nat \X Nat
    BY <1>4, <1>5
  <2>2. QED BY <2>1 DEF OpToRel
<1>7. QED BY <1>3, <1>5, <1>6

LEMMA LowestIn ==
  ASSUME NEW S \in SUBSET Nat, S # {}
  PROVE  Lowest(S) \in S
<1> DEFINE R == OpToRel(<, Nat)
<1>1. IsWellFoundedOn(R, Nat)
  BY NatLessThanWellFounded
<1>2. PICK x \in S : \A y \in S : <<y, x>> \notin R
  <2> HIDE DEF R
  <2> QED BY <1>1, WFMin
<1>3. \A y \in S : x <= y
  <2>1. TAKE y \in S
  <2>2. <<y, x>> \notin R /\ <<y, x>> \in Nat \X Nat
    BY <1>2
  <2>3. ~(y < x)
    BY <2>2 DEF OpToRel
  <2>4. QED BY <2>3
<1>4. QED BY <1>3 DEF Lowest

\* A sequence given as a function of its positions.
LEMMA AppendIs ==
  ASSUME NEW v \in Nat, NEW s, s = [j \in 1 .. v |-> s[j]], NEW x
  PROVE  /\ Append(s, x) = [j \in 1 .. v + 1 |-> IF j \in 1 .. v THEN s[j] ELSE x]
         /\ \A m \in 0 .. v : SubSeq(s, 1, m) = [j \in 1 .. m |-> s[j]]
<1> DEFINE S == { s[j] : j \in 1 .. v }
<1>1. s \in [1 .. v -> S]
  OBVIOUS
<1>2. s \in Seq(S)
  BY <1>1
<1>3. Len(s) = v
  BY <1>1
<1> HIDE DEF S
<1>4. Append(s, x) = [j \in 1 .. v + 1 |-> IF j \in 1 .. v THEN s[j] ELSE x]
  BY <1>2, <1>3
<1>5. \A m \in 0 .. v : SubSeq(s, 1, m) = [j \in 1 .. m |-> s[j]]
  BY <1>2, <1>3, SubSeqProperties
<1>6. QED BY <1>4, <1>5

---------------------------------------------------------------------------
(* Types. MaxReuse stays below ReuseSpan: the reuse count of an entry has  *)
(* not come round to a value that an earlier handle has.                   *)

HandleT == [index : 0 .. MaxHandles - 1, kind : Kinds \cup {"NONE"},
            reuse : 0 .. ReuseSpan - 1]
EntryT  == [used : BOOLEAN, kind : Kinds \cup {"NONE"}, reuse : 0 .. MaxReuse, object : Int]
SharedT == [kind : Kinds \cup {"NONE"}, upper : 0 .. ReuseSpan - 1]
DcT     == [handle : HandleT, type : {"DIRECT", "MEMORY"}, color : Colors, brush : Int,
            bitmap : Int, level : Nat, saved : Int]
BitmapT == [handle : HandleT, hdc : HandleT]
BrushT  == [handle : HandleT]
TypeOf(kind) == IF kind = "DC" THEN DcT ELSE IF kind = "BITMAP" THEN BitmapT ELSE BrushT

Shape(k) ==
  /\ k = [entry |-> k.entry, next |-> k.next, count |-> k.count, shared |-> k.shared,
          object |-> k.object]
  /\ k.entry \in [Slots -> EntryT] /\ k.next \in Slots
  /\ k.shared \in [Slots -> SharedT]
  /\ k.object = [kind \in Kinds |-> k.object[kind]]
  /\ \A kind \in Kinds : /\ DOMAIN k.object[kind] \subseteq Places(kind)
                          /\ k.object[kind] \in [DOMAIN k.object[kind] -> TypeOf(kind)]

\* The table of r is that of k.
SameTable(k, r) ==
  r.entry = k.entry /\ r.next = k.next /\ r.count = k.count /\ r.shared = k.shared

\* So are the objects, but for those of a kind.
SameObjects(k, r, kind) == \A q \in Kinds \ {kind} : r.object[q] = k.object[q]

LEMMA PlacesFacts ==
  ASSUME NEW kind \in Kinds
  PROVE  /\ Places(kind) \subseteq Nat /\ IsFiniteSet(Places(kind))
         /\ Cardinality(Places(kind)) \in Nat /\ Null \notin Places(kind)
<1>1. PoolSize[kind] \in Nat /\ HeapSize[kind] \in Nat
  BY GdiObjectsAssumption
<1>2. Places(kind) \subseteq Nat /\ Null \notin Places(kind)
  BY <1>1 DEF Places, Null
<1>3. IsFiniteSet(Places(kind))
  <2> DEFINE top == PoolSize[kind] + HeapSize[kind] - 1
  <2>1. top \in Int /\ 0 \in Int
    BY <1>1
  <2>2. Places(kind) = 0 .. top
    BY DEF Places
  <2> HIDE DEF top
  <2>3. IsFiniteSet(0 .. top)
    BY <2>1, FS_Interval
  <2>4. QED BY <2>2, <2>3
<1>4. QED BY <1>2, <1>3, FS_CardinalityType

LEMMA FreePlaceFacts ==
  ASSUME NEW k, NEW kind \in Kinds, FreePlace(k, kind) # Null
  PROVE  FreePlace(k, kind) \in Places(kind) \ DOMAIN k.object[kind]
<1> DEFINE F == Places(kind) \ DOMAIN k.object[kind]
<1>1. F # {} /\ FreePlace(k, kind) = Lowest(F)
  BY DEF FreePlace
<1>2. F \in SUBSET Nat
  BY PlacesFacts
<1>3. QED BY <1>1, <1>2, LowestIn

LEMMA FreeSlotFacts ==
  ASSUME NEW k
  PROVE  /\ FreeSlot(k) # 0 => FreeSlot(k) \in Unused(k)
         /\ Slots \subseteq Nat \ {0}
<1>1. Slots \subseteq Nat \ {0}
  BY GdiObjectsAssumption DEF Slots
<1>2. Unused(k) \in SUBSET Nat /\ { i \in Unused(k) : i >= k.next } \in SUBSET Nat
  BY <1>1 DEF Unused
<1>3. ASSUME FreeSlot(k) # 0 PROVE FreeSlot(k) \in Unused(k)
  <2>1. CASE \E i \in Unused(k) : i >= k.next
    <3> DEFINE S == { i \in Unused(k) : i >= k.next }
    <3>1. S # {} /\ FreeSlot(k) = Lowest(S)
      BY <2>1 DEF FreeSlot
    <3>2. Lowest(S) \in S
      BY <1>2, <3>1, LowestIn
    <3>3. QED BY <3>1, <3>2
  <2>2. CASE ~(\E i \in Unused(k) : i >= k.next)
    <3>1. Unused(k) # {} /\ FreeSlot(k) = Lowest(Unused(k))
      BY <1>3, <2>2 DEF FreeSlot
    <3>2. QED BY <1>2, <3>1, LowestIn
  <2>3. QED BY <2>1, <2>2
<1>4. QED BY <1>1, <1>3

---------------------------------------------------------------------------
(* What the functions on the table and the objects do.                     *)

\* Other objects of a kind, the table as it is.
SetObjects(k, kind, f) == [k EXCEPT !.object[kind] = f]

LEMMA ObjectsSet ==
  ASSUME NEW k, Shape(k), NEW kind \in Kinds, NEW S \in SUBSET Places(kind),
         NEW f \in [S -> TypeOf(kind)], NEW r, r = SetObjects(k, kind, f)
  PROVE  Shape(r) /\ SameTable(k, r) /\ SameObjects(k, r, kind) /\ r.object[kind] = f
<1> DEFINE o == [k.object EXCEPT ![kind] = f]
<1>1. r = [k EXCEPT !.object = o]
  BY DEF SetObjects
<1>2. k = [entry |-> k.entry, next |-> k.next, count |-> k.count, shared |-> k.shared,
          object |-> k.object]
  BY DEF Shape
<1>3. k.object = [q \in Kinds |-> k.object[q]]
  BY DEF Shape
<1>4. o = [q \in Kinds |-> o[q]] /\ o[kind] = f /\ \A q \in Kinds \ {kind} : o[q] = k.object[q]
  <2> DEFINE c == k.object
  <2>1. c = [q \in Kinds |-> c[q]] /\ o = [c EXCEPT ![kind] = f]
    BY <1>3
  <2> HIDE DEF c, o
  <2>2. o = [q \in Kinds |-> IF q = kind THEN f ELSE c[q]]
    BY <2>1
  <2>3. o = [q \in Kinds |-> o[q]] /\ o[kind] = f /\ \A q \in Kinds \ {kind} : o[q] = c[q]
    BY <2>2
  <2>4. QED BY <2>3 DEF c
<1> HIDE DEF o
<1>5. r = [entry |-> k.entry, next |-> k.next, count |-> k.count, shared |-> k.shared,
           object |-> o]
  <2> DEFINE a == k.entry  b == k.next  c == k.count  d == k.shared  e == k.object
  <2>1. k = [entry |-> a, next |-> b, count |-> c, shared |-> d, object |-> e]
    BY <1>2
  <2> HIDE DEF a, b, c, d, e
  <2>2. r = [entry |-> a, next |-> b, count |-> c, shared |-> d, object |-> o]
    BY <1>1, <2>1
  <2>3. QED BY <2>2 DEF a, b, c, d
<1>6. SameTable(k, r) /\ r.object = o
  BY <1>5 DEF SameTable
<1>7. \A q \in Kinds : /\ DOMAIN o[q] \subseteq Places(q)
                       /\ o[q] \in [DOMAIN o[q] -> TypeOf(q)]
  BY <1>4 DEF Shape
<1>8. Shape(r)
  BY <1>4, <1>5, <1>6, <1>7 DEF Shape, SameTable
<1>9. QED BY <1>4, <1>6, <1>8 DEF SameObjects

\* An object in a place of its kind.
Placed(k, r, kind, n, x) ==
  /\ DOMAIN r.object[kind] = DOMAIN k.object[kind] \cup {n}
  /\ r.object[kind][n] = x
  /\ \A m \in DOMAIN k.object[kind] \ {n} : r.object[kind][m] = k.object[kind][m]

LEMMA PutOK ==
  ASSUME NEW k, Shape(k), NEW kind \in Kinds, NEW n \in Places(kind), NEW x \in TypeOf(kind),
         NEW r, r = Put(k, kind, n, x)
  PROVE  Shape(r) /\ SameTable(k, r) /\ SameObjects(k, r, kind) /\ Placed(k, r, kind, n, x)
<1> DEFINE c == k.object[kind]
           S == DOMAIN c \cup {n}
           f == [m \in S |-> IF m = n THEN x ELSE c[m]]
<1>1. r = SetObjects(k, kind, f)
  BY DEF Put, SetObjects
<1>2. DOMAIN c \subseteq Places(kind) /\ c \in [DOMAIN c -> TypeOf(kind)]
  BY DEF Shape
<1> HIDE DEF c
<1>3. f \in [S -> TypeOf(kind)] /\ S \in SUBSET Places(kind)
  BY <1>2
<1>4. DOMAIN f = S /\ f[n] = x /\ \A m \in DOMAIN c \ {n} : f[m] = c[m]
  OBVIOUS
<1> HIDE DEF f
<1>5. Shape(r) /\ SameTable(k, r) /\ SameObjects(k, r, kind) /\ r.object[kind] = f
  BY <1>1, <1>3, ObjectsSet
<1>6. QED BY <1>4, <1>5 DEF Placed, c

\* The objects of a kind in the places S are gone.
Freed(k, r, kind, S) ==
  /\ Shape(r) /\ SameTable(k, r) /\ SameObjects(k, r, kind)
  /\ DOMAIN r.object[kind] = DOMAIN k.object[kind] \ S
  /\ \A m \in DOMAIN k.object[kind] \ S : r.object[kind][m] = k.object[kind][m]

LEMMA FreeObjectsOK ==
  ASSUME NEW k, Shape(k), NEW kind \in Kinds, NEW S, NEW r, r = FreeObjects(k, kind, S)
  PROVE  Freed(k, r, kind, S)
<1> DEFINE c == k.object[kind]
           T == DOMAIN c \ S
           f == [m \in T |-> c[m]]
<1>1. r = SetObjects(k, kind, f)
  BY DEF FreeObjects, Restrict, SetObjects
<1>2. DOMAIN c \subseteq Places(kind) /\ c \in [DOMAIN c -> TypeOf(kind)]
  BY DEF Shape
<1> HIDE DEF c
<1>3. f \in [T -> TypeOf(kind)] /\ T \in SUBSET Places(kind)
  BY <1>2
<1>4. DOMAIN f = T /\ \A m \in T : f[m] = c[m]
  OBVIOUS
<1> HIDE DEF f
<1>5. Shape(r) /\ SameTable(k, r) /\ SameObjects(k, r, kind) /\ r.object[kind] = f
  BY <1>1, <1>3, ObjectsSet
<1>6. QED BY <1>4, <1>5 DEF c, Freed

\* The entry of a handle, and the guest's copy of it.
Entered(k, r, i, e, s) ==
  /\ r.entry[i] = e /\ \A j \in Slots \ {i} : r.entry[j] = k.entry[j]
  /\ r.shared[i] = s /\ \A j \in Slots \ {i} : r.shared[j] = k.shared[j]
  /\ r.object = k.object

LEMMA EntrySet ==
  ASSUME NEW k, Shape(k), NEW i \in Slots, NEW e \in EntryT, NEW s \in SharedT,
         NEW next \in Slots, NEW count, NEW r,
         r = [entry |-> [k.entry EXCEPT ![i] = e], next |-> next, count |-> count,
              shared |-> [k.shared EXCEPT ![i] = s], object |-> k.object]
  PROVE  Shape(r) /\ Entered(k, r, i, e, s) /\ r.count = count
<1> DEFINE a == k.entry
           b == k.shared
           o == k.object
<1>1. a \in [Slots -> EntryT] /\ b \in [Slots -> SharedT]
  BY DEF Shape
<1>2. /\ o = [kind \in Kinds |-> o[kind]]
      /\ \A kind \in Kinds : /\ DOMAIN o[kind] \subseteq Places(kind)
                             /\ o[kind] \in [DOMAIN o[kind] -> TypeOf(kind)]
  BY DEF Shape
<1> DEFINE a2 == [a EXCEPT ![i] = e]
           b2 == [b EXCEPT ![i] = s]
<1>3. r = [entry |-> a2, next |-> next, count |-> count, shared |-> b2, object |-> o]
  OBVIOUS
<1> HIDE DEF a, b, o
<1>4. /\ a2 \in [Slots -> EntryT] /\ a2[i] = e /\ \A j \in Slots \ {i} : a2[j] = a[j]
      /\ b2 \in [Slots -> SharedT] /\ b2[i] = s /\ \A j \in Slots \ {i} : b2[j] = b[j]
  BY <1>1
<1> HIDE DEF a2, b2
<1>5. /\ r.entry = a2 /\ r.next = next /\ r.count = count /\ r.shared = b2 /\ r.object = o
  BY <1>3
<1>6. Shape(r)
  BY <1>2, <1>3, <1>4, <1>5 DEF Shape
<1>7. QED BY <1>4, <1>5, <1>6 DEF Entered, a, b, o

\* gdi_alloc_handle
LEMMA AllocOK ==
  ASSUME NEW k, Shape(k), NEW kind \in Kinds, NEW n \in Int, FreeSlot(k) # 0,
         k.entry[FreeSlot(k)].reuse < MaxReuse, NEW r, r = AllocHandle(k, kind, n)
  PROVE  LET i == FreeSlot(k)
             reuse == k.entry[i].reuse + 1
         IN  /\ i \in Slots /\ ~k.entry[i].used /\ Shape(r)
             /\ Entered(k, r, i, [used |-> TRUE, kind |-> kind, reuse |-> reuse, object |-> n],
                        [kind |-> kind, upper |-> reuse % ReuseSpan])
             /\ r.count = k.count + 1
             /\ reuse \in 0 .. MaxReuse
<1> DEFINE i == FreeSlot(k)
           reuse == k.entry[i].reuse + 1
           e == [used |-> TRUE, kind |-> kind, reuse |-> reuse, object |-> n]
           s == [kind |-> kind, upper |-> reuse % ReuseSpan]
           next == IF i + 1 >= MaxHandles THEN 1 ELSE i + 1
<1>1. i \in Slots /\ ~k.entry[i].used
  BY FreeSlotFacts DEF Unused
<1>2. k.entry[i] \in EntryT
  BY <1>1 DEF Shape
<1>3. MaxReuse \in Nat /\ ReuseSpan \in Nat \ {0} /\ MaxHandles \in Nat \ {0, 1}
  BY GdiObjectsAssumption
<1>4. reuse \in 0 .. MaxReuse /\ reuse % ReuseSpan \in 0 .. ReuseSpan - 1
  <2>1. k.entry[i].reuse \in 0 .. MaxReuse
    BY <1>2 DEF EntryT
  <2>2. reuse \in 0 .. MaxReuse
    BY <1>3, <2>1
  <2> HIDE DEF reuse
  <2>3. QED BY <1>3, <2>2
<1>5. next \in Slots
  BY <1>1, <1>3 DEF Slots
<1> HIDE DEF i, reuse, next
<1>6. e \in EntryT /\ s \in SharedT
  BY <1>4 DEF EntryT, SharedT
<1>7. r = [entry |-> [k.entry EXCEPT ![i] = e], next |-> next, count |-> k.count + 1,
           shared |-> [k.shared EXCEPT ![i] = s], object |-> k.object]
  <2>1. r = [k EXCEPT !.entry[i] = e, !.next = next, !.count = @ + 1, !.shared[i] = s]
    BY DEF AllocHandle, i, reuse, next
  <2>2. k = [entry |-> k.entry, next |-> k.next, count |-> k.count, shared |-> k.shared,
             object |-> k.object]
    BY DEF Shape
  <2> DEFINE a == k.entry  b == k.next  c == k.count  d == k.shared  o == k.object
  <2>3. /\ k = [entry |-> a, next |-> b, count |-> c, shared |-> d, object |-> o]
        /\ a = k.entry /\ c = k.count /\ d = k.shared
    BY <2>2
  <2> HIDE DEF a, b, c, d, o, e, s
  <2>4. r = [entry |-> [a EXCEPT ![i] = e], next |-> next, count |-> c + 1,
             shared |-> [d EXCEPT ![i] = s], object |-> o]
    BY <2>1, <2>3
  <2>5. QED BY <2>4 DEF a, c, d, o
<1> HIDE DEF e, s
<1>8. Shape(r) /\ Entered(k, r, i, e, s) /\ r.count = k.count + 1
  BY <1>1, <1>5, <1>6, <1>7, EntrySet
<1>9. QED BY <1>1, <1>4, <1>8 DEF e, s, i, reuse

\* gdi_free_handle, when it frees.
LEMMA FreeHandleOK ==
  ASSUME NEW k, Shape(k), NEW h, h.index \in Slots, Frees(k, h), NEW r, r = FreeHandle(k, h)
  PROVE  LET i == h.index
         IN  /\ Shape(r)
             /\ Entered(k, r, i, [used |-> FALSE, kind |-> k.entry[i].kind,
                                  reuse |-> k.entry[i].reuse, object |-> Null], NotShared)
             /\ r.count = k.count - 1
<1> DEFINE i == h.index
           e == [used |-> FALSE, kind |-> k.entry[i].kind, reuse |-> k.entry[i].reuse,
                 object |-> Null]
           next == IF i < k.next THEN i ELSE k.next
<1>1. /\ k.entry[i] \in EntryT /\ k.next \in Slots /\ 0 \in 0 .. ReuseSpan - 1
      /\ k.entry[i] = [used |-> k.entry[i].used, kind |-> k.entry[i].kind,
                       reuse |-> k.entry[i].reuse, object |-> k.entry[i].object]
  BY GdiObjectsAssumption DEF Shape, EntryT
<1>2. e \in EntryT /\ NotShared \in SharedT /\ next \in Slots /\ i \in Slots
  BY <1>1 DEF EntryT, SharedT, NotShared, Null
<1>3. e = [k.entry[i] EXCEPT !.used = FALSE, !.object = Null]
  <2> DEFINE f == k.entry[i]  u == f.used  q == f.kind  w == f.reuse  v == f.object
  <2>1. f = [used |-> u, kind |-> q, reuse |-> w, object |-> v]
    BY <1>1
  <2>2. e = [used |-> FALSE, kind |-> q, reuse |-> w, object |-> Null]
    OBVIOUS
  <2> DEFINE no == FALSE  null == Null
  <2> HIDE DEF f, u, q, w, v, no, null
  <2>3. [f EXCEPT !.used = no, !.object = null]
          = [used |-> no, kind |-> q, reuse |-> w, object |-> null]
    <3> DEFINE y == [f EXCEPT !.used = no]
    <3>1. y = [used |-> no, kind |-> q, reuse |-> w, object |-> v]
      BY <2>1
    <3>2. [y EXCEPT !.object = null] = [used |-> no, kind |-> q, reuse |-> w, object |-> null]
      <4> HIDE DEF y
      <4> QED BY <3>1
    <3>3. QED BY <3>2
  <2>4. [f EXCEPT !.used = FALSE, !.object = Null]
          = [used |-> FALSE, kind |-> q, reuse |-> w, object |-> Null]
    BY <2>3 DEF no, null
  <2>5. QED BY <2>2, <2>4 DEF f
<1>4. r = [entry |-> [k.entry EXCEPT ![i] = e], next |-> next, count |-> k.count - 1,
           shared |-> [k.shared EXCEPT ![i] = NotShared], object |-> k.object]
  <2>1. r = [k EXCEPT !.entry[i] = [@ EXCEPT !.used = FALSE, !.object = Null],
                      !.count = @ - 1, !.shared[i] = NotShared,
                      !.next = IF i < @ THEN i ELSE @]
    BY DEF FreeHandle
  <2>2. k = [entry |-> k.entry, next |-> k.next, count |-> k.count, shared |-> k.shared,
             object |-> k.object]
    BY DEF Shape
  <2> DEFINE a == k.entry  b == k.next  c == k.count  d == k.shared  o == k.object
             f == [a[i] EXCEPT !.used = FALSE, !.object = Null]
  <2>3. /\ k = [entry |-> a, next |-> b, count |-> c, shared |-> d, object |-> o]
        /\ a = k.entry /\ c = k.count /\ d = k.shared /\ b = k.next
    BY <2>2
  <2>4. r = [k EXCEPT !.entry = [a EXCEPT ![i] = f], !.count = c - 1,
                      !.shared = [d EXCEPT ![i] = NotShared],
                      !.next = IF i < b THEN i ELSE b]
    BY <2>1
  <2>5. e = f
    BY <1>3
  <2>6. next = IF i < b THEN i ELSE b
    OBVIOUS
  <2> DEFINE a2 == [a EXCEPT ![i] = f]
             d2 == [d EXCEPT ![i] = NotShared]
  <2>7. r = [k EXCEPT !.entry = a2, !.count = c - 1, !.shared = d2, !.next = next]
    BY <2>4, <2>6
  <2> HIDE DEF a, b, c, d, o, e, f, next, i, a2, d2
  <2>8. r = [entry |-> a2, next |-> next, count |-> c - 1, shared |-> d2, object |-> o]
    BY <2>7, <2>3
  <2>9. QED BY <2>5, <2>8 DEF a, c, d, o, a2, d2
<1> HIDE DEF e, next, i
<1>5. Shape(r) /\ Entered(k, r, i, e, NotShared) /\ r.count = k.count - 1
  BY <1>2, <1>4, EntrySet
<1>6. QED BY <1>5 DEF e, i

---------------------------------------------------------------------------
(* The chain of saved states of a DC.                                      *)

Last == Cardinality(Places("DC"))

\* at is the chain from n, to the place m.
Step(d, x) == IF x \notin DOMAIN d THEN Null ELSE d[x].saved
FollowsTo(d, n, at, m) == at = [i \in 0 .. m |-> IF i = 0 THEN n ELSE Step(d, at[i - 1])]

LEMMA FollowsExists ==
  ASSUME NEW d, NEW n, NEW m \in Nat
  PROVE  \E at : FollowsTo(d, n, at, m)
<1> DEFINE S == { q \in Nat : \E at : FollowsTo(d, n, at, q) }
<1>1. 0 \in S
  <2> DEFINE at == [i \in 0 .. 0 |-> n]
  <2>1. at = [i \in 0 .. 0 |-> IF i = 0 THEN n ELSE Step(d, at[i - 1])]
    OBVIOUS
  <2>2. QED BY <2>1 DEF FollowsTo
<1>2. ASSUME NEW q \in Nat, q \in S PROVE q + 1 \in S
  <2>1. PICK at : FollowsTo(d, n, at, q)
    BY <1>2
  <2> DEFINE b == [i \in 0 .. q + 1 |-> IF i <= q THEN at[i] ELSE Step(d, at[q])]
  <2>2. b = [i \in 0 .. q + 1 |-> IF i = 0 THEN n ELSE Step(d, b[i - 1])]
    <3>1. \A i \in 0 .. q : at[i] = IF i = 0 THEN n ELSE Step(d, at[i - 1])
      BY <2>1 DEF FollowsTo
    <3>2. \A i \in 0 .. q : b[i] = at[i]
      BY <1>2
    <3>3. b[q + 1] = Step(d, at[q])
      BY <1>2
    <3>4. ASSUME NEW i \in 0 .. q + 1
          PROVE  b[i] = IF i = 0 THEN n ELSE Step(d, b[i - 1])
      <4>1. CASE i = 0
        BY <1>2, <3>1, <3>2, <4>1
      <4>2. CASE i # 0 /\ i # q + 1
        <5>1. i \in 0 .. q /\ i - 1 \in 0 .. q
          BY <1>2, <4>2
        <5>2. QED BY <3>1, <3>2, <4>2, <5>1
      <4>3. CASE i = q + 1
        <5>1. i # 0 /\ i - 1 = q /\ q \in 0 .. q
          BY <1>2, <4>3
        <5>2. QED BY <3>2, <3>3, <4>3, <5>1
      <4>4. QED BY <4>1, <4>2, <4>3
    <3>5. b = [i \in 0 .. q + 1 |-> b[i]]
      OBVIOUS
    <3> HIDE DEF b
    <3>6. QED BY <3>4, <3>5
  <2> HIDE DEF b
  <2>3. QED BY <2>2 DEF FollowsTo
<1> HIDE DEF S
<1>3. m \in S
  BY <1>1, <1>2, Induct
<1>4. QED BY <1>3 DEF S

\* at is the chain from n.
Follows(d, n, at) == /\ at = [i \in 0 .. Last |-> at[i]]
                     /\ at[0] = n
                     /\ \A i \in 0 .. Last - 1 : at[i + 1] = Step(d, at[i])

LEMMA LastNat == Last \in Nat
  BY PlacesFacts DEF Last, Kinds

LEMMA ChainFollows ==
  ASSUME NEW k, NEW n
  PROVE  Follows(k.object["DC"], n, Chain(k, n))
<1> DEFINE d == k.object["DC"]
           Is(at) == at = [i \in 0 .. Cardinality(Places("DC")) |->
                             IF i = 0 THEN n
                             ELSE IF at[i - 1] \notin DOMAIN k.object["DC"] THEN Null
                             ELSE Dc(k, at[i - 1]).saved]
           at == Chain(k, n)
<1>1. PICK b : FollowsTo(d, n, b, Last)
  BY FollowsExists, LastNat
<1>2. Is(b)
  <2>1. b = [i \in 0 .. Last |-> IF i = 0 THEN n ELSE IF b[i - 1] \notin DOMAIN d THEN Null
                                 ELSE d[b[i - 1]].saved]
    BY <1>1 DEF FollowsTo, Step
  <2>2. QED BY <2>1 DEF Last, Dc
<1>3. at = CHOOSE z : Is(z)
  BY Zenon DEF Chain
<1>4. Is(at)
  <2> HIDE DEF Is, at
  <2> QED BY <1>2, <1>3
<1>5. at = [i \in 0 .. Last |-> IF i = 0 THEN n ELSE Step(d, at[i - 1])]
  <2> HIDE DEF at
  <2> QED BY <1>4 DEF Step, Last, Dc
<1> HIDE DEF at, d, Is
<1>6. \A i \in 0 .. Last : at[i] = IF i = 0 THEN n ELSE Step(d, at[i - 1])
  BY <1>5
<1>7. at = [i \in 0 .. Last |-> at[i]] /\ at[0] = n
  BY <1>5, LastNat
<1>8. ASSUME NEW i \in 0 .. Last - 1 PROVE at[i + 1] = Step(d, at[i])
  <2>1. i + 1 \in 0 .. Last /\ i + 1 # 0 /\ (i + 1) - 1 = i
    BY LastNat
  <2>2. QED BY <1>6, <2>1
<1>9. QED BY <1>7, <1>8 DEF Follows, at, d


(* Every DC is a root or saved by one other DC, whose level is one more:   *)
(* what the table, of whose entries the roots are, keeps true.             *)
Linked(d, R) ==
  /\ DOMAIN d \subseteq Places("DC") /\ R \subseteq DOMAIN d
  /\ \A x \in DOMAIN d : d[x].level \in Nat
  /\ \A x \in DOMAIN d : d[x].level = 0 => d[x].saved = Null
  /\ \A x \in DOMAIN d : d[x].level # 0 => /\ d[x].saved \in DOMAIN d \ R
                                           /\ d[d[x].saved].level = d[x].level - 1
  /\ \A x \in DOMAIN d \ R : \E y \in DOMAIN d : d[y].level # 0 /\ d[y].saved = x
  /\ \A x, y \in DOMAIN d :
       d[x].level # 0 /\ d[y].level # 0 /\ d[x].saved = d[y].saved => x = y

\* The chain from n is as long as its level says, and then Null.
Level(d, n, at) ==
  /\ d[n].level \in Nat /\ d[n].level < Last
  /\ \A i \in 0 .. d[n].level : at[i] \in DOMAIN d /\ d[at[i]].level = d[n].level - i
  /\ \A i \in 0 .. Last : i > d[n].level => at[i] = Null

LEMMA NullPlace == Null \notin Places("DC") /\ Places("DC") \subseteq Nat
  BY PlacesFacts DEF Kinds

LEMMA ChainLevels ==
  ASSUME NEW d, NEW R, Linked(d, R), NEW n \in DOMAIN d, NEW at, Follows(d, n, at)
  PROVE  Level(d, n, at)
<1> DEFINE v == d[n].level
           In(i) == at[i] \in DOMAIN d /\ d[at[i]].level = v - i
           S == { i \in Nat : i <= v /\ i <= Last => In(i) }
           T == { i \in Nat : v < i /\ i <= Last => at[i] = Null }
<1>1. v \in Nat /\ Last \in Nat
  BY LastNat DEF Linked
<1>2. 0 \in S
  BY <1>1 DEF Follows
<1>3. ASSUME NEW i \in Nat, i \in S PROVE i + 1 \in S
  <2>1. SUFFICES ASSUME i + 1 <= v, i + 1 <= Last PROVE In(i + 1)
    OBVIOUS
  <2>2. In(i) /\ i \in 0 .. Last - 1
    BY <1>1, <1>3, <2>1
  <2>3. at[i + 1] = d[at[i]].saved
    BY <2>2 DEF Follows, Step
  <2>4. d[at[i]].level # 0
    BY <1>1, <2>1, <2>2
  <2>5. d[at[i]].saved \in DOMAIN d /\ d[d[at[i]].saved].level = d[at[i]].level - 1
    BY <2>2, <2>4 DEF Linked
  <2>6. (v - i) - 1 = v - (i + 1)
    BY <1>1
  <2>7. QED BY <2>2, <2>3, <2>5, <2>6
<1>4. \A i \in Nat : i <= v /\ i <= Last => In(i)
  <2> HIDE DEF S
  <2>1. Nat \subseteq S
    BY <1>2, <1>3, Induct
  <2>2. QED BY <2>1 DEF S
<1>5. v < Last
  <2>1. SUFFICES ASSUME v >= Last PROVE FALSE
    BY <1>1
  <2>2. \A i \in 0 .. Last : In(i)
    BY <1>1, <1>4, <2>1
  <2>3. at \in [0 .. Last -> Places("DC")]
    BY <2>2 DEF Follows, Linked
  <2>4. /\ IsFiniteSet(0 .. Last) /\ IsFiniteSet(Places("DC"))
        /\ Cardinality(Places("DC")) < Cardinality(0 .. Last)
    <3>1. IsFiniteSet(0 .. Last) /\ Cardinality(0 .. Last) = Last + 1
      <4>1. /\ IsFiniteSet(0 .. Last)
            /\ Cardinality(0 .. Last) = IF 0 > Last THEN 0 ELSE Last - 0 + 1
        BY <1>1, FS_Interval
      <4>2. QED BY <1>1, <4>1
    <3>2. IsFiniteSet(Places("DC")) /\ Cardinality(Places("DC")) = Last
      BY PlacesFacts DEF Last, Kinds
    <3>3. QED BY <1>1, <3>1, <3>2
  <2>5. PICK x, y \in 0 .. Last : x # y /\ at[x] = at[y]
    BY <2>3, <2>4, FS_PigeonHole
  <2>6. v - x = v - y
    BY <2>2, <2>5
  <2>7. QED BY <1>1, <2>5, <2>6
<1>6. 0 \in T
  BY <1>1
<1>7. ASSUME NEW i \in Nat, i \in T PROVE i + 1 \in T
  <2>1. SUFFICES ASSUME v < i + 1, i + 1 <= Last PROVE at[i + 1] = Null
    OBVIOUS
  <2>2. i \in 0 .. Last - 1 /\ i <= Last
    BY <1>1, <2>1
  <2>3. at[i + 1] = Step(d, at[i])
    BY <2>2 DEF Follows
  <2>4. CASE i = v
    <3>1. In(i)
      BY <1>1, <1>4, <2>2, <2>4
    <3>2. d[at[i]].level = 0
      BY <1>1, <2>4, <3>1
    <3>3. QED BY <2>3, <3>1, <3>2 DEF Linked, Step
  <2>5. CASE v < i
    <3>1. at[i] = Null
      BY <1>7, <2>2, <2>5
    <3>2. Null \notin DOMAIN d
      BY NullPlace DEF Linked
    <3>3. QED BY <2>3, <3>1, <3>2 DEF Step
  <2>6. QED BY <1>1, <2>1, <2>4, <2>5
<1>8. \A i \in Nat : v < i /\ i <= Last => at[i] = Null
  <2> HIDE DEF T
  <2>1. Nat \subseteq T
    BY <1>6, <1>7, Induct
  <2>2. QED BY <2>1 DEF T
<1>9. \A i \in 0 .. v : In(i)
  BY <1>1, <1>4, <1>5
<1>10. \A i \in 0 .. Last : i > v => at[i] = Null
  BY <1>1, <1>8
<1>11. QED BY <1>1, <1>5, <1>9, <1>10 DEF Level

\* Where a DC is on a chain.
LEMMA OnChain ==
  ASSUME NEW d, NEW R, Linked(d, R), NEW n \in DOMAIN d, NEW at, Follows(d, n, at),
         NEW i \in 0 .. Last, at[i] \in DOMAIN d
  PROVE  /\ i <= d[n].level /\ d[at[i]].level = d[n].level - i
         /\ i # 0 => /\ i - 1 \in 0 .. Last - 1 /\ at[i - 1] \in DOMAIN d
                     /\ d[at[i - 1]].level # 0 /\ at[i] = d[at[i - 1]].saved /\ at[i] \notin R
<1>1. Level(d, n, at) /\ Last \in Nat
  BY ChainLevels, LastNat
<1>2. Null \notin DOMAIN d
  BY NullPlace DEF Linked
<1>3. i <= d[n].level
  BY <1>1, <1>2 DEF Level
<1>4. d[at[i]].level = d[n].level - i
  BY <1>1, <1>3 DEF Level
<1>5. ASSUME i # 0
      PROVE  /\ i - 1 \in 0 .. Last - 1 /\ at[i - 1] \in DOMAIN d
             /\ d[at[i - 1]].level # 0 /\ at[i] = d[at[i - 1]].saved /\ at[i] \notin R
  <2>1. i - 1 \in 0 .. Last - 1 /\ i - 1 \in 0 .. d[n].level /\ (i - 1) + 1 = i
    BY <1>1, <1>3, <1>5 DEF Level
  <2>2. at[i - 1] \in DOMAIN d /\ d[at[i - 1]].level = d[n].level - (i - 1)
    BY <1>1, <2>1 DEF Level
  <2>3. at[i] = d[at[i - 1]].saved
    BY <2>1, <2>2 DEF Follows, Step
  <2>4. d[at[i - 1]].level # 0
    BY <1>1, <1>3, <2>1, <2>2 DEF Level
  <2>5. at[i] \notin R
    BY <2>2, <2>3, <2>4 DEF Linked
  <2>6. QED BY <2>1, <2>2, <2>3, <2>4, <2>5
<1>6. QED BY <1>3, <1>4, <1>5

\* A DC is on the chain of one root, in one place.
LEMMA OneChain ==
  ASSUME NEW d, NEW R, Linked(d, R), NEW n \in R, NEW m \in R, NEW a, Follows(d, n, a),
         NEW b, Follows(d, m, b), NEW i \in 0 .. Last, NEW j \in 0 .. Last,
         a[i] = b[j], a[i] \in DOMAIN d
  PROVE  n = m /\ i = j
<1> DEFINE S == { p \in Nat : \A q \in 0 .. Last :
                    p <= Last /\ a[p] = b[q] /\ a[p] \in DOMAIN d => n = m /\ p = q }
<1>0. Last \in Nat /\ n \in DOMAIN d /\ m \in DOMAIN d
  BY LastNat DEF Linked
<1>1. 0 \in S
  <2>1. SUFFICES ASSUME NEW q \in 0 .. Last, a[0] = b[q], a[0] \in DOMAIN d
                 PROVE  n = m /\ 0 = q
    BY <1>0
  <2>2. a[0] = n /\ b[0] = m
    BY DEF Follows
  <2>3. b[q] \in DOMAIN d /\ b[q] = n
    BY <2>1, <2>2
  <2>4. q # 0 => b[q] \notin R
    BY <1>0, <2>3, OnChain
  <2>5. QED BY <2>2, <2>3, <2>4
<1>2. ASSUME NEW p \in Nat, p \in S PROVE p + 1 \in S
  <2>1. SUFFICES ASSUME NEW q \in 0 .. Last, p + 1 <= Last, a[p + 1] = b[q],
                        a[p + 1] \in DOMAIN d
                 PROVE  n = m /\ p + 1 = q
    BY <1>0
  <2>2. p + 1 \in 0 .. Last /\ p + 1 # 0 /\ (p + 1) - 1 = p
    BY <1>0, <2>1
  <2>3. a[p] \in DOMAIN d /\ d[a[p]].level # 0 /\ a[p + 1] = d[a[p]].saved /\ a[p + 1] \notin R
    BY <1>0, <2>1, <2>2, OnChain
  <2>4. q # 0
    BY <2>1, <2>3 DEF Follows
  <2>5. q - 1 \in 0 .. Last - 1 /\ b[q - 1] \in DOMAIN d /\ d[b[q - 1]].level # 0
        /\ b[q] = d[b[q - 1]].saved
    BY <1>0, <2>1, <2>4, OnChain
  <2>6. a[p] = b[q - 1]
    <3>1. \A x, y \in DOMAIN d :
            d[x].level # 0 /\ d[y].level # 0 /\ d[x].saved = d[y].saved => x = y
      BY DEF Linked
    <3>2. d[a[p]].saved = d[b[q - 1]].saved
      BY <2>1, <2>3, <2>5
    <3>3. QED BY <2>3, <2>5, <3>1, <3>2
  <2>7. q - 1 \in 0 .. Last /\ p <= Last
    BY <1>0, <2>1, <2>5
  <2>8. n = m /\ p = q - 1
    BY <1>2, <2>3, <2>6, <2>7
  <2>9. QED BY <1>0, <2>8
<1> HIDE DEF S
<1>3. Nat \subseteq S
  BY <1>1, <1>2, Induct
<1>4. QED BY <1>0, <1>3 DEF S

\* Every DC is on the chain of a root.
Reached(k, R, s) == \E n \in R : \E i \in 0 .. Last : Chain(k, n)[i] = s

LEMMA SomeChain ==
  ASSUME NEW k, NEW R, Linked(k.object["DC"], R), NEW s \in DOMAIN k.object["DC"]
  PROVE  Reached(k, R, s)
<1> DEFINE d == k.object["DC"]
           At(n) == Chain(k, n)
<1>0. Linked(d, R) /\ s \in DOMAIN d /\ \A n \in R : Follows(d, n, At(n))
  BY ChainFollows
<1> SUFFICES \E n \in R : \E i \in 0 .. Last : At(n)[i] = s
  BY DEF Reached
<1> HIDE DEF d, At
<1> DEFINE On(x) == \E n \in R : \E i \in 0 .. Last : At(n)[i] = x
           S == { m \in Nat : \A x \in DOMAIN d : d[x].level + m = Last => On(x) }
<1>1. \A x \in DOMAIN d : d[x].level \in Nat /\ d[x].level < Last
  <2>1. TAKE x \in DOMAIN d
  <2>2. PICK b : FollowsTo(d, x, b, Last)
    BY FollowsExists, LastNat
  <2>3. Follows(d, x, b)
    <3>1. \A i \in 0 .. Last : b[i] = IF i = 0 THEN x ELSE Step(d, b[i - 1])
      BY <2>2 DEF FollowsTo
    <3>2. b = [i \in 0 .. Last |-> b[i]] /\ b[0] = x
      BY <1>0, <2>2, LastNat DEF FollowsTo
    <3>3. ASSUME NEW i \in 0 .. Last - 1 PROVE b[i + 1] = Step(d, b[i])
      <4>1. i + 1 \in 0 .. Last /\ i + 1 # 0 /\ (i + 1) - 1 = i
        BY LastNat
      <4>2. QED BY <3>1, <4>1
    <3>4. QED BY <3>2, <3>3 DEF Follows
  <2>4. QED BY <1>0, <2>3, ChainLevels DEF Level
<1>2. 0 \in S
  BY <1>1, LastNat
<1>3. ASSUME NEW m \in Nat, m \in S PROVE m + 1 \in S
  <2>1. SUFFICES ASSUME NEW x \in DOMAIN d, d[x].level + (m + 1) = Last PROVE On(x)
    OBVIOUS
  <2>2. CASE x \in R
    <3>1. At(x)[0] = x /\ 0 \in 0 .. Last
      BY <1>0, <2>2, LastNat DEF Follows
    <3>2. QED BY <2>2, <3>1
  <2>3. CASE x \notin R
    <3>1. PICK y \in DOMAIN d : d[y].level # 0 /\ d[y].saved = x
      BY <1>0, <2>3 DEF Linked
    <3>2. d[x].level = d[y].level - 1
      BY <1>0, <3>1 DEF Linked
    <3>3. d[y].level + m = Last
      BY <1>1, <2>1, <3>2, LastNat
    <3>4. PICK n \in R : \E i \in 0 .. Last : At(n)[i] = y
      BY <1>3, <3>3
    <3>5. PICK i \in 0 .. Last : At(n)[i] = y
      BY <3>4
    <3>6. n \in DOMAIN d /\ Follows(d, n, At(n))
      BY <1>0, <3>4 DEF Linked
    <3> DEFINE b == At(n)
    <3>7. Follows(d, n, b) /\ b[i] = y /\ b[i] \in DOMAIN d
      BY <3>1, <3>5, <3>6
    <3> HIDE DEF b
    <3>8. i <= d[n].level /\ d[b[i]].level = d[n].level - i
      BY <1>0, <3>6, <3>7, OnChain
    <3>9. i \in 0 .. Last - 1
      BY <1>1, <3>5, <3>6, <3>8, LastNat
    <3>10. b[i + 1] = x /\ i + 1 \in 0 .. Last
      <4>1. b[i + 1] = Step(d, y)
        BY <3>7, <3>9 DEF Follows
      <4>2. QED BY <3>1, <3>9, <4>1, LastNat DEF Step
    <3>11. QED BY <3>10 DEF b
  <2>4. QED BY <2>2, <2>3
<1> HIDE DEF S, On
<1>4. Nat \subseteq S
  BY <1>2, <1>3, Induct
<1>5. Last - d[s].level \in Nat /\ d[s].level + (Last - d[s].level) = Last
  BY <1>0, <1>1, LastNat
<1>6. On(s)
  BY <1>0, <1>4, <1>5 DEF S
<1>7. QED BY <1>6 DEF On


---------------------------------------------------------------------------
(* The steps keep every saved state in its place.                          *)

\* Two chains that meet go the same way as long as nothing on them changed.
LEMMA Shifted ==
  ASSUME NEW d, NEW e, NEW n, NEW m, NEW a, NEW b, Follows(d, n, a), Follows(e, m, b),
         NEW p \in 0 .. Last, NEW q \in 0 .. Last, b[p] = a[q],
         \A i \in q .. Last - 1 : Step(e, a[i]) = Step(d, a[i])
  PROVE  \A i \in Nat : p + i <= Last /\ q + i <= Last => b[p + i] = a[q + i]
<1> DEFINE S == { i \in Nat : p + i <= Last /\ q + i <= Last => b[p + i] = a[q + i] }
<1>1. 0 \in S
  <2>1. p + 0 = p /\ q + 0 = q
    BY LastNat
  <2>2. QED BY <2>1
<1>2. ASSUME NEW i \in Nat, i \in S PROVE i + 1 \in S
  <2>1. SUFFICES ASSUME p + (i + 1) <= Last, q + (i + 1) <= Last
                 PROVE  b[p + (i + 1)] = a[q + (i + 1)]
    OBVIOUS
  <2>2. /\ p + i \in 0 .. Last - 1 /\ q + i \in q .. Last - 1 /\ q + i \in 0 .. Last - 1
        /\ p + i <= Last /\ q + i <= Last
        /\ p + (i + 1) = (p + i) + 1 /\ q + (i + 1) = (q + i) + 1
    BY <2>1, LastNat
  <2>3. b[p + i] = a[q + i]
    BY <1>2, <2>2
  <2>4. b[(p + i) + 1] = Step(e, b[p + i]) /\ a[(q + i) + 1] = Step(d, a[q + i])
    BY <2>2 DEF Follows
  <2>5. Step(e, a[q + i]) = Step(d, a[q + i])
    BY <2>2
  <2>6. QED BY <2>2, <2>3, <2>4, <2>5
<1> HIDE DEF S
<1>3. Nat \subseteq S
  BY <1>1, <1>2, Induct
<1>4. QED BY <1>3 DEF S

\* A chain no part of which changed.
LEMMA ChainSame ==
  ASSUME NEW d, NEW e, NEW n, NEW a, NEW b, Follows(d, n, a), Follows(e, n, b),
         \A i \in 0 .. Last : Step(e, a[i]) = Step(d, a[i])
  PROVE  b = a
<1>1. b[0] = a[0] /\ 0 \in 0 .. Last
  BY LastNat DEF Follows
<1>2. \A i \in 0 .. Last - 1 : Step(e, a[i]) = Step(d, a[i])
  BY LastNat
<1>3. \A i \in Nat : 0 + i <= Last /\ 0 + i <= Last => b[0 + i] = a[0 + i]
  BY <1>1, <1>2, Shifted
<1>4. \A i \in 0 .. Last : b[i] = a[i]
  <2>1. TAKE i \in 0 .. Last
  <2>2. i \in Nat /\ 0 + i = i /\ i <= Last
    BY LastNat
  <2>3. QED BY <1>3, <2>2
<1>5. a = [i \in 0 .. Last |-> a[i]] /\ b = [i \in 0 .. Last |-> b[i]]
  BY DEF Follows
<1>6. QED BY <1>4, <1>5

\* The place of x, and what it saved, are as they were.
Keeps(d, e, x) == e[x].level = d[x].level /\ e[x].saved = d[x].saved

\* The conjuncts of Linked.
Level0(d) == \A x \in DOMAIN d : /\ d[x].level \in Nat
                                 /\ d[x].level = 0 => d[x].saved = Null
SavedIn(d, R, x) == d[x].level # 0 => /\ d[x].saved \in DOMAIN d \ R
                                      /\ d[d[x].saved].level = d[x].level - 1
SavedBy(d, x) == \E y \in DOMAIN d : d[y].level # 0 /\ d[y].saved = x
SavedOnce(d) == \A x, y \in DOMAIN d :
                  d[x].level # 0 /\ d[y].level # 0 /\ d[x].saved = d[y].saved => x = y

LEMMA LinkedParts ==
  ASSUME NEW d, NEW R
  PROVE  Linked(d, R) <=> /\ DOMAIN d \subseteq Places("DC") /\ R \subseteq DOMAIN d
                          /\ Level0(d)
                          /\ \A x \in DOMAIN d : SavedIn(d, R, x)
                          /\ \A x \in DOMAIN d \ R : SavedBy(d, x)
                          /\ SavedOnce(d)
  BY DEF Linked, Level0, SavedIn, SavedBy, SavedOnce

\* Other attributes.
LEMMA LinkedSame ==
  ASSUME NEW d, NEW R, Linked(d, R), NEW e, DOMAIN e = DOMAIN d,
         \A x \in DOMAIN d : Keeps(d, e, x)
  PROVE  Linked(e, R)
  BY DEF Linked, Keeps

\* A new DC.
LEMMA LinkedMake ==
  ASSUME NEW d, NEW R, Linked(d, R), NEW n \in Places("DC") \ DOMAIN d, NEW e,
         DOMAIN e = DOMAIN d \cup {n}, \A x \in DOMAIN d : Keeps(d, e, x),
         e[n].level = 0, e[n].saved = Null
  PROVE  Linked(e, R \cup {n})
<1> DEFINE Q == R \cup {n}
<1>1. DOMAIN e \subseteq Places("DC") /\ Q \subseteq DOMAIN e /\ Level0(e)
  BY DEF Linked, Keeps, Level0
<1>2. ASSUME NEW x \in DOMAIN e PROVE SavedIn(e, Q, x)
  <2>1. CASE x = n
    BY <2>1 DEF SavedIn
  <2>2. CASE x \in DOMAIN d
    BY <2>2 DEF Linked, Keeps, SavedIn
  <2>3. QED BY <2>1, <2>2
<1>3. ASSUME NEW x \in DOMAIN e \ Q PROVE SavedBy(e, x)
  <2>1. x \in DOMAIN d \ R
    OBVIOUS
  <2>2. QED BY <2>1 DEF Linked, Keeps, SavedBy
<1>4. SavedOnce(e)
  BY DEF Linked, Keeps, SavedOnce
<1>5. QED BY <1>1, <1>2, <1>3, <1>4, LinkedParts

\* A saved state.
LEMMA LinkedSave ==
  ASSUME NEW d, NEW R, Linked(d, R), NEW n \in R, NEW s \in Places("DC") \ DOMAIN d, NEW e,
         DOMAIN e = DOMAIN d \cup {s}, \A x \in DOMAIN d \ {n} : Keeps(d, e, x),
         e[s].level = d[n].level, e[s].saved = d[n].saved,
         e[n].level = d[n].level + 1, e[n].saved = s
  PROVE  Linked(e, R)
<1>0. n \in DOMAIN d /\ n # s /\ d[n].level \in Nat /\ e[n].level # 0
      /\ (d[n].level + 1) - 1 = d[n].level
  BY DEF Linked
<1>1. DOMAIN e \subseteq Places("DC") /\ R \subseteq DOMAIN e
  BY DEF Linked
<1>2. Level0(e)
  <2>1. SUFFICES ASSUME NEW x \in DOMAIN e
                 PROVE  e[x].level \in Nat /\ (e[x].level = 0 => e[x].saved = Null)
    BY DEF Level0
  <2>2. CASE x = n
    BY <1>0, <2>2
  <2>3. CASE x = s
    BY <1>0, <2>3 DEF Linked
  <2>4. CASE x \in DOMAIN d \ {n}
    BY <2>4 DEF Linked, Keeps
  <2>5. QED BY <2>2, <2>3, <2>4
<1>3. ASSUME NEW x \in DOMAIN e PROVE SavedIn(e, R, x)
  <2>1. ASSUME NEW y \in DOMAIN d, d[y].level # 0
        PROVE  /\ d[y].saved \in DOMAIN d \ R /\ d[y].saved # n
               /\ e[d[y].saved].level = d[y].level - 1
    <3>1. d[y].saved \in DOMAIN d \ R /\ d[d[y].saved].level = d[y].level - 1
      BY <2>1 DEF Linked
    <3>2. Keeps(d, e, d[y].saved)
      BY <3>1
    <3>3. QED BY <3>1, <3>2 DEF Keeps
  <2>2. CASE x = n
    <3>1. s \notin R /\ s \in DOMAIN e
      BY DEF Linked
    <3>2. QED BY <1>0, <2>2, <3>1 DEF SavedIn
  <2>3. CASE x = s
    BY <1>0, <2>1, <2>3 DEF SavedIn
  <2>4. CASE x \in DOMAIN d \ {n}
    <3>1. Keeps(d, e, x)
      BY <2>4
    <3>2. QED BY <2>1, <2>4, <3>1 DEF Keeps, SavedIn
  <2>5. QED BY <2>2, <2>3, <2>4
<1>4. ASSUME NEW x \in DOMAIN e \ R PROVE SavedBy(e, x)
  <2>1. CASE x = s
    BY <1>0, <2>1 DEF SavedBy
  <2>2. CASE x # s
    <3>1. x \in DOMAIN d \ R
      BY <2>2
    <3>2. PICK y \in DOMAIN d : d[y].level # 0 /\ d[y].saved = x
      BY <3>1 DEF Linked
    <3>3. CASE y = n
      BY <3>2, <3>3 DEF SavedBy
    <3>4. CASE y # n
      BY <3>2, <3>4 DEF SavedBy, Keeps
    <3>5. QED BY <3>3, <3>4
  <2>3. QED BY <2>1, <2>2
<1>5. SavedOnce(e)
  <2> DEFINE Was(x) == IF x = s THEN n ELSE x
  <2>1. ASSUME NEW x \in DOMAIN e, x # n, e[x].level # 0
        PROVE  /\ Was(x) \in DOMAIN d /\ d[Was(x)].level # 0 /\ d[Was(x)].saved = e[x].saved
               /\ e[x].saved # s
    <3>1. /\ Was(x) \in DOMAIN d /\ d[Was(x)].level = e[x].level
          /\ d[Was(x)].saved = e[x].saved
      BY <1>0, <2>1 DEF Keeps
    <3>2. d[Was(x)].saved \in DOMAIN d
      BY <2>1, <3>1 DEF Linked
    <3>3. QED BY <2>1, <3>1, <3>2
  <2>2. ASSUME NEW x \in DOMAIN e, NEW y \in DOMAIN e, e[x].level # 0, e[y].level # 0,
               e[x].saved = e[y].saved, x # n, y # n
        PROVE  x = y
    <3> HIDE DEF Was
    <3>1. Was(x) = Was(y)
      BY <2>1, <2>2 DEF Linked
    <3>2. QED BY <2>2, <3>1 DEF Was
  <2>3. ASSUME NEW x \in DOMAIN e, e[x].level # 0, e[x].saved = s PROVE x = n
    BY <2>1, <2>3
  <2>4. QED BY <2>2, <2>3 DEF SavedOnce
<1>6. QED BY <1>1, <1>2, <1>3, <1>4, <1>5, LinkedParts

\* What is on a chain.
Members(at) == {at[i] : i \in 0 .. Last}

\* A DC that goes with all that it saved.
LEMMA LinkedDelete ==
  ASSUME NEW d, NEW R, Linked(d, R), NEW n \in R, NEW at, Follows(d, n, at), NEW e,
         DOMAIN e = DOMAIN d \ Members(at), \A x \in DOMAIN e : Keeps(d, e, x)
  PROVE  Linked(e, R \ {n})
<1> DEFINE C == { at[i] : i \in 0 .. Last }
           Q == R \ {n}
<1>0. n \in DOMAIN d /\ Last \in Nat /\ at[0] = n /\ n \in C
  BY LastNat DEF Linked, Follows
<1>1. ASSUME NEW x \in C, x \in DOMAIN d
      PROVE  /\ x # n => /\ x \notin R
                         /\ \E y \in C : y \in DOMAIN d /\ d[y].level # 0 /\ d[y].saved = x
             /\ d[x].level # 0 => d[x].saved \in C
  <2>1. PICK i \in 0 .. Last : x = at[i]
    OBVIOUS
  <2>2. x # n => i # 0
    BY <1>0, <2>1
  <2>3. ASSUME x # n
        PROVE  x \notin R /\ \E y \in C : y \in DOMAIN d /\ d[y].level # 0 /\ d[y].saved = x
    <3>1. /\ i - 1 \in 0 .. Last - 1 /\ at[i - 1] \in DOMAIN d /\ d[at[i - 1]].level # 0
          /\ at[i] = d[at[i - 1]].saved /\ at[i] \notin R
      BY <1>0, <1>1, <2>1, <2>2, <2>3, OnChain
    <3>2. i - 1 \in 0 .. Last
      BY <1>0, <3>1
    <3>3. at[i - 1] \in C
      BY <3>2
    <3>4. QED BY <2>1, <3>1, <3>3
  <2>4. ASSUME d[x].level # 0 PROVE d[x].saved \in C
    <3>1. i <= d[n].level /\ d[x].level = d[n].level - i
      BY <1>0, <1>1, <2>1, OnChain
    <3>2. d[n].level < Last /\ d[n].level \in Nat
      BY <1>0, ChainLevels DEF Level
    <3>3. i \in 0 .. Last - 1 /\ i + 1 \in 0 .. Last
      BY <1>0, <2>1, <3>1, <3>2
    <3>4. at[i + 1] = Step(d, x)
      BY <2>1, <3>3 DEF Follows
    <3>5. at[i + 1] = d[x].saved
      BY <1>1, <3>4 DEF Step
    <3>6. QED BY <3>3, <3>5
  <2>5. QED BY <2>3, <2>4
<1>2. DOMAIN e = DOMAIN d \ C
  BY DEF Members
<1> HIDE DEF C
<1>3. \A m \in Q : m \in DOMAIN e
  BY <1>1, <1>2 DEF Linked
<1>4. DOMAIN e \subseteq Places("DC") /\ Q \subseteq DOMAIN e /\ Level0(e)
  BY <1>2, <1>3 DEF Linked, Keeps, Level0
<1>5. ASSUME NEW x \in DOMAIN d, x \notin C, d[x].level # 0
      PROVE  d[x].saved \in DOMAIN d \ R /\ d[x].saved \notin C
  <2>1. d[x].saved \in DOMAIN d \ R
    BY <1>5 DEF Linked
  <2>2. SUFFICES ASSUME d[x].saved \in C PROVE FALSE
    BY <2>1
  <2>3. d[x].saved # n
    BY <2>1
  <2>4. PICK y \in C : y \in DOMAIN d /\ d[y].level # 0 /\ d[y].saved = d[x].saved
    BY <1>1, <2>1, <2>2, <2>3
  <2>5. x = y
    BY <1>5, <2>4 DEF Linked
  <2>6. QED BY <1>5, <2>4, <2>5
<1>6. ASSUME NEW x \in DOMAIN e PROVE SavedIn(e, Q, x)
  <2>1. x \in DOMAIN d /\ x \notin C /\ Keeps(d, e, x)
    BY <1>2
  <2>2. SUFFICES ASSUME d[x].level # 0
                 PROVE  /\ d[x].saved \in DOMAIN e \ Q
                        /\ e[d[x].saved].level = d[x].level - 1
    BY <2>1 DEF SavedIn, Keeps
  <2>3. d[x].saved \in DOMAIN d \ R /\ d[x].saved \in DOMAIN e
    BY <1>2, <1>5, <2>1, <2>2
  <2>4. d[d[x].saved].level = d[x].level - 1
    BY <2>1, <2>2 DEF Linked
  <2>5. Keeps(d, e, d[x].saved)
    BY <2>3
  <2>6. QED BY <2>3, <2>4, <2>5 DEF Keeps
<1>7. ASSUME NEW x \in DOMAIN e \ Q PROVE SavedBy(e, x)
  <2>1. x \in DOMAIN d \ R /\ x \notin C
    BY <1>0, <1>2
  <2>2. PICK y \in DOMAIN d : d[y].level # 0 /\ d[y].saved = x
    BY <2>1 DEF Linked
  <2>3. y \notin C
    BY <1>1, <2>1, <2>2
  <2>4. y \in DOMAIN e /\ Keeps(d, e, y)
    BY <1>2, <2>3
  <2>5. QED BY <2>2, <2>4 DEF Keeps, SavedBy
<1>8. SavedOnce(e)
  BY <1>2 DEF Linked, Keeps, SavedOnce
<1>9. QED BY <1>4, <1>6, <1>7, <1>8, LinkedParts


\* A DC in a state it had saved, and the later ones gone.
LEMMA LinkedRestore ==
  ASSUME NEW d, NEW R, Linked(d, R), NEW n \in R, NEW at, Follows(d, n, at),
         NEW depth \in 1 .. d[n].level, NEW e,
         DOMAIN e = DOMAIN d \ {at[i] : i \in 1 .. depth},
         \A x \in DOMAIN e \ {n} : Keeps(d, e, x),
         e[n].level = d[at[depth]].level, e[n].saved = d[at[depth]].saved
  PROVE  /\ Linked(e, R) /\ n \in DOMAIN e /\ at[depth] \in DOMAIN d \ {n}
         /\ \A i \in 1 .. depth : at[i] \in DOMAIN d \ R
<1> DEFINE C == { at[i] : i \in 1 .. depth }
           z == at[depth]
<1>0. /\ n \in DOMAIN d /\ Last \in Nat /\ at[0] = n /\ Level(d, n, at) /\ d[n].level \in Nat
      /\ d[n].level < Last
  <2>1. n \in DOMAIN d /\ Last \in Nat /\ at[0] = n
    BY LastNat DEF Linked, Follows
  <2>2. Level(d, n, at)
    BY <2>1, ChainLevels
  <2>3. QED BY <2>1, <2>2 DEF Level
<1>1. ASSUME NEW i \in 1 .. depth
      PROVE  /\ i \in 0 .. Last /\ i # 0 /\ at[i] \in DOMAIN d
             /\ d[at[i]].level = d[n].level - i
             /\ i - 1 \in 0 .. Last - 1 /\ at[i - 1] \in DOMAIN d
             /\ d[at[i - 1]].level # 0 /\ at[i] = d[at[i - 1]].saved /\ at[i] \notin R
  <2>1. i \in 0 .. Last /\ i \in 0 .. d[n].level /\ i # 0
    BY <1>0
  <2>2. at[i] \in DOMAIN d
    BY <1>0, <2>1 DEF Level
  <2>3. QED BY <1>0, <2>1, <2>2, OnChain
<1>2. ASSUME NEW x \in C
      PROVE  /\ x \in DOMAIN d \ R /\ d[x].level >= d[z].level
             /\ \E y \in C \cup {n} : y \in DOMAIN d /\ d[y].level # 0 /\ d[y].saved = x
             /\ x # z => d[x].saved \in C
  <2>1. PICK i \in 1 .. depth : x = at[i]
    OBVIOUS
  <2>2. x \in DOMAIN d \ R
    BY <1>1, <2>1
  <2>3. depth \in 1 .. depth /\ i <= depth
    BY <1>0
  <2>4. d[x].level >= d[z].level
    <3>1. d[x].level = d[n].level - i /\ d[z].level = d[n].level - depth
      BY <1>1, <2>1, <2>3
    <3>2. QED BY <1>0, <2>3, <3>1
  <2>5. \E y \in C \cup {n} : y \in DOMAIN d /\ d[y].level # 0 /\ d[y].saved = x
    <3>1. at[i - 1] \in DOMAIN d /\ d[at[i - 1]].level # 0 /\ d[at[i - 1]].saved = x
      BY <1>1, <2>1
    <3>2. i = 1 \/ i - 1 \in 1 .. depth
      OBVIOUS
    <3>3. at[i - 1] \in C \cup {n}
      BY <1>0, <3>2
    <3>4. QED BY <3>1, <3>3
  <2>6. ASSUME x # z PROVE d[x].saved \in C
    <3>1. i # depth
      BY <2>1, <2>6
    <3>2. i + 1 \in 1 .. depth /\ (i + 1) - 1 = i
      BY <2>3, <3>1
    <3>3. at[i + 1] = d[at[i]].saved
      BY <1>1, <3>2
    <3>4. QED BY <2>1, <3>2, <3>3
  <2>7. QED BY <2>2, <2>4, <2>5, <2>6
<1>3. z \in C /\ n \notin C
  BY <1>0, <1>2
<1>4. DOMAIN e = DOMAIN d \ C /\ e[n].level = d[z].level /\ e[n].saved = d[z].saved
  OBVIOUS
<1> HIDE DEF C, z
<1>5. R \subseteq DOMAIN e /\ n \in DOMAIN e /\ z \in DOMAIN d \ R
  BY <1>2, <1>3, <1>4 DEF Linked
<1>6. DOMAIN e \subseteq Places("DC") /\ Level0(e)
  <2>1. DOMAIN e \subseteq Places("DC")
    BY <1>4 DEF Linked
  <2>2. ASSUME NEW x \in DOMAIN e
        PROVE  e[x].level \in Nat /\ (e[x].level = 0 => e[x].saved = Null)
    <3>1. CASE x = n
      BY <1>4, <1>5, <3>1 DEF Linked
    <3>2. CASE x # n
      <4>1. x \in DOMAIN d /\ Keeps(d, e, x)
        BY <1>4, <3>2
      <4>2. QED BY <4>1 DEF Linked, Keeps
    <3>3. QED BY <3>1, <3>2
  <2>3. QED BY <2>1, <2>2 DEF Level0
\* What x saves stays, unless x is n or the last state copied back.
<1>7. ASSUME NEW x \in DOMAIN d, x \notin C \/ x = z, x # n, d[x].level # 0
      PROVE  /\ d[x].saved \in DOMAIN e \ R
             /\ e[d[x].saved].level = d[x].level - 1
  <2>1. d[x].saved \in DOMAIN d \ R /\ d[d[x].saved].level = d[x].level - 1
    BY <1>7 DEF Linked
  <2>2. d[x].saved \notin C
    <3>1. SUFFICES ASSUME d[x].saved \in C PROVE FALSE
      OBVIOUS
    <3>2. PICK y \in C \cup {n} : y \in DOMAIN d /\ d[y].level # 0 /\ d[y].saved = d[x].saved
      BY <1>2, <3>1
    <3>3. x = y
      BY <1>7, <3>2 DEF Linked
    <3>4. x = z
      BY <1>7, <3>2, <3>3
    <3>5. d[d[x].saved].level >= d[z].level
      BY <1>2, <3>1
    <3>6. d[z].level \in Nat
      BY <1>5 DEF Linked
    <3>7. QED BY <2>1, <3>4, <3>5, <3>6
  <2>3. d[x].saved # n
    BY <2>1
  <2>4. Keeps(d, e, d[x].saved)
    BY <1>4, <2>1, <2>2, <2>3
  <2>5. QED BY <1>4, <2>1, <2>2, <2>4 DEF Keeps
<1>8. ASSUME NEW x \in DOMAIN e PROVE SavedIn(e, R, x)
  <2>1. CASE x = n
    <3>1. z # n /\ z \in DOMAIN d
      BY <1>3, <1>5
    <3>2. QED BY <1>4, <1>7, <2>1, <3>1 DEF SavedIn
  <2>2. CASE x # n
    <3>1. x \in DOMAIN d /\ x \notin C /\ Keeps(d, e, x)
      BY <1>4, <2>2
    <3>2. QED BY <1>7, <2>2, <3>1 DEF SavedIn, Keeps
  <2>3. QED BY <2>1, <2>2
<1>9. ASSUME NEW x \in DOMAIN e \ R PROVE SavedBy(e, x)
  <2>1. x \in DOMAIN d \ R /\ x \notin C
    BY <1>4
  <2>2. PICK y \in DOMAIN d : d[y].level # 0 /\ d[y].saved = x
    BY <2>1 DEF Linked
  <2>3. CASE y = n
    <3>1. x \in C
      <4>1. 1 \in 1 .. depth /\ 1 - 1 = 0
        BY <1>0
      <4>2. at[1] = d[n].saved
        BY <1>0, <1>1, <4>1
      <4>3. QED BY <2>2, <2>3, <4>1, <4>2 DEF C
    <3>2. QED BY <2>1, <3>1
  <2>4. CASE y \in C
    <3>1. y = z
      BY <1>2, <2>1, <2>2, <2>4
    <3>2. e[n].level # 0 /\ e[n].saved = x
      BY <1>4, <2>2, <3>1
    <3>3. QED BY <1>5, <3>2 DEF SavedBy
  <2>5. CASE y \notin C /\ y # n
    <3>1. y \in DOMAIN e /\ Keeps(d, e, y)
      BY <1>4, <2>5
    <3>2. QED BY <2>2, <3>1 DEF SavedBy, Keeps
  <2>6. QED BY <2>3, <2>4, <2>5
<1>10. SavedOnce(e)
  <2>1. ASSUME NEW x \in DOMAIN e, x # n
        PROVE  x \in DOMAIN d /\ x # z /\ e[x].level = d[x].level /\ e[x].saved = d[x].saved
    BY <1>3, <1>4, <2>1 DEF Keeps
  <2>2. ASSUME NEW x \in DOMAIN e, x # n, e[x].level # 0, e[n].level # 0, e[x].saved = e[n].saved
        PROVE  FALSE
    <3>1. d[x].level # 0 /\ d[z].level # 0 /\ d[x].saved = d[z].saved /\ x \in DOMAIN d
          /\ z \in DOMAIN d /\ x # z
      BY <1>4, <1>5, <2>1, <2>2
    <3>2. QED BY <3>1 DEF Linked
  <2>3. ASSUME NEW x \in DOMAIN e, NEW y \in DOMAIN e, x # n, y # n, e[x].level # 0,
               e[y].level # 0, e[x].saved = e[y].saved
        PROVE  x = y
    <3>1. d[x].level # 0 /\ d[y].level # 0 /\ d[x].saved = d[y].saved /\ x \in DOMAIN d
          /\ y \in DOMAIN d
      BY <2>1, <2>3
    <3>2. QED BY <3>1 DEF Linked
  <2>4. QED BY <2>2, <2>3 DEF SavedOnce
<1>11. Linked(e, R)
  BY <1>5, <1>6, <1>8, <1>9, <1>10, LinkedParts
<1>12. at[depth] \in DOMAIN d \ {n}
  BY <1>5 DEF z
<1>13. QED BY <1>1, <1>5, <1>11, <1>12


---------------------------------------------------------------------------
(* The invariant of the table and the objects.                             *)

UsedIn(k) == {i \in Slots : k.entry[i].used}
Roots(k) == {k.entry[i].object : i \in {j \in UsedIn(k) : k.entry[j].kind = "DC"}}

\* Every entry in use leads to an object that has its handle.
Leads(k, i) ==
  LET e == k.entry[i]
  IN /\ e.kind \in Kinds /\ e.object \in DOMAIN k.object[e.kind]
     /\ k.object[e.kind][e.object].handle = Handle(i, e.kind, e.reuse)

\* Every bitmap and every brush has an entry.
HasEntry(k, kind, n) == \E i \in UsedIn(k) : k.entry[i].kind = kind /\ k.entry[i].object = n
AllHaveEntries(k) ==
  /\ \A n \in DOMAIN k.object["BITMAP"] : HasEntry(k, "BITMAP", n)
  /\ \A n \in DOMAIN k.object["BRUSH"] : HasEntry(k, "BRUSH", n)

\* The guest's copy of an entry.
Mirrored(k, i) ==
  k.shared[i] = IF i \in UsedIn(k)
                THEN [kind |-> k.entry[i].kind, upper |-> k.entry[i].reuse % ReuseSpan]
                ELSE NotShared

Good(k) ==
  /\ Shape(k)
  /\ \A i \in UsedIn(k) : Leads(k, i)
  /\ AllHaveEntries(k)
  /\ \A i \in Slots : Mirrored(k, i)
  /\ k.count = 1 + Cardinality(UsedIn(k))
  /\ Linked(k.object["DC"], Roots(k))

\* A handle the guest was given leads to a later object of its entry, if not
\* to the one it was given for.
SeenOK(k, h) ==
  /\ h \in [index : Slots, kind : Kinds, reuse : 0 .. ReuseSpan - 1]
  /\ h.reuse <= k.entry[h.index].reuse
  /\ h.reuse = k.entry[h.index].reuse => h.kind = k.entry[h.index].kind

\* The reuse counts of the entries have not come round.
NoWrap == MaxReuse < ReuseSpan

LEMMA KindsAre == "DC" \in Kinds /\ "BITMAP" \in Kinds /\ "BRUSH" \in Kinds
  BY DEF Kinds

LEMMA SlotsFinite == IsFiniteSet(Slots) /\ Slots \subseteq Nat
<1>1. MaxHandles \in Nat
  BY GdiObjectsAssumption
<1>2. QED BY <1>1, FS_Interval DEF Slots

LEMMA UsedFinite ==
  ASSUME NEW k
  PROVE  IsFiniteSet(UsedIn(k)) /\ Cardinality(UsedIn(k)) \in Nat
<1>1. UsedIn(k) \in SUBSET Slots
  BY DEF UsedIn
<1>2. IsFiniteSet(UsedIn(k))
  BY <1>1, SlotsFinite, FS_Subset
<1>3. QED BY <1>2, FS_CardinalityType

\* Two entries lead to two objects.
LEMMA EntriesApart ==
  ASSUME NEW k, Good(k), NEW i \in UsedIn(k), NEW j \in UsedIn(k),
         k.entry[i].kind = k.entry[j].kind, k.entry[i].object = k.entry[j].object
  PROVE  i = j
<1>1. Handle(i, k.entry[i].kind, k.entry[i].reuse) = Handle(j, k.entry[j].kind, k.entry[j].reuse)
  BY DEF Good, Leads
<1>2. QED BY <1>1 DEF Handle

\* What GetObject finds.
LEMMA GetObjectFacts ==
  ASSUME NEW k, Good(k), NEW h, h.index \in Slots, NEW kind \in Kinds,
         GetObject(k, h, kind) # Null
  PROVE  LET i == h.index
             n == GetObject(k, h, kind)
         IN  /\ i \in UsedIn(k) /\ k.entry[i].kind = kind /\ k.entry[i].object = n
             /\ k.entry[i].reuse % ReuseSpan = h.reuse
             /\ n \in DOMAIN k.object[kind] /\ n \in Places(kind)
             /\ k.object[kind][n].handle = Handle(i, kind, k.entry[i].reuse)
             /\ k.object[kind][n] \in TypeOf(kind)
<1> DEFINE i == h.index
           n == GetObject(k, h, kind)
<1>1. /\ k.entry[i].used /\ k.entry[i].kind = kind /\ k.entry[i].reuse % ReuseSpan = h.reuse
      /\ n = k.entry[i].object
  BY DEF GetObject
<1>2. i \in UsedIn(k)
  BY <1>1 DEF UsedIn
<1>3. n \in DOMAIN k.object[kind] /\ k.object[kind][n].handle = Handle(i, kind, k.entry[i].reuse)
  BY <1>1, <1>2 DEF Good, Leads
<1>4. n \in Places(kind) /\ k.object[kind][n] \in TypeOf(kind)
  BY <1>3 DEF Good, Shape
<1>5. QED BY <1>1, <1>2, <1>3, <1>4

LEMMA RootFacts ==
  ASSUME NEW k, Good(k), NEW n \in Roots(k)
  PROVE  /\ n \in DOMAIN k.object["DC"] /\ n \in Places("DC") /\ n # Null
         /\ \E i \in UsedIn(k) : k.entry[i].kind = "DC" /\ k.entry[i].object = n
         /\ k.object["DC"][n] \in DcT
<1>1. PICK i \in UsedIn(k) : k.entry[i].kind = "DC" /\ k.entry[i].object = n
  BY DEF Roots
<1>2. n \in DOMAIN k.object["DC"]
  BY <1>1 DEF Good, Leads
<1>3. n \in Places("DC") /\ k.object["DC"][n] \in DcT
  BY <1>2, KindsAre DEF Good, Shape, TypeOf
<1>4. QED BY <1>1, <1>2, <1>3, NullPlace

\* The objects change, the table does not.
LEMMA ObjectsGood ==
  ASSUME NEW k, Good(k), NEW r, Shape(r), SameTable(k, r),
         \A i \in UsedIn(k) : Leads(r, i),
         \A n \in DOMAIN r.object["BITMAP"] : n \in DOMAIN k.object["BITMAP"],
         \A n \in DOMAIN r.object["BRUSH"] : n \in DOMAIN k.object["BRUSH"],
         Linked(r.object["DC"], Roots(k))
  PROVE  Good(r) /\ Roots(r) = Roots(k) /\ UsedIn(r) = UsedIn(k)
<1>1. r.entry = k.entry /\ r.shared = k.shared /\ r.count = k.count
  BY DEF SameTable
<1>2. UsedIn(r) = UsedIn(k) /\ Roots(r) = Roots(k)
  BY <1>1 DEF UsedIn, Roots
<1>3. \A kind, n : HasEntry(r, kind, n) <=> HasEntry(k, kind, n)
  BY <1>1, <1>2 DEF HasEntry
<1>4. AllHaveEntries(r)
  BY <1>3 DEF AllHaveEntries, Good
<1>5. ASSUME NEW i \in Slots PROVE Mirrored(r, i)
  <2>1. Mirrored(k, i)
    BY DEF Good
  <2>2. QED BY <1>1, <1>2, <2>1 DEF Mirrored
<1>6. r.count = 1 + Cardinality(UsedIn(r))
  BY <1>1, <1>2 DEF Good
<1>7. QED BY <1>2, <1>4, <1>5, <1>6 DEF Good

\* An object that keeps its handle.
LEMMA LeadsSame ==
  ASSUME NEW k, NEW r, SameTable(k, r), NEW i \in UsedIn(k), Leads(k, i),
         LET e == k.entry[i]
         IN  /\ e.object \in DOMAIN r.object[e.kind]
             /\ r.object[e.kind][e.object].handle = k.object[e.kind][e.object].handle
  PROVE  Leads(r, i)
  BY DEF Leads, SameTable


---------------------------------------------------------------------------
(* What a step does to the states a DC has saved.                          *)

Stacked(k, r, n) ==
  LET was == Kept(k, n)
      is == Kept(r, n)
  IN \/ is = was
     \/ is = Append(was, Look(k, n)) /\ Look(r, n) = Look(k, n)
     \/ \E j \in DOMAIN was : is = SubSeq(was, 1, j - 1) /\ Look(r, n) = was[j]

\* The chain of n is as it was.
ChainKept(k, r, n) ==
  LET d == k.object["DC"]
      e == r.object["DC"]
      at == Chain(k, n)
  IN /\ n \in DOMAIN e /\ Keeps(d, e, n)
     /\ \A i \in 0 .. Last : i # 0 /\ at[i] \in DOMAIN d =>
                             at[i] \in DOMAIN e /\ e[at[i]] = d[at[i]]
     /\ Null \notin DOMAIN e

LEMMA KeptSame ==
  ASSUME NEW k, NEW r, NEW R, Linked(k.object["DC"], R), NEW n \in R, ChainKept(k, r, n)
  PROVE  Kept(r, n) = Kept(k, n)
<1> DEFINE d == k.object["DC"]
           e == r.object["DC"]
           at == Chain(k, n)
           b == Chain(r, n)
           v == d[n].level
<1>1. Follows(d, n, at) /\ Follows(e, n, b)
  BY ChainFollows
<1>2. n \in DOMAIN d /\ Linked(d, R)
  BY DEF Linked
<1>3. /\ n \in DOMAIN e /\ Keeps(d, e, n) /\ Null \notin DOMAIN e
      /\ \A i \in 0 .. Last : i # 0 /\ at[i] \in DOMAIN d =>
                              at[i] \in DOMAIN e /\ e[at[i]] = d[at[i]]
  BY DEF ChainKept
<1>4. /\ Kept(k, n) = [j \in 1 .. v |-> Look(k, at[v + 1 - j])]
      /\ Kept(r, n) = [j \in 1 .. e[n].level |-> Look(r, b[e[n].level + 1 - j])]
  BY DEF Kept, Dc
<1>5. \A x : x \in DOMAIN d /\ e[x] = d[x] => Look(r, x) = Look(k, x)
  BY DEF Look, Dc
<1>6. e[n].level = v
  BY <1>3 DEF Keeps
<1> HIDE DEF d, e, at, b
<1>7. Level(d, n, at) /\ at[0] = n
  BY <1>1, <1>2, ChainLevels DEF Follows
<1>8. ASSUME NEW i \in 0 .. Last PROVE Step(e, at[i]) = Step(d, at[i])
  <2>1. CASE i = 0
    BY <1>2, <1>3, <1>7, <2>1 DEF Step, Keeps
  <2>2. CASE i # 0 /\ i <= v
    <3>1. at[i] \in DOMAIN d
      BY <1>7, <2>2 DEF Level
    <3>2. at[i] \in DOMAIN e /\ e[at[i]] = d[at[i]]
      BY <1>3, <2>2, <3>1
    <3>3. QED BY <3>1, <3>2 DEF Step
  <2>3. CASE i > v
    <3>1. at[i] = Null
      BY <1>7, <2>3 DEF Level
    <3>2. Null \notin DOMAIN d
      BY <1>2, NullPlace DEF Linked
    <3>3. QED BY <1>3, <3>1, <3>2 DEF Step
  <2>4. v \in Nat
    BY <1>7 DEF Level
  <2>5. QED BY <2>1, <2>2, <2>3, <2>4, LastNat
<1>9. b = at
  BY <1>1, <1>8, ChainSame
<1>10. ASSUME NEW j \in 1 .. v PROVE Look(r, at[v + 1 - j]) = Look(k, at[v + 1 - j])
  <2>1. v \in Nat /\ v < Last
    BY <1>7 DEF Level
  <2> DEFINE i == v + 1 - j
  <2>2. i \in 0 .. v /\ i \in 0 .. Last /\ i # 0
    BY <2>1, LastNat
  <2> HIDE DEF i
  <2>3. at[i] \in DOMAIN d
    BY <1>7, <2>2 DEF Level
  <2>4. e[at[i]] = d[at[i]]
    BY <1>3, <2>2, <2>3
  <2>5. Look(r, at[i]) = Look(k, at[i])
    BY <1>5, <2>3, <2>4
  <2>6. QED BY <2>5 DEF i
<1>11. [j \in 1 .. v |-> Look(r, at[v + 1 - j])] = [j \in 1 .. v |-> Look(k, at[v + 1 - j])]
  BY <1>10
<1>12. QED BY <1>4, <1>6, <1>9, <1>11

\* The objects but for the root m and what is on its chain stay: so does the
\* chain of another root.
LEMMA OthersKept ==
  ASSUME NEW k, NEW r, NEW R, Linked(k.object["DC"], R), NEW n \in R, NEW m \in R, n # m,
         Null \notin DOMAIN r.object["DC"],
         \A x \in DOMAIN k.object["DC"] :
           (\A j \in 0 .. Last : x # Chain(k, m)[j]) =>
             x \in DOMAIN r.object["DC"] /\ r.object["DC"][x] = k.object["DC"][x]
  PROVE  Stacked(k, r, n)
<1> DEFINE d == k.object["DC"]
           e == r.object["DC"]
           at == Chain(k, n)
           b == Chain(k, m)
<1>1. Follows(d, n, at) /\ Follows(d, m, b)
  BY ChainFollows
<1>2. n \in DOMAIN d /\ Linked(d, R) /\ at[0] = n /\ 0 \in 0 .. Last
  BY <1>1, LastNat DEF Linked, Follows
<1>3. ASSUME NEW i \in 0 .. Last, at[i] \in DOMAIN d
      PROVE  at[i] \in DOMAIN e /\ e[at[i]] = d[at[i]]
  <2>1. \A j \in 0 .. Last : at[i] # b[j]
    <3> HIDE DEF d, at, b
    <3> QED BY <1>1, <1>2, <1>3, OneChain
  <2>2. QED BY <1>3, <2>1
<1>4. n \in DOMAIN e /\ e[n] = d[n]
  BY <1>2, <1>3
<1>5. Keeps(d, e, n)
  BY <1>4 DEF Keeps
<1>6. ChainKept(k, r, n)
  BY <1>3, <1>4, <1>5 DEF ChainKept
<1>7. Kept(r, n) = Kept(k, n)
  BY <1>6, KeptSame
<1>8. QED BY <1>7 DEF Stacked


\* SaveDC puts the state on top.
LEMMA SaveStacked ==
  ASSUME NEW k, NEW r, NEW R, Linked(k.object["DC"], R), Linked(r.object["DC"], R),
         NEW n \in R, NEW s \in Places("DC") \ DOMAIN k.object["DC"],
         DOMAIN r.object["DC"] = DOMAIN k.object["DC"] \cup {s},
         \A x \in DOMAIN k.object["DC"] \ {n} : r.object["DC"][x] = k.object["DC"][x],
         r.object["DC"][s] = k.object["DC"][n],
         r.object["DC"][n].saved = s,
         r.object["DC"][n].level = k.object["DC"][n].level + 1,
         Look(r, n) = Look(k, n)
  PROVE  Stacked(k, r, n)
<1> DEFINE d == k.object["DC"]
           e == r.object["DC"]
           a == Chain(k, n)
           b == Chain(r, n)
           v == d[n].level
<1>1. Follows(d, n, a) /\ Follows(e, n, b)
  BY ChainFollows
<1>2. n \in DOMAIN d /\ Linked(d, R) /\ Linked(e, R) /\ n \in DOMAIN e /\ s \in DOMAIN e
  BY DEF Linked
<1>3. /\ Kept(k, n) = [j \in 1 .. v |-> Look(k, a[v + 1 - j])]
      /\ Kept(r, n) = [j \in 1 .. e[n].level |-> Look(r, b[e[n].level + 1 - j])]
  BY DEF Kept, Dc
<1>4. /\ \A x \in DOMAIN d \ {n} : x \in DOMAIN e /\ e[x] = d[x] /\ Look(r, x) = Look(k, x)
      /\ Look(r, s) = Look(k, n)
  BY DEF Look, Dc
<1>5. e[n].level = v + 1 /\ e[n].saved = s /\ e[s] = d[n]
  OBVIOUS
<1>6. DOMAIN e = DOMAIN d \cup {s}
  OBVIOUS
<1> HIDE DEF d, e, a, b
<1>7. Level(d, n, a) /\ Level(e, n, b) /\ b[0] = n /\ a[0] = n
  BY <1>1, <1>2, ChainLevels DEF Follows
<1>8. v \in Nat /\ v + 1 < Last /\ Last \in Nat
  BY <1>5, <1>7, LastNat DEF Level
<1>9. b[1] = s
  <2>1. 0 \in 0 .. Last - 1 /\ 0 + 1 = 1
    BY <1>8
  <2>2. b[1] = Step(e, n)
    BY <1>1, <1>7, <2>1 DEF Follows
  <2>3. QED BY <1>2, <1>5, <2>2 DEF Step
<1>10. b[2] = a[1]
  <2>1. 0 \in 0 .. Last - 1 /\ 0 + 1 = 1 /\ 1 \in 0 .. Last - 1 /\ 1 + 1 = 2
    BY <1>8
  <2>2. b[2] = Step(e, s) /\ a[1] = Step(d, n)
    BY <1>1, <1>7, <1>9, <2>1 DEF Follows
  <2>3. QED BY <1>2, <1>5, <2>2 DEF Step
<1>11. ASSUME NEW i \in 0 .. Last, i # 0, a[i] \in DOMAIN d PROVE a[i] # n
  BY <1>1, <1>2, <1>11, OnChain
<1>12. ASSUME NEW i \in 1 .. Last - 1 PROVE Step(e, a[i]) = Step(d, a[i])
  <2>1. i \in 0 .. Last /\ i # 0
    BY <1>8
  <2>2. CASE a[i] \in DOMAIN d
    BY <1>4, <1>11, <2>1, <2>2 DEF Step
  <2>3. CASE a[i] \notin DOMAIN d
    <3>1. ~(i <= v)
      BY <1>7, <1>8, <2>1, <2>3 DEF Level
    <3>2. a[i] = Null
      BY <1>7, <1>8, <2>1, <3>1 DEF Level
    <3>3. Null \notin DOMAIN d /\ Null \notin DOMAIN e
      BY <1>2, NullPlace DEF Linked
    <3>4. QED BY <3>2, <3>3 DEF Step
  <2>4. QED BY <2>2, <2>3
<1>13. \A i \in Nat : 2 + i <= Last /\ 1 + i <= Last => b[2 + i] = a[1 + i]
  <2>1. 2 \in 0 .. Last /\ 1 \in 0 .. Last
    BY <1>8
  <2>2. QED BY <1>1, <1>10, <1>12, <2>1, Shifted
<1>14. ASSUME NEW j \in 1 .. v
       PROVE  Look(r, b[(v + 1) + 1 - j]) = Look(k, a[v + 1 - j])
  <2> DEFINE i == v - j
  <2>1. /\ i \in Nat /\ (v + 1) + 1 - j = 2 + i /\ v + 1 - j = 1 + i /\ 2 + i <= Last
        /\ 1 + i <= Last /\ 1 + i \in 0 .. v /\ 1 + i # 0 /\ 1 + i \in 0 .. Last
    BY <1>8
  <2>2. b[2 + i] = a[1 + i]
    BY <1>13, <2>1
  <2>3. a[1 + i] \in DOMAIN d
    BY <1>7, <2>1 DEF Level
  <2>4. a[1 + i] # n
    BY <1>11, <2>1, <2>3
  <2>5. QED BY <1>4, <2>1, <2>2, <2>3, <2>4
<1>15. Look(r, b[(v + 1) + 1 - (v + 1)]) = Look(k, n)
  <2>1. (v + 1) + 1 - (v + 1) = 1
    BY <1>8
  <2>2. QED BY <1>4, <1>9, <2>1
<1> DEFINE was == Kept(k, n)
           is == Kept(r, n)
           x == Look(k, n)
<1>16. is = Append(was, x)
  <2>1. was = [j \in 1 .. v |-> Look(k, a[v + 1 - j])]
    BY <1>3
  <2>2. is = [j \in 1 .. v + 1 |-> Look(r, b[(v + 1) + 1 - j])]
    BY <1>3, <1>5
  <2> HIDE DEF was, is, x
  <2>3. was = [j \in 1 .. v |-> was[j]]
    BY <2>1
  <2>4. \A j \in 1 .. v : is[j] = was[j]
    <3>1. TAKE j \in 1 .. v
    <3>2. j \in 1 .. v + 1
      BY <1>8
    <3>3. is[j] = Look(r, b[(v + 1) + 1 - j])
      BY <2>2, <3>2
    <3>4. was[j] = Look(k, a[v + 1 - j])
      BY <2>1
    <3>5. QED BY <1>14, <3>3, <3>4
  <2>5. is[v + 1] = x
    <3>1. v + 1 \in 1 .. v + 1
      BY <1>8
    <3>2. is[v + 1] = Look(r, b[(v + 1) + 1 - (v + 1)])
      BY <2>2, <3>1
    <3>3. QED BY <1>15, <3>2 DEF x
  <2>6. is = [j \in 1 .. v + 1 |-> is[j]]
    BY <2>2
  <2>7. Append(was, x) = [j \in 1 .. v + 1 |-> IF j \in 1 .. v THEN was[j] ELSE x]
    BY <1>8, <2>3, AppendIs
  <2>8. \A j \in 1 .. v + 1 : is[j] = IF j \in 1 .. v THEN was[j] ELSE x
    <3>1. TAKE j \in 1 .. v + 1
    <3>2. j \in 1 .. v \/ j = v + 1
      BY <1>8
    <3>3. v + 1 \notin 1 .. v
      BY <1>8
    <3>4. QED BY <2>4, <2>5, <3>2, <3>3
  <2>9. is = [j \in 1 .. v + 1 |-> IF j \in 1 .. v THEN was[j] ELSE x]
    BY <2>6, <2>8
  <2>10. QED BY <2>7, <2>9
<1>17. QED BY <1>16 DEF Stacked


\* RestoreDC cuts the states at the one it goes back to.
LEMMA RestoreStacked ==
  ASSUME NEW k, NEW r, NEW R, Linked(k.object["DC"], R), Linked(r.object["DC"], R),
         NEW n \in R, NEW depth \in 1 .. k.object["DC"][n].level,
         NEW z, z = Chain(k, n)[depth],
         DOMAIN r.object["DC"] = DOMAIN k.object["DC"] \ {Chain(k, n)[i] : i \in 1 .. depth},
         \A x \in DOMAIN r.object["DC"] \ {n} : r.object["DC"][x] = k.object["DC"][x],
         r.object["DC"][n].level = k.object["DC"][z].level,
         r.object["DC"][n].saved = k.object["DC"][z].saved,
         Look(r, n) = Look(k, z)
  PROVE  Stacked(k, r, n)
<1> DEFINE d == k.object["DC"]
           e == r.object["DC"]
           a == Chain(k, n)
           b == Chain(r, n)
           v == d[n].level
           w == e[n].level
           was == Kept(k, n)
           is == Kept(r, n)
<1>1. Follows(d, n, a) /\ Follows(e, n, b)
  BY ChainFollows
<1>2. n \in DOMAIN d /\ Linked(d, R) /\ Linked(e, R) /\ n \in DOMAIN e
  BY DEF Linked
<1>3. /\ was = [j \in 1 .. v |-> Look(k, a[v + 1 - j])]
      /\ is = [j \in 1 .. w |-> Look(r, b[w + 1 - j])]
  BY DEF Kept, Dc
<1>4. \A x \in DOMAIN e \ {n} : x \in DOMAIN d /\ e[x] = d[x] /\ Look(r, x) = Look(k, x)
  BY DEF Look, Dc
<1>5. w = d[z].level /\ e[n].saved = d[z].saved /\ z = a[depth] /\ depth \in 1 .. v
  OBVIOUS
<1>6. DOMAIN e = DOMAIN d \ {a[i] : i \in 1 .. depth}
  OBVIOUS
<1> HIDE DEF d, e, a, b, was, is
<1>7. Level(d, n, a) /\ Level(e, n, b) /\ b[0] = n /\ a[0] = n
  BY <1>1, <1>2, ChainLevels DEF Follows
<1>8. v \in Nat /\ v < Last /\ Last \in Nat /\ w \in Nat /\ w < Last
  BY <1>7, LastNat DEF Level
<1>9. z \in DOMAIN d /\ w = v - depth
  <2>1. depth \in 0 .. v
    BY <1>5, <1>8
  <2>2. QED BY <1>5, <1>7, <2>1 DEF Level
<1>10. w + 1 \in 1 .. v /\ (w + 1) - 1 = w /\ v + 1 - (w + 1) = depth /\ w \in 0 .. v
       /\ depth + 1 \in 1 .. Last /\ depth \in 0 .. Last - 1
  BY <1>5, <1>8, <1>9
<1>11. was[w + 1] = Look(k, z)
  BY <1>3, <1>5, <1>10
<1>12. w + 1 \in DOMAIN was
  BY <1>3, <1>10
\* The states kept are not among those copied back.
<1>13. ASSUME NEW i \in depth + 1 .. Last, a[i] \in DOMAIN d
       PROVE  a[i] \in DOMAIN e \ {n}
  <2>1. i \in 0 .. Last /\ i # 0
    BY <1>5, <1>8
  <2>2. a[i] \notin R /\ d[a[i]].level = v - i /\ i <= v
    BY <1>1, <1>2, <1>13, <2>1, OnChain
  <2>3. ASSUME NEW j \in 1 .. depth, a[i] = a[j] PROVE FALSE
    <3>1. j \in 0 .. v
      BY <1>5, <1>8
    <3>2. d[a[j]].level = v - j
      BY <1>7, <3>1 DEF Level
    <3>3. v - i = v - j
      BY <2>2, <2>3, <3>2
    <3>4. i \in Int /\ j \in Int /\ i > depth /\ j <= depth /\ depth \in Int
      BY <1>5, <1>8
    <3>5. QED BY <1>8, <3>3, <3>4
  <2>4. a[i] # n
    BY <2>2
  <2>5. QED BY <1>6, <1>13, <2>3, <2>4
<1>14. ASSUME NEW i \in depth + 1 .. Last - 1 PROVE Step(e, a[i]) = Step(d, a[i])
  <2>1. i \in 0 .. Last /\ i \in depth + 1 .. Last
    BY <1>5, <1>8
  <2>2. CASE a[i] \in DOMAIN d
    BY <1>4, <1>13, <2>1, <2>2 DEF Step
  <2>3. CASE a[i] \notin DOMAIN d
    BY <1>6, <2>3 DEF Step
  <2>4. QED BY <2>2, <2>3
<1>15. b[1] = a[depth + 1]
  <2>1. 0 \in 0 .. Last - 1 /\ 0 + 1 = 1
    BY <1>8
  <2>2. b[1] = Step(e, n) /\ a[depth + 1] = Step(d, z)
    BY <1>1, <1>5, <1>7, <1>10, <2>1 DEF Follows
  <2>3. QED BY <1>2, <1>5, <1>9, <2>2 DEF Step
<1>16. \A i \in Nat : 1 + i <= Last /\ (depth + 1) + i <= Last => b[1 + i] = a[(depth + 1) + i]
  <2>1. 1 \in 0 .. Last /\ depth + 1 \in 0 .. Last
    BY <1>8, <1>10
  <2>2. QED BY <1>1, <1>14, <1>15, <2>1, Shifted
<1>17. ASSUME NEW j \in 1 .. w PROVE is[j] = was[j]
  <2> DEFINE i == w - j
  <2>1. /\ i \in Nat /\ w + 1 - j = 1 + i /\ v + 1 - j = (depth + 1) + i /\ 1 + i <= Last
        /\ (depth + 1) + i <= Last /\ (depth + 1) + i \in depth + 1 .. Last
        /\ (depth + 1) + i \in 0 .. v /\ j \in 1 .. v
    <3>1. /\ v \in Nat /\ w \in Nat /\ Last \in Nat /\ depth \in Int /\ depth >= 1 /\ v < Last
          /\ w = v - depth /\ j \in Int /\ j >= 1 /\ j <= w
      BY <1>5, <1>8, <1>9
    <3> HIDE DEF v, w
    <3>2. i \in Nat /\ i = w - j
      BY <3>1
    <3> HIDE DEF i
    <3>3. QED BY <3>1, <3>2
  <2>2. b[1 + i] = a[(depth + 1) + i]
    BY <1>16, <2>1
  <2>3. a[(depth + 1) + i] \in DOMAIN d
    BY <1>7, <2>1 DEF Level
  <2>4. Look(r, b[1 + i]) = Look(k, a[(depth + 1) + i])
    BY <1>4, <1>13, <2>1, <2>2, <2>3
  <2>5. is[j] = Look(r, b[w + 1 - j]) /\ was[j] = Look(k, a[v + 1 - j])
    BY <1>3, <2>1
  <2>6. QED BY <2>1, <2>4, <2>5
<1>18. is = SubSeq(was, 1, (w + 1) - 1)
  <2>1. was = [j \in 1 .. v |-> was[j]] /\ is = [j \in 1 .. w |-> is[j]]
    BY <1>3
  <2>2. SubSeq(was, 1, w) = [j \in 1 .. w |-> was[j]]
    BY <1>8, <1>10, <2>1, AppendIs
  <2>3. QED BY <1>10, <1>17, <2>1, <2>2
<1>19. Look(r, n) = was[w + 1]
  BY <1>11
<1>20. QED BY <1>12, <1>18, <1>19 DEF Stacked, was, is


---------------------------------------------------------------------------
(* Every system call keeps the invariant.                                  *)

\* The kinds and reuse counts of the entries are as they were.
SameCounts(k, r) ==
  \A i \in Slots : r.entry[i].reuse = k.entry[i].reuse /\ r.entry[i].kind = k.entry[i].kind

AllStacked(k, r) == \A n \in Roots(k) \cap Roots(r) : Stacked(k, r, n)

Fine(k, r) == Good(r) /\ SameCounts(k, r) /\ AllStacked(k, r)

LEMMA FineSelf ==
  ASSUME NEW k, Good(k)
  PROVE  Fine(k, k)
  BY DEF Fine, SameCounts, AllStacked, Stacked

\* The DCs are as they were.
LEMMA SameDcs ==
  ASSUME NEW k, Good(k), NEW r, r.object["DC"] = k.object["DC"], NEW n \in Roots(k)
  PROVE  Kept(r, n) = Kept(k, n) /\ Look(r, n) = Look(k, n)
<1>1. n \in DOMAIN k.object["DC"] /\ Linked(k.object["DC"], Roots(k))
  BY DEF Good, Linked
<1>2. Null \notin DOMAIN k.object["DC"]
  BY <1>1, NullPlace DEF Linked
<1>3. ChainKept(k, r, n)
  BY <1>1, <1>2 DEF ChainKept, Keeps
<1>4. Kept(r, n) = Kept(k, n)
  BY <1>1, <1>3, KeptSame
<1>5. QED BY <1>4 DEF Look, Dc

\* A root keeps its handle, level and saved state.
LEMMA SetDcOK ==
  ASSUME NEW k, Good(k), NEW n \in Roots(k), NEW x \in DcT, x.handle = Dc(k, n).handle,
         x.level = Dc(k, n).level, x.saved = Dc(k, n).saved,
         NEW r, r = Put(k, "DC", n, x)
  PROVE  Fine(k, r) /\ SameTable(k, r) /\ Roots(r) = Roots(k)
<1> DEFINE d == k.object["DC"]
           e == r.object["DC"]
<1>1. n \in DOMAIN d /\ n \in Places("DC")
  BY RootFacts
<1>2. Shape(r) /\ SameTable(k, r) /\ SameObjects(k, r, "DC") /\ Placed(k, r, "DC", n, x)
  BY <1>1, PutOK, KindsAre DEF Good, TypeOf
<1>3. /\ DOMAIN e = DOMAIN d /\ e[n] = x /\ \A m \in DOMAIN d \ {n} : e[m] = d[m]
      /\ r.object["BITMAP"] = k.object["BITMAP"] /\ r.object["BRUSH"] = k.object["BRUSH"]
  BY <1>1, <1>2, KindsAre DEF Placed, SameObjects, Kinds
<1>4. \A m \in DOMAIN d : Keeps(d, e, m) /\ e[m].handle = d[m].handle
  BY <1>3 DEF Keeps, Dc
<1>5. Linked(d, Roots(k))
  BY DEF Good
<1>6. Linked(e, Roots(k))
  <2> HIDE DEF d, e
  <2> QED BY <1>3, <1>4, <1>5, LinkedSame
<1>7. ASSUME NEW i \in UsedIn(k) PROVE Leads(r, i)
  <2>1. Leads(k, i) /\ k.entry[i].kind \in Kinds
    BY DEF Good, Leads
  <2>2. k.entry[i].object \in DOMAIN k.object[k.entry[i].kind]
    BY DEF Good, Leads
  <2>3. CASE k.entry[i].kind = "DC"
    BY <1>2, <1>3, <1>4, <2>1, <2>2, <2>3, LeadsSame
  <2>4. CASE k.entry[i].kind # "DC"
    <3>1. r.object[k.entry[i].kind] = k.object[k.entry[i].kind]
      BY <1>2, <2>1, <2>4 DEF SameObjects
    <3>2. QED BY <1>2, <2>1, <2>2, <3>1, LeadsSame
  <2>5. QED BY <2>3, <2>4
<1>8. Good(r) /\ Roots(r) = Roots(k)
  BY <1>2, <1>3, <1>6, <1>7, ObjectsGood
<1>9. SameCounts(k, r)
  BY <1>2 DEF SameTable, SameCounts
<1>10. ASSUME NEW m \in Roots(k) PROVE Stacked(k, r, m)
  <2>1. Null \notin DOMAIN e /\ m \in DOMAIN d
    BY <1>3, <1>5, NullPlace DEF Linked
  <2>2. ASSUME NEW i \in 0 .. Last, i # 0, Chain(k, m)[i] \in DOMAIN d
        PROVE  e[Chain(k, m)[i]] = d[Chain(k, m)[i]]
    <3>1. Chain(k, m)[i] \notin Roots(k)
      BY <1>5, <2>1, <2>2, ChainFollows, OnChain
    <3>2. QED BY <1>3, <2>2, <3>1
  <2>3. ChainKept(k, r, m)
    BY <1>3, <1>4, <2>1, <2>2 DEF ChainKept
  <2>4. QED BY <1>5, <2>3, KeptSame DEF Stacked
<1>11. QED BY <1>2, <1>8, <1>9, <1>10 DEF Fine, AllStacked

\* A bitmap keeps its handle.
LEMMA SetBitmapOK ==
  ASSUME NEW k, Good(k), NEW b \in DOMAIN k.object["BITMAP"], NEW x \in BitmapT,
         x.handle = k.object["BITMAP"][b].handle, NEW r, r = Put(k, "BITMAP", b, x)
  PROVE  /\ Good(r) /\ SameTable(k, r) /\ r.object["DC"] = k.object["DC"]
         /\ Placed(k, r, "BITMAP", b, x) /\ Roots(r) = Roots(k)
<1> DEFINE d == k.object["BITMAP"]
           e == r.object["BITMAP"]
<1>1. b \in Places("BITMAP")
  BY KindsAre DEF Good, Shape
<1>2. Shape(r) /\ SameTable(k, r) /\ SameObjects(k, r, "BITMAP") /\ Placed(k, r, "BITMAP", b, x)
  BY <1>1, PutOK, KindsAre DEF Good, TypeOf
<1>3. /\ DOMAIN e = DOMAIN d /\ \A m \in DOMAIN d : e[m].handle = d[m].handle
      /\ r.object["DC"] = k.object["DC"] /\ r.object["BRUSH"] = k.object["BRUSH"]
  BY <1>2, KindsAre DEF Placed, SameObjects, Kinds
<1>4. ASSUME NEW i \in UsedIn(k) PROVE Leads(r, i)
  <2>1. Leads(k, i) /\ k.entry[i].kind \in Kinds
    BY DEF Good, Leads
  <2>2. k.entry[i].object \in DOMAIN k.object[k.entry[i].kind]
    BY DEF Good, Leads
  <2>3. CASE k.entry[i].kind = "BITMAP"
    BY <1>2, <1>3, <2>1, <2>2, <2>3, LeadsSame
  <2>4. CASE k.entry[i].kind # "BITMAP"
    <3>1. r.object[k.entry[i].kind] = k.object[k.entry[i].kind]
      BY <1>2, <2>1, <2>4 DEF SameObjects
    <3>2. QED BY <1>2, <2>1, <2>2, <3>1, LeadsSame
  <2>5. QED BY <2>3, <2>4
<1>5. Good(r) /\ Roots(r) = Roots(k)
  BY <1>2, <1>3, <1>4, ObjectsGood DEF Good
<1>6. QED BY <1>2, <1>3, <1>5

LEMMA SelectOK ==
  ASSUME NEW k, Good(k), NEW n \in Roots(k), NEW h \in HandleT,
         NEW b \in DOMAIN k.object["BITMAP"], NEW r, r = Select(k, n, h, b)
  PROVE  Fine(k, r)
<1> DEFINE old == Dc(k, n).bitmap
           bitmaps == k.object["BITMAP"]
           out == IF old \in DOMAIN bitmaps
                  THEN Put(k, "BITMAP", old, [bitmaps[old] EXCEPT !.hdc = NoHandle]) ELSE k
           mid == Put(out, "BITMAP", b, [bitmaps[b] EXCEPT !.hdc = h])
           x == [Dc(k, n) EXCEPT !.bitmap = b]
<1>1. CASE bitmaps[b].hdc \notin {NoHandle, h}
  BY <1>1, FineSelf DEF Select
<1>2. CASE bitmaps[b].hdc \in {NoHandle, h}
  <2>1. r = Put(mid, "DC", n, x)
    BY <1>2 DEF Select
  <2>2. NoHandle \in HandleT
    BY GdiObjectsAssumption DEF NoHandle, HandleT
  <2>3. \A m \in DOMAIN bitmaps : bitmaps[m] \in BitmapT
    BY KindsAre DEF Good, Shape, TypeOf
  <2>4. \A m \in DOMAIN bitmaps, z \in HandleT :
          /\ [bitmaps[m] EXCEPT !.hdc = z] \in BitmapT
          /\ [bitmaps[m] EXCEPT !.hdc = z].handle = bitmaps[m].handle
    <3>1. \A y \in BitmapT, z \in HandleT :
            [y EXCEPT !.hdc = z] \in BitmapT /\ [y EXCEPT !.hdc = z].handle = y.handle
      <4> DEFINE H == HandleT
      <4> HIDE DEF H
      <4>1. BitmapT = [handle : H, hdc : H]
        BY DEF BitmapT, H
      <4>2. \A y \in [handle : H, hdc : H], z \in H :
              /\ [y EXCEPT !.hdc = z] \in [handle : H, hdc : H]
              /\ [y EXCEPT !.hdc = z].handle = y.handle
        OBVIOUS
      <4>3. QED BY <4>1, <4>2 DEF H
    <3>2. QED BY <2>3, <3>1
  <2>5. /\ Good(out) /\ SameTable(k, out) /\ out.object["DC"] = k.object["DC"]
        /\ Roots(out) = Roots(k) /\ DOMAIN out.object["BITMAP"] = DOMAIN bitmaps
        /\ out.object["BITMAP"][b].handle = bitmaps[b].handle
    <3>1. CASE old \in DOMAIN bitmaps
      <4> DEFINE y == [bitmaps[old] EXCEPT !.hdc = NoHandle]
      <4>1. y \in BitmapT /\ y.handle = bitmaps[old].handle /\ out = Put(k, "BITMAP", old, y)
        BY <2>2, <2>4, <3>1
      <4> HIDE DEF y, out
      <4>2. /\ Good(out) /\ SameTable(k, out) /\ out.object["DC"] = k.object["DC"]
            /\ Placed(k, out, "BITMAP", old, y) /\ Roots(out) = Roots(k)
        BY <3>1, <4>1, SetBitmapOK
      <4>3. QED BY <3>1, <4>1, <4>2 DEF Placed
    <3>2. CASE old \notin DOMAIN bitmaps
      BY <3>2 DEF SameTable
    <3>3. QED BY <3>1, <3>2
  <2>6. /\ Good(mid) /\ SameTable(k, mid) /\ mid.object["DC"] = k.object["DC"]
        /\ Roots(mid) = Roots(k)
    <3> DEFINE y == [bitmaps[b] EXCEPT !.hdc = h]
    <3>1. y \in BitmapT /\ y.handle = out.object["BITMAP"][b].handle
          /\ b \in DOMAIN out.object["BITMAP"]
      BY <2>4, <2>5
    <3>2. mid = Put(out, "BITMAP", b, y)
      OBVIOUS
    <3> HIDE DEF y, out, mid
    <3>3. Good(mid) /\ SameTable(out, mid) /\ mid.object["DC"] = out.object["DC"]
          /\ Roots(mid) = Roots(out)
      BY <2>5, <3>1, <3>2, SetBitmapOK
    <3>4. QED BY <2>5, <3>3 DEF SameTable
  <2> HIDE DEF out, mid
  <2>7. Dc(k, n) \in DcT /\ b \in Int
    <3>1. Dc(k, n) \in DcT
      BY RootFacts DEF Dc
    <3>2. b \in Places("BITMAP")
      BY KindsAre DEF Good, Shape
    <3>3. QED BY <3>1, <3>2, PlacesFacts, KindsAre
  <2>8. x \in DcT /\ x.handle = Dc(k, n).handle /\ x.level = Dc(k, n).level
        /\ x.saved = Dc(k, n).saved
    <3> DEFINE H == HandleT
               y == Dc(k, n)
    <3> HIDE DEF H, y
    <3>1. DcT = [handle : H, type : {"DIRECT", "MEMORY"}, color : Colors, brush : Int,
                 bitmap : Int, level : Nat, saved : Int]
      BY DEF DcT, H
    <3>2. /\ [y EXCEPT !.bitmap = b] \in DcT /\ [y EXCEPT !.bitmap = b].handle = y.handle
          /\ [y EXCEPT !.bitmap = b].level = y.level /\ [y EXCEPT !.bitmap = b].saved = y.saved
      BY <2>7, <3>1 DEF y
    <3>3. QED BY <3>2 DEF y
  <2>9. Dc(mid, n) = Dc(k, n)
    BY <2>6 DEF Dc
  <2>10. Fine(mid, r) /\ Roots(r) = Roots(mid)
    <3> HIDE DEF x
    <3> QED BY <2>1, <2>6, <2>8, <2>9, SetDcOK
  <2>11. ASSUME NEW m \in Roots(k) PROVE Stacked(k, r, m)
    <3>1. Stacked(mid, r, m)
      BY <2>6, <2>10 DEF Fine, AllStacked
    <3>2. Kept(mid, m) = Kept(k, m) /\ Look(mid, m) = Look(k, m)
      BY <2>6, SameDcs
    <3>3. QED BY <3>1, <3>2 DEF Stacked
  <2>12. SameCounts(k, r)
    BY <2>6, <2>10 DEF Fine, SameCounts, SameTable
  <2>13. QED BY <2>10, <2>11, <2>12 DEF Fine, AllStacked
<1>3. QED BY <1>1, <1>2


\* Roots keep their handles and every other kind is as it was.
LEMMA DcsGood ==
  ASSUME NEW k, Good(k), NEW r, Shape(r), SameTable(k, r), SameObjects(k, r, "DC"),
         Linked(r.object["DC"], Roots(k)),
         \A m \in Roots(k) : r.object["DC"][m].handle = k.object["DC"][m].handle
  PROVE  Good(r) /\ Roots(r) = Roots(k) /\ SameCounts(k, r)
<1>1. ASSUME NEW i \in UsedIn(k) PROVE Leads(r, i)
  <2>1. Leads(k, i) /\ k.entry[i].kind \in Kinds
    BY DEF Good, Leads
  <2>2. k.entry[i].object \in DOMAIN k.object[k.entry[i].kind]
    BY DEF Good, Leads
  <2>3. CASE k.entry[i].kind = "DC"
    <3>1. k.entry[i].object \in Roots(k)
      BY <2>3 DEF Roots
    <3>2. k.entry[i].object \in DOMAIN r.object["DC"]
      BY <3>1 DEF Linked
    <3>3. QED BY <2>1, <2>3, <3>1, <3>2, LeadsSame
  <2>4. CASE k.entry[i].kind # "DC"
    <3>1. r.object[k.entry[i].kind] = k.object[k.entry[i].kind]
      BY <2>1, <2>4 DEF SameObjects
    <3>2. QED BY <2>1, <2>2, <3>1, LeadsSame
  <2>5. QED BY <2>3, <2>4
<1>2. r.object["BITMAP"] = k.object["BITMAP"] /\ r.object["BRUSH"] = k.object["BRUSH"]
  BY KindsAre DEF SameObjects, Kinds
<1>3. Good(r) /\ Roots(r) = Roots(k)
  BY <1>1, <1>2, ObjectsGood
<1>4. SameCounts(k, r)
  BY DEF SameTable, SameCounts
<1>5. QED BY <1>3, <1>4

LEMMA SaveOK ==
  ASSUME NEW k, Good(k), NEW n \in Roots(k), NEW r, r = Save(k, n)
  PROVE  Fine(k, r)
<1> DEFINE s == FreePlace(k, "DC")
           y == Dc(k, n)
           x == [y EXCEPT !.saved = s, !.level = @ + 1]
           mid == Put(k, "DC", s, y)
           d == k.object["DC"]
           e == r.object["DC"]
<1>1. CASE s = Null
  BY <1>1, FineSelf DEF Save
<1>2. CASE s # Null
  <2>1. r = Put(mid, "DC", n, x)
    BY <1>2 DEF Save
  <2>2. s \in Places("DC") \ DOMAIN d
    BY <1>2, FreePlaceFacts, KindsAre
  <2>3. n \in DOMAIN d /\ n \in Places("DC") /\ y \in DcT /\ y = d[n] /\ n # s
    BY <2>2, RootFacts DEF Dc
  <2>4. s \in Int
    BY <2>2, NullPlace
  <2>5. /\ x \in DcT /\ x.handle = y.handle /\ x.level = y.level + 1 /\ x.saved = s
        /\ x.type = y.type /\ x.color = y.color /\ x.brush = y.brush /\ x.bitmap = y.bitmap
    <3> DEFINE H == HandleT
               v == y.level + 1
    <3>1. DcT = [handle : H, type : {"DIRECT", "MEMORY"}, color : Colors, brush : Int,
                 bitmap : Int, level : Nat, saved : Int]
      BY DEF DcT
    <3>2. y.level \in Nat
      <4> HIDE DEF y, H
      <4> QED BY <2>3, <3>1
    <3>3. v \in Nat
      BY <3>2
    <3> DEFINE u == [y EXCEPT !.saved = s]
    <3>4. x = [u EXCEPT !.level = v]
      <4>1. u.level = y.level
        <5> HIDE DEF y, H, s
        <5> QED BY <2>3, <3>1
      <4>2. QED BY <4>1
    <3> HIDE DEF y, H, s, v, x
    <3>5. /\ u \in DcT /\ u.handle = y.handle /\ u.saved = s
          /\ u.type = y.type /\ u.color = y.color /\ u.brush = y.brush /\ u.bitmap = y.bitmap
      BY <2>3, <2>4, <3>1
    <3> HIDE DEF u
    <3>6. /\ x \in DcT /\ x.handle = u.handle /\ x.saved = u.saved /\ x.level = v
          /\ x.type = u.type /\ x.color = u.color /\ x.brush = u.brush /\ x.bitmap = u.bitmap
      BY <3>1, <3>3, <3>4, <3>5
    <3>7. QED BY <3>5, <3>6 DEF v
  <2>6. /\ Shape(mid) /\ SameTable(k, mid) /\ SameObjects(k, mid, "DC")
        /\ Placed(k, mid, "DC", s, y)
    <3> HIDE DEF y, s
    <3>1. y \in TypeOf("DC") /\ "DC" \in Kinds /\ s \in Places("DC") /\ Shape(k)
      BY <2>2, <2>3, KindsAre DEF TypeOf, Good
    <3>2. QED BY <3>1, PutOK
  <2>7. /\ Shape(r) /\ SameTable(mid, r) /\ SameObjects(mid, r, "DC")
        /\ Placed(mid, r, "DC", n, x)
    <3> HIDE DEF x, mid
    <3>1. x \in TypeOf("DC") /\ "DC" \in Kinds
      BY <2>5, KindsAre DEF TypeOf
    <3>2. QED BY <2>1, <2>3, <2>6, <3>1, PutOK
  <2> HIDE DEF x, mid
  <2>8. SameTable(k, r) /\ SameObjects(k, r, "DC")
    BY <2>6, <2>7 DEF SameTable, SameObjects
  <2>9. DOMAIN e = DOMAIN d \cup {s} /\ e[n] = x /\ e[s] = y
        /\ \A m \in DOMAIN d \ {n} : e[m] = d[m]
    <3> DEFINE c == mid.object["DC"]
    <3>1. DOMAIN c = DOMAIN d \cup {s} /\ c[s] = y /\ \A m \in DOMAIN d \ {s} : c[m] = d[m]
      BY <2>6 DEF Placed
    <3>2. DOMAIN e = DOMAIN c \cup {n} /\ e[n] = x /\ \A m \in DOMAIN c \ {n} : e[m] = c[m]
      BY <2>7 DEF Placed
    <3> HIDE DEF c, d, e, s, y
    <3>3. QED BY <2>2, <2>3, <3>1, <3>2
  <2>10. Linked(d, Roots(k))
    BY DEF Good
  <2>11. Linked(e, Roots(k))
    <3>1. \A m \in DOMAIN d \ {n} : Keeps(d, e, m)
      BY <2>9 DEF Keeps
    <3>2. e[s].level = d[n].level /\ e[s].saved = d[n].saved /\ e[n].level = d[n].level + 1
          /\ e[n].saved = s
      BY <2>3, <2>5, <2>9
    <3> HIDE DEF d, e, s
    <3>3. QED BY <2>2, <2>9, <2>10, <3>1, <3>2, LinkedSave
  <2>12. Good(r) /\ Roots(r) = Roots(k) /\ SameCounts(k, r)
    <3>1. \A m \in Roots(k) : e[m].handle = d[m].handle
      BY <2>3, <2>5, <2>9, <2>10 DEF Linked
    <3>2. QED BY <2>7, <2>8, <2>11, <3>1, DcsGood
  <2>13. ASSUME NEW m \in Roots(k) PROVE Stacked(k, r, m)
    <3>1. CASE m = n
      <4>1. Look(r, n) = Look(k, n)
        BY <2>3, <2>5, <2>9 DEF Look, Dc
      <4>2. e[n].saved = s /\ e[n].level = d[n].level + 1 /\ e[s] = d[n]
        BY <2>3, <2>5, <2>9
      <4> HIDE DEF s
      <4>3. QED BY <2>2, <2>9, <2>10, <2>11, <3>1, <4>1, <4>2, SaveStacked
    <3>2. CASE m # n
      <4>1. Null \notin DOMAIN e
        BY <2>11, NullPlace DEF Linked
      <4>2. Chain(k, n)[0] = n /\ 0 \in 0 .. Last
        BY ChainFollows, LastNat DEF Follows
      <4>3. \A z \in DOMAIN d :
              (\A j \in 0 .. Last : z # Chain(k, n)[j]) => z \in DOMAIN e /\ e[z] = d[z]
        BY <2>9, <4>2
      <4>4. QED BY <2>10, <3>2, <4>1, <4>3, OthersKept
    <3>3. QED BY <3>1, <3>2
  <2>14. QED BY <2>12, <2>13 DEF Fine, AllStacked
<1>3. QED BY <1>1, <1>2

LEMMA RestoreOK ==
  ASSUME NEW k, Good(k), NEW n \in Roots(k), NEW level \in Int, NEW r, r = Restore(k, n, level)
  PROVE  Fine(k, r)
<1> DEFINE y == Dc(k, n)
           t == Target(y, level)
           depth == y.level - t + 1
           at == Chain(k, n)
           last == Dc(k, at[depth])
           x == [last EXCEPT !.handle = y.handle]
           mid == Put(k, "DC", n, x)
           C == {at[i] : i \in 1 .. depth}
           d == k.object["DC"]
           e == r.object["DC"]
<1>1. CASE t \notin 1 .. y.level
  BY <1>1, FineSelf DEF Restore
<1>2. CASE t \in 1 .. y.level
  <2>1. r = FreeObjects(mid, "DC", C)
    BY <1>2 DEF Restore
  <2>2. n \in DOMAIN d /\ n \in Places("DC") /\ y \in DcT /\ y = d[n]
    BY RootFacts DEF Dc
  <2>3. y.level \in Nat /\ Linked(d, Roots(k))
    BY <2>2 DEF Linked, Good
  <2>4. depth \in 1 .. d[n].level
    <3> HIDE DEF y, t
    <3>1. depth \in 1 .. y.level
      BY <1>2, <2>3
    <3>2. QED BY <2>2, <3>1
  <2> HIDE DEF depth
  <2>5. Follows(d, n, at)
    BY ChainFollows
  <2>6. at[depth] \in DOMAIN d /\ at[depth] # n
        /\ \A i \in 1 .. depth : at[i] \in DOMAIN d \ Roots(k)
    <3>1. Level(d, n, at)
      BY <2>2, <2>3, <2>5, ChainLevels
    <3>2. ASSUME NEW i \in 1 .. depth PROVE at[i] \in DOMAIN d \ Roots(k)
      <4>1. i \in 0 .. d[n].level /\ i \in 0 .. Last /\ i # 0
        BY <2>2, <2>3, <2>4, <3>1, LastNat DEF Level
      <4>2. at[i] \in DOMAIN d
        BY <3>1, <4>1 DEF Level
      <4>3. QED BY <2>2, <2>3, <2>5, <4>1, <4>2, OnChain
    <3>3. depth \in 1 .. depth
      BY <2>2, <2>3, <2>4
    <3>4. QED BY <3>2, <3>3
  <2>7. last = d[at[depth]] /\ last \in DcT
    BY <2>6, KindsAre DEF Dc, Good, Shape, TypeOf
  <2>8. /\ x \in DcT /\ x.handle = y.handle /\ x.level = last.level /\ x.saved = last.saved
        /\ x.type = last.type /\ x.color = last.color /\ x.brush = last.brush
        /\ x.bitmap = last.bitmap
    <3> DEFINE H == HandleT
    <3>1. DcT = [handle : H, type : {"DIRECT", "MEMORY"}, color : Colors, brush : Int,
                 bitmap : Int, level : Nat, saved : Int]
      BY DEF DcT
    <3> HIDE DEF y, H, last
    <3>2. y.handle \in H
      BY <2>2, <3>1
    <3>3. QED BY <2>7, <3>1, <3>2
  <2> HIDE DEF last, x
  <2>9. Shape(mid) /\ SameTable(k, mid) /\ SameObjects(k, mid, "DC") /\ Placed(k, mid, "DC", n, x)
    <3>1. x \in TypeOf("DC") /\ "DC" \in Kinds /\ Shape(k)
      BY <2>8, KindsAre DEF TypeOf, Good
    <3>2. QED BY <2>2, <3>1, PutOK
  <2> HIDE DEF mid
  <2> DEFINE c == mid.object["DC"]
  <2>10. /\ Shape(r) /\ SameTable(mid, r) /\ SameObjects(mid, r, "DC")
         /\ DOMAIN e = DOMAIN c \ C /\ \A m \in DOMAIN c \ C : e[m] = c[m]
    BY <2>1, <2>9, FreeObjectsOK, KindsAre DEF Freed
  <2>11. SameTable(k, r) /\ SameObjects(k, r, "DC")
    BY <2>9, <2>10 DEF SameTable, SameObjects
  <2>12. n \notin C
    BY <2>6
  <2>13. DOMAIN e = DOMAIN d \ C /\ e[n] = x /\ \A m \in DOMAIN e \ {n} : e[m] = d[m]
    <3>1. DOMAIN c = DOMAIN d /\ c[n] = x /\ \A m \in DOMAIN d \ {n} : c[m] = d[m]
      BY <2>2, <2>9 DEF Placed
    <3> HIDE DEF c, d, e, C
    <3>2. QED BY <2>2, <2>10, <2>12, <3>1
  <2>14. /\ e[n].level = d[at[depth]].level /\ e[n].saved = d[at[depth]].saved
         /\ \A m \in DOMAIN e \ {n} : Keeps(d, e, m)
    BY <2>7, <2>8, <2>13 DEF Keeps
  <2>15. Linked(e, Roots(k))
    <3> HIDE DEF d, e, at
    <3> QED BY <2>3, <2>4, <2>5, <2>13, <2>14, LinkedRestore
  <2>16. Good(r) /\ Roots(r) = Roots(k) /\ SameCounts(k, r)
    <3>1. \A m \in Roots(k) : e[m].handle = d[m].handle
      BY <2>2, <2>8, <2>13, <2>15 DEF Linked
    <3>2. QED BY <2>10, <2>11, <2>15, <3>1, DcsGood
  <2>17. ASSUME NEW m \in Roots(k) PROVE Stacked(k, r, m)
    <3>1. CASE m = n
      <4>1. Look(r, n) = Look(k, at[depth])
        <5>1. Dc(r, n) = x /\ Dc(k, at[depth]) = last
          BY <2>7, <2>13 DEF Dc
        <5>2. QED BY <2>8, <5>1 DEF Look
      <4>2. QED BY <2>3, <2>4, <2>13, <2>14, <2>15, <3>1, <4>1, RestoreStacked
    <3>2. CASE m # n
      <4>1. Null \notin DOMAIN e
        BY <2>15, NullPlace DEF Linked
      <4>2. Chain(k, n)[0] = n /\ 0 \in 0 .. Last
        BY <2>5, LastNat DEF Follows
      <4>3. \A i \in 1 .. depth : i \in 0 .. Last
        <5>1. d[n].level < Last /\ d[n].level \in Nat
          BY <2>2, <2>3, <2>5, ChainLevels DEF Level
        <5>2. QED BY <2>4, <5>1, LastNat
      <4>4. \A z \in DOMAIN d :
              (\A j \in 0 .. Last : z # Chain(k, n)[j]) => z \in DOMAIN e /\ e[z] = d[z]
        <5>1. SUFFICES ASSUME NEW z \in DOMAIN d, \A j \in 0 .. Last : z # Chain(k, n)[j]
                       PROVE  z \in DOMAIN e /\ e[z] = d[z]
          OBVIOUS
        <5>2. z # n /\ z \notin C
          BY <4>2, <4>3, <5>1
        <5> HIDE DEF d, e, C
        <5>3. QED BY <2>13, <5>1, <5>2
      <4>5. QED BY <2>3, <3>2, <4>1, <4>4, OthersKept
    <3>3. QED BY <3>1, <3>2
  <2>18. QED BY <2>16, <2>17 DEF Fine, AllStacked
<1>3. QED BY <1>1, <1>2


\* An object and a handle for it, or nothing.
Made(k, r, kind, i) ==
  /\ i \in Slots /\ r.entry[i].reuse = k.entry[i].reuse + 1 /\ r.entry[i].kind = kind
  /\ r.entry[i].reuse \in 0 .. MaxReuse
  /\ NewHandle(k, kind) = Handle(i, kind, r.entry[i].reuse)
  /\ \A j \in Slots \ {i} : r.entry[j] = k.entry[j]

LEMMA HandleIn ==
  ASSUME NEW i \in Slots, NEW kind \in Kinds, NEW reuse \in 0 .. MaxReuse
  PROVE  /\ Handle(i, kind, reuse) \in HandleT
         /\ Handle(i, kind, reuse) \in [index : Slots, kind : Kinds, reuse : 0 .. ReuseSpan - 1]
         /\ Handle(i, kind, reuse).index = i
         /\ Handle(i, kind, reuse).kind = kind
         /\ Handle(i, kind, reuse).reuse = reuse % ReuseSpan
<1>1. reuse \in Nat /\ ReuseSpan \in Nat \ {0}
  BY GdiObjectsAssumption
<1>2. reuse % ReuseSpan \in 0 .. ReuseSpan - 1
  BY <1>1
<1>3. i \in 0 .. MaxHandles - 1
  BY GdiObjectsAssumption DEF Slots
<1>4. QED BY <1>2, <1>3 DEF Handle, HandleT

\* Any kind of object with another handle.
LEMMA WithHandle ==
  ASSUME NEW kind \in Kinds, NEW x \in TypeOf(kind), NEW h \in HandleT,
         NEW y, y = [x EXCEPT !.handle = h]
  PROVE  /\ y \in TypeOf(kind) /\ y.handle = h
         /\ kind = "DC" => y.level = x.level /\ y.saved = x.saved
<1> DEFINE H == HandleT
<1>1. /\ DcT = [handle : H, type : {"DIRECT", "MEMORY"}, color : Colors, brush : Int,
                bitmap : Int, level : Nat, saved : Int]
      /\ BitmapT = [handle : H, hdc : H] /\ BrushT = [handle : H]
  BY DEF DcT, BitmapT, BrushT
<1> HIDE DEF H
<1>2. h \in H
  BY DEF H
<1>3. CASE kind = "DC"
  <2>1. x \in DcT
    BY <1>3 DEF TypeOf
  <2>2. y \in DcT /\ y.handle = h /\ y.level = x.level /\ y.saved = x.saved
    BY <1>1, <1>2, <2>1
  <2>3. QED BY <1>3, <2>2 DEF TypeOf
<1>4. CASE kind = "BITMAP"
  <2>1. x \in BitmapT
    BY <1>4 DEF TypeOf
  <2>2. y \in BitmapT /\ y.handle = h
    BY <1>1, <1>2, <2>1
  <2>3. QED BY <1>4, <2>2 DEF TypeOf
<1>5. CASE kind = "BRUSH"
  <2>1. x \in BrushT
    BY <1>5 DEF TypeOf
  <2>2. y \in BrushT /\ y.handle = h
    BY <1>1, <1>2, <2>1
  <2>3. QED BY <1>5, <2>2 DEF TypeOf
<1>6. QED BY <1>3, <1>4, <1>5 DEF Kinds

LEMMA MakeOK ==
  ASSUME NEW k, Good(k), NEW kind \in Kinds, NEW x \in TypeOf(kind),
         kind = "DC" => x.level = 0 /\ x.saved = Null,
         FreeSlot(k) # 0 => k.entry[FreeSlot(k)].reuse < MaxReuse,
         NEW r, r = Make(k, kind, x)
  PROVE  /\ Good(r) /\ AllStacked(k, r)
         /\ r = k \/ Made(k, r, kind, FreeSlot(k))
<1> DEFINE n == FreePlace(k, kind)
           h == NewHandle(k, kind)
           i == FreeSlot(k)
           reuse == k.entry[i].reuse + 1
           y == [x EXCEPT !.handle = h]
           mid == Put(k, kind, n, y)
           d == k.object["DC"]
           e == r.object["DC"]
<1>1. CASE n = Null \/ h = NoHandle
  <2>1. r = k
    BY <1>1 DEF Make
  <2>2. QED BY <2>1, FineSelf DEF Fine
<1>2. CASE n # Null /\ h # NoHandle
  <2>1. r = AllocHandle(mid, kind, n)
    BY <1>2 DEF Make
  <2>2. i # 0 /\ h = Handle(i, kind, reuse)
    BY <1>2 DEF NewHandle
  <2>3. n \in Places(kind) \ DOMAIN k.object[kind]
    BY <1>2, FreePlaceFacts
  <2>4. i \in Slots /\ i \notin UsedIn(k)
    BY <2>2, FreeSlotFacts DEF Unused, UsedIn
  <2>5. k.entry[i].reuse < MaxReuse
    BY <2>2
  <2>6. reuse \in 0 .. MaxReuse
    <3>1. k.entry[i] \in EntryT
      BY <2>4 DEF Good, Shape
    <3>2. k.entry[i].reuse \in 0 .. MaxReuse
      BY <3>1 DEF EntryT
    <3>3. QED BY <2>5, <3>2, GdiObjectsAssumption
  <2> HIDE DEF i, n, reuse
  <2>7. h \in HandleT
    BY <2>2, <2>4, <2>6, HandleIn
  <2> HIDE DEF h
  <2>8. /\ y \in TypeOf(kind) /\ y.handle = h
        /\ kind = "DC" => y.level = 0 /\ y.saved = Null
    <3>1. /\ y \in TypeOf(kind) /\ y.handle = h
          /\ kind = "DC" => y.level = x.level /\ y.saved = x.saved
      BY <2>7, WithHandle
    <3>2. QED BY <3>1
  <2> HIDE DEF y
  <2>9. Shape(mid) /\ SameTable(k, mid) /\ SameObjects(k, mid, kind) /\ Placed(k, mid, kind, n, y)
    BY <2>3, <2>8, PutOK DEF Good
  <2> HIDE DEF mid
  <2>10. mid.entry = k.entry /\ mid.next = k.next /\ mid.count = k.count /\ mid.shared = k.shared
    BY <2>9 DEF SameTable
  <2>11. FreeSlot(mid) = i
    BY <2>10 DEF FreeSlot, Unused, i
  <2> DEFINE new == [used |-> TRUE, kind |-> kind, reuse |-> reuse, object |-> n]
             copy == [kind |-> kind, upper |-> reuse % ReuseSpan]
  <2>12. /\ Shape(r) /\ Entered(mid, r, i, new, copy) /\ r.count = k.count + 1
    <3>1. n \in Int
      BY <2>3, PlacesFacts
    <3>2. mid.entry[i].reuse < MaxReuse /\ reuse = mid.entry[i].reuse + 1
      BY <2>5, <2>10 DEF reuse
    <3>3. QED BY <2>1, <2>2, <2>9, <2>10, <2>11, <3>1, <3>2, AllocOK
  <2>13. /\ r.entry[i].used /\ r.entry[i].kind = kind /\ r.entry[i].reuse = reuse
         /\ r.entry[i].object = n /\ r.shared[i] = copy
         /\ \A j \in Slots \ {i} : r.entry[j] = k.entry[j] /\ r.shared[j] = k.shared[j]
         /\ r.object = mid.object
    BY <2>10, <2>12 DEF Entered
  <2> HIDE DEF new, copy
  <2>14. UsedIn(r) = UsedIn(k) \cup {i}
    <3>1. ASSUME NEW j \in Slots PROVE j \in UsedIn(r) <=> j \in UsedIn(k) \cup {i}
      <4>1. CASE j = i
        BY <2>4, <2>13, <4>1 DEF UsedIn
      <4>2. CASE j # i
        BY <2>13, <4>2 DEF UsedIn
      <4>3. QED BY <4>1, <4>2
    <3>2. UsedIn(r) \subseteq Slots /\ UsedIn(k) \cup {i} \subseteq Slots
      BY <2>4 DEF UsedIn
    <3>3. QED BY <3>1, <3>2
  <2>15. r.count = 1 + Cardinality(UsedIn(r))
    <3>1. Cardinality(UsedIn(r)) = Cardinality(UsedIn(k)) + 1
      BY <2>4, <2>14, UsedFinite, FS_AddElement
    <3>2. k.count = 1 + Cardinality(UsedIn(k)) /\ Cardinality(UsedIn(k)) \in Nat
      BY UsedFinite DEF Good
    <3>3. QED BY <2>12, <3>1, <3>2
  \* The objects.
  <2>16. /\ \A q \in Kinds \ {kind} : r.object[q] = k.object[q]
         /\ DOMAIN r.object[kind] = DOMAIN k.object[kind] \cup {n}
         /\ r.object[kind][n] = y
         /\ \A m \in DOMAIN k.object[kind] : r.object[kind][m] = k.object[kind][m]
    BY <2>3, <2>9, <2>13 DEF SameObjects, Placed
  <2>17. ASSUME NEW q \in Kinds, NEW m \in DOMAIN k.object[q]
         PROVE  m \in DOMAIN r.object[q] /\ r.object[q][m] = k.object[q][m]
    BY <2>16
  <2>18. ASSUME NEW j \in UsedIn(k)
         PROVE  j \in Slots \ {i} /\ r.entry[j] = k.entry[j] /\ j \in UsedIn(r)
    BY <2>4, <2>13, <2>14 DEF UsedIn
  <2>19. ASSUME NEW j \in UsedIn(r) PROVE Leads(r, j)
    <3>1. CASE j = i
      BY <2>2, <2>8, <2>13, <2>16, <3>1 DEF Leads
    <3>2. CASE j # i
      <4>1. j \in UsedIn(k)
        BY <2>14, <3>2
      <4>2. Leads(k, j) /\ r.entry[j] = k.entry[j]
        BY <2>18, <4>1 DEF Good
      <4>3. QED BY <2>17, <4>2 DEF Leads
    <3>3. QED BY <3>1, <3>2
  <2>20. \A q, m : HasEntry(k, q, m) => HasEntry(r, q, m)
    BY <2>18 DEF HasEntry
  <2>21. HasEntry(r, kind, n)
    BY <2>13, <2>14 DEF HasEntry
  <2>22. AllHaveEntries(r)
    <3>1. ASSUME NEW q \in {"BITMAP", "BRUSH"}, NEW m \in DOMAIN r.object[q]
          PROVE  HasEntry(r, q, m)
      <4>1. m \in DOMAIN k.object[q] => HasEntry(k, q, m)
        BY DEF Good, AllHaveEntries
      <4>2. m \in DOMAIN k.object[q] \/ (q = kind /\ m = n)
        BY <2>16 DEF Kinds
      <4>3. QED BY <2>20, <2>21, <4>1, <4>2
    <3>2. QED BY <3>1 DEF AllHaveEntries
  <2>23. ASSUME NEW j \in Slots PROVE Mirrored(r, j)
    <3>1. CASE j = i
      BY <2>13, <2>14, <3>1 DEF Mirrored, copy
    <3>2. CASE j # i
      <4>1. Mirrored(k, j)
        BY DEF Good
      <4>2. r.entry[j] = k.entry[j] /\ r.shared[j] = k.shared[j]
            /\ (j \in UsedIn(r) <=> j \in UsedIn(k))
        BY <2>13, <2>14, <3>2
      <4>3. QED BY <4>1, <4>2 DEF Mirrored
    <3>3. QED BY <3>1, <3>2
  <2>24. Roots(r) = IF kind = "DC" THEN Roots(k) \cup {n} ELSE Roots(k)
    <3>1. ASSUME NEW m PROVE m \in Roots(r) <=> m \in Roots(k) \/ (kind = "DC" /\ m = n)
      <4>1. m \in Roots(r) <=> \E j \in UsedIn(r) : r.entry[j].kind = "DC" /\ r.entry[j].object = m
        BY DEF Roots
      <4>2. m \in Roots(k) <=> \E j \in UsedIn(k) : k.entry[j].kind = "DC" /\ k.entry[j].object = m
        BY DEF Roots
      <4>3. QED BY <2>13, <2>14, <2>18, <4>1, <4>2
    <3>2. QED BY <3>1
  <2>25. Linked(d, Roots(k))
    BY DEF Good
  <2>26. Linked(e, Roots(r))
    <3>1. CASE kind = "DC"
      <4>1. /\ DOMAIN e = DOMAIN d \cup {n} /\ n \in Places("DC") \ DOMAIN d
            /\ e[n].level = 0 /\ e[n].saved = Null /\ \A m \in DOMAIN d : Keeps(d, e, m)
        BY <2>3, <2>8, <2>16, <3>1 DEF Keeps
      <4>2. Linked(e, Roots(k) \cup {n})
        <5> HIDE DEF d, e
        <5> QED BY <2>25, <4>1, LinkedMake
      <4>3. QED BY <2>24, <3>1, <4>2
    <3>2. CASE kind # "DC"
      <4>1. e = d
        BY <2>16, <3>2, KindsAre
      <4>2. QED BY <2>24, <2>25, <3>2, <4>1
    <3>3. QED BY <3>1, <3>2
  <2>27. Good(r)
    BY <2>12, <2>15, <2>19, <2>22, <2>23, <2>26 DEF Good
  <2>28. ASSUME NEW m \in Roots(k) PROVE Stacked(k, r, m)
    <3>1. \A z \in DOMAIN d : z \in DOMAIN e /\ e[z] = d[z]
      BY <2>17, KindsAre
    <3>2. m \in DOMAIN d /\ Null \notin DOMAIN e
      BY <2>25, <2>26, NullPlace DEF Linked
    <3>3. ChainKept(k, r, m)
      BY <3>1, <3>2 DEF ChainKept, Keeps
    <3>4. Kept(r, m) = Kept(k, m)
      BY <2>25, <3>3, KeptSame
    <3>5. QED BY <3>4 DEF Stacked
  <2>29. Made(k, r, kind, i)
    BY <2>2, <2>4, <2>6, <2>13 DEF Made, h, reuse
  <2>30. QED BY <2>27, <2>28, <2>29 DEF AllStacked, i
<1>3. QED BY <1>1, <1>2


\* A handle and its object given back; with a DC, all that it saved.
LEMMA RemoveOK ==
  ASSUME NEW k, Good(k), NEW h, h.index \in Slots, Frees(k, h), NEW kind,
         kind = k.entry[h.index].kind, NEW n, n = k.entry[h.index].object, NEW S,
         kind # "DC" => S = {n},
         kind = "DC" => S = Members(Chain(k, n)),
         NEW r, r = FreeObjects(FreeHandle(k, h), kind, S)
  PROVE  Fine(k, r)
<1> DEFINE i == h.index
           mid == FreeHandle(k, h)
           d == k.object["DC"]
           e == r.object["DC"]
           old == [used |-> FALSE, kind |-> k.entry[i].kind, reuse |-> k.entry[i].reuse,
                   object |-> Null]
<1>1. i \in UsedIn(k) /\ kind \in Kinds /\ n \in DOMAIN k.object[kind]
  <2>1. i \in UsedIn(k)
    BY DEF Frees, UsedIn
  <2>2. QED BY <2>1 DEF Good, Leads
<1>2. Shape(mid) /\ Entered(k, mid, i, old, NotShared) /\ mid.count = k.count - 1
  BY FreeHandleOK DEF Good
<1>0. r = FreeObjects(mid, kind, S) /\ ~old.used /\ old.kind = k.entry[i].kind
      /\ old.reuse = k.entry[i].reuse
  OBVIOUS
<1> HIDE DEF mid, old
<1>3. /\ Shape(r) /\ SameTable(mid, r) /\ SameObjects(mid, r, kind)
      /\ DOMAIN r.object[kind] = DOMAIN mid.object[kind] \ S
      /\ \A m \in DOMAIN mid.object[kind] \ S : r.object[kind][m] = mid.object[kind][m]
  <2>1. Freed(mid, r, kind, S)
    BY <1>0, <1>1, <1>2, FreeObjectsOK
  <2>2. QED BY <2>1 DEF Freed
<1>4. /\ ~r.entry[i].used /\ r.entry[i].kind = k.entry[i].kind
      /\ r.entry[i].reuse = k.entry[i].reuse /\ r.shared[i] = NotShared
      /\ \A j \in Slots \ {i} : r.entry[j] = k.entry[j] /\ r.shared[j] = k.shared[j]
      /\ r.count = k.count - 1
  <2>1. /\ r.entry[i] = old /\ r.shared[i] = NotShared
        /\ \A j \in Slots \ {i} : r.entry[j] = k.entry[j] /\ r.shared[j] = k.shared[j]
        /\ r.count = k.count - 1
    BY <1>2, <1>3 DEF Entered, SameTable
  <2>2. QED BY <1>0, <2>1
<1>5. /\ \A q \in Kinds \ {kind} : r.object[q] = k.object[q]
      /\ DOMAIN r.object[kind] = DOMAIN k.object[kind] \ S
      /\ \A m \in DOMAIN k.object[kind] \ S : r.object[kind][m] = k.object[kind][m]
  BY <1>2, <1>3 DEF SameObjects, Entered
<1>6. i \in Slots
  OBVIOUS
<1> HIDE DEF i
<1>7. UsedIn(r) = UsedIn(k) \ {i}
  <2>1. ASSUME NEW j \in Slots PROVE j \in UsedIn(r) <=> j \in UsedIn(k) \ {i}
    <3>1. CASE j = i
      BY <1>4, <3>1 DEF UsedIn
    <3>2. CASE j # i
      BY <1>4, <3>2 DEF UsedIn
    <3>3. QED BY <3>1, <3>2
  <2>2. UsedIn(r) \subseteq Slots /\ UsedIn(k) \subseteq Slots
    BY DEF UsedIn
  <2>3. QED BY <2>1, <2>2
<1>8. ASSUME NEW j \in UsedIn(r)
      PROVE  j \in UsedIn(k) /\ j # i /\ r.entry[j] = k.entry[j]
  BY <1>4, <1>7 DEF UsedIn
<1>9. r.count = 1 + Cardinality(UsedIn(r))
  <2>1. Cardinality(UsedIn(r)) = Cardinality(UsedIn(k)) - 1
    BY <1>1, <1>7, UsedFinite, FS_RemoveElement
  <2>2. k.count = 1 + Cardinality(UsedIn(k)) /\ Cardinality(UsedIn(k)) \in Nat
    BY UsedFinite DEF Good
  <2> DEFINE c == Cardinality(UsedIn(k))
             x == Cardinality(UsedIn(r))
  <2>3. r.count = k.count - 1
    BY <1>4
  <2> HIDE DEF c, x
  <2>4. x = c - 1 /\ k.count = 1 + c /\ c \in Nat
    BY <2>1, <2>2 DEF c, x
  <2>5. r.count = 1 + x
    BY <2>3, <2>4
  <2>6. QED BY <2>5 DEF x
<1>10. k.entry[i].kind = kind /\ k.entry[i].object = n
  BY DEF i
<1>11. Roots(r) = IF kind = "DC" THEN Roots(k) \ {n} ELSE Roots(k)
  <2>1. ASSUME NEW m PROVE m \in Roots(r) <=> m \in Roots(k) /\ ~(kind = "DC" /\ m = n)
    <3>1. m \in Roots(r) <=> \E j \in UsedIn(r) : r.entry[j].kind = "DC" /\ r.entry[j].object = m
      BY DEF Roots
    <3>2. m \in Roots(k) <=> \E j \in UsedIn(k) : k.entry[j].kind = "DC" /\ k.entry[j].object = m
      BY DEF Roots
    <3>3. ASSUME NEW j \in UsedIn(k), j # i, k.entry[j].kind = kind PROVE k.entry[j].object # n
      BY <1>1, <1>10, <3>3, EntriesApart
    <3>4. \A j \in UsedIn(k) \ {i} : j \in UsedIn(r) /\ r.entry[j] = k.entry[j]
      BY <1>7, <1>8
    <3>5. ASSUME m \in Roots(r) PROVE m \in Roots(k) /\ ~(kind = "DC" /\ m = n)
      <4>1. PICK j \in UsedIn(r) : r.entry[j].kind = "DC" /\ r.entry[j].object = m
        BY <3>1, <3>5
      <4>2. j \in UsedIn(k) /\ j # i /\ k.entry[j].kind = "DC" /\ k.entry[j].object = m
        BY <1>8, <4>1
      <4>3. QED BY <3>2, <3>3, <4>2
    <3>6. ASSUME m \in Roots(k), ~(kind = "DC" /\ m = n) PROVE m \in Roots(r)
      <4>1. PICK j \in UsedIn(k) : k.entry[j].kind = "DC" /\ k.entry[j].object = m
        BY <3>2, <3>6
      <4>2. j # i
        BY <1>10, <3>6, <4>1
      <4>3. QED BY <3>1, <3>4, <4>1, <4>2
    <3>7. QED BY <3>5, <3>6
  <2>2. QED BY <2>1
<1>12. Linked(d, Roots(k))
  BY DEF Good
<1>13. /\ Linked(e, Roots(r))
       /\ kind = "DC" => /\ n \in Roots(k) /\ \A m \in Roots(k) \ {n} : m \in DOMAIN e
                         /\ DOMAIN e = DOMAIN d \ S /\ \A m \in DOMAIN e : e[m] = d[m]
       /\ kind # "DC" => e = d
  <2>1. CASE kind = "DC"
    <3>1. n \in Roots(k)
      BY <1>1, <1>10, <2>1 DEF Roots
    <3>2. DOMAIN e = DOMAIN d \ S /\ \A m \in DOMAIN e : e[m] = d[m]
      BY <1>5, <2>1
    <3>3. \A m \in DOMAIN e : Keeps(d, e, m)
      BY <3>2 DEF Keeps
    <3> DEFINE at == Chain(k, n)
    <3>4. Follows(d, n, at) /\ S = Members(at)
      BY <2>1, ChainFollows
    <3>5. DOMAIN e = DOMAIN d \ Members(at)
      BY <3>2, <3>4
    <3>6. Linked(e, Roots(k) \ {n})
      <4> HIDE DEF at, d, e
      <4> QED BY <1>12, <3>1, <3>3, <3>4, <3>5, LinkedDelete
    <3>7. \A m \in Roots(k) \ {n} : m \in DOMAIN e
      BY <3>6 DEF Linked
    <3>8. QED BY <1>11, <2>1, <3>1, <3>2, <3>6, <3>7
  <2>2. CASE kind # "DC"
    <3>1. e = d
      BY <1>5, <2>2, KindsAre
    <3>2. QED BY <1>11, <1>12, <2>2, <3>1
  <2>3. QED BY <2>1, <2>2
\* The other entries keep their objects.
<1>14. ASSUME NEW j \in UsedIn(r) PROVE Leads(r, j)
  <2>1. /\ j \in UsedIn(k) /\ j # i /\ r.entry[j] = k.entry[j] /\ Leads(k, j)
        /\ k.entry[j].kind \in Kinds
        /\ k.entry[j].object \in DOMAIN k.object[k.entry[j].kind]
    BY <1>8 DEF Good, Leads
  <2>2. CASE k.entry[j].kind # kind
    <3>1. r.object[k.entry[j].kind] = k.object[k.entry[j].kind]
      BY <1>5, <2>1, <2>2
    <3>2. QED BY <2>1, <3>1 DEF Leads
  <2>3. CASE k.entry[j].kind = kind
    <3>1. k.entry[j].object # n
      BY <1>1, <1>10, <2>1, <2>3, EntriesApart
    <3>2. k.entry[j].object \notin S
      <4>1. CASE kind = "DC"
        <5>1. k.entry[j].object \in Roots(k) \ {n}
          BY <2>1, <2>3, <3>1, <4>1 DEF Roots
        <5>2. QED BY <1>13, <4>1, <5>1
      <4>2. CASE kind # "DC"
        BY <3>1, <4>2
      <4>3. QED BY <4>1, <4>2
    <3>3. /\ k.entry[j].object \in DOMAIN r.object[kind]
          /\ r.object[kind][k.entry[j].object] = k.object[kind][k.entry[j].object]
      BY <1>5, <2>1, <2>3, <3>2
    <3>4. QED BY <2>1, <2>3, <3>3 DEF Leads
  <2>4. QED BY <2>2, <2>3
<1>15. AllHaveEntries(r)
  <2>1. ASSUME NEW q \in {"BITMAP", "BRUSH"}, NEW m \in DOMAIN r.object[q]
        PROVE  HasEntry(r, q, m)
    <3>1. m \in DOMAIN k.object[q] /\ (q = kind => m # n)
      <4>1. CASE q = kind
        BY <1>5, <4>1
      <4>2. CASE q # kind
        BY <1>5, <4>2 DEF Kinds
      <4>3. QED BY <4>1, <4>2
    <3>2. HasEntry(k, q, m)
      BY <3>1 DEF Good, AllHaveEntries
    <3>3. PICK j \in UsedIn(k) : k.entry[j].kind = q /\ k.entry[j].object = m
      BY <3>2 DEF HasEntry
    <3>4. j # i
      BY <1>10, <3>1, <3>3
    <3>5. j \in UsedIn(r) /\ r.entry[j] = k.entry[j]
      BY <1>7, <1>8, <3>4
    <3>6. QED BY <3>3, <3>5 DEF HasEntry
  <2>2. QED BY <2>1 DEF AllHaveEntries
<1>16. ASSUME NEW j \in Slots PROVE Mirrored(r, j)
  <2>1. CASE j = i
    BY <1>4, <1>7, <2>1 DEF Mirrored
  <2>2. CASE j # i
    <3>1. Mirrored(k, j)
      BY DEF Good
    <3>2. r.entry[j] = k.entry[j] /\ r.shared[j] = k.shared[j]
          /\ (j \in UsedIn(r) <=> j \in UsedIn(k))
      BY <1>4, <1>7, <2>2
    <3>3. QED BY <3>1, <3>2 DEF Mirrored
  <2>3. QED BY <2>1, <2>2
<1>17. Good(r)
  BY <1>3, <1>9, <1>13, <1>14, <1>15, <1>16 DEF Good
<1>18. SameCounts(k, r)
  BY <1>4 DEF SameCounts
<1>19. ASSUME NEW m \in Roots(k), m \in Roots(r) PROVE Stacked(k, r, m)
  <2>1. Null \notin DOMAIN e
    BY <1>13, NullPlace DEF Linked
  <2>2. CASE kind = "DC"
    <3>1. m # n /\ n \in Roots(k)
      BY <1>11, <1>13, <1>19, <2>2
    <3>2. S = {Chain(k, n)[l] : l \in 0 .. Last}
      BY <2>2 DEF Members
    <3>3. \A z \in DOMAIN d :
            (\A j \in 0 .. Last : z # Chain(k, n)[j]) => z \in DOMAIN e /\ e[z] = d[z]
      <4>1. DOMAIN e = DOMAIN d \ S /\ \A z \in DOMAIN e : e[z] = d[z]
        BY <1>13, <2>2
      <4> HIDE DEF d, e
      <4>2. ASSUME NEW z \in DOMAIN d, \A j \in 0 .. Last : z # Chain(k, n)[j]
            PROVE  z \notin S
        BY <3>2, <4>2
      <4>3. ASSUME NEW z \in DOMAIN d, \A j \in 0 .. Last : z # Chain(k, n)[j]
            PROVE  z \in DOMAIN e /\ e[z] = d[z]
        BY <4>1, <4>2, <4>3
      <4>4. QED BY <4>3
    <3>4. QED BY <1>12, <2>1, <3>1, <3>3, OthersKept
  <2>3. CASE kind # "DC"
    BY <1>13, <2>3, SameDcs DEF Stacked
  <2>4. QED BY <2>2, <2>3
<1>20. QED BY <1>17, <1>18, <1>19 DEF Fine, AllStacked

\* gdi_delete_dc, with a handle the guest was given.
LEMMA DeleteDcOK ==
  ASSUME NEW k, Good(k), NEW h, SeenOK(k, h), NoWrap, NEW r, r = DeleteDc(k, h)
  PROVE  Fine(k, r)
<1> DEFINE n == GetObject(k, h, "DC")
<1>1. CASE n = Null
  BY <1>1, FineSelf DEF DeleteDc
<1>2. CASE n # Null
  <2>1. h.index \in Slots
    BY DEF SeenOK
  <2>2. /\ h.index \in UsedIn(k) /\ k.entry[h.index].kind = "DC" /\ k.entry[h.index].object = n
        /\ k.entry[h.index].reuse % ReuseSpan = h.reuse
    BY <1>2, <2>1, GetObjectFacts, KindsAre
  <2>3. k.entry[h.index].reuse % ReuseSpan = k.entry[h.index].reuse
    <3>1. k.entry[h.index] \in EntryT
      BY <2>1 DEF Good, Shape
    <3>2. k.entry[h.index].reuse \in 0 .. MaxReuse
      BY <3>1 DEF EntryT
    <3> DEFINE q == k.entry[h.index].reuse
    <3>3. q \in 0 .. MaxReuse
      BY <3>2
    <3> HIDE DEF q
    <3>4. q \in Nat /\ q < ReuseSpan /\ ReuseSpan \in Nat \ {0}
      BY <3>3, GdiObjectsAssumption DEF NoWrap
    <3>5. q % ReuseSpan = q
      BY <3>4
    <3>6. QED BY <3>5 DEF q
  <2>4. h.kind = k.entry[h.index].kind
    BY <2>2, <2>3 DEF SeenOK
  <2>5. h # NoHandle
    BY <1>2 DEF GetObject
  <2>6. Frees(k, h)
    BY <2>2, <2>4, <2>5 DEF Frees, UsedIn
  <2> DEFINE S == Members(Chain(k, n))
  <2>7. Range(Chain(k, n)) = S
    <3>1. DOMAIN Chain(k, n) = 0 .. Last
      BY ChainFollows DEF Follows
    <3>2. QED BY <3>1 DEF Range, Members
  <2>8. r = FreeObjects(FreeHandle(k, h), "DC", S)
    BY <1>2, <2>7 DEF DeleteDc
  <2> HIDE DEF n
  <2>9. QED BY <2>1, <2>2, <2>6, <2>8, RemoveOK
<1>3. QED BY <1>1, <1>2


---------------------------------------------------------------------------
(* The inductive invariant.                                                *)

Seen(k, S) == \A h \in S : SeenOK(k, h)

IInv == Good(g) /\ Seen(g, seen) /\ aborted \in BOOLEAN

\* What a step does: the invariant, and the saved states of every DC.
StepOK == IInv' /\ AllStacked(g, g')

LEMMA SeenKept ==
  ASSUME NEW k, NEW r, NEW S, Seen(k, S), SameCounts(k, r)
  PROVE  Seen(r, S)
<1>1. SUFFICES ASSUME NEW h \in S PROVE SeenOK(r, h)
  BY DEF Seen
<1>2. SeenOK(k, h)
  BY DEF Seen
<1>3. h.index \in Slots
  BY <1>2 DEF SeenOK
<1>4. r.entry[h.index].reuse = k.entry[h.index].reuse
      /\ r.entry[h.index].kind = k.entry[h.index].kind
  BY <1>3 DEF SameCounts
<1>5. QED BY <1>2, <1>4 DEF SeenOK

LEMMA FineStep ==
  ASSUME IInv, Fine(g, g'), UNCHANGED <<seen, aborted>>
  PROVE  StepOK
<1>1. Seen(g', seen')
  BY SeenKept DEF IInv, Fine
<1>2. QED BY <1>1 DEF IInv, Fine, StepOK

LEMMA NoHandleIn == NoHandle \in HandleT
  BY GdiObjectsAssumption DEF NoHandle, HandleT

\* The handles the guest has, and what they lead to.
LEMMA SeenFacts ==
  ASSUME IInv, NEW h \in seen
  PROVE  /\ SeenOK(g, h) /\ h.index \in Slots /\ h \in HandleT /\ h # NoHandle
         /\ GetObject(g, h, "DC") # Null => GetObject(g, h, "DC") \in Roots(g)
<1>1. SeenOK(g, h) /\ Good(g)
  BY DEF IInv, Seen
<1>2. h \in [index : Slots, kind : Kinds, reuse : 0 .. ReuseSpan - 1]
  BY <1>1 DEF SeenOK
<1>3. h.index \in Slots
  BY <1>2
<1>4. h \in HandleT
  <2>1. Slots \subseteq 0 .. MaxHandles - 1
    BY GdiObjectsAssumption DEF Slots
  <2>2. QED BY <1>2, <2>1 DEF HandleT
<1>5. h # NoHandle
  <2>1. NoHandle.index = 0 /\ 0 \notin Slots
    BY DEF NoHandle, Slots
  <2>2. QED BY <1>3, <2>1
<1>6. ASSUME GetObject(g, h, "DC") # Null PROVE GetObject(g, h, "DC") \in Roots(g)
  <2>1. /\ h.index \in UsedIn(g) /\ g.entry[h.index].kind = "DC"
        /\ g.entry[h.index].object = GetObject(g, h, "DC")
    BY <1>1, <1>3, <1>6, GetObjectFacts, KindsAre
  <2>2. QED BY <2>1 DEF Roots
<1>7. QED BY <1>1, <1>3, <1>4, <1>5, <1>6

LEMMA InitOK == Init => IInv
<1> SUFFICES ASSUME Init PROVE IInv
  OBVIOUS
<1> DEFINE none == [kind \in Kinds |-> << >>]
           entries == [i \in Slots |-> Free]
           copies == [i \in Slots |-> NotShared]
<1>1. g = [entry |-> entries, next |-> 1, count |-> 1, shared |-> copies, object |-> none]
  BY DEF Init
<1>2. Free \in EntryT /\ NotShared \in SharedT /\ 1 \in Slots
  BY GdiObjectsAssumption DEF Free, EntryT, NotShared, SharedT, Null, Slots
<1>3. \A i \in Slots : entries[i].used = FALSE /\ copies[i] = NotShared
  BY DEF Free
<1>4. entries \in [Slots -> EntryT] /\ copies \in [Slots -> SharedT]
  BY <1>2
<1>5. \A kind \in Kinds : none[kind] = << >>
  OBVIOUS
<1> HIDE DEF none, entries, copies
<1>6. /\ g.entry = entries /\ g.next = 1 /\ g.count = 1 /\ g.shared = copies
      /\ g.object = none
  BY <1>1
<1>7. none = [kind \in Kinds |-> none[kind]]
  BY DEF none
<1>8. \A T : << >> \in [{} -> T] /\ DOMAIN << >> = {}
  OBVIOUS
<1>9. Shape(g)
  <2>1. \A kind \in Kinds : /\ DOMAIN none[kind] \subseteq Places(kind)
                            /\ none[kind] \in [DOMAIN none[kind] -> TypeOf(kind)]
    BY <1>5, <1>8
  <2>2. QED BY <1>1, <1>2, <1>4, <1>6, <1>7, <2>1 DEF Shape
<1>10. UsedIn(g) = {} /\ Roots(g) = {}
  <2>1. UsedIn(g) = {}
    BY <1>3, <1>6 DEF UsedIn
  <2>2. QED BY <2>1 DEF Roots
<1>11. AllHaveEntries(g)
  BY <1>5, <1>6, <1>8, KindsAre DEF AllHaveEntries
<1>12. \A i \in Slots : Mirrored(g, i)
  BY <1>3, <1>6, <1>10 DEF Mirrored
<1>13. g.count = 1 + Cardinality(UsedIn(g))
  BY <1>6, <1>10, FS_EmptySet
<1>14. Linked(g.object["DC"], Roots(g))
  BY <1>5, <1>6, <1>8, <1>10, KindsAre DEF Linked
<1>15. Good(g)
  BY <1>9, <1>10, <1>11, <1>12, <1>13, <1>14 DEF Good
<1>16. Seen(g, seen) /\ aborted \in BOOLEAN
  BY DEF Init, Seen
<1>17. QED BY <1>15, <1>16 DEF IInv

LEMMA CreatesOK ==
  ASSUME IInv, NoWrap, NEW kind \in Kinds, NEW x \in TypeOf(kind),
         kind = "DC" => x.level = 0 /\ x.saved = Null, Creates(kind, x)
  PROVE  StepOK
<1> DEFINE i == FreeSlot(g)
           h == NewHandle(g, kind)
<1>1. Good(g) /\ Seen(g, seen) /\ g' = Make(g, kind, x) /\ aborted' \in BOOLEAN
      /\ (FreeSlot(g) # 0 => g.entry[FreeSlot(g)].reuse < MaxReuse)
      /\ seen' = IF g' = g THEN seen ELSE seen \cup {h}
  BY DEF IInv, Creates, Runs, MayMake
<1>2. Good(g') /\ AllStacked(g, g') /\ (g' = g \/ Made(g, g', kind, i))
  BY <1>1, MakeOK
<1>3. CASE g' = g
  BY <1>1, <1>2, <1>3 DEF StepOK, IInv
<1>4. CASE g' # g
  <2>1. Made(g, g', kind, i) /\ seen' = seen \cup {h}
    BY <1>1, <1>2, <1>4
  <2>2. /\ i \in Slots /\ g'.entry[i].reuse = g.entry[i].reuse + 1 /\ g'.entry[i].kind = kind
        /\ g'.entry[i].reuse \in 0 .. MaxReuse /\ h = Handle(i, kind, g'.entry[i].reuse)
        /\ \A j \in Slots \ {i} : g'.entry[j] = g.entry[j]
    BY <2>1 DEF Made
  <2>3. g.entry[i].reuse \in Nat
    <3>1. g.entry[i] \in EntryT
      BY <1>1, <2>2 DEF Good, Shape
    <3>2. g.entry[i].reuse \in 0 .. MaxReuse
      BY <3>1 DEF EntryT
    <3>3. QED BY <3>2
  <2> HIDE DEF i, h
  <2>4. ASSUME NEW z \in seen PROVE SeenOK(g', z)
    <3>1. SeenOK(g, z)
      BY <1>1 DEF Seen
    <3>2. z.index \in Slots /\ z.reuse \in Nat /\ z.reuse <= g.entry[z.index].reuse
      BY <3>1, GdiObjectsAssumption DEF SeenOK
    <3>3. CASE z.index = i
      <4>1. z.reuse <= g'.entry[z.index].reuse /\ z.reuse # g'.entry[z.index].reuse
        BY <2>2, <2>3, <3>2, <3>3
      <4>2. QED BY <3>1, <4>1 DEF SeenOK
    <3>4. CASE z.index # i
      <4>1. g'.entry[z.index] = g.entry[z.index]
        BY <2>2, <3>2, <3>4
      <4>2. QED BY <3>1, <4>1 DEF SeenOK
    <3>5. QED BY <3>3, <3>4
  <2>5. SeenOK(g', h)
    <3> DEFINE q == g'.entry[i].reuse
    <3>1. q \in 0 .. MaxReuse /\ h = Handle(i, kind, q)
      BY <2>2
    <3> HIDE DEF q
    <3>2. q % ReuseSpan = q
      <4>1. q \in Nat /\ q < ReuseSpan /\ ReuseSpan \in Nat \ {0}
        BY <3>1, GdiObjectsAssumption DEF NoWrap
      <4>2. QED BY <4>1
    <3>3. /\ h \in [index : Slots, kind : Kinds, reuse : 0 .. ReuseSpan - 1]
          /\ h.index = i /\ h.kind = kind /\ h.reuse = q
      BY <2>2, <3>1, <3>2, HandleIn
    <3>4. q <= q
      BY <3>1
    <3>5. QED BY <2>2, <3>3, <3>4 DEF SeenOK, q
  <2>6. Seen(g', seen')
    BY <2>1, <2>4, <2>5 DEF Seen
  <2>7. QED BY <1>1, <1>2, <2>6 DEF StepOK, IInv
<1>5. QED BY <1>3, <1>4


LEMMA NewDcIn ==
  ASSUME NEW type \in {"DIRECT", "MEMORY"}, NEW color \in Colors
  PROVE  /\ NewDc(type, color) \in TypeOf("DC")
         /\ NewDc(type, color).level = 0 /\ NewDc(type, color).saved = Null
  BY NoHandleIn DEF NewDc, TypeOf, DcT, Null

LEMMA CreateBrushOK ==
  ASSUME IInv, NoWrap, CreateBrush
  PROVE  StepOK
<1>1. [handle |-> NoHandle] \in TypeOf("BRUSH")
  BY NoHandleIn DEF TypeOf, BrushT
<1>2. QED BY <1>1, CreatesOK, KindsAre DEF CreateBrush

LEMMA CreateBitmapOK ==
  ASSUME IInv, NoWrap, CreateBitmap
  PROVE  StepOK
<1>1. [handle |-> NoHandle, hdc |-> NoHandle] \in TypeOf("BITMAP")
  BY NoHandleIn DEF TypeOf, BitmapT
<1>2. QED BY <1>1, CreatesOK, KindsAre DEF CreateBitmap

LEMMA CreateDcOK ==
  ASSUME IInv, NoWrap,
         CreateDisplayDc \/ \E ref \in seen \cup {NoHandle} : CreateCompatibleDc(ref)
  PROVE  StepOK
<1>1. ASSUME NEW type \in {"DIRECT", "MEMORY"}, NEW color \in Colors,
             Creates("DC", NewDc(type, color))
      PROVE  StepOK
  <2> DEFINE x == NewDc(type, color)
  <2>1. x \in TypeOf("DC") /\ x.level = 0 /\ x.saved = Null /\ Creates("DC", x)
    BY <1>1, NewDcIn
  <2> HIDE DEF x
  <2>2. QED BY <2>1, CreatesOK, KindsAre
<1>2. CASE CreateDisplayDc
  BY <1>1, <1>2, GdiObjectsAssumption DEF CreateDisplayDc
<1>3. ASSUME NEW ref \in seen \cup {NoHandle}, CreateCompatibleDc(ref) PROVE StepOK
  <2> DEFINE r == GetObject(g, ref, "DC")
             color == IF r = Null THEN 0 ELSE Dc(g, r).color
  <2>1. Creates("DC", NewDc("MEMORY", color))
    BY <1>3 DEF CreateCompatibleDc
  <2>2. color \in Colors
    <3>1. CASE r = Null
      BY <3>1, GdiObjectsAssumption
    <3>2. CASE r # Null
      <4>1. ref \in seen
        BY <3>2 DEF GetObject
      <4>2. r \in Roots(g)
        BY <3>2, <4>1, SeenFacts
      <4>3. Dc(g, r) \in DcT
        BY <4>2, RootFacts DEF Dc, IInv
      <4>4. Dc(g, r).color \in Colors
        BY <4>3 DEF DcT
      <4>5. QED BY <3>2, <4>4
    <3>3. QED BY <3>1, <3>2
  <2> HIDE DEF color
  <2>3. QED BY <1>1, <2>1, <2>2
<1>4. QED BY <1>2, <1>3

LEMMA AbortsOK ==
  ASSUME IInv, CreateBitmapAborts
  PROVE  StepOK
<1>1. UNCHANGED <<g, seen>> /\ aborted' = TRUE
  BY DEF CreateBitmapAborts
<1>2. AllStacked(g, g)
  BY FineSelf DEF IInv, Fine
<1>3. QED BY <1>1, <1>2 DEF IInv, StepOK

LEMMA DeleteObjectOK ==
  ASSUME IInv, NoWrap, NEW h \in seen, DeleteObject(h)
  PROVE  StepOK
<1> DEFINE e == g.entry[h.index]
<1>1. SeenOK(g, h) /\ h.index \in Slots /\ h # NoHandle /\ Good(g)
  BY SeenFacts DEF IInv
<1>2. e = GetObjectAny(g, h)
  BY <1>1 DEF GetObjectAny
<1>3. /\ UNCHANGED <<seen, aborted>>
      /\ g' = IF e.kind = "DC" THEN DeleteDc(g, h)
              ELSE IF Frees(g, h) THEN FreeObjects(FreeHandle(g, h), e.kind, {e.object})
              ELSE g
  BY <1>2 DEF DeleteObject, Runs
<1>4. CASE e.kind = "DC"
  BY <1>1, <1>3, <1>4, DeleteDcOK, FineStep
<1>5. CASE e.kind # "DC" /\ Frees(g, h)
  <2> DEFINE kind == e.kind
             n == e.object
  <2>1. g' = FreeObjects(FreeHandle(g, h), kind, {n})
    BY <1>3, <1>5
  <2>2. kind = g.entry[h.index].kind /\ n = g.entry[h.index].object /\ kind # "DC"
    BY <1>5
  <2> HIDE DEF kind, n
  <2>3. Fine(g, g')
    BY <1>1, <1>5, <2>1, <2>2, RemoveOK
  <2>4. QED BY <1>3, <2>3, FineStep
<1>6. CASE e.kind # "DC" /\ ~Frees(g, h)
  BY <1>1, <1>3, <1>6, FineSelf, FineStep
<1>7. QED BY <1>4, <1>5, <1>6

LEMMA ReleaseDcOK ==
  ASSUME IInv, NoWrap, NEW h \in seen, ReleaseDc(h)
  PROVE  StepOK
<1>1. g' = DeleteDc(g, h) /\ UNCHANGED <<seen, aborted>>
  BY DEF ReleaseDc, Runs
<1>2. QED BY <1>1, SeenFacts, DeleteDcOK, FineStep DEF IInv

\* What the calls on a DC start from.
LEMMA OnDcFacts ==
  ASSUME IInv, NEW h \in seen, NEW k, OnDc(h, k)
  PROVE  /\ GetObject(g, h, "DC") \in Roots(g) /\ Good(g) /\ h \in HandleT /\ h.index \in Slots
         /\ g' = k /\ UNCHANGED <<seen, aborted>>
         /\ Dc(g, GetObject(g, h, "DC")) \in DcT
<1>1. GetObject(g, h, "DC") # Null /\ g' = k /\ UNCHANGED <<seen, aborted>>
  BY DEF OnDc, Runs
<1>2. GetObject(g, h, "DC") \in Roots(g) /\ Good(g) /\ h \in HandleT /\ h.index \in Slots
  BY <1>1, SeenFacts DEF IInv
<1>3. QED BY <1>1, <1>2, RootFacts DEF Dc

LEMMA SaveDcOK ==
  ASSUME IInv, NEW h \in seen, SaveDc(h)
  PROVE  StepOK
<1> DEFINE n == GetObject(g, h, "DC")
<1>1. n \in Roots(g) /\ Good(g) /\ g' = Save(g, n) /\ UNCHANGED <<seen, aborted>>
  BY OnDcFacts DEF SaveDc
<1> HIDE DEF n
<1>2. QED BY <1>1, SaveOK, FineStep

LEMMA RestoreDcOK ==
  ASSUME IInv, NEW h \in seen, NEW level \in Levels, RestoreDc(h, level)
  PROVE  StepOK
<1> DEFINE n == GetObject(g, h, "DC")
<1>1. /\ n \in Roots(g) /\ Good(g) /\ g' = Restore(g, n, level) /\ UNCHANGED <<seen, aborted>>
      /\ level \in Int
  BY OnDcFacts, GdiObjectsAssumption DEF RestoreDc
<1> HIDE DEF n
<1>2. QED BY <1>1, RestoreOK, FineStep

\* Another attribute of a DC.
LEMMA AttributeOK ==
  ASSUME IInv, NEW n \in Roots(g), NEW x \in DcT, x.handle = Dc(g, n).handle,
         x.level = Dc(g, n).level, x.saved = Dc(g, n).saved,
         g' = Put(g, "DC", n, x), UNCHANGED <<seen, aborted>>
  PROVE  StepOK
  BY SetDcOK, FineStep DEF IInv

LEMMA SetTextColorOK ==
  ASSUME IInv, NEW h \in seen, NEW c \in Colors, SetTextColor(h, c)
  PROVE  StepOK
<1> DEFINE n == GetObject(g, h, "DC")
           y == Dc(g, n)
           x == [y EXCEPT !.color = c]
           H == HandleT
<1>1. n \in Roots(g) /\ g' = Put(g, "DC", n, x) /\ UNCHANGED <<seen, aborted>> /\ y \in DcT
  BY OnDcFacts DEF SetTextColor
<1>2. DcT = [handle : H, type : {"DIRECT", "MEMORY"}, color : Colors, brush : Int,
             bitmap : Int, level : Nat, saved : Int]
  BY DEF DcT
<1>3. x \in DcT /\ x.handle = y.handle /\ x.level = y.level /\ x.saved = y.saved
  <2> HIDE DEF y, H
  <2> QED BY <1>1, <1>2
<1> HIDE DEF x, n
<1>4. QED BY <1>1, <1>3, AttributeOK

LEMMA SelectBrushOK ==
  ASSUME IInv, NEW h \in seen, NEW hbrush \in seen, SelectBrush(h, hbrush)
  PROVE  StepOK
<1> DEFINE n == GetObject(g, h, "DC")
           b == GetObject(g, hbrush, "BRUSH")
           y == Dc(g, n)
           x == [y EXCEPT !.brush = b]
           H == HandleT
<1>1. /\ n \in Roots(g) /\ g' = Put(g, "DC", n, x) /\ UNCHANGED <<seen, aborted>> /\ y \in DcT
      /\ b # Null
  BY OnDcFacts DEF SelectBrush
<1>2. b \in Int
  <2>1. hbrush.index \in Slots /\ Good(g)
    BY SeenFacts DEF IInv
  <2>2. b \in Places("BRUSH")
    BY <1>1, <2>1, GetObjectFacts, KindsAre
  <2>3. QED BY <2>2, PlacesFacts, KindsAre
<1>3. DcT = [handle : H, type : {"DIRECT", "MEMORY"}, color : Colors, brush : Int,
             bitmap : Int, level : Nat, saved : Int]
  BY DEF DcT
<1>4. x \in DcT /\ x.handle = y.handle /\ x.level = y.level /\ x.saved = y.saved
  <2> HIDE DEF y, H, b
  <2> QED BY <1>1, <1>2, <1>3
<1> HIDE DEF x, n
<1>5. QED BY <1>1, <1>4, AttributeOK

LEMMA SelectBitmapOK ==
  ASSUME IInv, NEW h \in seen, NEW hbitmap \in seen, SelectBitmap(h, hbitmap)
  PROVE  StepOK
<1> DEFINE n == GetObject(g, h, "DC")
           b == GetObject(g, hbitmap, "BITMAP")
<1>1. /\ n \in Roots(g) /\ Good(g) /\ h \in HandleT /\ b # Null
      /\ g' = Select(g, n, h, b) /\ UNCHANGED <<seen, aborted>>
  BY OnDcFacts DEF SelectBitmap
<1>2. b \in DOMAIN g.object["BITMAP"]
  BY <1>1, SeenFacts, GetObjectFacts, KindsAre
<1> HIDE DEF n, b
<1>3. QED BY <1>1, <1>2, SelectOK, FineStep

LEMMA NextOK ==
  ASSUME IInv, NoWrap, [Next]_vars
  PROVE  StepOK
<1>1. CASE UNCHANGED vars
  <2>1. UNCHANGED <<seen, aborted>> /\ g' = g /\ Fine(g, g)
    BY <1>1, FineSelf DEF vars, IInv
  <2>2. QED BY <2>1, FineStep
<1>2. CASE Next
  <2>1. CASE CreateDisplayDc \/ \E ref \in seen \cup {NoHandle} : CreateCompatibleDc(ref)
    BY <2>1, CreateDcOK
  <2>2. CASE CreateBrush \/ CreateBitmap \/ CreateBitmapAborts
    BY <2>2, CreateBrushOK, CreateBitmapOK, AbortsOK
  <2>3. ASSUME NEW h \in seen, DeleteObject(h) \/ ReleaseDc(h) \/ SaveDc(h) PROVE StepOK
    BY <2>3, DeleteObjectOK, ReleaseDcOK, SaveDcOK
  <2>4. ASSUME NEW h \in seen, NEW level \in Levels, RestoreDc(h, level) PROVE StepOK
    BY <2>4, RestoreDcOK
  <2>5. ASSUME NEW h \in seen, NEW c \in Colors, SetTextColor(h, c) PROVE StepOK
    BY <2>5, SetTextColorOK
  <2>6. ASSUME NEW h \in seen, NEW b \in seen, SelectBrush(h, b) \/ SelectBitmap(h, b)
        PROVE  StepOK
    BY <2>6, SelectBrushOK, SelectBitmapOK
  <2>7. QED BY <1>2, <2>1, <2>2, <2>3, <2>4, <2>5, <2>6 DEF Next
<1>3. QED BY <1>1, <1>2


---------------------------------------------------------------------------
(* What the invariant says.                                                *)

LEMMA UsedIs == Used = UsedIn(g)
  BY DEF Used, UsedIn

LEMMA HandlesOK ==
  ASSUME IInv
  PROVE  HandlesSound
<1>1. Good(g) /\ Shape(g) /\ Seen(g, seen)
  BY DEF IInv, Good
<1>2. TypeOK
  <2>1. g.next \in Slots /\ g.entry \in [Slots -> EntryT]
        /\ \A kind \in Kinds : DOMAIN g.object[kind] \subseteq Places(kind)
    BY <1>1 DEF Shape
  <2>2. seen \subseteq [index : Slots, kind : Kinds, reuse : 0 .. (ReuseSpan - 1)]
    BY <1>1 DEF Seen, SeenOK
  <2>3. QED BY <2>1, <2>2 DEF TypeOK, EntryT, IInv
<1>3. TableSound
  <2>1. g.count = 1 + Cardinality(Used)
    BY <1>1, UsedIs DEF Good
  <2>2. ASSUME NEW i \in Slots
        PROVE  g.shared[i].kind = IF i \in Used THEN g.entry[i].kind ELSE "NONE"
    <3>1. Mirrored(g, i)
      BY <1>1 DEF Good
    <3>2. QED BY <3>1, UsedIs DEF Mirrored, NotShared
  <2>3. QED BY <2>1, <2>2 DEF TableSound
<1>4. ASSUME NEW h \in seen, GetObject(g, h, h.kind) # Null
      PROVE  LET n == GetObject(g, h, h.kind)
             IN  n \in DOMAIN g.object[h.kind] /\ g.object[h.kind][n].handle = h
  <2> DEFINE kind == h.kind
             n == GetObject(g, h, kind)
  <2>1. h \in [index : Slots, kind : Kinds, reuse : 0 .. ReuseSpan - 1]
    BY <1>1 DEF Seen, SeenOK
  <2>2. h.index \in Slots /\ kind \in Kinds /\ n # Null
    BY <1>4, <2>1
  <2>3. h = [index |-> h.index, kind |-> h.kind, reuse |-> h.reuse]
    BY <2>1
  <2> HIDE DEF kind
  <2>4. /\ n \in DOMAIN g.object[kind]
        /\ g.object[kind][n].handle = Handle(h.index, kind, g.entry[h.index].reuse)
        /\ g.entry[h.index].reuse % ReuseSpan = h.reuse
    BY <1>1, <2>2, GetObjectFacts
  <2>5. Handle(h.index, kind, g.entry[h.index].reuse) = h
    BY <2>3, <2>4 DEF Handle, kind
  <2>6. QED BY <2>4, <2>5 DEF kind
<1>5. HandleNamesOwnObject
  BY <1>4 DEF HandleNamesOwnObject
<1>6. QED BY <1>2, <1>3, <1>5 DEF HandlesSound

\* As many entries as objects they lead to.
LEMMA ImageSize ==
  ASSUME NEW S, IsFiniteSet(S), NEW f, \A x, y \in S : f[x] = f[y] => x = y
  PROVE  /\ IsFiniteSet({f[x] : x \in S})
         /\ Cardinality({f[x] : x \in S}) = Cardinality(S)
<1> DEFINE T == {f[x] : x \in S}
           m == [x \in S |-> f[x]]
<1>1. m \in [S -> T] /\ \A x \in S : m[x] = f[x]
  OBVIOUS
<1>2. m \in Injection(S, T)
  <2>1. IsInjective(m)
    BY <1>1 DEF IsInjective
  <2>2. QED BY <1>1, <2>1 DEF Injection
<1>3. m \in Surjection(S, T)
  BY <1>1 DEF Surjection
<1>4. ExistsBijection(S, T)
  BY <1>2, <1>3 DEF ExistsBijection, Bijection
<1>5. QED BY <1>4, FS_Bijection

UsedOf(kind) == {j \in Used : g.entry[j].kind = kind}

LEMMA OwnedSize ==
  ASSUME IInv, NEW kind \in Kinds
  PROVE  /\ IsFiniteSet(UsedOf(kind)) /\ Cardinality(UsedOf(kind)) \in Nat
         /\ Cardinality(Owned(kind)) = Cardinality(UsedOf(kind))
<1> DEFINE f == [i \in Slots |-> g.entry[i].object]
           S == UsedOf(kind)
<1>1. S \subseteq UsedIn(g) /\ S \subseteq Slots /\ \A i \in S : g.entry[i].kind = kind
  BY UsedIs DEF UsedOf, Used
<1>2. IsFiniteSet(S) /\ Cardinality(S) \in Nat
  BY <1>1, UsedFinite, FS_Subset, FS_CardinalityType
<1>3. \A i \in S : f[i] = g.entry[i].object
  BY <1>1
<1>4. Owned(kind) = {f[i] : i \in S}
  BY <1>3 DEF Owned, UsedOf
<1>5. \A i, j \in S : f[i] = f[j] => i = j
  BY <1>1, <1>3, EntriesApart DEF IInv
<1> HIDE DEF f, S
<1>6. Cardinality({f[i] : i \in S}) = Cardinality(S)
  BY <1>2, <1>5, ImageSize
<1>7. QED BY <1>2, <1>4, <1>6 DEF S

LEMMA ObjectsOK ==
  ASSUME IInv
  PROVE  ObjectsOwned
<1> DEFINE d == g.object["DC"]
           R == Roots(g)
<1>1. Good(g) /\ Linked(d, R)
  BY DEF IInv, Good
<1>2. Cardinality(Used) = Cardinality(Owned("DC")) + Cardinality(Owned("BITMAP"))
                            + Cardinality(Owned("BRUSH"))
  <2> DEFINE A == UsedOf("DC")
             B == UsedOf("BITMAP")
             C == UsedOf("BRUSH")
  <2>1. \A i \in Used : g.entry[i].kind \in Kinds
    BY <1>1, UsedIs DEF Good, Leads
  <2>2. Used = (A \cup B) \cup C
    BY <2>1 DEF UsedOf, Kinds
  <2>3. A \cap B = {} /\ (A \cup B) \cap C = {}
    BY DEF UsedOf
  <2>4. /\ IsFiniteSet(A) /\ IsFiniteSet(B) /\ IsFiniteSet(C)
        /\ Cardinality(A) = Cardinality(Owned("DC"))
        /\ Cardinality(B) = Cardinality(Owned("BITMAP"))
        /\ Cardinality(C) = Cardinality(Owned("BRUSH"))
        /\ Cardinality(A) \in Nat /\ Cardinality(B) \in Nat /\ Cardinality(C) \in Nat
    BY OwnedSize, KindsAre
  <2> HIDE DEF A, B, C
  <2>5. /\ IsFiniteSet(A \cup B)
        /\ Cardinality(A \cup B) = Cardinality(A) + Cardinality(B) - Cardinality(A \cap B)
    BY <2>4, FS_Union
  <2>6. Cardinality((A \cup B) \cup C)
          = Cardinality(A \cup B) + Cardinality(C) - Cardinality((A \cup B) \cap C)
    BY <2>4, <2>5, FS_Union
  <2>7. Cardinality(A \cap B) = 0 /\ Cardinality((A \cup B) \cap C) = 0
    BY <2>3, FS_EmptySet
  <2>8. QED BY <2>2, <2>4, <2>5, <2>6, <2>7
<1>3. ASSUME NEW q \in {"BITMAP", "BRUSH"} PROVE Owned(q) = DOMAIN g.object[q]
  <2>1. \A n \in Owned(q) : n \in DOMAIN g.object[q]
    BY <1>1, UsedIs DEF Owned, Good, Leads
  <2>2. ASSUME NEW n \in DOMAIN g.object[q] PROVE n \in Owned(q)
    <3>1. HasEntry(g, q, n)
      BY <1>1 DEF Good, AllHaveEntries
    <3>2. QED BY <3>1, UsedIs DEF HasEntry, Owned
  <2>3. QED BY <2>1, <2>2
<1>4. Owned("DC") = R
  BY UsedIs DEF Owned, Roots
<1>5. ASSUME NEW s \in DOMAIN d
      PROVE  Cardinality({place \in Owned("DC") \X (0 .. Cardinality(Places("DC"))) :
                            Chain(g, place[1])[place[2]] = s}) = 1
  <2> DEFINE P == {place \in R \X (0 .. Last) : Chain(g, place[1])[place[2]] = s}
  <2>1. s \in DOMAIN d
    OBVIOUS
  <2>2. PICK n \in R : \E i \in 0 .. Last : Chain(g, n)[i] = s
    <3>1. Reached(g, R, s)
      BY <1>1, <2>1, SomeChain
    <3>2. QED BY <3>1 DEF Reached
  <2>3. PICK i \in 0 .. Last : Chain(g, n)[i] = s
    BY <2>2
  <2>4. ASSUME NEW m \in R, NEW j \in 0 .. Last, Chain(g, m)[j] = s PROVE m = n /\ j = i
    <3> DEFINE a == Chain(g, n)
               b == Chain(g, m)
    <3>1. Follows(d, n, a) /\ Follows(d, m, b) /\ a[i] = b[j] /\ a[i] \in DOMAIN d
      BY <2>1, <2>3, <2>4, ChainFollows
    <3> HIDE DEF a, b, d, R
    <3>2. QED BY <1>1, <2>2, <3>1, OneChain
  <2>5. P = {<<n, i>>}
    <3>1. <<n, i>> \in P
      BY <2>2, <2>3
    <3>2. ASSUME NEW p \in P PROVE p = <<n, i>>
      <4>1. /\ p[1] \in R /\ p[2] \in 0 .. Last /\ p = <<p[1], p[2]>>
            /\ Chain(g, p[1])[p[2]] = s
        OBVIOUS
      <4>2. p[1] = n /\ p[2] = i
        BY <2>4, <4>1
      <4>3. QED BY <4>1, <4>2
    <3> HIDE DEF P
    <3>3. QED BY <3>1, <3>2
  <2>6. Cardinality(P) = 1
    BY <2>5, FS_Singleton
  <2>7. P = {place \in Owned("DC") \X (0 .. Cardinality(Places("DC"))) :
               Chain(g, place[1])[place[2]] = s}
    BY <1>4 DEF Last
  <2>8. QED BY <2>6, <2>7
<1>6. ASSUME NEW n \in DOMAIN d PROVE Dc(g, n).level = Depth(n)
  <2> DEFINE at == Chain(g, n)
             v == d[n].level
             S == {i \in 1 .. Last : at[i] # Null}
  <2>1. Level(d, n, at)
    BY <1>1, ChainFollows, ChainLevels
  <2>2. v \in Nat /\ v < Last /\ Last \in Nat
    BY <2>1, LastNat DEF Level
  <2>3. Null \notin DOMAIN d
    BY <1>1, NullPlace DEF Linked
  <2>4. S = 1 .. v
    <3>1. ASSUME NEW i \in 1 .. v PROVE i \in S
      <4>1. i \in 0 .. v /\ i \in 1 .. Last
        BY <2>2
      <4>2. at[i] \in DOMAIN d
        BY <2>1, <4>1 DEF Level
      <4>3. QED BY <2>3, <4>1, <4>2
    <3>2. ASSUME NEW i \in S PROVE i \in 1 .. v
      <4>1. i \in 0 .. Last /\ i \in Int /\ i >= 1
        BY <2>2
      <4>2. ~(i > v)
        BY <2>1, <4>1 DEF Level
      <4>3. QED BY <2>2, <4>1, <4>2
    <3> HIDE DEF S
    <3>3. QED BY <3>1, <3>2
  <2>5. Cardinality(1 .. v) = v
    <3>1. v \in Int /\ 1 \in Int /\ v \in Nat
      BY <2>2
    <3> HIDE DEF v
    <3>2. Cardinality(1 .. v) = IF 1 > v THEN 0 ELSE v - 1 + 1
      BY <3>1, FS_Interval
    <3>3. QED BY <3>1, <3>2
  <2>6. Depth(n) = Cardinality(S)
    BY DEF Depth, Last
  <2>7. QED BY <2>4, <2>5, <2>6 DEF Dc
<1>7. QED BY <1>2, <1>3, <1>5, <1>6 DEF ObjectsOwned

---------------------------------------------------------------------------
(* The theorems.                                                           *)

LEMMA Invariant ==
  ASSUME NoWrap
  PROVE  Spec => []IInv
<1>1. IInv /\ [Next]_vars => IInv'
  BY NextOK DEF StepOK
<1>2. QED BY <1>1, InitOK, PTL DEF Spec

\* As long as no entry is given out often enough for its reuse count to come
\* round (gdi_alloc_handle), the table, the guest's copy of it and the handles
\* the guest has kept agree, for every size of the table and of the pools.
THEOREM HandlesAlwaysSound ==
  ASSUME NoWrap
  PROVE  Spec => []HandlesSound
<1>1. IInv => HandlesSound
  BY HandlesOK
<1>2. QED BY <1>1, Invariant, PTL

\* Every object in use has exactly one owner, an entry or a place in the chain
\* of one DC, whatever gdi_save_dc, gdi_restore_dc and the deletions did.
THEOREM ObjectsAlwaysOwned ==
  ASSUME NoWrap
  PROVE  Spec => []ObjectsOwned
<1>1. IInv => ObjectsOwned
  BY ObjectsOK
<1>2. QED BY <1>1, Invariant, PTL

\* SaveDC and RestoreDC work on each DC as on a stack, and no other call
\* changes what a DC has saved.
THEOREM SaveRestoreAlwaysStack ==
  ASSUME NoWrap
  PROVE  Spec => SaveRestoreIsStack
<1> DEFINE A(h) == LET n == GetObject(g, h, "DC")
                       was == Kept(g, n)
                       is == Kept(g', n)
                   IN n # Null /\ GetObject(g', h, "DC") = n =>
                        \/ is = was
                        \/ is = Append(was, Look(g, n)) /\ Look(g', n) = Look(g, n)
                        \/ \E j \in DOMAIN was :
                             is = SubSeq(was, 1, j - 1) /\ Look(g', n) = was[j]
<1>1. ASSUME IInv, [Next]_vars, NEW h \in seen PROVE A(h)
  <2>1. IInv' /\ AllStacked(g, g')
    BY <1>1, NextOK DEF StepOK
  <2> DEFINE n == GetObject(g, h, "DC")
  <2>2. SUFFICES ASSUME n # Null, GetObject(g', h, "DC") = n PROVE Stacked(g, g', n)
    BY DEF Stacked
  <2>3. n \in Roots(g) /\ h.index \in Slots
    BY <1>1, <2>2, SeenFacts
  <2>4. n \in Roots(g')
    <3>1. Good(g')
      BY <2>1 DEF IInv
    <3>2. /\ h.index \in UsedIn(g') /\ g'.entry[h.index].kind = "DC"
          /\ g'.entry[h.index].object = n
      BY <2>2, <2>3, <3>1, GetObjectFacts, KindsAre
    <3>3. QED BY <3>2 DEF Roots
  <2>5. QED BY <2>1, <2>3, <2>4 DEF AllStacked
<1>2. IInv /\ [Next]_vars => [\A h \in seen : A(h)]_vars
  BY <1>1
<1>3. Spec => [][\A h \in seen : A(h)]_vars
  BY <1>2, Invariant, PTL DEF Spec
<1>4. QED BY <1>3 DEF SaveRestoreIsStack

=============================================================================
