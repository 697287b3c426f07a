------------------------- MODULE UserHandlesProofs -------------------------
(***************************************************************************)
(* Proofs about UserHandles for every size of the table, every span of the *)
(* generation counter and every set of objects.                            *)
(***************************************************************************)
EXTENDS UserHandles, SequenceTheorems, FiniteSetTheorems, TLAPS

---------------------------------------------------------------------------
(* The free list, with its length in the open.                             *)

Threaded(t, n, q) ==
  /\ \A i \in FreeSlots(t) : \E k \in 1..n : q[k] = i
  /\ \A k \in 1..n : q[k] \in FreeSlots(t)
  /\ \A k, l \in 1..n : q[k] = q[l] => k = l
  /\ t.first = IF n = 0 THEN EndOfList ELSE q[1]
  /\ \A k \in 1..n : t.ptr[q[k]] = IF k = n THEN EndOfList ELSE q[k + 1]

\* A list of free entries is a function on 1..n.
LEMMA ListsThreaded ==
  ASSUME NEW t, NEW n \in Nat, NEW q \in [1..n -> Slots]
  PROVE  Lists(t, q) <=> Threaded(t, n, q)
<1>1. q \in Seq(Slots) /\ Len(q) = n /\ DOMAIN q = 1..n
  OBVIOUS
<1>2. q = <<>> <=> n = 0
  BY <1>1
<1>3. QED BY <1>1, <1>2 DEF Lists, Threaded

Linked(t) == \E n \in Nat : \E q \in [1..n -> Slots] : Threaded(t, n, q)

\* No entry is linked twice, so there are no more than the table has.
LEMMA ListFits ==
  ASSUME NEW n \in Nat, NEW q \in [1..n -> Slots],
         \A k, l \in 1..n : q[k] = q[l] => k = l
  PROVE  n \in 0..MaxHandles
<1>1. q \in Injection(1..n, Slots)
  BY DEF Injection, IsInjective
<1>2. IsFiniteSet(Slots) /\ Cardinality(Slots) = MaxHandles
  BY FS_Interval, HandleTableAssumption DEF Slots
<1>3. Cardinality(1..n) <= Cardinality(Slots)
  BY <1>1, <1>2, FS_Injection
<1>4. Cardinality(1..n) = n
  BY FS_Interval
<1>5. QED BY <1>2, <1>3, <1>4, HandleTableAssumption

---------------------------------------------------------------------------
(* user_handle_alloc.                                                      *)

\* What it does to each field.
Allocated(t, u, x) ==
  /\ u.type = [t.type EXCEPT ![t.first] = "WINDOW"]
  /\ u.gen = t.gen
  /\ u.ptr = [t.ptr EXCEPT ![t.first] = x]
  /\ u.first = t.ptr[t.first]
  /\ u.count = t.count + 1

LEMMA AllocFields ==
  ASSUME NEW t \in Tables, t.first \in Slots, NEW x \in Objects
  PROVE  Allocated(t, Alloc(t, x, "WINDOW"), x)
BY DEF Tables, Alloc, Allocated

\* The head of a list that is not empty is free, and links the next entry.
LEMMA HeadIsFree ==
  ASSUME NEW t \in Tables, Linked(t), t.first \in Slots
  PROVE  /\ t.type[t.first] = "FREE"
         /\ t.ptr[t.first] \in EndOfList..(MaxHandles - 1)
<1>0. PICK n \in Nat : \E q \in [1..n -> Slots] : Threaded(t, n, q)
  BY DEF Linked
<1>1. PICK q \in [1..n -> Slots] : Threaded(t, n, q)
  BY <1>0
<1>2. n # 0 /\ t.first = q[1]
  BY <1>1 DEF Threaded, EndOfList, Slots
<1>3. QED
  BY <1>1, <1>2, HandleTableAssumption DEF Threaded, FreeSlots, EndOfList, Slots

LEMMA AllocLinked ==
  ASSUME NEW t \in Tables, NEW u \in Tables, NEW x \in Objects,
         Linked(t), t.first \in Slots, Allocated(t, u, x)
  PROVE  Linked(u)
<1>0. PICK n \in Nat : \E q \in [1..n -> Slots] : Threaded(t, n, q)
  BY DEF Linked
<1>1. PICK q \in [1..n -> Slots] : Threaded(t, n, q)
  BY <1>0
<1>2. n - 1 \in Nat /\ t.first = q[1] /\ 1 \in 1..n
  BY <1>1 DEF Threaded, EndOfList, Slots
<1> DEFINE r == [k \in 1..(n - 1) |-> q[k + 1]]
<1>3. r \in [1..(n - 1) -> Slots]
  BY <1>2
<1>4. \A k \in 1..(n - 1) : k + 1 \in 1..n /\ r[k] = q[k + 1]
  BY <1>2
<1> HIDE DEF r
<1>5. FreeSlots(u) = FreeSlots(t) \ {q[1]}
  BY <1>2 DEF FreeSlots, Allocated, Tables
<1>6. \A i \in FreeSlots(u) : \E k \in 1..(n - 1) : r[k] = i
  <2>1. SUFFICES ASSUME NEW i \in FreeSlots(u)
                 PROVE  \E k \in 1..(n - 1) : r[k] = i
    OBVIOUS
  <2>2. PICK k \in 1..n : q[k] = i
    BY <1>1, <1>5 DEF Threaded
  <2>3. k # 1
    BY <1>5, <2>2
  <2>4. k - 1 \in 1..(n - 1) /\ (k - 1) + 1 = k
    BY <2>3
  <2>5. QED BY <1>4, <2>2, <2>4
<1>7. \A k \in 1..(n - 1) : r[k] \in FreeSlots(u)
  BY <1>1, <1>2, <1>4, <1>5 DEF Threaded
<1>8. \A k, l \in 1..(n - 1) : r[k] = r[l] => k = l
  BY <1>1, <1>4 DEF Threaded
<1>9. u.first = IF n - 1 = 0 THEN EndOfList ELSE r[1]
  BY <1>1, <1>2, <1>4 DEF Threaded, Allocated
<1>10. ASSUME NEW k \in 1..(n - 1)
       PROVE  u.ptr[r[k]] = IF k = n - 1 THEN EndOfList ELSE r[k + 1]
  <2>1. r[k] # q[1] /\ r[k] \in Slots
    BY <1>3, <1>5, <1>7
  <2>2. u.ptr[r[k]] = t.ptr[q[k + 1]]
    BY <1>2, <1>4, <2>1 DEF Allocated, Tables
  <2>3. t.ptr[q[k + 1]] = IF k + 1 = n THEN EndOfList ELSE q[(k + 1) + 1]
    BY <1>1, <1>4 DEF Threaded
  <2>4. CASE k = n - 1
    BY <2>2, <2>3, <2>4
  <2>5. CASE k # n - 1
    <3>1. k + 1 \in 1..(n - 1) /\ k + 1 # n
      BY <2>5
    <3>2. QED BY <1>4, <2>2, <2>3, <2>5, <3>1
  <2>6. QED BY <2>4, <2>5
<1>11. Threaded(u, n - 1, r)
  BY <1>6, <1>7, <1>8, <1>9, <1>10 DEF Threaded
<1>12. QED BY <1>2, <1>3, <1>11 DEF Linked

---------------------------------------------------------------------------
(* user_handle_free, for the handle of an entry in use.                    *)

Freed(t, u, i) ==
  /\ u.type = [t.type EXCEPT ![i] = "FREE"]
  /\ u.gen = [t.gen EXCEPT ![i] = (@ + 1) % GenSpan]
  /\ u.ptr = [t.ptr EXCEPT ![i] = t.first]
  /\ u.first = i
  /\ u.count = t.count - 1

LEMMA FreeFields ==
  ASSUME NEW t \in Tables, NEW h \in AllHandles, h.index # 0,
         t.gen[h.index] = h.gen, t.type[h.index] = "WINDOW"
  PROVE  Freed(t, Free(t, h), h.index)
<1>1. h # NoHandle /\ IsValid(t, h)
  BY DEF NoHandle, IsValid
<1>2. h.index \in Slots
  BY DEF AllHandles
<1>3. QED BY <1>1, <1>2 DEF Tables, Free, Freed

LEMMA FreeLinked ==
  ASSUME NEW t \in Tables, NEW u \in Tables, NEW i \in Slots,
         Linked(t), t.type[i] = "WINDOW", Freed(t, u, i)
  PROVE  Linked(u)
<1>0. PICK n \in Nat : \E q \in [1..n -> Slots] : Threaded(t, n, q)
  BY DEF Linked
<1>1. PICK q \in [1..n -> Slots] : Threaded(t, n, q)
  BY <1>0
<1> DEFINE r == [k \in 1..(n + 1) |-> IF k = 1 THEN i ELSE q[k - 1]]
<1>2. r \in [1..(n + 1) -> Slots]
  OBVIOUS
<1>3. \A k \in 1..(n + 1) : r[k] = IF k = 1 THEN i ELSE q[k - 1]
  OBVIOUS
<1>4. r[1] = i /\ \A k \in 1..n : k + 1 \in 1..(n + 1) /\ r[k + 1] = q[k]
  BY <1>3
<1> HIDE DEF r
<1>5. FreeSlots(u) = FreeSlots(t) \cup {i}
  BY DEF FreeSlots, Freed, Tables
<1>6. i \notin FreeSlots(t)
  BY DEF FreeSlots
<1>7. \A k \in 1..n : q[k] # i
  BY <1>1, <1>6 DEF Threaded
<1>8. ASSUME NEW j \in FreeSlots(u)
      PROVE  \E k \in 1..(n + 1) : r[k] = j
  <2>1. CASE j = i
    BY <1>4, <2>1
  <2>2. CASE j # i
    <3>1. PICK k \in 1..n : q[k] = j
      BY <1>1, <1>5, <2>2 DEF Threaded
    <3>2. QED BY <1>4, <3>1
  <2>3. QED BY <2>1, <2>2
<1>9. ASSUME NEW k \in 1..(n + 1)
      PROVE  r[k] \in FreeSlots(u)
  <2>1. CASE k = 1
    BY <1>4, <1>5, <2>1
  <2>2. CASE k # 1
    <3>1. k - 1 \in 1..n /\ r[k] = q[k - 1]
      BY <1>3, <2>2
    <3>2. QED BY <1>1, <1>5, <3>1 DEF Threaded
  <2>3. QED BY <2>1, <2>2
<1>10. ASSUME NEW k \in 1..(n + 1), NEW l \in 1..(n + 1), r[k] = r[l]
       PROVE  k = l
  <2>1. k # 1 => k - 1 \in 1..n /\ r[k] = q[k - 1]
    BY <1>3
  <2>2. l # 1 => l - 1 \in 1..n /\ r[l] = q[l - 1]
    BY <1>3
  <2>3. CASE k = 1 \/ l = 1
    BY <1>4, <1>7, <1>10, <2>1, <2>2, <2>3
  <2>4. CASE k # 1 /\ l # 1
    <3>1. k - 1 = l - 1
      BY <1>1, <1>10, <2>1, <2>2, <2>4 DEF Threaded
    <3>2. QED BY <3>1
  <2>5. QED BY <2>3, <2>4
<1>11. ASSUME NEW k \in 1..(n + 1)
       PROVE  u.ptr[r[k]] = IF k = n + 1 THEN EndOfList ELSE r[k + 1]
  <2>1. CASE k = 1
    <3>1. u.ptr[r[k]] = t.first
      BY <1>4, <2>1 DEF Freed, Tables
    <3>2. CASE n = 0
      BY <1>1, <2>1, <3>1, <3>2 DEF Threaded
    <3>3. CASE n # 0
      <4>1. 1 \in 1..n /\ k # n + 1
        BY <2>1, <3>3
      <4>2. t.first = q[1]
        BY <1>1, <3>3 DEF Threaded
      <4>3. QED BY <1>4, <2>1, <3>1, <4>1, <4>2
    <3>4. QED BY <3>2, <3>3
  <2>2. CASE k # 1
    <3> DEFINE m == k - 1
    <3>1. m \in 1..n /\ r[k] = q[m] /\ m + 1 = k
      BY <1>3, <2>2
    <3> HIDE DEF m
    <3>2. u.ptr[r[k]] = t.ptr[q[m]]
      BY <1>7, <3>1 DEF Freed, Tables
    <3>3. t.ptr[q[m]] = IF m = n THEN EndOfList ELSE q[m + 1]
      BY <1>1, <3>1 DEF Threaded
    <3>4. CASE m = n
      BY <3>1, <3>2, <3>3, <3>4
    <3>5. CASE m # n
      <4>1. k \in 1..n /\ k # n + 1
        BY <3>1, <3>5
      <4>2. r[k + 1] = q[k]
        BY <1>4, <4>1
      <4>3. QED BY <3>1, <3>2, <3>3, <3>5, <4>1, <4>2
    <3>6. QED BY <3>4, <3>5
  <2>3. QED BY <2>1, <2>2
<1>12. u.first = IF n + 1 = 0 THEN EndOfList ELSE r[1]
  BY <1>4 DEF Freed
<1>13. Threaded(u, n + 1, r)
  BY <1>8, <1>9, <1>10, <1>11, <1>12 DEF Threaded
<1>14. n + 1 \in Nat
  OBVIOUS
<1>15. QED BY <1>2, <1>13, <1>14 DEF Linked

---------------------------------------------------------------------------
(* handle_count.                                                           *)

Counted(t) == t.count = Cardinality(Slots \ FreeSlots(t))

LEMMA SlotsFinite ==
  /\ IsFiniteSet(Slots) /\ Cardinality(Slots) = MaxHandles
  /\ \A S \in SUBSET Slots : IsFiniteSet(S) /\ Cardinality(S) \in 0..MaxHandles
<1>1. IsFiniteSet(Slots) /\ Cardinality(Slots) = MaxHandles
  BY FS_Interval, HandleTableAssumption DEF Slots
<1>2. ASSUME NEW S \in SUBSET Slots
      PROVE  IsFiniteSet(S) /\ Cardinality(S) \in 0..MaxHandles
  <2>1. IsFiniteSet(S) /\ Cardinality(S) <= Cardinality(Slots)
    BY <1>1, FS_Subset
  <2>2. Cardinality(S) \in Nat
    BY <2>1, FS_CardinalityType
  <2>3. QED BY <1>1, <2>1, <2>2, HandleTableAssumption
<1>3. QED BY <1>1, <1>2

LEMMA AllocCounted ==
  ASSUME NEW t \in Tables, NEW u, NEW x, Counted(t), t.first \in Slots,
         t.type[t.first] = "FREE", Allocated(t, u, x)
  PROVE  Counted(u) /\ u.count \in 0..MaxHandles
<1> DEFINE S == Slots \ FreeSlots(t)
           T == Slots \ FreeSlots(u)
<1>1. T = S \cup {t.first} /\ t.first \notin S
  BY DEF FreeSlots, Allocated, Tables
<1>2. S \in SUBSET Slots /\ T \in SUBSET Slots
  OBVIOUS
<1> HIDE DEF S, T
<1>3. Cardinality(T) = Cardinality(S) + 1
  BY <1>1, <1>2, SlotsFinite, FS_AddElement
<1>4. u.count = Cardinality(T)
  BY <1>3 DEF Counted, Allocated, S
<1>5. QED BY <1>2, <1>4, SlotsFinite DEF Counted, T

LEMMA FreeCounted ==
  ASSUME NEW t \in Tables, NEW u, NEW i \in Slots, Counted(t),
         t.type[i] = "WINDOW", Freed(t, u, i)
  PROVE  Counted(u) /\ u.count \in 0..MaxHandles
<1> DEFINE S == Slots \ FreeSlots(t)
           T == Slots \ FreeSlots(u)
<1>1. T = S \ {i} /\ i \in S
  BY DEF FreeSlots, Freed, Tables
<1>2. S \in SUBSET Slots /\ T \in SUBSET Slots
  OBVIOUS
<1> HIDE DEF S, T
<1>3. Cardinality(T) = Cardinality(S) - 1
  BY <1>1, <1>2, SlotsFinite, FS_RemoveElement
<1>4. u.count = Cardinality(T)
  BY <1>3 DEF Counted, Freed, S
<1>5. QED BY <1>2, <1>4, SlotsFinite DEF Counted, T

---------------------------------------------------------------------------
(***************************************************************************)
(* The inductive invariant.  That the table is sound by itself does not    *)
(* say that a free is of an entry in use: for that, the handles given out  *)
(* must be exactly the entries in use, with their present generations.     *)
(***************************************************************************)
TableOK(t) == t \in Tables /\ t.type[0] = "WINDOW" /\ Linked(t) /\ Counted(t)

\* h names the entry in use that holds x.
Names(t, h, x) ==
  /\ h.index # 0
  /\ t.type[h.index] = "WINDOW"
  /\ t.gen[h.index] = h.gen
  /\ t.ptr[h.index] = x

HandleOf(t, i) == [index |-> i, gen |-> t.gen[i]]

HeldOK ==
  /\ DOMAIN held \subseteq seen
  /\ \A h \in DOMAIN held : held[h] \in Objects /\ Names(table, h, held[h])
  /\ \A i \in Slots \ {0} :
       table.type[i] = "WINDOW" => HandleOf(table, i) \in DOMAIN held

SeenOK == seen \subseteq AllHandles /\ \A h \in seen : h.index # 0

IInv == TableOK(table) /\ HeldOK /\ SeenOK /\ frees \in [Slots -> 0..MaxFrees]

LEMMA AllocTable ==
  ASSUME NEW t, TableOK(t), t.first \in Slots, NEW x \in Objects
  PROVE  /\ t.type[t.first] = "FREE" /\ t.first # 0
         /\ Allocated(t, Alloc(t, x, "WINDOW"), x)
         /\ TableOK(Alloc(t, x, "WINDOW"))
<1> DEFINE u == Alloc(t, x, "WINDOW")
<1>1. t \in Tables /\ t.type[0] = "WINDOW" /\ Linked(t) /\ Counted(t)
  BY DEF TableOK
<1>2. Allocated(t, u, x)
  BY <1>1, AllocFields
<1>3. t.type[t.first] = "FREE" /\ t.ptr[t.first] \in EndOfList..(MaxHandles - 1)
  BY <1>1, HeadIsFree
<1>4. Counted(u) /\ u.count \in 0..MaxHandles
  BY <1>1, <1>2, <1>3, AllocCounted
<1>5. u = [type |-> u.type, gen |-> u.gen, ptr |-> u.ptr, first |-> u.first,
           count |-> u.count]
  BY <1>1 DEF Alloc, Tables
<1>6. u \in Tables
  <2>1. /\ u.type \in [Slots -> {"FREE", "WINDOW"}]
        /\ u.gen \in [Slots -> 0..(GenSpan - 1)]
        /\ u.ptr \in [Slots -> Objects \cup {Nothing} \cup (EndOfList..(MaxHandles - 1))]
        /\ u.first \in EndOfList..(MaxHandles - 1)
    BY <1>1, <1>2, <1>3 DEF Allocated, Tables
  <2> HIDE DEF u
  <2>2. QED BY <1>4, <1>5, <2>1 DEF Tables
<1>7. Linked(u)
  BY <1>1, <1>2, <1>6, AllocLinked
<1>8. u.type[0] = "WINDOW" /\ t.first # 0
  BY <1>1, <1>2, <1>3, HandleTableAssumption DEF Allocated, Tables, Slots
<1>9. QED BY <1>2, <1>3, <1>4, <1>6, <1>7, <1>8 DEF TableOK

LEMMA FreeTable ==
  ASSUME NEW t, TableOK(t), NEW h \in AllHandles, h.index # 0,
         t.gen[h.index] = h.gen, t.type[h.index] = "WINDOW"
  PROVE  /\ Freed(t, Free(t, h), h.index)
         /\ TableOK(Free(t, h))
<1> DEFINE u == Free(t, h)
           i == h.index
<1>1. t \in Tables /\ t.type[0] = "WINDOW" /\ Linked(t) /\ Counted(t)
  BY DEF TableOK
<1>2. Freed(t, u, i)
  BY <1>1, FreeFields
<1>3. i \in Slots
  BY DEF AllHandles
<1>4. Counted(u) /\ u.count \in 0..MaxHandles
  BY <1>1, <1>2, <1>3, FreeCounted
<1>5. u = [type |-> u.type, gen |-> u.gen, ptr |-> u.ptr, first |-> u.first,
           count |-> u.count]
  BY <1>1 DEF Free, Tables
<1>6. u \in Tables
  <2>1. (t.gen[i] + 1) % GenSpan \in 0..(GenSpan - 1)
    BY <1>1, <1>3, HandleTableAssumption DEF Tables
  <2>2. /\ u.type \in [Slots -> {"FREE", "WINDOW"}]
        /\ u.ptr \in [Slots -> Objects \cup {Nothing} \cup (EndOfList..(MaxHandles - 1))]
        /\ u.first \in EndOfList..(MaxHandles - 1)
    BY <1>1, <1>2, <1>3 DEF Freed, Tables, Slots, EndOfList
  <2>3. u.gen \in [Slots -> 0..(GenSpan - 1)]
    BY <1>1, <1>2, <1>3, <2>1 DEF Freed, Tables
  <2> HIDE DEF u
  <2>4. QED BY <1>4, <1>5, <2>2, <2>3 DEF Tables
<1>7. Linked(u)
  BY <1>1, <1>2, <1>3, <1>6, FreeLinked
<1>8. u.type[0] = "WINDOW"
  BY <1>1, <1>2, HandleTableAssumption DEF Freed, Tables, Slots
<1>9. QED BY <1>2, <1>4, <1>6, <1>7, <1>8 DEF TableOK

LEMMA AllocIInv ==
  ASSUME IInv, NEW x \in Objects, AllocObject(x)
  PROVE  IInv'
<1>1. CASE table.first \notin Slots
  <2>1. AllocHandle(table) = NoHandle /\ Alloc(table, x, "WINDOW") = table
    BY <1>1 DEF AllocHandle, Alloc
  <2>2. UNCHANGED <<table, held, seen, frees>>
    BY <2>1 DEF AllocObject
  <2>3. QED BY <2>2 DEF IInv, HeldOK, SeenOK
<1>2. CASE table.first \in Slots
  <2> DEFINE i == table.first
             h == HandleOf(table, i)
  <2>1. /\ table.type[i] = "FREE" /\ i # 0
        /\ Allocated(table, Alloc(table, x, "WINDOW"), x)
        /\ TableOK(Alloc(table, x, "WINDOW"))
    BY <1>2, AllocTable DEF IInv
  <2>2. table \in Tables
    BY DEF IInv, TableOK
  <2>3. h \in AllHandles /\ h.index = i /\ h.gen = table.gen[i] /\ h # NoHandle
    BY <1>2, <2>1, <2>2 DEF AllHandles, Tables, NoHandle, HandleOf
  <2>4. AllocHandle(table) = h
    BY <1>2 DEF AllocHandle, HandleOf
  <2>5. h \notin DOMAIN held
    BY <2>1, <2>3 DEF IInv, HeldOK, Names
  <2> HIDE DEF h
  <2>6. /\ table' = Alloc(table, x, "WINDOW") /\ frees' = frees
        /\ held' = [k \in DOMAIN held \cup {h} |-> IF k = h THEN x ELSE held[k]]
        /\ seen' = seen \cup {h}
    BY <2>3, <2>4 DEF AllocObject
  <2>7. TableOK(table') /\ Allocated(table, table', x)
    BY <2>1, <2>6
  <2>8. /\ DOMAIN held' = DOMAIN held \cup {h}
        /\ held'[h] = x
        /\ \A k \in DOMAIN held : held'[k] = held[k]
    BY <2>5, <2>6
  <2>9. \A k \in DOMAIN held : k \in AllHandles /\ k.index \in Slots /\ k.index # i
    BY <2>1 DEF IInv, HeldOK, SeenOK, Names, AllHandles
  <2>10. ASSUME NEW k \in DOMAIN held'
         PROVE  held'[k] \in Objects /\ Names(table', k, held'[k])
    <3>1. CASE k = h
      BY <1>2, <2>1, <2>2, <2>3, <2>7, <2>8, <3>1 DEF Names, Allocated, Tables
    <3>2. CASE k \in DOMAIN held
      BY <1>2, <2>2, <2>7, <2>8, <2>9, <3>2 DEF Names, Allocated, Tables, IInv, HeldOK
    <3>3. QED BY <2>8, <3>1, <3>2
  <2>11. ASSUME NEW k \in Slots \ {0}, table'.type[k] = "WINDOW"
         PROVE  HandleOf(table', k) \in DOMAIN held'
    <3>1. HandleOf(table', k) = HandleOf(table, k)
      BY <2>7 DEF Allocated, HandleOf
    <3>2. CASE k = i
      BY <2>8, <3>1, <3>2 DEF h
    <3>3. CASE k # i
      <4>1. table.type[k] = "WINDOW"
        BY <1>2, <2>2, <2>7, <2>11, <3>3 DEF Allocated, Tables
      <4>2. QED BY <2>8, <3>1, <4>1 DEF IInv, HeldOK
    <3>4. QED BY <3>2, <3>3
  <2>12. HeldOK'
    BY <2>6, <2>8, <2>10, <2>11 DEF HeldOK, IInv
  <2>13. SeenOK'
    BY <2>1, <2>3, <2>6 DEF SeenOK, IInv
  <2>14. QED BY <2>6, <2>7, <2>12, <2>13 DEF IInv
<1>3. QED BY <1>1, <1>2

LEMMA FreeIInv ==
  ASSUME IInv, NEW h \in DOMAIN held, FreeHeld(h)
  PROVE  IInv'
<1> DEFINE i == h.index
<1>1. table \in Tables /\ h \in AllHandles /\ i \in Slots /\ Names(table, h, held[h])
  BY DEF IInv, TableOK, HeldOK, SeenOK, AllHandles
<1>2. Freed(table, Free(table, h), i) /\ TableOK(Free(table, h))
  BY <1>1, FreeTable DEF IInv, Names
<1>3. /\ table' = Free(table, h) /\ seen' = seen
      /\ held' = Restrict(held, DOMAIN held \ {h})
      /\ frees[i] < MaxFrees /\ frees' = [frees EXCEPT ![i] = @ + 1]
  BY DEF FreeHeld
<1>4. TableOK(table') /\ Freed(table, table', i)
  BY <1>2, <1>3
<1>5. /\ DOMAIN held' = DOMAIN held \ {h}
      /\ \A k \in DOMAIN held \ {h} : held'[k] = held[k]
  BY <1>3 DEF Restrict
<1>6. ASSUME NEW k \in DOMAIN held \ {h}
      PROVE  k \in AllHandles /\ k.index \in Slots /\ k.index # i
  <2>1. k \in AllHandles /\ k.gen = table.gen[k.index]
    BY DEF IInv, HeldOK, SeenOK, Names
  <2>2. h.gen = table.gen[i]
    BY <1>1 DEF Names
  <2>3. k = [index |-> k.index, gen |-> k.gen] /\ h = [index |-> h.index, gen |-> h.gen]
    BY <1>1, <2>1 DEF AllHandles
  <2>4. QED BY <2>1, <2>2, <2>3 DEF AllHandles
<1>7. ASSUME NEW k \in DOMAIN held'
      PROVE  held'[k] \in Objects /\ Names(table', k, held'[k])
  BY <1>1, <1>4, <1>5, <1>6 DEF Names, Freed, Tables, IInv, HeldOK
<1>8. ASSUME NEW k \in Slots \ {0}, table'.type[k] = "WINDOW"
      PROVE  HandleOf(table', k) \in DOMAIN held'
  <2>1. k # i
    BY <1>1, <1>4, <1>8 DEF Freed, Tables
  <2>2. table.type[k] = "WINDOW" /\ table'.gen[k] = table.gen[k]
    BY <1>1, <1>4, <1>8, <2>1 DEF Freed, Tables
  <2>3. HandleOf(table', k) = HandleOf(table, k) /\ HandleOf(table, k).index = k
    BY <2>2 DEF HandleOf
  <2>4. HandleOf(table, k) \in DOMAIN held
    BY <2>2 DEF IInv, HeldOK
  <2>5. QED BY <1>5, <2>1, <2>3, <2>4
<1>9. HeldOK'
  BY <1>3, <1>5, <1>7, <1>8 DEF HeldOK, IInv
<1>10. SeenOK'
  BY <1>3 DEF SeenOK, IInv
<1>11. frees' \in [Slots -> 0..MaxFrees]
  BY <1>1, <1>3, UserHandlesAssumption DEF IInv
<1>12. QED BY <1>4, <1>9, <1>10, <1>11 DEF IInv

LEMMA InitIInv == Init => IInv
<1> SUFFICES ASSUME Init PROVE IInv
  OBVIOUS
<1> DEFINE n == MaxHandles - 1
           q == [k \in 1..n |-> k]
<1>1. table = NewTable /\ DOMAIN held = {} /\ seen = {}
  BY DEF Init
<1>2. n \in Nat /\ q \in [1..n -> Slots] /\ \A k \in 1..n : q[k] = k
  BY HandleTableAssumption DEF Slots
<1>3. table \in Tables /\ table.type[0] = "WINDOW"
  BY <1>1, HandleTableAssumption DEF NewTable, Tables, Slots, EndOfList
<1>4. FreeSlots(table) = 1..n
  BY <1>1, HandleTableAssumption DEF FreeSlots, NewTable, Slots
<1>5. /\ table.first = 1
      /\ \A k \in 1..n : table.ptr[k] = IF k = n THEN EndOfList ELSE k + 1
  BY <1>1, HandleTableAssumption DEF NewTable, Slots
<1> HIDE DEF q
<1>6. Threaded(table, n, q)
  BY <1>2, <1>4, <1>5, HandleTableAssumption DEF Threaded
<1>7. Linked(table)
  BY <1>2, <1>6 DEF Linked
<1>8. Counted(table)
  <2>1. Slots \ FreeSlots(table) = {0}
    BY <1>4, HandleTableAssumption DEF Slots
  <2>2. QED BY <1>1, <2>1, FS_Singleton DEF Counted, NewTable
<1>9. HeldOK
  BY <1>1, HandleTableAssumption DEF HeldOK, NewTable, Slots
<1>10. SeenOK
  BY <1>1 DEF SeenOK
<1>11. frees \in [Slots -> 0..MaxFrees]
  BY UserHandlesAssumption DEF Init
<1>12. QED BY <1>3, <1>7, <1>8, <1>9, <1>10, <1>11 DEF IInv, TableOK

LEMMA IInvImplies == IInv => TypeOK /\ FreeListSound /\ CountSound
<1> SUFFICES ASSUME IInv PROVE TypeOK /\ FreeListSound /\ CountSound
  OBVIOUS
<1>1. TypeOK
  BY DEF IInv, TableOK, SeenOK, TypeOK
<1>2. FreeListSound
  <2>1. PICK n \in Nat : \E q \in [1..n -> Slots] : Threaded(table, n, q)
    BY DEF IInv, TableOK, Linked
  <2>2. PICK q \in [1..n -> Slots] : Threaded(table, n, q)
    BY <2>1
  <2>3. n \in 0..MaxHandles
    BY <2>2, ListFits DEF Threaded
  <2>4. Lists(table, q)
    BY <2>2, ListsThreaded
  <2>5. QED BY <2>3, <2>4 DEF FreeListSound
<1>3. CountSound
  BY DEF IInv, TableOK, Counted, CountSound
<1>4. QED BY <1>1, <1>2, <1>3

(* The invariant of the table and of the handles given out holds after any *)
(* sequence of user_handle_alloc, user_handle_free and lookups.            *)
THEOREM Inductive == Spec => []IInv
<1>1. Init => IInv
  BY InitIInv
<1>2. IInv /\ [Next]_vars => IInv'
  <2> SUFFICES ASSUME IInv, [Next]_vars PROVE IInv'
    OBVIOUS
  <2>1. ASSUME NEW x \in Objects, AllocObject(x) PROVE IInv'
    BY <2>1, AllocIInv
  <2>2. ASSUME NEW h \in DOMAIN held, FreeHeld(h) PROVE IInv'
    BY <2>2, FreeIInv
  <2>3. ASSUME NEW h \in seen, GetObject(h) PROVE IInv'
    BY <2>3 DEF GetObject, IInv, HeldOK, SeenOK
  <2>4. CASE UNCHANGED vars
    BY <2>4 DEF vars, IInv, HeldOK, SeenOK
  <2>5. QED BY <2>1, <2>2, <2>3, <2>4 DEF Next
<1>3. QED BY <1>1, <1>2, PTL DEF Spec

(* The fields of the table keep their types, and entry 0 stays in use.     *)
THEOREM TypeCorrect == Spec => []TypeOK
  BY Inductive, IInvImplies, PTL

(* user_handle_alloc and user_handle_free keep the list of free entries    *)
(* exact for a table of any size: no entry is lost or linked twice.        *)
THEOREM FreeListCorrect == Spec => []FreeListSound
  BY Inductive, IInvImplies, PTL

(* handle_count is the number of entries in use.                           *)
THEOREM CountCorrect == Spec => []CountSound
  BY Inductive, IInvImplies, PTL

(* The types, the list of free entries and the count hold together, for a  *)
(* table of any size and any sequence of allocations, frees and lookups.   *)
THEOREM TableCorrect == Spec => []TableSound
<1>1. IInv => TableSound
  BY IInvImplies DEF TableSound
<1>2. QED BY <1>1, Inductive, PTL

---------------------------------------------------------------------------
(* The table implements the map.                                           *)

\* A table with no free entry has given out a handle for every other entry.
LEMMA FullTable ==
  ASSUME IInv, table.first \notin Slots
  PROVE  Cardinality(DOMAIN held) = MaxHandles - 1
<1> DEFINE S == Slots \ {0}
           f == [i \in S |-> HandleOf(table, i)]
<1>1. \A i \in Slots : table.type[i] = "WINDOW"
  <2>1. PICK n \in Nat : \E q \in [1..n -> Slots] : Threaded(table, n, q)
    BY DEF IInv, TableOK, Linked
  <2>2. PICK q \in [1..n -> Slots] : Threaded(table, n, q)
    BY <2>1
  <2>3. n = 0
    BY <2>2 DEF Threaded
  <2>4. FreeSlots(table) = {}
    BY <2>2, <2>3 DEF Threaded
  <2>5. QED BY <2>4 DEF FreeSlots, IInv, TableOK, Tables
<1>2. \A i \in S : f[i] = HandleOf(table, i) /\ f[i] \in DOMAIN held /\ f[i].index = i
  BY <1>1 DEF IInv, HeldOK, HandleOf
<1>3. \A h \in DOMAIN held : h.index \in S /\ h = HandleOf(table, h.index)
  BY DEF IInv, HeldOK, SeenOK, Names, AllHandles, HandleOf
<1>4. f \in [S -> DOMAIN held]
  BY <1>2
<1> HIDE DEF f
<1>5. f \in Bijection(S, DOMAIN held)
  BY <1>2, <1>3, <1>4 DEF Bijection, Injection, Surjection, IsInjective
<1>6. IsFiniteSet(S) /\ Cardinality(S) = MaxHandles - 1
  <2>1. 0 \in Slots
    BY HandleTableAssumption DEF Slots
  <2>2. QED BY <2>1, SlotsFinite, FS_RemoveElement
<1>7. QED BY <1>5, <1>6, FS_Bijection DEF ExistsBijection

\* The module of the map has a Cardinality of its own.
LEMMA SameCardinality == \A S : Abstract!Cardinality(S) = Cardinality(S)
BY DEF Abstract!Cardinality, Cardinality

LEMMA AllocMaps ==
  ASSUME IInv, NEW x \in Objects, AllocObject(x)
  PROVE  Abstract!Next
<1>1. CASE table.first \notin Slots
  <2>1. AllocHandle(table) = NoHandle
    BY <1>1 DEF AllocHandle
  <2>2. Abstract!Refuse
    BY <1>1, <2>1, FullTable, SameCardinality DEF AllocObject, Abstract!Refuse
  <2>3. QED BY <2>2 DEF Abstract!Next
<1>2. CASE table.first \in Slots
  <2> DEFINE h == AllocHandle(table)
  <2>1. h = HandleOf(table, table.first)
    BY <1>2 DEF AllocHandle, HandleOf
  <2>2. table \in Tables /\ table.type[table.first] = "FREE" /\ table.first # 0
    BY <1>2, AllocTable DEF IInv, TableOK
  <2>3. h \in AllHandles /\ h.index = table.first /\ h # NoHandle
    BY <1>2, <2>1, <2>2 DEF HandleOf, AllHandles, Tables, NoHandle
  <2>4. h \notin DOMAIN held
    BY <2>2, <2>3 DEF IInv, HeldOK, Names
  <2>5. /\ held' = [k \in DOMAIN held \cup {h} |-> IF k = h THEN x ELSE held[k]]
        /\ answer' = [handle |-> h, thing |-> x]
    BY <2>3 DEF AllocObject
  <2> HIDE DEF h
  <2>6. Abstract!GiveOut(x)
    BY <2>3, <2>4, <2>5 DEF Abstract!GiveOut
  <2>7. QED BY <2>6 DEF Abstract!Next
<1>3. QED BY <1>1, <1>2

LEMMA FreeMaps ==
  ASSUME IInv, NEW h \in DOMAIN held, FreeHeld(h)
  PROVE  Abstract!Next
<1>1. h \in AllHandles
  BY DEF IInv, HeldOK, SeenOK
<1>2. Abstract!TakeBack(h)
  BY DEF FreeHeld, Abstract!TakeBack, Restrict, Abstract!Restrict
<1>3. QED BY <1>1, <1>2 DEF Abstract!Next

\* user_handle_get_typed checks the generation, so what it finds is what the
\* handle was given out for.
LEMMA GetMaps ==
  ASSUME IInv, NEW h \in seen, GetObject(h)
  PROVE  Abstract!Next
<1>1. h \in AllHandles /\ h.index \in Slots \ {0} /\ h # NoHandle
  BY DEF IInv, SeenOK, AllHandles, NoHandle
<1>2. GetTyped(table, h, "WINDOW") = IF h \in DOMAIN held THEN held[h] ELSE Nothing
  <2>1. CASE h \in DOMAIN held
    BY <1>1, <2>1 DEF GetTyped, IInv, HeldOK, Names
  <2>2. CASE h \notin DOMAIN held
    <3>1. h = [index |-> h.index, gen |-> h.gen]
      BY <1>1 DEF AllHandles
    <3>2. ~(table.gen[h.index] = h.gen /\ table.type[h.index] = "WINDOW")
      BY <1>1, <2>2, <3>1 DEF IInv, HeldOK, HandleOf
    <3>3. QED BY <1>1, <2>2, <3>2 DEF GetTyped
  <2>3. QED BY <2>1, <2>2
<1>3. Abstract!Lookup(h)
  BY <1>2 DEF GetObject, Abstract!Lookup
<1>4. QED BY <1>1, <1>3 DEF Abstract!Next

(* The USER handle table implements the abstract map: what is given out is *)
(* not in use, only a full table refuses, a lookup answers what the handle *)
(* was given out for, or nothing.                                          *)
THEOREM HandleMapCorrect == Spec => ImplementsHandleMap
<1>1. Init => Abstract!Init
  BY DEF Init, Abstract!Init
<1>2. IInv /\ [Next]_vars => [Abstract!Next]_(Abstract!vars)
  <2> SUFFICES ASSUME IInv, [Next]_vars PROVE [Abstract!Next]_(Abstract!vars)
    OBVIOUS
  <2>1. ASSUME NEW x \in Objects, AllocObject(x) PROVE Abstract!Next
    BY <2>1, AllocMaps
  <2>2. ASSUME NEW h \in DOMAIN held, FreeHeld(h) PROVE Abstract!Next
    BY <2>2, FreeMaps
  <2>3. ASSUME NEW h \in seen, GetObject(h) PROVE Abstract!Next
    BY <2>3, GetMaps
  <2>4. CASE UNCHANGED vars
    BY <2>4 DEF vars, Abstract!vars
  <2>5. QED BY <2>1, <2>2, <2>3, <2>4 DEF Next
<1>3. QED BY <1>1, <1>2, Inductive, PTL DEF Spec, ImplementsHandleMap, Abstract!Spec

---------------------------------------------------------------------------
(***************************************************************************)
(* Kept handles.  While no entry is freed as often as the counter has      *)
(* values, an entry's generation tells how often it was freed, and a       *)
(* handle the guest was given tells how often its entry had been freed     *)
(* then: less often than by now, if the entry is free again.               *)
(***************************************************************************)
Gen(j) == IF j + 1 < GenSpan THEN j + 1 ELSE 0

Given(h, j) ==
  /\ h.gen = Gen(j)
  /\ table.type[h.index] = "FREE" => j < frees[h.index]

GenOK ==
  /\ \A i \in Slots : table.gen[i] = Gen(frees[i])
  /\ \A h \in seen : \E j \in 0..frees[h.index] : Given(h, j)

LEMMA GenStep ==
  ASSUME NEW j \in Nat, j + 1 < GenSpan
  PROVE  (Gen(j) + 1) % GenSpan = Gen(j + 1)
<1>1. j + 2 \in 1..GenSpan
  BY HandleTableAssumption
<1>2. CASE j + 2 = GenSpan
  BY <1>2, HandleTableAssumption DEF Gen
<1>3. CASE j + 2 < GenSpan
  BY <1>3, HandleTableAssumption DEF Gen
<1>4. QED BY <1>1, <1>2, <1>3, HandleTableAssumption

LEMMA AllocGen ==
  ASSUME IInv, GenOK, MaxFrees < GenSpan, NEW x \in Objects, AllocObject(x)
  PROVE  GenOK' /\ \A h \in DOMAIN held' \ DOMAIN held : h \notin seen
<1>1. CASE table.first \notin Slots
  <2>1. AllocHandle(table) = NoHandle /\ Alloc(table, x, "WINDOW") = table
    BY <1>1 DEF AllocHandle, Alloc
  <2>2. UNCHANGED <<table, held, seen, frees>>
    BY <2>1 DEF AllocObject
  <2>3. QED BY <2>2 DEF GenOK, Given
<1>2. CASE table.first \in Slots
  <2> DEFINE i == table.first
             h == AllocHandle(table)
  <2>1. /\ table \in Tables /\ table.type[i] = "FREE" /\ i # 0
        /\ Allocated(table, Alloc(table, x, "WINDOW"), x)
    BY <1>2, AllocTable DEF IInv, TableOK
  <2>2. h \in AllHandles /\ h.index = i /\ h.gen = table.gen[i] /\ h # NoHandle
    BY <1>2, <2>1 DEF AllocHandle, AllHandles, Tables, NoHandle
  <2>3. frees \in [Slots -> 0..MaxFrees] /\ i \in Slots
    BY <1>2 DEF IInv
  <2>4. h \notin seen
    <3>1. SUFFICES ASSUME h \in seen PROVE FALSE
      OBVIOUS
    <3>2. PICK j \in 0..frees[i] : h.gen = Gen(j) /\ j < frees[i]
      BY <2>1, <2>2, <3>1 DEF GenOK, Given
    <3>3. h.gen = Gen(frees[i])
      BY <2>2, <2>3 DEF GenOK
    <3>4. frees[i] < GenSpan /\ frees[i] \in Nat
      BY <2>3, UserHandlesAssumption, HandleTableAssumption
    <3>5. QED BY <3>2, <3>3, <3>4, HandleTableAssumption DEF Gen
  <2> HIDE DEF h
  <2>5. /\ table' = Alloc(table, x, "WINDOW") /\ frees' = frees
        /\ seen' = seen \cup {h} /\ DOMAIN held' = DOMAIN held \cup {h}
    BY <2>2 DEF AllocObject, h
  <2>6. table'.gen = table.gen /\ table'.type = [table.type EXCEPT ![i] = "WINDOW"]
    BY <2>1, <2>5 DEF Allocated
  <2>7. ASSUME NEW k \in seen'
        PROVE  \E j \in 0..frees'[k.index] : Given(k, j)'
    <3>1. CASE k \in seen
      <4>1. PICK j \in 0..frees[k.index] : Given(k, j)
        BY <3>1 DEF GenOK
      <4>2. k.index \in Slots
        BY <3>1 DEF IInv, SeenOK, AllHandles
      <4>3. table'.type[k.index] = "FREE" => table.type[k.index] = "FREE"
        BY <2>1, <2>3, <2>6, <4>2 DEF Tables
      <4>4. QED BY <2>5, <4>1, <4>3 DEF Given
    <3>2. CASE k = h
      <4>1. k.gen = Gen(frees[i]) /\ k.index = i
        BY <2>2, <2>3, <3>2 DEF GenOK
      <4>2. table'.type[i] # "FREE"
        BY <2>1, <2>3, <2>6 DEF Tables
      <4>3. PICK j \in Nat : j = frees[i]
        BY <2>3, UserHandlesAssumption
      <4>4. j \in 0..frees'[k.index]
        BY <2>5, <4>1, <4>3
      <4>5. Given(k, j)'
        BY <4>1, <4>2, <4>3 DEF Given
      <4>6. QED BY <4>4, <4>5
    <3>3. QED BY <2>5, <3>1, <3>2
  <2>8. \A k \in Slots : table'.gen[k] = Gen(frees'[k])
    BY <2>5, <2>6 DEF GenOK
  <2>9. QED BY <2>4, <2>5, <2>7, <2>8 DEF GenOK
<1>3. QED BY <1>1, <1>2

LEMMA FreeGen ==
  ASSUME IInv, GenOK, MaxFrees < GenSpan, NEW h \in DOMAIN held, FreeHeld(h)
  PROVE  GenOK' /\ \A k \in DOMAIN held' \ DOMAIN held : k \notin seen
<1> DEFINE i == h.index
<1>1. table \in Tables /\ h \in AllHandles /\ i \in Slots /\ Names(table, h, held[h])
  BY DEF IInv, TableOK, HeldOK, SeenOK, AllHandles
<1>2. Freed(table, Free(table, h), i)
  BY <1>1, FreeTable DEF IInv, Names
<1>3. /\ table' = Free(table, h) /\ seen' = seen
      /\ DOMAIN held' = DOMAIN held \ {h}
      /\ frees[i] < MaxFrees /\ frees' = [frees EXCEPT ![i] = @ + 1]
  BY DEF FreeHeld, Restrict
<1>4. /\ table'.gen = [table.gen EXCEPT ![i] = (@ + 1) % GenSpan]
      /\ table'.type = [table.type EXCEPT ![i] = "FREE"]
  BY <1>2, <1>3 DEF Freed
<1>5. frees \in [Slots -> 0..MaxFrees] /\ frees[i] \in Nat /\ frees'[i] = frees[i] + 1
  BY <1>1, <1>3, UserHandlesAssumption DEF IInv
<1>6. ASSUME NEW k \in Slots PROVE table'.gen[k] = Gen(frees'[k])
  <2>1. CASE k # i
    BY <1>1, <1>3, <1>4, <1>5, <2>1 DEF GenOK, Tables
  <2>2. CASE k = i
    <3>1. table'.gen[k] = (Gen(frees[i]) + 1) % GenSpan
      BY <1>1, <1>4, <2>2 DEF GenOK, Tables
    <3>2. frees[i] + 1 < GenSpan
      BY <1>3, <1>5, UserHandlesAssumption, HandleTableAssumption
    <3>3. QED BY <1>5, <2>2, <3>1, <3>2, GenStep
  <2>3. QED BY <2>1, <2>2
<1>7. ASSUME NEW k \in seen PROVE \E j \in 0..frees'[k.index] : Given(k, j)'
  <2>1. PICK j \in 0..frees[k.index] : Given(k, j)
    BY DEF GenOK
  <2>2. k.index \in Slots
    BY DEF IInv, SeenOK, AllHandles
  <2>3. CASE k.index = i
    <3>1. j \in 0..frees'[k.index] /\ j < frees'[k.index]
      BY <1>5, <2>1, <2>3
    <3>2. QED BY <2>1, <3>1 DEF Given
  <2>4. CASE k.index # i
    <3>1. frees'[k.index] = frees[k.index] /\ table'.type[k.index] = table.type[k.index]
      BY <1>1, <1>3, <1>4, <1>5, <2>2, <2>4 DEF Tables
    <3>2. QED BY <2>1, <3>1 DEF Given
  <2>5. QED BY <2>3, <2>4
<1>8. QED BY <1>3, <1>6, <1>7 DEF GenOK

(* "Increment generation to invalidate old handles": while no entry is     *)
(* freed as often as the counter has values, user_handle_alloc never       *)
(* returns a handle it returned before.                                    *)
THEOREM NeverReissuedCorrect ==
  ASSUME MaxFrees < GenSpan
  PROVE  Spec => NeverReissued
<1>1. Init => GenOK
  BY HandleTableAssumption DEF Init, GenOK, NewTable, Gen
<1>2. IInv /\ GenOK /\ [Next]_vars
        => GenOK' /\ [\A h \in DOMAIN held' \ DOMAIN held : h \notin seen]_vars
  <2> SUFFICES ASSUME IInv, GenOK, [Next]_vars
               PROVE  /\ GenOK'
                      /\ [\A h \in DOMAIN held' \ DOMAIN held : h \notin seen]_vars
    OBVIOUS
  <2> DEFINE P == \A h \in DOMAIN held' \ DOMAIN held : h \notin seen
  <2>1. ASSUME NEW x \in Objects, AllocObject(x) PROVE GenOK' /\ P
    BY <2>1, AllocGen
  <2>2. ASSUME NEW h \in DOMAIN held, FreeHeld(h) PROVE GenOK' /\ P
    BY <2>2, FreeGen
  <2>3. ASSUME NEW h \in seen, GetObject(h) PROVE GenOK' /\ P
    BY <2>3 DEF GetObject, GenOK, Given
  <2>4. CASE UNCHANGED vars
    BY <2>4 DEF vars, GenOK, Given
  <2>5. QED BY <2>1, <2>2, <2>3, <2>4 DEF Next
<1>3. QED BY <1>1, <1>2, Inductive, PTL DEF Spec, NeverReissued
=============================================================================
