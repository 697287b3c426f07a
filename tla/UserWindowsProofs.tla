------------------------ MODULE UserWindowsProofs ------------------------
(***************************************************************************)
(* Proofs about UserWindows and the searches of WindowQueries for any      *)
(* number of windows, classes, handles and desktop heap cells, any depth   *)
(* of callbacks, and any nesting of creations that succeed and fail.       *)
(***************************************************************************)
EXTENDS WindowQueries, FiniteSetTheorems, SequenceTheorems, WellFoundedInduction, TLAPS

---------------------------------------------------------------------------
(* Numbers.                                                                *)

\* Induction over the natural numbers, for a set instead of a predicate.
LEMMA Induct ==
  ASSUME NEW S, 0 \in S, \A n \in Nat : n \in S => n + 1 \in S
  PROVE  Nat \subseteq S
<1> DEFINE T == Nat \ S
           R == OpToRel(<, Nat)
<1>1. SUFFICES ASSUME T # {} PROVE FALSE
  OBVIOUS
<1>2. IsWellFoundedOn(R, Nat)
  BY NatLessThanWellFounded
<1>3. PICK x \in T : \A y \in T : <<y, x>> \notin R
  <2> HIDE DEF R
  <2> QED BY <1>1, <1>2, WFMin
<1>4. x \in Nat /\ x # 0 /\ x \notin S
  OBVIOUS
<1>5. x - 1 \in Nat /\ x - 1 \notin S
  BY <1>4
<1>6. <<x - 1, x>> \in R
  <2>1. x - 1 < x /\ <<x - 1, x>> \in Nat \X Nat
    BY <1>4, <1>5
  <2>2. QED BY <2>1 DEF OpToRel
<1>7. QED BY <1>3, <1>5, <1>6

\* Numbers of which none is greater than b have a greatest.
LEMMA GreatestIn ==
  ASSUME NEW b \in Nat, NEW S, S \subseteq 0 .. b, S # {}
  PROVE  \E x \in S : \A y \in S : y <= x
<1> DEFINE P == {n \in Nat : (\E y \in S : y >= b - n) => \E x \in S : \A y \in S : y <= x}
<1>1. 0 \in P
  <2>1. SUFFICES ASSUME NEW x \in S, x >= b - 0
                 PROVE  \E z \in S : \A y \in S : y <= z
    OBVIOUS
  <2>2. \A y \in S : y <= x
    BY <2>1
  <2>3. QED BY <2>2
<1>2. ASSUME NEW n \in Nat, n \in P PROVE n + 1 \in P
  <2>1. SUFFICES ASSUME NEW x \in S, x >= b - (n + 1)
                 PROVE  \E z \in S : \A y \in S : y <= z
    BY <1>2
  <2>2. CASE \E y \in S : y >= b - n
    BY <1>2, <2>2
  <2>3. CASE ~ \E y \in S : y >= b - n
    <3>1. ASSUME NEW y \in S PROVE y <= x
      <4>1. y \in Nat /\ x \in Nat /\ ~ (y >= b - n)
        BY <2>3
      <4>2. QED BY <2>1, <4>1
    <3>2. QED BY <3>1
  <2>4. QED BY <2>2, <2>3
<1> HIDE DEF P
<1>3. b \in P
  BY <1>1, <1>2, Induct
<1>4. PICK y \in S : y \in 0 .. b
  OBVIOUS
<1>5. y >= b - b
  BY <1>4
<1>6. QED BY <1>3, <1>5 DEF P

---------------------------------------------------------------------------
(* The globals and their types.                                            *)

WndT == [alive : BOOLEAN, hwnd : AllHandles, cls : Nat, va : Nat,
         parent : Wnds \cup {Nothing}, next : Wnds \cup {Nothing},
         prev : Wnds \cup {Nothing}, child : Wnds \cup {Nothing}]

CellT == [h : AllHandles, next : Nat, prev : Nat, parent : Nat, child : Nat,
          pcls : Nat, atom : Nat]

EntryT == [va : Nat, gen : Nat]

NameT == Names \cup {Synthetic(a) : a \in Atoms}
ClsT == [name : NameT, inst : Instances \cup {NoInstance}, global : BOOLEAN,
         system : BOOLEAN, proc : BOOLEAN, extra : BOOLEAN, atom : Atoms,
         refs : Nat, va : Nat]

TableT == [type  : [Slots -> {"FREE", "WINDOW"}],
           gen   : [Slots -> 0..(GenSpan - 1)],
           ptr   : [Slots -> Wnds \cup {Nothing} \cup (EndOfList..(MaxHandles - 1))],
           first : EndOfList..(MaxHandles - 1),
           count : Int]

Globals(table, wnd, classes, atoms, heap, entry, desktop, cache, created) ==
  [table |-> table, wnd |-> wnd, classes |-> classes, atoms |-> atoms,
   heap |-> heap, entry |-> entry, desktop |-> desktop, cache |-> cache,
   created |-> created]

Shape(k) ==
  /\ k = Globals(k.table, k.wnd, k.classes, k.atoms, k.heap, k.entry, k.desktop,
                 k.cache, k.created)
  /\ k.table \in TableT
  /\ k.wnd \in [Wnds -> WndT]
  /\ k.classes \in Seq(ClsT) /\ k.atoms \in Seq(Names)
  /\ k.heap \in Seq(CellT) /\ Len(k.heap) <= HeapSize
  /\ k.entry \in [Slots -> EntryT]
  /\ k.desktop \in Wnds \cup {Nothing}
  /\ k.created \in Nat

\* What the functions on the tree leave alone, and nearly all of them do.
SameTables(k, r) ==
  /\ r.classes = k.classes /\ r.atoms = k.atoms /\ r.entry = k.entry
  /\ r.table = k.table /\ r.created = k.created
SameRest(k, r) == SameTables(k, r) /\ r.desktop = k.desktop /\ r.cache = k.cache

LEMMA SlotFacts ==
  /\ Slots \subseteq Nat /\ 0 \in Slots /\ EndOfList \notin Slots /\ MaxHandles - 1 \in Slots
  /\ NoHandle \in AllHandles /\ NoHandle.index = 0 /\ NoHandle.gen = 0
  /\ EndOfList..(MaxHandles - 1) = Slots \cup {EndOfList}
BY HandleTableAssumption DEF Slots, EndOfList, NoHandle, AllHandles

\* Nothing but the field that is set changes.
LEMMA FieldSet ==
  ASSUME NEW k, Shape(k), NEW x
  PROVE
    /\ [k EXCEPT !.table = x] = Globals(x, k.wnd, k.classes, k.atoms, k.heap, k.entry, k.desktop, k.cache, k.created)
    /\ [k EXCEPT !.wnd = x] = Globals(k.table, x, k.classes, k.atoms, k.heap, k.entry, k.desktop, k.cache, k.created)
    /\ [k EXCEPT !.classes = x] = Globals(k.table, k.wnd, x, k.atoms, k.heap, k.entry, k.desktop, k.cache, k.created)
    /\ [k EXCEPT !.atoms = x] = Globals(k.table, k.wnd, k.classes, x, k.heap, k.entry, k.desktop, k.cache, k.created)
    /\ [k EXCEPT !.heap = x] = Globals(k.table, k.wnd, k.classes, k.atoms, x, k.entry, k.desktop, k.cache, k.created)
    /\ [k EXCEPT !.entry = x] = Globals(k.table, k.wnd, k.classes, k.atoms, k.heap, x, k.desktop, k.cache, k.created)
    /\ [k EXCEPT !.desktop = x] = Globals(k.table, k.wnd, k.classes, k.atoms, k.heap, k.entry, x, k.cache, k.created)
    /\ [k EXCEPT !.cache = x] = Globals(k.table, k.wnd, k.classes, k.atoms, k.heap, k.entry, k.desktop, x, k.created)
    /\ [k EXCEPT !.created = x] = Globals(k.table, k.wnd, k.classes, k.atoms, k.heap, k.entry, k.desktop, k.cache, x)
<1> DEFINE a == k.table  b == k.wnd  c == k.classes  d == k.atoms  e == k.heap
           f == k.entry  g == k.desktop  h == k.cache  i == k.created
<1>1. k = Globals(a, b, c, d, e, f, g, h, i)
  BY DEF Shape
<1> HIDE DEF a, b, c, d, e, f, g, h, i
<1>2. /\ [k EXCEPT !.table = x] = Globals(x, b, c, d, e, f, g, h, i)
      /\ [k EXCEPT !.wnd = x] = Globals(a, x, c, d, e, f, g, h, i)
      /\ [k EXCEPT !.classes = x] = Globals(a, b, x, d, e, f, g, h, i)
      /\ [k EXCEPT !.atoms = x] = Globals(a, b, c, x, e, f, g, h, i)
      /\ [k EXCEPT !.heap = x] = Globals(a, b, c, d, x, f, g, h, i)
      /\ [k EXCEPT !.entry = x] = Globals(a, b, c, d, e, x, g, h, i)
      /\ [k EXCEPT !.desktop = x] = Globals(a, b, c, d, e, f, x, h, i)
      /\ [k EXCEPT !.cache = x] = Globals(a, b, c, d, e, f, g, x, i)
      /\ [k EXCEPT !.created = x] = Globals(a, b, c, d, e, f, g, h, x)
  BY <1>1 DEF Globals
<1>3. QED BY <1>2 DEF a, b, c, d, e, f, g, h, i

LEMMA WndSet ==
  ASSUME NEW k, Shape(k), NEW m \in [Wnds -> WndT]
  PROVE  LET r == [k EXCEPT !.wnd = m]
         IN  Shape(r) /\ SameRest(k, r) /\ r.wnd = m /\ r.heap = k.heap
<1> DEFINE r == [k EXCEPT !.wnd = m]
<1>1. r = Globals(k.table, m, k.classes, k.atoms, k.heap, k.entry, k.desktop, k.cache, k.created)
  BY FieldSet
<1> HIDE DEF r
<1>2. /\ r.table = k.table /\ r.wnd = m /\ r.classes = k.classes /\ r.atoms = k.atoms
      /\ r.heap = k.heap /\ r.entry = k.entry /\ r.desktop = k.desktop
      /\ r.cache = k.cache /\ r.created = k.created
  BY <1>1 DEF Globals
<1>3. Shape(r)
  BY <1>1, <1>2 DEF Shape
<1>4. QED BY <1>2, <1>3 DEF SameRest, SameTables, r

LEMMA HeapSet ==
  ASSUME NEW k, Shape(k), NEW h \in Seq(CellT), Len(h) <= HeapSize
  PROVE  LET r == [k EXCEPT !.heap = h]
         IN  Shape(r) /\ SameRest(k, r) /\ r.wnd = k.wnd /\ r.heap = h
<1> DEFINE r == [k EXCEPT !.heap = h]
<1>1. r = Globals(k.table, k.wnd, k.classes, k.atoms, h, k.entry, k.desktop, k.cache, k.created)
  BY FieldSet
<1> HIDE DEF r
<1>2. /\ r.table = k.table /\ r.wnd = k.wnd /\ r.classes = k.classes /\ r.atoms = k.atoms
      /\ r.heap = h /\ r.entry = k.entry /\ r.desktop = k.desktop
      /\ r.cache = k.cache /\ r.created = k.created
  BY <1>1 DEF Globals
<1>3. Shape(r)
  BY <1>1, <1>2 DEF Shape
<1>4. QED BY <1>2, <1>3 DEF SameRest, SameTables, r

---------------------------------------------------------------------------
(* The tree, as a map m from addresses to windows.                         *)

LiveIn(m) == {w \in Wnds : m[w].alive}

\* The links of the windows agree; those in L have no parent.
LinksIn(m, L) ==
  \A w \in LiveIn(m) :
    /\ m[w].parent \in LiveIn(m) \cup {Nothing} /\ m[w].next \in LiveIn(m) \cup {Nothing}
    /\ m[w].prev \in LiveIn(m) \cup {Nothing} /\ m[w].child \in LiveIn(m) \cup {Nothing}
    /\ m[w].parent = Nothing <=> w \in L
    /\ w \in L => m[w].next = Nothing /\ m[w].prev = Nothing
    /\ m[w].next # Nothing => m[m[w].next].prev = w /\ m[m[w].next].parent = m[w].parent
    /\ m[w].prev # Nothing => m[m[w].prev].next = w /\ m[m[w].prev].parent = m[w].parent
    /\ m[w].prev = Nothing /\ w \notin L => m[m[w].parent].child = w
    /\ m[w].child # Nothing => m[m[w].child].parent = w /\ m[m[w].child].prev = Nothing

\* Parents and next siblings are older; rank is the order of creation.
Ranked(m, rank, top) ==
  /\ rank \in [Wnds -> Nat]
  /\ \A w \in LiveIn(m) :
       /\ rank[w] <= top
       /\ m[w].parent # Nothing => rank[m[w].parent] < rank[w]
       /\ m[w].next # Nothing => rank[m[w].next] < rank[w]

\* The fields of a window that are no links.
SameWindows(m, n) ==
  \A x \in Wnds : /\ n[x].alive = m[x].alive /\ n[x].hwnd = m[x].hwnd
                  /\ n[x].cls = m[x].cls /\ n[x].va = m[x].va

LEMMA SameLive ==
  ASSUME NEW m, NEW n, SameWindows(m, n)
  PROVE  LiveIn(n) = LiveIn(m)
BY Zenon DEF SameWindows, LiveIn

\* A window without a first child has no children.
LEMMA NoChildren ==
  ASSUME NEW m \in [Wnds -> WndT], NEW L, LinksIn(m, L),
         NEW top \in Nat, NEW rank, Ranked(m, rank, top),
         NEW w \in LiveIn(m), m[w].child = Nothing
  PROVE  \A x \in LiveIn(m) : m[x].parent # w
<1> DEFINE C == {x \in LiveIn(m) : m[x].parent = w}
           R == {rank[x] : x \in C}
<1>1. SUFFICES ASSUME C # {} PROVE FALSE
  OBVIOUS
<1>2. w \in Wnds /\ w # Nothing /\ LiveIn(m) \subseteq Wnds
  BY UserWindowsAssumption DEF LiveIn
<1>3. R \subseteq 0 .. top /\ R # {}
  <2>1. \A x \in C : rank[x] \in Nat /\ rank[x] <= top
    BY <1>2 DEF Ranked
  <2>2. QED BY <1>1, <2>1
<1>4. PICK z \in R : \A y \in R : y <= z
  <2> HIDE DEF R
  <2> QED BY <1>3, GreatestIn
<1>5. PICK x \in C : rank[x] = z
  OBVIOUS
<1>6. \A y \in C : rank[y] <= rank[x]
  BY <1>4, <1>5
<1>7. x \in LiveIn(m) /\ m[x].parent = w /\ x \notin L
  BY <1>2, <1>5 DEF LinksIn
<1>8. m[x].prev # Nothing
  <2>1. x # Nothing
    BY <1>2, <1>7, UserWindowsAssumption
  <2>2. m[x].prev = Nothing => m[m[x].parent].child = x
    BY <1>7 DEF LinksIn
  <2>3. QED BY <1>7, <2>1, <2>2
<1>9. m[x].prev \in C /\ m[m[x].prev].next = x
  BY <1>7, <1>8 DEF LinksIn
<1>10. rank[x] < rank[m[x].prev]
  BY <1>5, <1>9, <1>2, UserWindowsAssumption DEF Ranked
<1>11. rank[m[x].prev] \in Nat /\ rank[x] \in Nat
  BY <1>2, <1>7, <1>9 DEF Ranked
<1> HIDE DEF C, R
<1>12. QED BY <1>6, <1>9, <1>10, <1>11

---------------------------------------------------------------------------
(* user_window_unlink, on the map.                                         *)

CutFrom(m, n, w) ==
  /\ n \in [Wnds -> WndT] /\ SameWindows(m, n)
  /\ \A x \in Wnds :
       /\ n[x].parent = IF x = w THEN Nothing ELSE m[x].parent
       /\ n[x].next = IF x = w THEN Nothing ELSE IF x = m[w].prev THEN m[w].next ELSE m[x].next
       /\ n[x].prev = IF x = w THEN Nothing ELSE IF x = m[w].next THEN m[w].prev ELSE m[x].prev
       /\ n[x].child = IF x = m[w].parent /\ m[x].child = w THEN m[w].next ELSE m[x].child

LEMMA CutLinks ==
  ASSUME NEW m \in [Wnds -> WndT], NEW L, LinksIn(m, L),
         NEW top \in Nat, NEW rank, Ranked(m, rank, top),
         NEW w \in LiveIn(m), NEW n, CutFrom(m, n, w)
  PROVE  LinksIn(n, L \cup {w}) /\ Ranked(n, rank, top) /\ LiveIn(n) = LiveIn(m)
<1>1. LiveIn(n) = LiveIn(m)
  BY SameLive DEF CutFrom
<1>2. LiveIn(m) \subseteq Wnds /\ Nothing \notin Wnds
  BY UserWindowsAssumption DEF LiveIn
<1> DEFINE P == m[w].parent  N == m[w].next  V == m[w].prev
<1>3. /\ P \in LiveIn(m) \cup {Nothing} /\ N \in LiveIn(m) \cup {Nothing}
      /\ V \in LiveIn(m) \cup {Nothing}
      /\ N # w /\ V # w /\ P # w
  BY <1>2 DEF LinksIn, Ranked
<1>4. ASSUME NEW x \in LiveIn(m)
      PROVE  /\ n[x].parent = IF x = w THEN Nothing ELSE m[x].parent
             /\ n[x].next = IF x = w THEN Nothing ELSE IF x = V THEN N ELSE m[x].next
             /\ n[x].prev = IF x = w THEN Nothing ELSE IF x = N THEN V ELSE m[x].prev
             /\ n[x].child = IF x = P /\ m[x].child = w THEN N ELSE m[x].child
  BY <1>2 DEF CutFrom
<1>5. Ranked(n, rank, top)
  <2>1. ASSUME NEW x \in LiveIn(m)
        PROVE  /\ rank[x] <= top
               /\ n[x].parent # Nothing => rank[n[x].parent] < rank[x]
               /\ n[x].next # Nothing => rank[n[x].next] < rank[x]
    <3>1. CASE x = V
      <4>1. m[V].next = w
        BY <1>2, <1>3, <3>1 DEF LinksIn
      <4>2. rank[w] < rank[V]
        BY <1>2, <3>1, <4>1 DEF Ranked
      <4>3. N # Nothing => rank[N] < rank[w]
        BY DEF Ranked
      <4>4. \A y \in LiveIn(m) : rank[y] \in Nat
        BY <1>2 DEF Ranked
      <4>5. N # Nothing => rank[N] < rank[V]
        <5>1. SUFFICES ASSUME N # Nothing PROVE rank[N] < rank[V]
          OBVIOUS
        <5>2. N \in LiveIn(m)
          BY <1>3, <5>1
        <5>3. QED BY <3>1, <4>2, <4>3, <4>4, <5>1, <5>2
      <4>6. QED BY <1>3, <1>4, <3>1, <4>5 DEF Ranked
    <3>2. CASE x # V
      BY <1>4, <3>2 DEF Ranked
    <3>3. QED BY <3>1, <3>2
  <2>2. QED BY <1>1, <2>1 DEF Ranked
<1>6. ASSUME NEW x \in LiveIn(m)
      PROVE  /\ n[x].parent \in LiveIn(m) \cup {Nothing} /\ n[x].next \in LiveIn(m) \cup {Nothing}
             /\ n[x].prev \in LiveIn(m) \cup {Nothing} /\ n[x].child \in LiveIn(m) \cup {Nothing}
             /\ n[x].parent = Nothing <=> x \in L \cup {w}
             /\ x \in L \cup {w} => n[x].next = Nothing /\ n[x].prev = Nothing
  BY <1>2, <1>3, <1>4 DEF LinksIn
<1>7. ASSUME NEW x \in LiveIn(m), n[x].next # Nothing
      PROVE  n[n[x].next].prev = x /\ n[n[x].next].parent = n[x].parent
  <2>1. x # w
    BY <1>4, <1>7
  <2>2. CASE x = V
    <3>1. n[x].next = N /\ N \in LiveIn(m) /\ N # Nothing
      BY <1>2, <1>3, <1>4, <1>7, <2>1, <2>2
    <3>2. n[N].prev = V /\ n[N].parent = m[N].parent
      BY <1>3, <1>4, <3>1
    <3>3. m[N].parent = P /\ m[V].parent = P
      BY <1>2, <2>2, <3>1 DEF LinksIn
    <3>4. n[x].parent = m[x].parent
      BY <1>4, <2>1
    <3>5. QED BY <2>2, <3>1, <3>2, <3>3, <3>4
  <2>3. CASE x # V
    <3>1. n[x].next = m[x].next /\ m[x].next \in LiveIn(m)
      BY <1>4, <1>6, <1>7, <2>1, <2>3
    <3>2. m[m[x].next].prev = x /\ m[m[x].next].parent = m[x].parent
      BY <1>7, <3>1 DEF LinksIn
    <3>3. m[x].next # w
      BY <2>3, <3>2
    <3>4. m[x].next # N
      <4>1. N # Nothing => m[N].prev = w
        BY DEF LinksIn
      <4>2. QED BY <1>7, <2>1, <3>1, <3>2, <4>1
    <3>5. QED BY <1>4, <2>1, <3>1, <3>2, <3>3, <3>4
  <2>4. QED BY <2>2, <2>3
<1>8. ASSUME NEW x \in LiveIn(m), n[x].prev # Nothing
      PROVE  n[n[x].prev].next = x /\ n[n[x].prev].parent = n[x].parent
  <2>1. x # w
    BY <1>4, <1>8
  <2>2. CASE x = N
    <3>1. n[x].prev = V /\ V \in LiveIn(m) /\ V # Nothing
      BY <1>2, <1>3, <1>4, <1>8, <2>1, <2>2
    <3>2. n[V].next = N /\ n[V].parent = m[V].parent
      BY <1>3, <1>4, <3>1
    <3>3. m[V].parent = P /\ m[N].parent = P
      BY <1>2, <2>2, <3>1 DEF LinksIn
    <3>4. n[x].parent = m[x].parent
      BY <1>4, <2>1
    <3>5. QED BY <2>2, <3>1, <3>2, <3>3, <3>4
  <2>3. CASE x # N
    <3>1. n[x].prev = m[x].prev /\ m[x].prev \in LiveIn(m)
      BY <1>4, <1>6, <1>8, <2>1, <2>3
    <3>2. m[m[x].prev].next = x /\ m[m[x].prev].parent = m[x].parent
      BY <1>8, <3>1 DEF LinksIn
    <3>3. m[x].prev # w
      BY <2>3, <3>2
    <3>4. m[x].prev # V
      <4>1. V # Nothing => m[V].next = w
        BY DEF LinksIn
      <4>2. QED BY <1>8, <2>1, <3>1, <3>2, <4>1
    <3>5. QED BY <1>4, <2>1, <3>1, <3>2, <3>3, <3>4
  <2>4. QED BY <2>2, <2>3
<1>9. ASSUME NEW x \in LiveIn(m), n[x].prev = Nothing, x \notin L \cup {w}
      PROVE  n[n[x].parent].child = x
  <2>1. n[x].parent = m[x].parent /\ m[x].parent \in LiveIn(m)
    BY <1>4, <1>6, <1>9
  <2>2. CASE x = N
    <3>1. V = Nothing
      BY <1>4, <1>9, <2>2
    <3>2. m[x].parent = P /\ w \notin L
      BY <1>2, <2>1, <2>2 DEF LinksIn
    <3>3. m[P].child = w
      BY <3>1, <3>2 DEF LinksIn
    <3>4. QED BY <1>4, <2>1, <2>2, <3>2, <3>3
  <2>3. CASE x # N
    <3>1. m[x].prev = Nothing
      BY <1>4, <1>9, <2>3
    <3>2. m[m[x].parent].child = x
      BY <1>9, <3>1 DEF LinksIn
    <3>3. QED BY <1>4, <1>9, <2>1, <3>2
  <2>4. QED BY <2>2, <2>3
<1>10. ASSUME NEW x \in LiveIn(m), n[x].child # Nothing
       PROVE  n[n[x].child].parent = x /\ n[n[x].child].prev = Nothing
  <2>1. CASE x = P /\ m[x].child = w
    <3>1. n[x].child = N /\ N \in LiveIn(m) /\ N # Nothing
      BY <1>3, <1>4, <1>10, <2>1
    <3>2. V = Nothing
      BY <1>2, <1>3, <2>1 DEF LinksIn
    <3>3. m[N].parent = P
      BY <3>1 DEF LinksIn
    <3>4. QED BY <1>3, <1>4, <2>1, <3>1, <3>2, <3>3
  <2>2. CASE ~ (x = P /\ m[x].child = w)
    <3>1. n[x].child = m[x].child /\ m[x].child \in LiveIn(m)
      BY <1>4, <1>6, <1>10, <2>2
    <3>2. m[m[x].child].parent = x /\ m[m[x].child].prev = Nothing
      BY <1>10, <3>1 DEF LinksIn
    <3>3. m[x].child # w
      BY <2>2, <3>2
    <3>4. m[x].child # N
      <4>1. N # Nothing => m[N].prev = w
        BY DEF LinksIn
      <4>2. QED BY <1>2, <1>10, <3>1, <3>2, <4>1
    <3>5. QED BY <1>4, <3>1, <3>2, <3>3, <3>4
  <2>3. QED BY <2>1, <2>2
<1> HIDE DEF P, N, V
<1>11. LinksIn(n, L \cup {w})
  BY <1>1, <1>6, <1>7, <1>8, <1>9, <1>10 DEF LinksIn
<1>12. QED BY <1>1, <1>5, <1>11

---------------------------------------------------------------------------
(* user_window_link_child, on the map: w becomes the first child of p.     *)

LinkedUnder(m, n, p, w) ==
  /\ n \in [Wnds -> WndT] /\ SameWindows(m, n)
  /\ \A x \in Wnds :
       /\ n[x].parent = IF x = w THEN p ELSE m[x].parent
       /\ n[x].next = IF x = w THEN m[p].child ELSE m[x].next
       /\ n[x].prev = IF x = m[p].child THEN w ELSE m[x].prev
       /\ n[x].child = IF x = p THEN w ELSE m[x].child

LEMMA LinkedLinks ==
  ASSUME NEW m \in [Wnds -> WndT], NEW L, LinksIn(m, L),
         NEW top \in Nat, NEW rank, Ranked(m, rank, top),
         NEW w \in LiveIn(m), w \in L, m[w].child = Nothing,
         \A x \in LiveIn(m) \ {w} : rank[x] < rank[w],
         NEW p \in LiveIn(m) \ {w}, NEW n, LinkedUnder(m, n, p, w)
  PROVE  LinksIn(n, L \ {w}) /\ Ranked(n, rank, top) /\ LiveIn(n) = LiveIn(m)
<1>1. LiveIn(n) = LiveIn(m)
  BY SameLive DEF LinkedUnder
<1>2. LiveIn(m) \subseteq Wnds /\ Nothing \notin Wnds
  BY UserWindowsAssumption DEF LiveIn
<1> DEFINE C == m[p].child
<1>3. C \in LiveIn(m) \cup {Nothing} /\ m[w].next = Nothing /\ m[w].prev = Nothing
      /\ m[w].parent = Nothing
  BY DEF LinksIn
<1>4. C # w
  BY <1>2, <1>3 DEF LinksIn
<1>5. ASSUME NEW x \in LiveIn(m)
      PROVE  /\ n[x].parent = IF x = w THEN p ELSE m[x].parent
             /\ n[x].next = IF x = w THEN C ELSE m[x].next
             /\ n[x].prev = IF x = C THEN w ELSE m[x].prev
             /\ n[x].child = IF x = p THEN w ELSE m[x].child
  BY <1>2 DEF LinkedUnder
\* Nothing led to w.
<1>6. ASSUME NEW x \in LiveIn(m)
      PROVE  m[x].next # w /\ m[x].prev # w /\ m[x].child # w /\ m[x].parent # w
  <2>1. m[x].next # w /\ m[x].prev # w /\ m[x].child # w
    BY <1>2, <1>3 DEF LinksIn
  <2>2. \A y \in LiveIn(m) : m[y].parent # w
    BY NoChildren
  <2>3. QED BY <2>1, <2>2
<1>7. Ranked(n, rank, top)
  <2>1. ASSUME NEW x \in LiveIn(m)
        PROVE  /\ rank[x] <= top
               /\ n[x].parent # Nothing => rank[n[x].parent] < rank[x]
               /\ n[x].next # Nothing => rank[n[x].next] < rank[x]
    <3>1. CASE x = w
      <4>1. rank[p] < rank[w] /\ (C # Nothing => rank[C] < rank[w])
        BY <1>3, <1>4
      <4>2. QED BY <1>5, <3>1, <4>1 DEF Ranked
    <3>2. CASE x # w
      BY <1>5, <3>2 DEF Ranked
    <3>3. QED BY <3>1, <3>2
  <2>2. QED BY <1>1, <2>1 DEF Ranked
<1>8. ASSUME NEW x \in LiveIn(m)
      PROVE  /\ n[x].parent \in LiveIn(m) \cup {Nothing} /\ n[x].next \in LiveIn(m) \cup {Nothing}
             /\ n[x].prev \in LiveIn(m) \cup {Nothing} /\ n[x].child \in LiveIn(m) \cup {Nothing}
             /\ n[x].parent = Nothing <=> x \in L \ {w}
             /\ x \in L \ {w} => n[x].next = Nothing /\ n[x].prev = Nothing
  <2>1. x = C => x \notin L
    BY <1>2, <1>3 DEF LinksIn
  <2>2. QED BY <1>2, <1>3, <1>5, <2>1 DEF LinksIn
<1>9. ASSUME NEW x \in LiveIn(m), n[x].next # Nothing
      PROVE  n[n[x].next].prev = x /\ n[n[x].next].parent = n[x].parent
  <2>1. CASE x = w
    <3>1. n[x].next = C /\ C \in LiveIn(m) /\ m[C].parent = p
      BY <1>2, <1>3, <1>5, <1>9, <2>1 DEF LinksIn
    <3>2. QED BY <1>4, <1>5, <2>1, <3>1
  <2>2. CASE x # w
    <3>1. n[x].next = m[x].next /\ m[x].next \in LiveIn(m)
      BY <1>5, <1>8, <1>9, <2>2
    <3>2. m[m[x].next].prev = x /\ m[m[x].next].parent = m[x].parent
      BY <1>9, <3>1 DEF LinksIn
    <3>3. m[x].next # C
      <4>1. C # Nothing => m[C].prev = Nothing
        BY DEF LinksIn
      <4>2. QED BY <1>2, <1>9, <3>1, <3>2, <4>1
    <3>4. QED BY <1>5, <1>6, <2>2, <3>1, <3>2, <3>3
  <2>3. QED BY <2>1, <2>2
<1>10. ASSUME NEW x \in LiveIn(m), n[x].prev # Nothing
       PROVE  n[n[x].prev].next = x /\ n[n[x].prev].parent = n[x].parent
  <2>1. CASE x = C
    <3>1. m[C].parent = p
      BY <1>2, <2>1 DEF LinksIn
    <3>2. QED BY <1>4, <1>5, <2>1, <3>1
  <2>2. CASE x # C
    <3>1. n[x].prev = m[x].prev /\ m[x].prev \in LiveIn(m) /\ x # w
      BY <1>3, <1>5, <1>8, <1>10, <2>2
    <3>2. m[m[x].prev].next = x /\ m[m[x].prev].parent = m[x].parent
      BY <1>10, <3>1 DEF LinksIn
    <3>3. QED BY <1>5, <1>6, <3>1, <3>2
  <2>3. QED BY <2>1, <2>2
<1>11. ASSUME NEW x \in LiveIn(m), n[x].prev = Nothing, x \notin L \ {w}
       PROVE  n[n[x].parent].child = x
  <2>1. CASE x = w
    BY <1>5, <2>1
  <2>2. CASE x # w
    <3>1. x # C /\ m[x].prev = Nothing /\ n[x].parent = m[x].parent /\ x \notin L
      BY <1>2, <1>5, <1>11, <2>2
    <3>2. m[m[x].parent].child = x /\ m[x].parent \in LiveIn(m)
      BY <1>11, <3>1 DEF LinksIn
    <3>3. m[x].parent # p
      BY <3>1, <3>2
    <3>4. QED BY <1>5, <3>1, <3>2, <3>3
  <2>3. QED BY <2>1, <2>2
<1>12. ASSUME NEW x \in LiveIn(m), n[x].child # Nothing
       PROVE  n[n[x].child].parent = x /\ n[n[x].child].prev = Nothing
  <2>1. CASE x = p
    BY <1>3, <1>4, <1>5, <2>1
  <2>2. CASE x # p
    <3>1. n[x].child = m[x].child /\ m[x].child \in LiveIn(m)
      BY <1>5, <1>8, <1>12, <2>2
    <3>2. m[m[x].child].parent = x /\ m[m[x].child].prev = Nothing
      BY <1>12, <3>1 DEF LinksIn
    <3>3. m[x].child # C
      <4>1. C # Nothing => m[C].parent = p
        BY DEF LinksIn
      <4>2. QED BY <1>12, <2>2, <3>1, <3>2, <4>1
    <3>4. QED BY <1>5, <1>6, <3>1, <3>2, <3>3
  <2>3. QED BY <2>1, <2>2
<1> HIDE DEF C
<1>13. LinksIn(n, L \ {w})
  BY <1>1, <1>8, <1>9, <1>10, <1>11, <1>12 DEF LinksIn
<1>14. QED BY <1>1, <1>7, <1>13

---------------------------------------------------------------------------
(* A window appears, without links, or is gone.                            *)

Appeared(m, n, w) ==
  /\ n \in [Wnds -> WndT] /\ n[w].alive
  /\ n[w].parent = Nothing /\ n[w].next = Nothing /\ n[w].prev = Nothing /\ n[w].child = Nothing
  /\ \A x \in Wnds \ {w} : n[x] = m[x]

\* w is ranked after all the others, which keep their ranks.
RankedLast(m, rank, rk, w) == \A x \in LiveIn(m) : rk[x] = rank[x] /\ rk[x] < rk[w]

RankedAt(rank, rk, w, n) == rk = [rank EXCEPT ![w] = n]

LEMMA AppearedLinks ==
  ASSUME NEW m \in [Wnds -> WndT], NEW L, LinksIn(m, L), L \subseteq LiveIn(m),
         NEW top \in Nat, NEW rank, Ranked(m, rank, top),
         NEW w \in Wnds \ LiveIn(m), NEW n, Appeared(m, n, w),
         NEW rk, RankedAt(rank, rk, w, top + 1)
  PROVE  /\ LinksIn(n, L \cup {w}) /\ Ranked(n, rk, top + 1)
         /\ LiveIn(n) = LiveIn(m) \cup {w} /\ RankedLast(m, rank, rk, w)
<1>1. LiveIn(n) = LiveIn(m) \cup {w}
  BY Zenon DEF Appeared, LiveIn
<1>2. LiveIn(m) \subseteq Wnds /\ Nothing \notin Wnds
  BY UserWindowsAssumption DEF LiveIn
<1>3. \A x \in LiveIn(m) : x # w /\ n[x] = m[x]
  BY <1>2 DEF Appeared
<1>4. /\ rk \in [Wnds -> Nat] /\ rk[w] = top + 1
      /\ \A x \in LiveIn(m) : rk[x] = rank[x] /\ rk[x] < rk[w] /\ rank[x] \in Nat
  BY <1>2, <1>3 DEF Ranked, RankedAt
<1>5. LinksIn(n, L \cup {w})
  <2>1. ASSUME NEW x \in LiveIn(m)
        PROVE  /\ m[x].parent \in LiveIn(m) \cup {Nothing} /\ m[x].next \in LiveIn(m) \cup {Nothing}
               /\ m[x].prev \in LiveIn(m) \cup {Nothing} /\ m[x].child \in LiveIn(m) \cup {Nothing}
    BY DEF LinksIn
  <2>2. QED BY <1>1, <1>2, <1>3, <2>1 DEF LinksIn, Appeared
<1>6. Ranked(n, rk, top + 1)
  <2>1. ASSUME NEW x \in LiveIn(m)
        PROVE  /\ rk[x] <= top + 1
               /\ n[x].parent # Nothing => rk[n[x].parent] < rk[x]
               /\ n[x].next # Nothing => rk[n[x].next] < rk[x]
    <3>1. /\ m[x].parent \in LiveIn(m) \cup {Nothing} /\ m[x].next \in LiveIn(m) \cup {Nothing}
      BY DEF LinksIn
    <3>2. QED BY <1>3, <1>4, <3>1 DEF Ranked
  <2>2. QED BY <1>1, <1>4, <2>1 DEF Ranked, Appeared
<1>7. QED BY <1>1, <1>4, <1>5, <1>6 DEF RankedLast

Gone(m, n, w) ==
  /\ n \in [Wnds -> WndT] /\ ~ n[w].alive
  /\ \A x \in Wnds \ {w} : n[x] = m[x]

LEMMA GoneLinks ==
  ASSUME NEW m \in [Wnds -> WndT], NEW L, LinksIn(m, L),
         NEW top \in Nat, NEW rank, Ranked(m, rank, top),
         NEW w \in LiveIn(m), w \in L, m[w].child = Nothing, NEW n, Gone(m, n, w)
  PROVE  LinksIn(n, L \ {w}) /\ Ranked(n, rank, top) /\ LiveIn(n) = LiveIn(m) \ {w}
<1>1. LiveIn(n) = LiveIn(m) \ {w}
  <2>1. \A x \in Wnds \ {w} : n[x].alive = m[x].alive
    BY Zenon DEF Gone
  <2>2. ~ n[w].alive
    BY Zenon DEF Gone
  <2>3. LiveIn(n) \subseteq LiveIn(m) \ {w}
    BY Zenon, <2>1, <2>2 DEF LiveIn
  <2>4. LiveIn(m) \ {w} \subseteq LiveIn(n)
    BY Zenon, <2>1 DEF LiveIn
  <2>5. QED BY <2>3, <2>4
<1>2. LiveIn(m) \subseteq Wnds /\ Nothing \notin Wnds
  BY UserWindowsAssumption DEF LiveIn
<1>3. m[w].next = Nothing /\ m[w].prev = Nothing /\ m[w].parent = Nothing
  BY DEF LinksIn
<1>4. ASSUME NEW x \in LiveIn(m)
      PROVE  m[x].next # w /\ m[x].prev # w /\ m[x].child # w /\ m[x].parent # w
  <2>1. m[x].next # w /\ m[x].prev # w /\ m[x].child # w
    BY <1>2, <1>3 DEF LinksIn
  <2>2. \A y \in LiveIn(m) : m[y].parent # w
    BY NoChildren
  <2>3. QED BY <2>1, <2>2
<1>5. \A x \in LiveIn(m) \ {w} : n[x] = m[x]
  BY <1>2 DEF Gone
<1>6. ASSUME NEW x \in LiveIn(m)
      PROVE  /\ m[x].parent \in LiveIn(m) \cup {Nothing} /\ m[x].next \in LiveIn(m) \cup {Nothing}
             /\ m[x].prev \in LiveIn(m) \cup {Nothing} /\ m[x].child \in LiveIn(m) \cup {Nothing}
  BY DEF LinksIn
<1>7. LinksIn(n, L \ {w})
  <2>1. ASSUME NEW x \in LiveIn(m) \ {w}
        PROVE  /\ n[x] = m[x]
               /\ m[x].parent # Nothing => n[m[x].parent] = m[m[x].parent]
               /\ m[x].next # Nothing => n[m[x].next] = m[m[x].next]
               /\ m[x].prev # Nothing => n[m[x].prev] = m[m[x].prev]
               /\ m[x].child # Nothing => n[m[x].child] = m[m[x].child]
    BY <1>4, <1>5, <1>6
  <2>2. QED BY <1>1, <1>4, <1>6, <2>1 DEF LinksIn
<1>8. Ranked(n, rank, top)
  BY <1>1, <1>5 DEF Ranked
<1>9. QED BY <1>1, <1>7, <1>8

---------------------------------------------------------------------------
(* Links of windows set in the globals: the heap stays as it was.          *)

\* Each link of each window, as the operators say.
LinksSet(k, r) ==
  Shape(r) /\ SameRest(k, r) /\ r.heap = k.heap /\ SameWindows(k.wnd, r.wnd)

\* For the proofs: the parent, as the others are set.
SetParent(k, w, x) == IF w = Nothing THEN k ELSE [k EXCEPT !.wnd[w].parent = x]

ParentSet(k, r, w, x) ==
  /\ LinksSet(k, r)
  /\ \A y \in Wnds :
       /\ r.wnd[y].parent = IF y = w THEN x ELSE k.wnd[y].parent
       /\ r.wnd[y].next = k.wnd[y].next
       /\ r.wnd[y].prev = k.wnd[y].prev
       /\ r.wnd[y].child = k.wnd[y].child

LEMMA SetParentOK ==
  ASSUME NEW k, Shape(k), NEW w \in Wnds \cup {Nothing}, NEW x \in Wnds \cup {Nothing},
         NEW r, r = SetParent(k, w, x)
  PROVE  ParentSet(k, r, w, x)
<1>1. CASE w = Nothing
  <2>1. r = k /\ w \notin Wnds
    BY <1>1, UserWindowsAssumption DEF SetParent
  <2>2. QED BY <2>1 DEF ParentSet, LinksSet, SameRest, SameTables, SameWindows
<1>2. CASE w # Nothing
  <2> DEFINE m == k.wnd
             n == [m EXCEPT ![w] = [m[w] EXCEPT !.parent = x]]
  <2>1. m \in [Wnds -> WndT] /\ w \in Wnds
    BY <1>2 DEF Shape
  <2>2. r = [k EXCEPT !.wnd = n]
    BY <1>2 DEF SetParent
  <2> HIDE DEF m
  <2>3. [m[w] EXCEPT !.parent = x] \in WndT
    BY <2>1 DEF WndT
  <2>4. n \in [Wnds -> WndT] /\ n[w] = [m[w] EXCEPT !.parent = x] /\ \A y \in Wnds \ {w} : n[y] = m[y]
    BY <2>1, <2>3
  <2>5. m[w] \in WndT
    BY <2>1
  <2> HIDE DEF n
  <2>6. SameWindows(m, n)
    BY <2>4, <2>5 DEF SameWindows, WndT
  <2>7. \A y \in Wnds :
          /\ n[y].parent = IF y = w THEN x ELSE m[y].parent
          /\ n[y].next = m[y].next
          /\ n[y].prev = m[y].prev
          /\ n[y].child = m[y].child
    BY <2>4, <2>5 DEF WndT
  <2>8. Shape(r) /\ SameRest(k, r) /\ r.wnd = n /\ r.heap = k.heap
    BY <2>2, <2>4, WndSet
  <2>9. QED BY <2>6, <2>7, <2>8 DEF ParentSet, LinksSet, m
<1>3. QED BY <1>1, <1>2

NextSet(k, r, w, x) ==
  /\ LinksSet(k, r)
  /\ \A y \in Wnds :
       /\ r.wnd[y].parent = k.wnd[y].parent
       /\ r.wnd[y].next = IF y = w THEN x ELSE k.wnd[y].next
       /\ r.wnd[y].prev = k.wnd[y].prev
       /\ r.wnd[y].child = k.wnd[y].child

LEMMA SetNextOK ==
  ASSUME NEW k, Shape(k), NEW w \in Wnds \cup {Nothing}, NEW x \in Wnds \cup {Nothing},
         NEW r, r = SetNext(k, w, x)
  PROVE  NextSet(k, r, w, x)
<1>1. CASE w = Nothing
  <2>1. r = k /\ w \notin Wnds
    BY <1>1, UserWindowsAssumption DEF SetNext
  <2>2. QED BY <2>1 DEF NextSet, LinksSet, SameRest, SameTables, SameWindows
<1>2. CASE w # Nothing
  <2> DEFINE m == k.wnd
             n == [m EXCEPT ![w] = [m[w] EXCEPT !.next = x]]
  <2>1. m \in [Wnds -> WndT] /\ w \in Wnds
    BY <1>2 DEF Shape
  <2>2. r = [k EXCEPT !.wnd = n]
    BY <1>2 DEF SetNext
  <2> HIDE DEF m
  <2>3. [m[w] EXCEPT !.next = x] \in WndT
    BY <2>1 DEF WndT
  <2>4. n \in [Wnds -> WndT] /\ n[w] = [m[w] EXCEPT !.next = x] /\ \A y \in Wnds \ {w} : n[y] = m[y]
    BY <2>1, <2>3
  <2>5. m[w] \in WndT
    BY <2>1
  <2> HIDE DEF n
  <2>6. SameWindows(m, n)
    BY <2>4, <2>5 DEF SameWindows, WndT
  <2>7. \A y \in Wnds :
          /\ n[y].parent = m[y].parent
          /\ n[y].next = IF y = w THEN x ELSE m[y].next
          /\ n[y].prev = m[y].prev
          /\ n[y].child = m[y].child
    BY <2>4, <2>5 DEF WndT
  <2>8. Shape(r) /\ SameRest(k, r) /\ r.wnd = n /\ r.heap = k.heap
    BY <2>2, <2>4, WndSet
  <2>9. QED BY <2>6, <2>7, <2>8 DEF NextSet, LinksSet, m
<1>3. QED BY <1>1, <1>2

PrevSet(k, r, w, x) ==
  /\ LinksSet(k, r)
  /\ \A y \in Wnds :
       /\ r.wnd[y].parent = k.wnd[y].parent
       /\ r.wnd[y].next = k.wnd[y].next
       /\ r.wnd[y].prev = IF y = w THEN x ELSE k.wnd[y].prev
       /\ r.wnd[y].child = k.wnd[y].child

LEMMA SetPrevOK ==
  ASSUME NEW k, Shape(k), NEW w \in Wnds \cup {Nothing}, NEW x \in Wnds \cup {Nothing},
         NEW r, r = SetPrev(k, w, x)
  PROVE  PrevSet(k, r, w, x)
<1>1. CASE w = Nothing
  <2>1. r = k /\ w \notin Wnds
    BY <1>1, UserWindowsAssumption DEF SetPrev
  <2>2. QED BY <2>1 DEF PrevSet, LinksSet, SameRest, SameTables, SameWindows
<1>2. CASE w # Nothing
  <2> DEFINE m == k.wnd
             n == [m EXCEPT ![w] = [m[w] EXCEPT !.prev = x]]
  <2>1. m \in [Wnds -> WndT] /\ w \in Wnds
    BY <1>2 DEF Shape
  <2>2. r = [k EXCEPT !.wnd = n]
    BY <1>2 DEF SetPrev
  <2> HIDE DEF m
  <2>3. [m[w] EXCEPT !.prev = x] \in WndT
    BY <2>1 DEF WndT
  <2>4. n \in [Wnds -> WndT] /\ n[w] = [m[w] EXCEPT !.prev = x] /\ \A y \in Wnds \ {w} : n[y] = m[y]
    BY <2>1, <2>3
  <2>5. m[w] \in WndT
    BY <2>1
  <2> HIDE DEF n
  <2>6. SameWindows(m, n)
    BY <2>4, <2>5 DEF SameWindows, WndT
  <2>7. \A y \in Wnds :
          /\ n[y].parent = m[y].parent
          /\ n[y].next = m[y].next
          /\ n[y].prev = IF y = w THEN x ELSE m[y].prev
          /\ n[y].child = m[y].child
    BY <2>4, <2>5 DEF WndT
  <2>8. Shape(r) /\ SameRest(k, r) /\ r.wnd = n /\ r.heap = k.heap
    BY <2>2, <2>4, WndSet
  <2>9. QED BY <2>6, <2>7, <2>8 DEF PrevSet, LinksSet, m
<1>3. QED BY <1>1, <1>2

ChildSet(k, r, w, x) ==
  /\ LinksSet(k, r)
  /\ \A y \in Wnds :
       /\ r.wnd[y].parent = k.wnd[y].parent
       /\ r.wnd[y].next = k.wnd[y].next
       /\ r.wnd[y].prev = k.wnd[y].prev
       /\ r.wnd[y].child = IF y = w THEN x ELSE k.wnd[y].child

LEMMA SetChildOK ==
  ASSUME NEW k, Shape(k), NEW w \in Wnds \cup {Nothing}, NEW x \in Wnds \cup {Nothing},
         NEW r, r = SetChild(k, w, x)
  PROVE  ChildSet(k, r, w, x)
<1>1. CASE w = Nothing
  <2>1. r = k /\ w \notin Wnds
    BY <1>1, UserWindowsAssumption DEF SetChild
  <2>2. QED BY <2>1 DEF ChildSet, LinksSet, SameRest, SameTables, SameWindows
<1>2. CASE w # Nothing
  <2> DEFINE m == k.wnd
             n == [m EXCEPT ![w] = [m[w] EXCEPT !.child = x]]
  <2>1. m \in [Wnds -> WndT] /\ w \in Wnds
    BY <1>2 DEF Shape
  <2>2. r = [k EXCEPT !.wnd = n]
    BY <1>2 DEF SetChild
  <2> HIDE DEF m
  <2>3. [m[w] EXCEPT !.child = x] \in WndT
    BY <2>1 DEF WndT
  <2>4. n \in [Wnds -> WndT] /\ n[w] = [m[w] EXCEPT !.child = x] /\ \A y \in Wnds \ {w} : n[y] = m[y]
    BY <2>1, <2>3
  <2>5. m[w] \in WndT
    BY <2>1
  <2> HIDE DEF n
  <2>6. SameWindows(m, n)
    BY <2>4, <2>5 DEF SameWindows, WndT
  <2>7. \A y \in Wnds :
          /\ n[y].parent = m[y].parent
          /\ n[y].next = m[y].next
          /\ n[y].prev = m[y].prev
          /\ n[y].child = IF y = w THEN x ELSE m[y].child
    BY <2>4, <2>5 DEF WndT
  <2>8. Shape(r) /\ SameRest(k, r) /\ r.wnd = n /\ r.heap = k.heap
    BY <2>2, <2>4, WndSet
  <2>9. QED BY <2>6, <2>7, <2>8 DEF ChildSet, LinksSet, m
<1>3. QED BY <1>1, <1>2

LEMMA LinksSetTwice ==
  ASSUME NEW k, NEW r, NEW q, LinksSet(k, r), LinksSet(r, q)
  PROVE  LinksSet(k, q)
<1>1. SameWindows(k.wnd, q.wnd)
  BY DEF LinksSet, SameWindows
<1>2. QED BY <1>1 DEF LinksSet, SameRest, SameTables

\* Parent and siblings set at once.
Apart3(k, w, p, x, v) ==
  [k EXCEPT !.wnd[w].parent = p, !.wnd[w].next = x, !.wnd[w].prev = v]

SetApart(k, r, w, p, x, v) ==
  /\ LinksSet(k, r)
  /\ \A y \in Wnds :
       /\ r.wnd[y].parent = IF y = w THEN p ELSE k.wnd[y].parent
       /\ r.wnd[y].next = IF y = w THEN x ELSE k.wnd[y].next
       /\ r.wnd[y].prev = IF y = w THEN v ELSE k.wnd[y].prev
       /\ r.wnd[y].child = k.wnd[y].child

LEMMA Apart3OK ==
  ASSUME NEW k, Shape(k), NEW w \in Wnds, NEW p \in Wnds \cup {Nothing},
         NEW x \in Wnds \cup {Nothing}, NEW v \in Wnds \cup {Nothing}
  PROVE  SetApart(k, Apart3(k, w, p, x, v), w, p, x, v)
<1> DEFINE r == Apart3(k, w, p, x, v)
<1> DEFINE k1 == SetParent(k, w, p)
           k2 == SetNext(k1, w, x)
           k3 == SetPrev(k2, w, v)
<1>0. w # Nothing
  BY UserWindowsAssumption
<1>1. r = k3
  <2>1. r = [[[k EXCEPT !.wnd[w].parent = p] EXCEPT !.wnd[w].next = x] EXCEPT !.wnd[w].prev = v]
    BY DEF Apart3
  <2>2. k1 = [k EXCEPT !.wnd[w].parent = p]
    BY <1>0 DEF SetParent
  <2> HIDE DEF k1
  <2>3. k2 = [k1 EXCEPT !.wnd[w].next = x]
    BY <1>0 DEF SetNext
  <2> HIDE DEF k2
  <2>4. k3 = [k2 EXCEPT !.wnd[w].prev = v]
    BY <1>0 DEF SetPrev
  <2> HIDE DEF k3, r
  <2>5. QED BY Zenon, <2>1, <2>2, <2>3, <2>4
<1> HIDE DEF k1, k2, k3, r
<1>2. /\ LinksSet(k, k1)
      /\ \A y \in Wnds :
           /\ k1.wnd[y].parent = IF y = w THEN p ELSE k.wnd[y].parent
           /\ k1.wnd[y].next = k.wnd[y].next
           /\ k1.wnd[y].prev = k.wnd[y].prev
           /\ k1.wnd[y].child = k.wnd[y].child
  BY SetParentOK DEF k1, ParentSet
<1>3. /\ LinksSet(k1, k2)
      /\ \A y \in Wnds :
           /\ k2.wnd[y].parent = k1.wnd[y].parent
           /\ k2.wnd[y].next = IF y = w THEN x ELSE k1.wnd[y].next
           /\ k2.wnd[y].prev = k1.wnd[y].prev
           /\ k2.wnd[y].child = k1.wnd[y].child
  <2>1. Shape(k1)
    BY <1>2 DEF LinksSet
  <2>2. QED BY <2>1, SetNextOK DEF k2, NextSet
<1>4. /\ LinksSet(k2, k3)
      /\ \A y \in Wnds :
           /\ k3.wnd[y].parent = k2.wnd[y].parent
           /\ k3.wnd[y].next = k2.wnd[y].next
           /\ k3.wnd[y].prev = IF y = w THEN v ELSE k2.wnd[y].prev
           /\ k3.wnd[y].child = k2.wnd[y].child
  <2>1. Shape(k2)
    BY <1>3 DEF LinksSet
  <2>2. QED BY <2>1, SetPrevOK DEF k3, PrevSet
<1>5. LinksSet(k, k3)
  BY <1>2, <1>3, <1>4, LinksSetTwice
<1>6. SetApart(k, r, w, p, x, v)
  BY <1>1, <1>2, <1>3, <1>4, <1>5 DEF SetApart
<1>7. QED BY <1>6 DEF r

---------------------------------------------------------------------------
(* guest_wnd_update_hierarchy.                                             *)

\* The copy of a window has the window's links.
LinksCopied(k, x) ==
  LET c == k.heap[k.wnd[x].va]
  IN /\ c.next = Va(k, k.wnd[x].next) /\ c.prev = Va(k, k.wnd[x].prev)
     /\ c.parent = Va(k, k.wnd[x].parent) /\ c.child = Va(k, k.wnd[x].child)

\* Copies are in the heap, each window's in a place of its own.
CopiesApart(k) ==
  /\ \A x \in LiveIn(k.wnd) : k.wnd[x].va \in 0 .. Len(k.heap)
  /\ \A x, y \in LiveIn(k.wnd) : x # y /\ k.wnd[x].va # 0 => k.wnd[x].va # k.wnd[y].va

\* What remains of the heap when the copies of the windows in W are refreshed.
Refreshed(k, r, W) ==
  /\ Shape(r) /\ SameRest(k, r) /\ r.wnd = k.wnd /\ Len(r.heap) = Len(k.heap)
  /\ \A a \in 1 .. Len(k.heap) : /\ r.heap[a].h = k.heap[a].h
                                 /\ r.heap[a].pcls = k.heap[a].pcls
                                 /\ r.heap[a].atom = k.heap[a].atom
  /\ \A a \in 1 .. Len(k.heap) :
       (\A x \in LiveIn(k.wnd) : k.wnd[x].va # a) => r.heap[a] = k.heap[a]
  /\ \A x \in LiveIn(k.wnd) :
       k.wnd[x].va # 0 /\ (x \in W \/ LinksCopied(k, x)) => LinksCopied(r, x)

LEMMA VaIn ==
  ASSUME NEW k, Shape(k), NEW x \in Wnds \cup {Nothing}
  PROVE  Va(k, x) \in Nat
BY DEF Va, Shape, WndT

LEMMA VaSame ==
  ASSUME NEW k, Shape(k), NEW r, SameWindows(k.wnd, r.wnd), NEW x \in Wnds \cup {Nothing}
  PROVE  Va(r, x) = Va(k, x)
BY DEF Va, SameWindows

LEMMA MirrorOK ==
  ASSUME NEW k, Shape(k), CopiesApart(k), NEW w \in LiveIn(k.wnd) \cup {Nothing},
         NEW r, r = Mirror(k, w)
  PROVE  Refreshed(k, r, {w})
<1>0. Nothing \notin LiveIn(k.wnd) /\ LiveIn(k.wnd) \subseteq Wnds
  BY UserWindowsAssumption DEF LiveIn
<1>1. CASE w = Nothing \/ Va(k, w) = 0
  <2>1. r = k
    BY <1>1 DEF Mirror
  <2>2. \A x \in LiveIn(k.wnd) : k.wnd[x].va # 0 => x # w
    BY <1>0, <1>1 DEF Va
  <2>3. QED BY <2>1, <2>2 DEF Refreshed, SameRest, SameTables
<1>2. CASE ~ (w = Nothing \/ Va(k, w) = 0)
  <2> DEFINE me == k.wnd[w]
             a == me.va
             hp == k.heap
             xn == Va(k, me.next)  xv == Va(k, me.prev)
             xp == Va(k, me.parent)  xc == Va(k, me.child)
             c == WithLinks(k, hp[a], me)
             g == [hp EXCEPT ![a] = c]
  <2>1. w \in LiveIn(k.wnd) /\ w \in Wnds /\ a # 0 /\ a \in 1 .. Len(hp)
    <3>1. w \in LiveIn(k.wnd) /\ w \in Wnds
      BY <1>0, <1>2
    <3>2. a # 0
      BY <1>2 DEF Va
    <3>3. a \in 0 .. Len(hp) /\ Len(hp) \in Nat
      BY <3>1 DEF CopiesApart, Shape
    <3>4. QED BY <3>1, <3>2, <3>3
  <2>2. r = [k EXCEPT !.heap = g]
    <3>1. Va(k, w) = a
      BY <2>1, <1>2 DEF Va
    <3>2. r = [k EXCEPT !.heap[a] = WithLinks(k, k.heap[a], k.wnd[w])]
      BY <1>2, <3>1 DEF Mirror
    <3>3. QED BY <3>2
  <2>3. xn \in Nat /\ xv \in Nat /\ xp \in Nat /\ xc \in Nat
    <3>1. me \in WndT
      BY <2>1 DEF Shape
    <3>2. QED BY <3>1, VaIn DEF WndT
  <2>4. hp \in Seq(CellT) /\ Len(hp) <= HeapSize /\ hp[a] \in CellT
    BY <2>1 DEF Shape
  <2>5. me.next \in Wnds \cup {Nothing} /\ me.prev \in Wnds \cup {Nothing}
        /\ me.parent \in Wnds \cup {Nothing} /\ me.child \in Wnds \cup {Nothing}
    <3>1. me \in WndT
      BY <2>1 DEF Shape
    <3>2. QED BY <3>1 DEF WndT
  <2>6. \A x \in LiveIn(k.wnd) \ {w} : k.wnd[x].va # a
    BY <2>1 DEF CopiesApart
  <2> HIDE DEF xn, xv, xp, xc, hp, a
  <2>70. c = [hp[a] EXCEPT !.next = xn, !.prev = xv, !.parent = xp, !.child = xc]
    BY DEF WithLinks, xn, xv, xp, xc
  <2> HIDE DEF c
  <2>7. /\ c \in CellT /\ c.next = xn /\ c.prev = xv /\ c.parent = xp /\ c.child = xc
        /\ c.h = hp[a].h /\ c.pcls = hp[a].pcls /\ c.atom = hp[a].atom
    BY <2>3, <2>4, <2>70 DEF CellT
  <2>8. g \in Seq(CellT) /\ Len(g) = Len(hp) /\ g[a] = c
        /\ \A b \in 1 .. Len(hp) : b # a => g[b] = hp[b]
    BY <2>1, <2>4, <2>7
  <2> HIDE DEF g
  <2>9. Shape(r) /\ SameRest(k, r) /\ r.wnd = k.wnd /\ r.heap = g
    BY <2>2, <2>4, <2>8, HeapSet
  <2>10. \A x \in Wnds \cup {Nothing} : Va(r, x) = Va(k, x)
    BY <2>9 DEF Va
  <2>11. ASSUME NEW x \in LiveIn(k.wnd), k.wnd[x].va # 0, x = w \/ LinksCopied(k, x)
         PROVE  LinksCopied(r, x)
    <3>1. CASE x = w
      <4>1. r.heap[r.wnd[x].va] = c
        BY <2>8, <2>9, <3>1 DEF a
      <4>2. /\ Va(r, r.wnd[x].next) = xn /\ Va(r, r.wnd[x].prev) = xv
            /\ Va(r, r.wnd[x].parent) = xp /\ Va(r, r.wnd[x].child) = xc
        BY <2>5, <2>9, <2>10, <3>1 DEF xn, xv, xp, xc
      <4>3. QED BY <2>7, <4>1, <4>2 DEF LinksCopied
    <3>2. CASE x # w
      <4>1. k.wnd[x].va \in 1 .. Len(hp) /\ k.wnd[x].va # a
        <5>1. k.wnd[x].va \in 0 .. Len(hp) /\ Len(hp) \in Nat
          BY DEF CopiesApart, Shape, hp
        <5>2. QED BY <2>6, <2>11, <3>2, <5>1
      <4>2. r.heap[r.wnd[x].va] = k.heap[k.wnd[x].va]
        BY <2>8, <2>9, <4>1 DEF hp
      <4>3. k.wnd[x] \in WndT
        BY <1>0 DEF Shape
      <4>4. /\ Va(r, r.wnd[x].next) = Va(k, k.wnd[x].next)
            /\ Va(r, r.wnd[x].prev) = Va(k, k.wnd[x].prev)
            /\ Va(r, r.wnd[x].parent) = Va(k, k.wnd[x].parent)
            /\ Va(r, r.wnd[x].child) = Va(k, k.wnd[x].child)
        BY <2>9, <2>10, <4>3 DEF WndT
      <4>5. LinksCopied(k, x)
        BY <2>11, <3>2
      <4>6. QED BY <4>2, <4>4, <4>5 DEF LinksCopied
    <3>3. QED BY <3>1, <3>2
  <2>12. ASSUME NEW b \in 1 .. Len(k.heap)
         PROVE  /\ r.heap[b].h = k.heap[b].h /\ r.heap[b].pcls = k.heap[b].pcls
                /\ r.heap[b].atom = k.heap[b].atom
                /\ (\A x \in LiveIn(k.wnd) : k.wnd[x].va # b) => r.heap[b] = k.heap[b]
    <3>1. CASE b = a
      BY <2>1, <2>7, <2>8, <2>9, <3>1 DEF hp, a
    <3>2. CASE b # a
      BY <2>8, <2>9, <3>2 DEF hp
    <3>3. QED BY <3>1, <3>2
  <2>13. Len(r.heap) = Len(k.heap)
    BY <2>8, <2>9 DEF hp
  <2>14. QED BY <2>9, <2>11, <2>12, <2>13 DEF Refreshed
<1>3. QED BY <1>1, <1>2

LEMMA RefreshedTwice ==
  ASSUME NEW k, NEW r, NEW q, NEW W, NEW V, Refreshed(k, r, W), Refreshed(r, q, V)
  PROVE  Refreshed(k, q, W \cup V)
<1>1. SameRest(k, q) /\ Shape(q) /\ q.wnd = k.wnd /\ Len(q.heap) = Len(k.heap)
  BY DEF Refreshed, SameRest, SameTables
<1>2. ASSUME NEW a \in 1 .. Len(k.heap)
      PROVE  /\ q.heap[a].h = k.heap[a].h
             /\ q.heap[a].pcls = k.heap[a].pcls
             /\ q.heap[a].atom = k.heap[a].atom
  BY DEF Refreshed
<1>3. ASSUME NEW a \in 1 .. Len(k.heap), \A x \in LiveIn(k.wnd) : k.wnd[x].va # a
      PROVE  q.heap[a] = k.heap[a]
  BY <1>3 DEF Refreshed
<1>4. ASSUME NEW x \in LiveIn(k.wnd), k.wnd[x].va # 0, x \in W \cup V \/ LinksCopied(k, x)
      PROVE  LinksCopied(q, x)
  <2>1. x \in V \/ LinksCopied(r, x)
    BY <1>4 DEF Refreshed
  <2>2. QED BY <1>4, <2>1 DEF Refreshed
<1>5. QED BY <1>1, <1>2, <1>3, <1>4 DEF Refreshed

LEMMA ApartSame ==
  ASSUME NEW k, CopiesApart(k), NEW r, SameWindows(k.wnd, r.wnd), Len(r.heap) = Len(k.heap)
  PROVE  CopiesApart(r)
<1>1. LiveIn(r.wnd) = LiveIn(k.wnd)
  BY SameLive
<1>2. LiveIn(k.wnd) \subseteq Wnds
  BY DEF LiveIn
<1>3. QED BY <1>1, <1>2 DEF CopiesApart, SameWindows

LEMMA RefreshedApart ==
  ASSUME NEW k, CopiesApart(k), NEW r, NEW W, Refreshed(k, r, W)
  PROVE  CopiesApart(r)
BY ApartSame DEF Refreshed, SameWindows

---------------------------------------------------------------------------
(* user_window_unlink and user_window_link_child, on the globals.          *)

\* What a copy says besides the links; cells that are no window's copy.
CellsKept(k, r) ==
  /\ Len(r.heap) = Len(k.heap)
  /\ \A a \in 1 .. Len(k.heap) : /\ r.heap[a].h = k.heap[a].h
                                 /\ r.heap[a].pcls = k.heap[a].pcls
                                 /\ r.heap[a].atom = k.heap[a].atom
  /\ \A a \in 1 .. Len(k.heap) :
       (\A x \in LiveIn(k.wnd) : k.wnd[x].va # a) => r.heap[a] = k.heap[a]

\* Links and copies of links have changed, and nothing else.
Rewired(k, r) ==
  Shape(r) /\ SameRest(k, r) /\ SameWindows(k.wnd, r.wnd) /\ CellsKept(k, r)

\* All copies have the links of their windows, except those in W.
LinksBut(k, W) ==
  \A x \in LiveIn(k.wnd) \ W : k.wnd[x].va # 0 => LinksCopied(k, x)

\* The windows outside W have the same links.
SameLinks(m, n, W) ==
  \A x \in LiveIn(m) \ W : /\ n[x].parent = m[x].parent /\ n[x].next = m[x].next
                           /\ n[x].prev = m[x].prev /\ n[x].child = m[x].child

LEMMA RewiredTwice ==
  ASSUME NEW k, NEW r, NEW q, Rewired(k, r), Rewired(r, q)
  PROVE  Rewired(k, q)
<1>1. LiveIn(r.wnd) = LiveIn(k.wnd)
  BY SameLive DEF Rewired
<1>2. SameRest(k, q) /\ Shape(q)
  BY DEF Rewired, SameRest, SameTables
<1>3. SameWindows(k.wnd, q.wnd)
  BY DEF Rewired, SameWindows
<1>4. LiveIn(k.wnd) \subseteq Wnds
  BY DEF LiveIn
<1>5. \A x \in LiveIn(k.wnd) : r.wnd[x].va = k.wnd[x].va
  BY <1>4 DEF Rewired, SameWindows
<1>6. CellsKept(k, r) /\ CellsKept(r, q)
  BY DEF Rewired
<1>7. CellsKept(k, q)
  BY <1>1, <1>5, <1>6 DEF CellsKept
<1>8. QED BY <1>2, <1>3, <1>7 DEF Rewired

LEMMA SetRewires ==
  ASSUME NEW k, NEW r, LinksSet(k, r)
  PROVE  Rewired(k, r)
BY DEF LinksSet, Rewired, CellsKept

LEMMA RefreshRewires ==
  ASSUME NEW k, NEW r, NEW W, Refreshed(k, r, W)
  PROVE  Rewired(k, r)
BY DEF Refreshed, Rewired, CellsKept, SameWindows

LEMMA RewiredApart ==
  ASSUME NEW k, CopiesApart(k), NEW r, Rewired(k, r)
  PROVE  CopiesApart(r)
BY ApartSame DEF Rewired, CellsKept

LEMMA SetLeaves ==
  ASSUME NEW k, Shape(k), NEW r, LinksSet(k, r), NEW W, NEW V,
         SameLinks(k.wnd, r.wnd, V), LinksBut(k, W)
  PROVE  LinksBut(r, W \cup V)
<1>1. LiveIn(r.wnd) = LiveIn(k.wnd) /\ LiveIn(k.wnd) \subseteq Wnds
  BY SameLive DEF LinksSet, LiveIn
<1>2. SUFFICES ASSUME NEW x \in LiveIn(k.wnd), x \notin W, x \notin V, r.wnd[x].va # 0
               PROVE  LinksCopied(r, x)
  BY <1>1 DEF LinksBut
<1>3. r.wnd[x].va = k.wnd[x].va /\ r.heap = k.heap
  BY <1>1 DEF LinksSet, SameWindows
<1>4. LinksCopied(k, x)
  BY <1>2, <1>3 DEF LinksBut
<1>5. /\ r.wnd[x].parent = k.wnd[x].parent /\ r.wnd[x].next = k.wnd[x].next
      /\ r.wnd[x].prev = k.wnd[x].prev /\ r.wnd[x].child = k.wnd[x].child
  BY <1>2 DEF SameLinks
<1>6. k.wnd[x] \in WndT
  BY <1>1 DEF Shape
<1>7. \A y \in Wnds \cup {Nothing} : Va(r, y) = Va(k, y)
  BY VaSame DEF LinksSet
<1>8. /\ Va(r, r.wnd[x].parent) = Va(k, k.wnd[x].parent)
      /\ Va(r, r.wnd[x].next) = Va(k, k.wnd[x].next)
      /\ Va(r, r.wnd[x].prev) = Va(k, k.wnd[x].prev)
      /\ Va(r, r.wnd[x].child) = Va(k, k.wnd[x].child)
  BY <1>5, <1>6, <1>7 DEF WndT
<1>9. QED BY <1>3, <1>4, <1>8 DEF LinksCopied

LEMMA RefreshLeaves ==
  ASSUME NEW k, NEW r, NEW W, NEW V, Refreshed(k, r, V), LinksBut(k, W)
  PROVE  LinksBut(r, W \ V)
<1>1. r.wnd = k.wnd
  BY DEF Refreshed
<1>2. SUFFICES ASSUME NEW x \in LiveIn(k.wnd), x \notin W \/ x \in V, k.wnd[x].va # 0
               PROVE  LinksCopied(r, x)
  BY <1>1 DEF LinksBut
<1>3. x \in V \/ LinksCopied(k, x)
  BY <1>2 DEF LinksBut
<1>4. QED BY <1>2, <1>3 DEF Refreshed

LEMMA MirrorBothOK ==
  ASSUME NEW k, Shape(k), CopiesApart(k), NEW v \in LiveIn(k.wnd) \cup {Nothing},
         NEW w \in LiveIn(k.wnd) \cup {Nothing}, NEW r, r = MirrorBoth(k, v, w)
  PROVE  Refreshed(k, r, {v, w})
<1> DEFINE q == Mirror(k, v)
<1>1. Refreshed(k, q, {v})
  BY MirrorOK
<1>2. r = Mirror(q, w)
  BY Zenon DEF MirrorBoth
<1> HIDE DEF q
<1>3. Shape(q) /\ q.wnd = k.wnd /\ CopiesApart(q)
  BY <1>1, RefreshedApart DEF Refreshed
<1>4. Refreshed(q, r, {w})
  BY <1>2, <1>3, MirrorOK
<1>5. {v} \cup {w} = {v, w}
  OBVIOUS
<1>6. QED BY <1>1, <1>4, <1>5, RefreshedTwice

LEMMA CutOK ==
  ASSUME NEW k, Shape(k), NEW w \in Wnds, NEW r, r = Cut(k, w)
  PROVE  LinksSet(k, r) /\ CutFrom(k.wnd, r.wnd, w)
<1> DEFINE P == k.wnd[w].parent  N == k.wnd[w].next  V == k.wnd[w].prev
           k1 == SetNext(k, V, N)
           k2 == SetPrev(k1, N, V)
           k3 == IF P # Nothing /\ k.wnd[P].child = w THEN SetChild(k2, P, N) ELSE k2
<1>1. P \in Wnds \cup {Nothing} /\ N \in Wnds \cup {Nothing} /\ V \in Wnds \cup {Nothing}
  BY DEF Shape, WndT
<1>2. r = Apart3(k3, w, Nothing, Nothing, Nothing)
  BY Zenon DEF Cut, Apart3
<1> HIDE DEF P, N, V, k1, k2, k3
<1>3. /\ LinksSet(k, k1) /\ Shape(k1)
      /\ \A y \in Wnds :
           /\ k1.wnd[y].parent = k.wnd[y].parent
           /\ k1.wnd[y].next = IF y = V THEN N ELSE k.wnd[y].next
           /\ k1.wnd[y].prev = k.wnd[y].prev
           /\ k1.wnd[y].child = k.wnd[y].child
  <2>1. k1 = SetNext(k, V, N)
    BY DEF k1
  <2>2. QED
    <3>1. NextSet(k, k1, V, N)
      BY <1>1, <2>1, SetNextOK
    <3>2. Shape(k1)
      BY <3>1 DEF NextSet, LinksSet
    <3>3. QED BY <3>1, <3>2 DEF NextSet
<1>4. /\ LinksSet(k1, k2) /\ Shape(k2)
      /\ \A y \in Wnds :
           /\ k2.wnd[y].parent = k1.wnd[y].parent
           /\ k2.wnd[y].next = k1.wnd[y].next
           /\ k2.wnd[y].prev = IF y = N THEN V ELSE k1.wnd[y].prev
           /\ k2.wnd[y].child = k1.wnd[y].child
  <2>1. k2 = SetPrev(k1, N, V)
    BY DEF k2
  <2>2. PrevSet(k1, k2, N, V)
    BY <1>1, <1>3, <2>1, SetPrevOK
  <2>3. Shape(k2)
    BY <2>2 DEF PrevSet, LinksSet
  <2>4. QED BY <2>2, <2>3 DEF PrevSet
<1>5. /\ LinksSet(k2, k3) /\ Shape(k3)
      /\ \A y \in Wnds :
           /\ k3.wnd[y].parent = k2.wnd[y].parent
           /\ k3.wnd[y].next = k2.wnd[y].next
           /\ k3.wnd[y].prev = k2.wnd[y].prev
           /\ k3.wnd[y].child = IF y = P /\ k.wnd[y].child = w THEN N ELSE k2.wnd[y].child
  <2>1. CASE P # Nothing /\ k.wnd[P].child = w
    <3>1. k3 = SetChild(k2, P, N)
      BY <2>1 DEF k3
    <3>2. ChildSet(k2, k3, P, N)
      BY <1>1, <1>4, <3>1, SetChildOK
    <3>3. Shape(k3)
      BY <3>2 DEF ChildSet, LinksSet
    <3>4. QED BY <2>1, <3>2, <3>3 DEF ChildSet
  <2>2. CASE ~ (P # Nothing /\ k.wnd[P].child = w)
    <3>1. k3 = k2
      BY <2>2 DEF k3
    <3>2. \A y \in Wnds : ~ (y = P /\ k.wnd[y].child = w)
      BY <2>2, UserWindowsAssumption
    <3>3. QED BY <1>4, <3>1, <3>2 DEF LinksSet, SameRest, SameTables, SameWindows
  <2>3. QED BY <2>1, <2>2
<1>6. /\ LinksSet(k3, r)
      /\ \A y \in Wnds :
           /\ r.wnd[y].parent = IF y = w THEN Nothing ELSE k3.wnd[y].parent
           /\ r.wnd[y].next = IF y = w THEN Nothing ELSE k3.wnd[y].next
           /\ r.wnd[y].prev = IF y = w THEN Nothing ELSE k3.wnd[y].prev
           /\ r.wnd[y].child = k3.wnd[y].child
  <2>1. Nothing \in Wnds \cup {Nothing} /\ Shape(k3)
    BY <1>5
  <2>2. SetApart(k3, Apart3(k3, w, Nothing, Nothing, Nothing), w, Nothing, Nothing, Nothing)
    BY <2>1, Apart3OK
  <2>3. SetApart(k3, r, w, Nothing, Nothing, Nothing)
    BY <1>2, <2>2
  <2>4. QED BY <2>3 DEF SetApart
<1>7. LinksSet(k, r)
  BY <1>3, <1>4, <1>5, <1>6, LinksSetTwice
<1>8. r.wnd \in [Wnds -> WndT] /\ SameWindows(k.wnd, r.wnd)
  BY <1>7 DEF LinksSet, Shape
<1>9. \A x \in Wnds :
        /\ r.wnd[x].parent = IF x = w THEN Nothing ELSE k.wnd[x].parent
        /\ r.wnd[x].next = IF x = w THEN Nothing ELSE IF x = V THEN N ELSE k.wnd[x].next
        /\ r.wnd[x].prev = IF x = w THEN Nothing ELSE IF x = N THEN V ELSE k.wnd[x].prev
        /\ r.wnd[x].child = IF x = P /\ k.wnd[x].child = w THEN N ELSE k.wnd[x].child
  BY <1>3, <1>4, <1>5, <1>6
<1>10. CutFrom(k.wnd, r.wnd, w)
  BY <1>8, <1>9 DEF CutFrom, P, N, V
<1>11. QED BY <1>7, <1>10

LEMMA UnlinkOK ==
  ASSUME NEW k, Shape(k), CopiesApart(k), NEW L, LinksIn(k.wnd, L),
         NEW w \in LiveIn(k.wnd), NEW r, r = Unlink(k, w)
  PROVE  /\ CutFrom(k.wnd, r.wnd, w) /\ Rewired(k, r)
         /\ LinksBut(k, {}) => LinksBut(r, {})
<1> DEFINE P == k.wnd[w].parent  N == k.wnd[w].next  V == k.wnd[w].prev
           c == Cut(k, w)
           q == MirrorBoth(c, w, V)
<1>1. /\ P \in LiveIn(k.wnd) \cup {Nothing} /\ N \in LiveIn(k.wnd) \cup {Nothing}
      /\ V \in LiveIn(k.wnd) \cup {Nothing} /\ w \in Wnds
  BY DEF LinksIn, LiveIn
<1>2. r = MirrorBoth(q, N, P)
  BY Zenon DEF Unlink
<1> HIDE DEF q, P, N, V
<1>3. LinksSet(k, c) /\ CutFrom(k.wnd, c.wnd, w)
  BY <1>1, CutOK
<1>4. c = Cut(k, w) /\ q = MirrorBoth(c, w, V)
  BY DEF q
<1> HIDE DEF c
<1>5. LiveIn(c.wnd) = LiveIn(k.wnd) /\ Shape(c) /\ CopiesApart(c)
  BY <1>3, SameLive, ApartSame DEF LinksSet
<1>6. Refreshed(c, q, {w, V})
  BY <1>1, <1>4, <1>5, MirrorBothOK
<1>7. Shape(q) /\ q.wnd = c.wnd /\ CopiesApart(q)
  BY <1>5, <1>6, RefreshedApart DEF Refreshed
<1>8. Refreshed(q, r, {N, P})
  BY <1>1, <1>2, <1>5, <1>7, MirrorBothOK
<1>9. Refreshed(c, r, {w, V} \cup {N, P})
  BY <1>6, <1>8, RefreshedTwice
<1>10. Rewired(k, r) /\ r.wnd = c.wnd
  <2>1. Rewired(k, c) /\ Rewired(c, r)
    BY <1>3, <1>9, SetRewires, RefreshRewires
  <2>2. QED BY <2>1, <1>9, RewiredTwice DEF Refreshed
<1>11. SameLinks(k.wnd, c.wnd, {w, V} \cup {N, P})
  <2>1. LiveIn(k.wnd) \subseteq Wnds
    BY DEF LiveIn
  <2>2. QED BY <1>3, <2>1 DEF CutFrom, SameLinks, P, N, V
<1>12. LinksBut(k, {}) => LinksBut(r, {})
  <2>1. SUFFICES ASSUME LinksBut(k, {}) PROVE LinksBut(r, {})
    OBVIOUS
  <2>2. LinksBut(c, {} \cup ({w, V} \cup {N, P}))
    BY <1>3, <1>11, <2>1, SetLeaves
  <2>3. LinksBut(r, ({} \cup ({w, V} \cup {N, P})) \ ({w, V} \cup {N, P}))
    BY <1>9, <2>2, RefreshLeaves
  <2>4. ({} \cup ({w, V} \cup {N, P})) \ ({w, V} \cup {N, P}) = {}
    OBVIOUS
  <2>5. QED BY <2>3, <2>4
<1>13. QED BY <1>3, <1>10, <1>12

PlacedUnder(k, r, p, w) ==
  /\ LinksSet(k, r)
  /\ \A y \in Wnds :
       /\ r.wnd[y].parent = IF y = w THEN p ELSE k.wnd[y].parent
       /\ r.wnd[y].next = IF y = w THEN k.wnd[p].child ELSE k.wnd[y].next
       /\ r.wnd[y].prev = IF y = k.wnd[p].child THEN w
                          ELSE IF y = w THEN Nothing ELSE k.wnd[y].prev
       /\ r.wnd[y].child = k.wnd[y].child

LEMMA PlacedOK ==
  ASSUME NEW k, Shape(k), NEW w \in Wnds, NEW p \in Wnds, NEW r, r = Placed(k, p, w)
  PROVE  PlacedUnder(k, r, p, w)
<1> DEFINE C == k.wnd[p].child
           k1 == Apart3(k, w, p, C, Nothing)
<1>1. C \in Wnds \cup {Nothing}
  BY DEF Shape, WndT
<1>2. r = SetPrev(k1, C, w)
  BY Zenon DEF Placed, Apart3
<1>3. k1 = Apart3(k, w, p, C, Nothing)
  OBVIOUS
<1> HIDE DEF C, k1
<1>4. /\ LinksSet(k, k1) /\ Shape(k1)
      /\ \A y \in Wnds :
           /\ k1.wnd[y].parent = IF y = w THEN p ELSE k.wnd[y].parent
           /\ k1.wnd[y].next = IF y = w THEN C ELSE k.wnd[y].next
           /\ k1.wnd[y].prev = IF y = w THEN Nothing ELSE k.wnd[y].prev
           /\ k1.wnd[y].child = k.wnd[y].child
  <2>1. Nothing \in Wnds \cup {Nothing} /\ p \in Wnds \cup {Nothing}
    OBVIOUS
  <2>2. SetApart(k, Apart3(k, w, p, C, Nothing), w, p, C, Nothing)
    BY <1>1, <2>1, Apart3OK
  <2>3. SetApart(k, k1, w, p, C, Nothing)
    BY <1>3, <2>2
  <2>4. LinksSet(k, k1)
    BY <2>3 DEF SetApart
  <2>5. Shape(k1)
    BY <2>4 DEF LinksSet
  <2>6. QED BY <2>3, <2>5 DEF SetApart
<1>5. /\ LinksSet(k1, r)
      /\ \A y \in Wnds :
           /\ r.wnd[y].parent = k1.wnd[y].parent
           /\ r.wnd[y].next = k1.wnd[y].next
           /\ r.wnd[y].prev = IF y = C THEN w ELSE k1.wnd[y].prev
           /\ r.wnd[y].child = k1.wnd[y].child
  <2>1. PrevSet(k1, r, C, w)
    BY <1>1, <1>2, <1>4, SetPrevOK
  <2>2. QED BY <2>1 DEF PrevSet
<1>6. LinksSet(k, r)
  BY <1>4, <1>5, LinksSetTwice
<1>7. QED BY <1>4, <1>5, <1>6 DEF PlacedUnder, C

LEMMA LinkChildOK ==
  ASSUME NEW k, Shape(k), CopiesApart(k), NEW L, LinksIn(k.wnd, L),
         NEW w \in LiveIn(k.wnd), w \in L, k.wnd[w].child = Nothing,
         NEW p \in LiveIn(k.wnd) \ {w}, NEW r, r = LinkChild(k, p, w)
  PROVE  /\ LinkedUnder(k.wnd, r.wnd, p, w) /\ Rewired(k, r)
         /\ LinksBut(k, {}) => LinksBut(r, {})
<1> DEFINE a == Unlink(k, w)
           C == a.wnd[p].child
           b == Placed(a, p, w)
           c == Mirror(b, C)
           d == SetChild(c, p, w)
<1>1. r = MirrorBoth(d, w, p)
  BY Zenon DEF LinkChild
<1>2. a = Unlink(k, w) /\ b = Placed(a, p, w) /\ c = Mirror(b, C) /\ d = SetChild(c, p, w)
  OBVIOUS
<1>3. C = a.wnd[p].child
  OBVIOUS
<1> HIDE DEF a, b, c, d, C
<1>4. w \in Wnds /\ p \in Wnds /\ Nothing \notin Wnds /\ LiveIn(k.wnd) \subseteq Wnds
  BY UserWindowsAssumption DEF LiveIn
<1>5. CutFrom(k.wnd, a.wnd, w) /\ Rewired(k, a) /\ (LinksBut(k, {}) => LinksBut(a, {}))
  BY <1>2, UnlinkOK
<1>6. k.wnd[w].parent = Nothing /\ k.wnd[w].next = Nothing /\ k.wnd[w].prev = Nothing
  BY DEF LinksIn
\* There was nothing to unlink.
<1>7. \A y \in Wnds :
        /\ a.wnd[y].parent = k.wnd[y].parent /\ a.wnd[y].next = k.wnd[y].next
        /\ a.wnd[y].prev = k.wnd[y].prev /\ a.wnd[y].child = k.wnd[y].child
  BY <1>4, <1>5, <1>6 DEF CutFrom
<1>8. LiveIn(a.wnd) = LiveIn(k.wnd) /\ Shape(a) /\ CopiesApart(a)
  BY <1>5, SameLive, RewiredApart DEF Rewired
<1>9. C = k.wnd[p].child /\ C \in LiveIn(k.wnd) \cup {Nothing}
  BY <1>3, <1>4, <1>7 DEF LinksIn
<1>10. /\ LinksSet(a, b)
       /\ \A y \in Wnds :
            /\ b.wnd[y].parent = IF y = w THEN p ELSE a.wnd[y].parent
            /\ b.wnd[y].next = IF y = w THEN C ELSE a.wnd[y].next
            /\ b.wnd[y].prev = IF y = C THEN w
                               ELSE IF y = w THEN Nothing ELSE a.wnd[y].prev
            /\ b.wnd[y].child = a.wnd[y].child
  <2>1. PlacedUnder(a, b, p, w)
    BY <1>2, <1>4, <1>8, PlacedOK
  <2>2. QED BY <1>3, <2>1 DEF PlacedUnder
<1>11. LiveIn(b.wnd) = LiveIn(k.wnd) /\ Shape(b) /\ CopiesApart(b)
  BY <1>8, <1>10, SameLive, ApartSame DEF LinksSet
<1>12. Refreshed(b, c, {C})
  BY <1>2, <1>9, <1>11, MirrorOK
<1>13. Shape(c) /\ c.wnd = b.wnd /\ CopiesApart(c)
  BY <1>11, <1>12, RefreshedApart DEF Refreshed
<1>14. /\ LinksSet(c, d)
       /\ \A y \in Wnds :
            /\ d.wnd[y].parent = b.wnd[y].parent /\ d.wnd[y].next = b.wnd[y].next
            /\ d.wnd[y].prev = b.wnd[y].prev
            /\ d.wnd[y].child = IF y = p THEN w ELSE b.wnd[y].child
  <2>1. ChildSet(c, d, p, w)
    BY <1>2, <1>4, <1>13, SetChildOK
  <2>2. QED BY <1>13, <2>1 DEF ChildSet
<1>15. LiveIn(d.wnd) = LiveIn(k.wnd) /\ Shape(d) /\ CopiesApart(d)
  BY <1>11, <1>13, <1>14, SameLive, ApartSame DEF LinksSet
<1>16. Refreshed(d, r, {w, p})
  BY <1>1, <1>15, MirrorBothOK
<1>17. r.wnd = d.wnd
  BY <1>16 DEF Refreshed
<1>18. Rewired(k, r)
  <2>1. Rewired(a, b) /\ Rewired(b, c) /\ Rewired(c, d) /\ Rewired(d, r)
    BY <1>10, <1>12, <1>14, <1>16, SetRewires, RefreshRewires
  <2>2. Rewired(k, b)
    BY <1>5, <2>1, RewiredTwice
  <2>3. Rewired(k, c)
    BY <2>1, <2>2, RewiredTwice
  <2>4. Rewired(k, d)
    BY <2>1, <2>3, RewiredTwice
  <2>5. QED BY <2>1, <2>4, RewiredTwice
<1>19. LinkedUnder(k.wnd, r.wnd, p, w)
  <2>1. r.wnd \in [Wnds -> WndT] /\ SameWindows(k.wnd, r.wnd)
    BY <1>18 DEF Rewired, Shape
  <2>2. \A x \in Wnds :
          /\ r.wnd[x].parent = IF x = w THEN p ELSE k.wnd[x].parent
          /\ r.wnd[x].next = IF x = w THEN C ELSE k.wnd[x].next
          /\ r.wnd[x].prev = IF x = C THEN w ELSE k.wnd[x].prev
          /\ r.wnd[x].child = IF x = p THEN w ELSE k.wnd[x].child
    BY <1>6, <1>7, <1>10, <1>14, <1>17
  <2>3. QED BY <1>9, <2>1, <2>2 DEF LinkedUnder
<1>20. LinksBut(k, {}) => LinksBut(r, {})
  <2>1. SUFFICES ASSUME LinksBut(k, {}) PROVE LinksBut(r, {})
    OBVIOUS
  <2>2. SameLinks(a.wnd, b.wnd, {w, C})
    BY <1>4, <1>8, <1>10 DEF SameLinks
  <2>3. LinksBut(b, {} \cup {w, C})
    BY <1>5, <1>8, <1>10, <2>1, <2>2, SetLeaves
  <2>4. LinksBut(c, ({} \cup {w, C}) \ {C})
    BY <1>12, <2>3, RefreshLeaves
  <2>5. SameLinks(c.wnd, d.wnd, {p})
    BY <1>4, <1>11, <1>13, <1>14 DEF SameLinks
  <2>6. LinksBut(d, (({} \cup {w, C}) \ {C}) \cup {p})
    BY <1>13, <1>14, <2>4, <2>5, SetLeaves
  <2>7. LinksBut(r, ((({} \cup {w, C}) \ {C}) \cup {p}) \ {w, p})
    BY <1>16, <2>6, RefreshLeaves
  <2>8. ((({} \cup {w, C}) \ {C}) \cup {p}) \ {w, p} = {}
    OBVIOUS
  <2>9. QED BY <2>7, <2>8
<1>21. QED BY <1>18, <1>19, <1>20

---------------------------------------------------------------------------
(* The handle table and the windows it holds.                              *)

\* The list of the free entries: no entry is linked from two places.
FreeOK(t) ==
  /\ t.first \in FreeSlots(t) \cup {EndOfList}
  /\ \A i \in FreeSlots(t) :
       /\ t.ptr[i] \in FreeSlots(t) \cup {EndOfList}
       /\ t.ptr[i] # EndOfList => t.ptr[i] # t.first
  /\ \A i, j \in FreeSlots(t) : t.ptr[i] = t.ptr[j] /\ t.ptr[i] # EndOfList => i = j

\* The entries in use are HWND_DESKTOP and those of the windows.
Holds(t, m) ==
  /\ t.type[0] = "WINDOW" /\ t.ptr[0] = Nothing
  /\ \A w \in LiveIn(m) :
       /\ m[w].hwnd \in AllHandles /\ m[w].hwnd.index # 0
       /\ t.type[m[w].hwnd.index] = "WINDOW"
       /\ t.gen[m[w].hwnd.index] = m[w].hwnd.gen
       /\ t.ptr[m[w].hwnd.index] = w
  /\ \A i \in Slots \ {0} :
       t.type[i] = "WINDOW" => t.ptr[i] \in LiveIn(m) /\ m[t.ptr[i]].hwnd.index = i
  /\ t.count = Cardinality(LiveIn(m)) + 1

TableOK(t, m) == t \in TableT /\ FreeOK(t) /\ Holds(t, m)

Allocated(t, r, x) ==
  /\ r.type = [t.type EXCEPT ![t.first] = "WINDOW"]
  /\ r.gen = t.gen
  /\ r.ptr = [t.ptr EXCEPT ![t.first] = x]
  /\ r.first = t.ptr[t.first]
  /\ r.count = t.count + 1

Freed(t, r, i) ==
  /\ r.type = [t.type EXCEPT ![i] = "FREE"]
  /\ r.gen = [t.gen EXCEPT ![i] = (@ + 1) % GenSpan]
  /\ r.ptr = [t.ptr EXCEPT ![i] = t.first]
  /\ r.first = i
  /\ r.count = t.count - 1

LEMMA WindowsFinite ==
  ASSUME NEW m
  PROVE  IsFiniteSet(LiveIn(m)) /\ Cardinality(LiveIn(m)) \in Nat
<1>1. LiveIn(m) \subseteq Wnds
  BY DEF LiveIn
<1>2. QED BY <1>1, FS_Subset, FS_CardinalityType, UserWindowsAssumption

LEMMA AllocFields ==
  ASSUME NEW t \in TableT, t.first \in Slots, NEW x \in Wnds,
         t.ptr[t.first] \in EndOfList..(MaxHandles - 1)
  PROVE  Alloc(t, x, "WINDOW") \in TableT /\ Allocated(t, Alloc(t, x, "WINDOW"), x)
<1> DEFINE r == Alloc(t, x, "WINDOW")
<1>1. Allocated(t, r, x)
  BY DEF TableT, Alloc, Allocated
<1>2. r = [type |-> r.type, gen |-> r.gen, ptr |-> r.ptr, first |-> r.first, count |-> r.count]
  BY DEF TableT, Alloc
<1> HIDE DEF r
<1>3. r.type \in [Slots -> {"FREE", "WINDOW"}] /\ r.gen \in [Slots -> 0..(GenSpan - 1)]
      /\ r.first \in EndOfList..(MaxHandles - 1) /\ r.count \in Int
      /\ r.ptr \in [Slots -> Wnds \cup {Nothing} \cup (EndOfList..(MaxHandles - 1))]
  BY <1>1 DEF TableT, Allocated
<1>4. r \in TableT
  BY <1>2, <1>3 DEF TableT
<1>5. QED BY <1>1, <1>4 DEF r

LEMMA FreeFields ==
  ASSUME NEW t \in TableT, NEW h \in AllHandles, h.index # 0,
         t.gen[h.index] = h.gen, t.type[h.index] = "WINDOW"
  PROVE  Free(t, h) \in TableT /\ Freed(t, Free(t, h), h.index)
<1> DEFINE r == Free(t, h)
<1>1. h # NoHandle /\ IsValid(t, h) /\ h.index \in Slots
  BY DEF NoHandle, IsValid, AllHandles
<1>2. Freed(t, r, h.index)
  BY <1>1 DEF TableT, Free, Freed
<1>3. r = [type |-> r.type, gen |-> r.gen, ptr |-> r.ptr, first |-> r.first, count |-> r.count]
  BY <1>1 DEF TableT, Free
<1> HIDE DEF r
<1>4. (t.gen[h.index] + 1) % GenSpan \in 0..(GenSpan - 1)
  <2>1. t.gen[h.index] \in Nat
    BY <1>1 DEF TableT
  <2>2. QED BY <2>1, HandleTableAssumption
<1>5. r.type \in [Slots -> {"FREE", "WINDOW"}] /\ r.gen \in [Slots -> 0..(GenSpan - 1)]
  BY <1>1, <1>2, <1>4 DEF TableT, Freed
<1>6. h.index \in EndOfList..(MaxHandles - 1)
  BY <1>1, SlotFacts
<1>7. r.first \in EndOfList..(MaxHandles - 1) /\ r.count \in Int
      /\ r.ptr \in [Slots -> Wnds \cup {Nothing} \cup (EndOfList..(MaxHandles - 1))]
  <2> DEFINE E == EndOfList..(MaxHandles - 1)
             U == Wnds \cup {Nothing} \cup E
  <2>1. t.ptr \in [Slots -> U] /\ t.first \in E /\ t.count \in Int
    BY DEF TableT
  <2>2. r.ptr = [t.ptr EXCEPT ![h.index] = t.first] /\ r.first = h.index /\ r.count = t.count - 1
    BY <1>2 DEF Freed
  <2>3. t.first \in U /\ h.index \in E
    BY <1>6, <2>1
  <2> HIDE DEF U, E
  <2>4. r.ptr \in [Slots -> U]
    BY <2>1, <2>2, <2>3
  <2>5. QED BY <2>1, <2>2, <2>3, <2>4 DEF U, E
<1>8. r \in TableT
  BY <1>3, <1>5, <1>7 DEF TableT
<1>9. QED BY <1>2, <1>8 DEF r

\* A handle that is not 0 is of a free entry.
LEMMA HeadIsFree ==
  ASSUME NEW t \in TableT, FreeOK(t), NEW m, Holds(t, m), AllocHandle(t) # NoHandle
  PROVE  /\ t.first \in FreeSlots(t) /\ t.first \in Slots /\ t.first # 0
         /\ t.ptr[t.first] \in EndOfList..(MaxHandles - 1)
         /\ AllocHandle(t) = [index |-> t.first, gen |-> t.gen[t.first]]
         /\ AllocHandle(t) \in AllHandles
<1>1. t.first \in Slots /\ AllocHandle(t) = [index |-> t.first, gen |-> t.gen[t.first]]
  BY DEF AllocHandle
<1>2. t.first \in FreeSlots(t)
  BY <1>1, SlotFacts DEF FreeOK
<1>3. t.first # 0
  BY <1>2 DEF Holds, FreeSlots
<1>4. t.ptr[t.first] \in EndOfList..(MaxHandles - 1)
  BY <1>2, SlotFacts DEF FreeOK, FreeSlots
<1>5. AllocHandle(t) \in AllHandles
  BY <1>1 DEF AllHandles, TableT
<1>6. QED BY <1>1, <1>2, <1>3, <1>4, <1>5

LEMMA AllocFreeOK ==
  ASSUME NEW t \in TableT, FreeOK(t), t.first \in FreeSlots(t), NEW x, NEW r, Allocated(t, r, x)
  PROVE  FreeOK(r) /\ FreeSlots(r) = FreeSlots(t) \ {t.first}
<1>1. t.first \in Slots /\ t.first # EndOfList
  BY SlotFacts DEF FreeSlots
<1>2. FreeSlots(r) = FreeSlots(t) \ {t.first}
  BY <1>1 DEF FreeSlots, Allocated, TableT
<1>3. \A i \in FreeSlots(r) : r.ptr[i] = t.ptr[i]
  BY <1>1, <1>2 DEF FreeSlots, Allocated, TableT
<1>4. r.first = t.ptr[t.first]
  BY DEF Allocated
<1>5. QED BY <1>1, <1>2, <1>3, <1>4 DEF FreeOK

LEMMA FreeFreeOK ==
  ASSUME NEW t \in TableT, FreeOK(t), NEW i \in Slots, t.type[i] = "WINDOW", NEW r, Freed(t, r, i)
  PROVE  FreeOK(r) /\ FreeSlots(r) = FreeSlots(t) \cup {i}
<1>1. i \notin FreeSlots(t) /\ i # EndOfList
  BY SlotFacts DEF FreeSlots
<1>2. FreeSlots(r) = FreeSlots(t) \cup {i}
  BY DEF FreeSlots, Freed, TableT
<1>3. /\ \A j \in FreeSlots(t) : r.ptr[j] = t.ptr[j]
      /\ r.ptr[i] = t.first /\ r.first = i
  BY <1>1 DEF FreeSlots, Freed, TableT
<1>4. QED BY <1>1, <1>2, <1>3 DEF FreeOK

\* A window gets the handle.
LEMMA AllocHolds ==
  ASSUME NEW t, NEW m, TableOK(t, m), AllocHandle(t) # NoHandle,
         NEW w \in Wnds \ LiveIn(m), NEW n, n[w].hwnd = AllocHandle(t),
         LiveIn(n) = LiveIn(m) \cup {w}, \A x \in LiveIn(m) : n[x].hwnd = m[x].hwnd
  PROVE  TableOK(Alloc(t, w, "WINDOW"), n)
<1> DEFINE r == Alloc(t, w, "WINDOW")
<1>1. t \in TableT /\ FreeOK(t) /\ Holds(t, m)
  BY DEF TableOK
<1>2. /\ t.first \in FreeSlots(t) /\ t.first \in Slots /\ t.first # 0
      /\ t.ptr[t.first] \in EndOfList..(MaxHandles - 1)
      /\ n[w].hwnd.index = t.first /\ n[w].hwnd.gen = t.gen[t.first]
  BY <1>1, HeadIsFree
<1>3. r \in TableT /\ Allocated(t, r, w)
  BY <1>1, <1>2, AllocFields
<1> HIDE DEF r
<1>4. FreeOK(r)
  BY <1>1, <1>2, <1>3, AllocFreeOK
<1>5. /\ \A i \in Slots \ {t.first} : r.type[i] = t.type[i] /\ r.ptr[i] = t.ptr[i]
      /\ r.type[t.first] = "WINDOW" /\ r.ptr[t.first] = w /\ r.gen = t.gen
      /\ r.count = t.count + 1
  BY <1>1, <1>2, <1>3 DEF Allocated, TableT
<1>6. t.type[t.first] = "FREE" /\ 0 \in Slots
  BY <1>2, SlotFacts DEF FreeSlots
<1>7. \A x \in LiveIn(m) : m[x].hwnd.index \in Slots /\ m[x].hwnd.index # t.first
  BY <1>1, <1>6 DEF Holds, AllHandles
<1>8. ASSUME NEW x \in LiveIn(n)
      PROVE  /\ n[x].hwnd \in AllHandles /\ n[x].hwnd.index # 0
             /\ r.type[n[x].hwnd.index] = "WINDOW"
             /\ r.gen[n[x].hwnd.index] = n[x].hwnd.gen
             /\ r.ptr[n[x].hwnd.index] = x
  <2>1. CASE x = w
    BY <1>1, <1>2, <1>5, <2>1, HeadIsFree
  <2>2. CASE x # w
    <3>1. x \in LiveIn(m) /\ n[x].hwnd = m[x].hwnd
      BY <2>2
    <3>2. QED BY <1>1, <1>5, <1>7, <3>1 DEF Holds
  <2>3. QED BY <2>1, <2>2
<1>9. ASSUME NEW i \in Slots \ {0}, r.type[i] = "WINDOW"
      PROVE  r.ptr[i] \in LiveIn(n) /\ n[r.ptr[i]].hwnd.index = i
  <2>1. CASE i = t.first
    BY <1>2, <1>5, <2>1
  <2>2. CASE i # t.first
    <3>1. r.ptr[i] = t.ptr[i] /\ t.type[i] = "WINDOW"
      BY <1>5, <1>9, <2>2
    <3>2. t.ptr[i] \in LiveIn(m) /\ m[t.ptr[i]].hwnd.index = i
      BY <1>1, <3>1 DEF Holds
    <3>3. QED BY <3>1, <3>2
  <2>3. QED BY <2>1, <2>2
<1>10. r.count = Cardinality(LiveIn(n)) + 1
  <2>1. Cardinality(LiveIn(n)) = Cardinality(LiveIn(m)) + 1
    BY WindowsFinite, FS_AddElement
  <2>2. t.count = Cardinality(LiveIn(m)) + 1 /\ Cardinality(LiveIn(m)) \in Nat
    BY <1>1, WindowsFinite DEF Holds
  <2>3. QED BY <1>5, <2>1, <2>2
<1>11. r.type[0] = "WINDOW" /\ r.ptr[0] = Nothing
  BY <1>1, <1>2, <1>5, <1>6 DEF Holds
<1>12. Holds(r, n)
  BY <1>8, <1>9, <1>10, <1>11 DEF Holds
<1>13. QED BY <1>3, <1>4, <1>12 DEF TableOK, r

\* The handle of a window is freed with it.
LEMMA FreeHolds ==
  ASSUME NEW t, NEW m, TableOK(t, m), NEW w \in LiveIn(m), NEW h, h = m[w].hwnd,
         NEW n, LiveIn(n) = LiveIn(m) \ {w}, \A x \in LiveIn(n) : n[x].hwnd = m[x].hwnd
  PROVE  TableOK(Free(t, h), n)
<1> DEFINE r == Free(t, h)
           i == h.index
<1>1. t \in TableT /\ FreeOK(t) /\ Holds(t, m)
  BY DEF TableOK
<1>2. /\ h \in AllHandles /\ i # 0 /\ i \in Slots /\ t.type[i] = "WINDOW"
      /\ t.gen[i] = h.gen /\ t.ptr[i] = w
  BY <1>1 DEF Holds, AllHandles
<1>3. r \in TableT /\ Freed(t, r, i)
  BY <1>1, <1>2, FreeFields
<1> HIDE DEF r, i
<1>4. FreeOK(r)
  BY <1>1, <1>2, <1>3, FreeFreeOK
<1>5. /\ \A j \in Slots \ {i} : r.type[j] = t.type[j] /\ r.ptr[j] = t.ptr[j] /\ r.gen[j] = t.gen[j]
      /\ r.type[i] = "FREE" /\ r.count = t.count - 1
  BY <1>1, <1>2, <1>3 DEF Freed, TableT
<1>6. ASSUME NEW x \in LiveIn(n)
      PROVE  /\ n[x].hwnd \in AllHandles /\ n[x].hwnd.index # 0
             /\ r.type[n[x].hwnd.index] = "WINDOW"
             /\ r.gen[n[x].hwnd.index] = n[x].hwnd.gen
             /\ r.ptr[n[x].hwnd.index] = x
  <2>1. x \in LiveIn(m) /\ x # w /\ n[x].hwnd = m[x].hwnd
    OBVIOUS
  <2>2. /\ m[x].hwnd \in AllHandles /\ m[x].hwnd.index # 0
        /\ t.type[m[x].hwnd.index] = "WINDOW"
        /\ t.gen[m[x].hwnd.index] = m[x].hwnd.gen
        /\ t.ptr[m[x].hwnd.index] = x
    BY <1>1, <2>1 DEF Holds
  <2>3. m[x].hwnd.index \in Slots \ {i}
    BY <1>2, <2>1, <2>2 DEF AllHandles
  <2>4. QED BY <1>5, <2>1, <2>2, <2>3
<1>7. ASSUME NEW j \in Slots \ {0}, r.type[j] = "WINDOW"
      PROVE  r.ptr[j] \in LiveIn(n) /\ n[r.ptr[j]].hwnd.index = j
  <2>1. j # i
    BY <1>5, <1>7
  <2>2. r.ptr[j] = t.ptr[j] /\ t.type[j] = "WINDOW"
    BY <1>5, <1>7, <2>1
  <2>3. t.ptr[j] \in LiveIn(m) /\ m[t.ptr[j]].hwnd.index = j
    BY <1>1, <2>2 DEF Holds
  <2>4. t.ptr[j] # w
    BY <2>1, <2>3 DEF i
  <2>5. QED BY <2>2, <2>3, <2>4
<1>8. r.count = Cardinality(LiveIn(n)) + 1
  <2>1. Cardinality(LiveIn(n)) = Cardinality(LiveIn(m)) - 1
    BY WindowsFinite, FS_RemoveElement
  <2>2. t.count = Cardinality(LiveIn(m)) + 1 /\ Cardinality(LiveIn(m)) \in Nat
    BY <1>1, WindowsFinite DEF Holds
  <2>3. QED BY <1>5, <2>1, <2>2
<1>9. r.type[0] = "WINDOW" /\ r.ptr[0] = Nothing
  BY <1>1, <1>2, <1>5, SlotFacts DEF Holds
<1>10. Holds(r, n)
  BY <1>6, <1>7, <1>8, <1>9 DEF Holds
<1>11. QED BY <1>3, <1>4, <1>10 DEF TableOK, r

\* A window that could not get its extra bytes gives its handle back.
LEMMA FailedAllocHolds ==
  ASSUME NEW t, NEW m, TableOK(t, m), AllocHandle(t) # NoHandle, NEW w \in Wnds
  PROVE  TableOK(Free(Alloc(t, w, "WINDOW"), AllocHandle(t)), m)
<1> DEFINE q == Alloc(t, w, "WINDOW")
           h == AllocHandle(t)
           r == Free(q, h)
<1>1. t \in TableT /\ FreeOK(t) /\ Holds(t, m)
  BY DEF TableOK
<1>2. /\ t.first \in FreeSlots(t) /\ t.first \in Slots /\ t.first # 0
      /\ t.ptr[t.first] \in EndOfList..(MaxHandles - 1)
      /\ h \in AllHandles /\ h.index = t.first /\ h.gen = t.gen[t.first]
  BY <1>1, HeadIsFree
<1>3. q \in TableT /\ Allocated(t, q, w)
  BY <1>1, <1>2, AllocFields
<1> HIDE DEF q, h
<1>4. FreeOK(q) /\ FreeSlots(q) = FreeSlots(t) \ {t.first}
  BY <1>1, <1>2, <1>3, AllocFreeOK
<1>5. q.type[t.first] = "WINDOW" /\ q.gen[t.first] = t.gen[t.first]
  BY <1>1, <1>2, <1>3 DEF Allocated, TableT
<1>6. r \in TableT /\ Freed(q, r, t.first)
  BY <1>2, <1>3, <1>5, FreeFields
<1> HIDE DEF r
<1>7. FreeOK(r)
  BY <1>2, <1>3, <1>4, <1>5, <1>6, FreeFreeOK
<1>8. /\ \A j \in Slots \ {t.first} : r.type[j] = t.type[j] /\ r.ptr[j] = t.ptr[j] /\ r.gen[j] = t.gen[j]
      /\ r.type[t.first] = "FREE" /\ r.count = t.count
  <2>1. /\ \A j \in Slots \ {t.first} : q.type[j] = t.type[j] /\ q.ptr[j] = t.ptr[j] /\ q.gen[j] = t.gen[j]
        /\ q.count = t.count + 1
    BY <1>1, <1>2, <1>3 DEF Allocated, TableT
  <2>2. /\ \A j \in Slots \ {t.first} : r.type[j] = q.type[j] /\ r.ptr[j] = q.ptr[j] /\ r.gen[j] = q.gen[j]
        /\ r.type[t.first] = "FREE" /\ r.count = q.count - 1
    BY <1>2, <1>3, <1>6 DEF Freed, TableT
  <2>3. r.count = t.count
    BY <1>1, <2>1, <2>2 DEF TableT
  <2>4. QED BY <2>1, <2>2, <2>3
<1>9. t.type[t.first] = "FREE" /\ 0 \in Slots
  BY <1>2, SlotFacts DEF FreeSlots
<1>10. \A x \in LiveIn(m) : m[x].hwnd.index \in Slots \ {t.first}
  BY <1>1, <1>9 DEF Holds, AllHandles
<1>11. Holds(r, m)
  BY <1>1, <1>2, <1>8, <1>9, <1>10 DEF Holds
<1>12. QED BY <1>6, <1>7, <1>11 DEF TableOK, r, h, q

LEMMA HoldsSame ==
  ASSUME NEW t, NEW m, TableOK(t, m), NEW n, SameWindows(m, n)
  PROVE  TableOK(t, n)
<1>1. LiveIn(n) = LiveIn(m) /\ LiveIn(m) \subseteq Wnds
  BY SameLive DEF LiveIn
<1>2. \A x \in LiveIn(m) : n[x].hwnd = m[x].hwnd
  BY <1>1 DEF SameWindows
<1>3. QED BY <1>1, <1>2 DEF TableOK, Holds

\* user_handle_get_typed finds the windows, and nothing that is gone.
LEMMA HandlesFind ==
  ASSUME NEW t, NEW m, TableOK(t, m)
  PROVE  /\ \A w \in LiveIn(m) : GetTyped(t, m[w].hwnd, "WINDOW") = w
         /\ \A h \in AllHandles : GetTyped(t, h, "WINDOW") \in LiveIn(m) \cup {Nothing}
         /\ \A v, w \in LiveIn(m) : m[v].hwnd.index = m[w].hwnd.index => v = w
         /\ \A w \in LiveIn(m) : m[w].hwnd \in AllHandles \ {NoHandle} /\ IsValid(t, m[w].hwnd)
<1>1. Holds(t, m)
  BY DEF TableOK
<1>2. \A w \in LiveIn(m) : m[w].hwnd # NoHandle
  BY <1>1, SlotFacts DEF Holds
<1>3. \A w \in LiveIn(m) : GetTyped(t, m[w].hwnd, "WINDOW") = w
  BY <1>1, <1>2 DEF Holds, GetTyped
<1>4. ASSUME NEW h \in AllHandles PROVE GetTyped(t, h, "WINDOW") \in LiveIn(m) \cup {Nothing}
  <2>1. h.index \in Slots
    BY DEF AllHandles
  <2>2. QED BY <1>1, <2>1 DEF Holds, GetTyped
<1>5. \A v, w \in LiveIn(m) : m[v].hwnd.index = m[w].hwnd.index => v = w
  BY <1>1 DEF Holds
<1>6. \A w \in LiveIn(m) : IsValid(t, m[w].hwnd)
  BY <1>1 DEF Holds, IsValid
<1>7. QED BY <1>1, <1>2, <1>3, <1>4, <1>5, <1>6 DEF Holds

---------------------------------------------------------------------------
(* What the tables and the heap say of the windows and classes.            *)

ClassesOK(k) == ClassesSound(k) /\ Len(k.atoms) <= MaxAtoms

\* The windows of class c.
WindowsOf(k, c) == {w \in LiveIn(k.wnd) : k.wnd[w].cls = c}

RefsOK(k) ==
  /\ \A w \in LiveIn(k.wnd) : k.wnd[w].cls \in 0 .. Len(k.classes)
  /\ \A c \in 1 .. Len(k.classes) : k.classes[c].refs = Cardinality(WindowsOf(k, c))

ClassVa(k, c) == IF c = 0 THEN 0 ELSE k.classes[c].va

\* The copy of w and its entry, apart from the links.
CopyOf(k, w, a) ==
  /\ k.heap[a].h = k.wnd[w].hwnd
  /\ k.heap[a].pcls = ClassVa(k, k.wnd[w].cls)
  /\ k.heap[a].atom = 0
  /\ k.entry[k.wnd[w].hwnd.index] = [va |-> a, gen |-> k.wnd[w].hwnd.gen]

CopiesOK(k) ==
  /\ \A w \in LiveIn(k.wnd) : k.wnd[w].va \in 0 .. Len(k.heap)
  /\ \A w \in LiveIn(k.wnd) : k.wnd[w].va # 0 => CopyOf(k, w, k.wnd[w].va)
  /\ \A c \in 1 .. Len(k.classes) :
       /\ k.classes[c].va \in 0 .. Len(k.heap)
       /\ k.classes[c].va # 0 => k.heap[k.classes[c].va] = GuestClass(k.classes[c])
  /\ \A a \in 1 .. Len(k.heap) : k.heap[a].h # NoHandle =>
       \E w \in LiveIn(k.wnd) : k.wnd[w].va = a

Sound(k) ==
  /\ Shape(k) /\ TableOK(k.table, k.wnd) /\ RefsOK(k) /\ CopiesOK(k)
  /\ LinksBut(k, {}) /\ ClassesOK(k)

\* The copies of two windows name their handles, so they are not the same.
LEMMA SoundApart ==
  ASSUME NEW k, Sound(k)
  PROVE  CopiesApart(k)
<1>1. TableOK(k.table, k.wnd) /\ CopiesOK(k)
  BY DEF Sound
<1>2. \A v, w \in LiveIn(k.wnd) : k.wnd[v].hwnd = k.wnd[w].hwnd => v = w
  BY <1>1, HandlesFind
<1>3. \A w \in LiveIn(k.wnd) : k.wnd[w].va # 0 => k.heap[k.wnd[w].va].h = k.wnd[w].hwnd
  BY <1>1 DEF CopiesOK, CopyOf
<1>4. QED BY <1>1, <1>2, <1>3 DEF CopiesOK, CopiesApart

\* Nor is that of a class.
LEMMA ClassApart ==
  ASSUME NEW k, Sound(k), NEW c \in 1 .. Len(k.classes), k.classes[c].va # 0,
         NEW w \in LiveIn(k.wnd)
  PROVE  k.wnd[w].va # k.classes[c].va
<1>1. TableOK(k.table, k.wnd) /\ CopiesOK(k)
  BY DEF Sound
<1>2. k.wnd[w].hwnd # NoHandle
  BY <1>1, HandlesFind
<1>3. k.heap[k.classes[c].va].h = NoHandle
  BY <1>1 DEF CopiesOK, GuestClass, NoCell
<1>4. k.wnd[w].va # 0 => k.heap[k.wnd[w].va].h = k.wnd[w].hwnd
  BY <1>1 DEF CopiesOK, CopyOf
<1>5. QED BY <1>2, <1>3, <1>4

LEMMA RewiredSound ==
  ASSUME NEW k, Sound(k), NEW r, Rewired(k, r), LinksBut(r, {})
  PROVE  Sound(r)
<1>1. /\ Shape(r) /\ SameWindows(k.wnd, r.wnd) /\ CellsKept(k, r)
      /\ r.classes = k.classes /\ r.atoms = k.atoms /\ r.entry = k.entry /\ r.table = k.table
  BY DEF Rewired, SameRest, SameTables
<1>2. LiveIn(r.wnd) = LiveIn(k.wnd) /\ LiveIn(k.wnd) \subseteq Wnds
  BY <1>1, SameLive DEF LiveIn
<1>3. \A w \in LiveIn(k.wnd) : /\ r.wnd[w].va = k.wnd[w].va /\ r.wnd[w].hwnd = k.wnd[w].hwnd
                               /\ r.wnd[w].cls = k.wnd[w].cls
  BY <1>1, <1>2 DEF SameWindows
<1>4. TableOK(r.table, r.wnd)
  BY <1>1, HoldsSame DEF Sound
<1>5. RefsOK(r)
  <2>1. \A c : WindowsOf(r, c) = WindowsOf(k, c)
    BY <1>2, <1>3 DEF WindowsOf
  <2>2. QED BY <1>1, <1>2, <1>3, <2>1 DEF Sound, RefsOK
<1>6. CopiesOK(r)
  <2>1. CopiesOK(k)
    BY DEF Sound
  <2>2. \A c : ClassVa(r, c) = ClassVa(k, c)
    BY <1>1 DEF ClassVa
  <2>3. /\ Len(r.heap) = Len(k.heap) /\ Len(k.heap) \in Nat
        /\ \A a \in 1 .. Len(k.heap) : /\ r.heap[a].h = k.heap[a].h
                                       /\ r.heap[a].pcls = k.heap[a].pcls
                                       /\ r.heap[a].atom = k.heap[a].atom
    BY <1>1 DEF CellsKept, Shape, Sound
  <2>4. ASSUME NEW w \in LiveIn(r.wnd)
        PROVE  r.wnd[w].va \in 0 .. Len(r.heap) /\ (r.wnd[w].va # 0 => CopyOf(r, w, r.wnd[w].va))
    <3> DEFINE a == k.wnd[w].va
    <3>1. a \in 0 .. Len(k.heap) /\ (a # 0 => CopyOf(k, w, a)) /\ r.wnd[w].va = a
      BY <1>2, <1>3, <2>1 DEF CopiesOK
    <3> HIDE DEF a
    <3>2. ASSUME a # 0 PROVE CopyOf(r, w, a)
      <4>1. a \in 1 .. Len(k.heap) /\ CopyOf(k, w, a)
        BY <2>3, <3>1, <3>2
      <4>2. r.wnd[w].hwnd = k.wnd[w].hwnd /\ r.wnd[w].cls = k.wnd[w].cls
        BY <1>2, <1>3
      <4>3. r.heap[a].h = k.heap[a].h /\ r.heap[a].pcls = k.heap[a].pcls
            /\ r.heap[a].atom = k.heap[a].atom
        BY <2>3, <4>1
      <4>4. QED BY <1>1, <2>2, <4>1, <4>2, <4>3 DEF CopyOf
    <3>3. QED BY <2>3, <3>1, <3>2
  <2>5. ASSUME NEW c \in 1 .. Len(r.classes)
        PROVE  /\ r.classes[c].va \in 0 .. Len(r.heap)
               /\ r.classes[c].va # 0 => r.heap[r.classes[c].va] = GuestClass(r.classes[c])
    <3>1. k.classes[c].va \in 0 .. Len(k.heap)
      BY <1>1, <2>1 DEF CopiesOK
    <3>2. ASSUME k.classes[c].va # 0 PROVE r.heap[k.classes[c].va] = k.heap[k.classes[c].va]
      <4>1. \A w \in LiveIn(k.wnd) : k.wnd[w].va # k.classes[c].va
        BY <1>1, <3>2, ClassApart
      <4>2. k.classes[c].va \in 1 .. Len(k.heap)
        BY <2>3, <3>1, <3>2
      <4>3. QED BY <1>1, <4>1, <4>2 DEF CellsKept
    <3>3. QED BY <1>1, <2>1, <2>3, <3>1, <3>2 DEF CopiesOK
  <2>6. \A a \in 1 .. Len(r.heap) : r.heap[a].h # NoHandle =>
          \E w \in LiveIn(r.wnd) : r.wnd[w].va = a
    BY <1>2, <1>3, <2>1, <2>3 DEF CopiesOK
  <2>7. QED BY <2>4, <2>5, <2>6 DEF CopiesOK
<1>7. ClassesOK(r)
  <2>1. ClassesOK(k)
    BY DEF Sound
  <2>2. QED BY <1>1, <2>1 DEF ClassesOK, ClassesSound
<1>8. QED BY <1>1, <1>4, <1>5, <1>6, <1>7 DEF Sound

---------------------------------------------------------------------------
(* The classes, when only their reference counts change.                   *)

SameClasses(k, r) ==
  /\ r.atoms = k.atoms /\ Len(r.classes) = Len(k.classes)
  /\ \A c \in 1 .. Len(k.classes) :
       /\ r.classes[c].name = k.classes[c].name /\ r.classes[c].inst = k.classes[c].inst
       /\ r.classes[c].global = k.classes[c].global /\ r.classes[c].system = k.classes[c].system
       /\ r.classes[c].proc = k.classes[c].proc /\ r.classes[c].extra = k.classes[c].extra
       /\ r.classes[c].atom = k.classes[c].atom /\ r.classes[c].va = k.classes[c].va

LEMMA ClassesSame ==
  ASSUME NEW k, NEW r, r.classes = k.classes, r.atoms = k.atoms
  PROVE  SameClasses(k, r)
BY DEF SameClasses

LEMMA SameClassesTwice ==
  ASSUME NEW k, NEW r, NEW q, SameClasses(k, r), SameClasses(r, q)
  PROVE  SameClasses(k, q)
BY DEF SameClasses

LEMMA SameClassesOK ==
  ASSUME NEW k, NEW r, SameClasses(k, r), ClassesOK(k),
         k.classes \in Seq(ClsT), r.classes \in Seq(ClsT)
  PROVE  ClassesOK(r)
<1> DEFINE older(j) == {k.classes[i] : i \in 1 .. (j - 1)}
           newer(j) == {r.classes[i] : i \in 1 .. (j - 1)}
           lk == Len(k.classes)
<1>1. DOMAIN k.classes = 1 .. lk /\ DOMAIN r.classes = 1 .. lk /\ lk \in Nat
  BY DEF SameClasses
<1>2. ASSUME NEW j \in 1 .. lk, NEW o \in newer(j)
      PROVE  \E p \in older(j) : /\ o.name = p.name /\ o.global = p.global
                                 /\ o.inst = p.inst /\ o.atom = p.atom
  <2>1. PICK i \in 1 .. (j - 1) : o = r.classes[i]
    OBVIOUS
  <2>2. i \in 1 .. lk
    BY <1>1
  <2>3. QED BY <2>1, <2>2 DEF SameClasses
<1>3. ASSUME NEW j \in 1 .. lk
      PROVE  LET c == r.classes[j]
             IN /\ \A o \in newer(j) : o.name = c.name => ~o.global /\ o.inst # c.inst
                /\ \/ c.atom \in DOMAIN r.atoms /\ r.atoms[c.atom] = c.name
                   \/ c.name = Synthetic(c.atom) /\ \A o \in newer(j) : o.atom # c.atom
  <2> DEFINE c == r.classes[j]
             d == k.classes[j]
  <2>1. /\ \A o \in older(j) : o.name = d.name => ~o.global /\ o.inst # d.inst
        /\ \/ d.atom \in DOMAIN k.atoms /\ k.atoms[d.atom] = d.name
           \/ d.name = Synthetic(d.atom) /\ \A o \in older(j) : o.atom # d.atom
    BY <1>1 DEF ClassesOK, ClassesSound
  <2>2. c.name = d.name /\ c.inst = d.inst /\ c.atom = d.atom /\ r.atoms = k.atoms
    BY DEF SameClasses
  <2> HIDE DEF older, newer, c, d
  <2>3. \A o \in newer(j) : o.name = c.name => ~o.global /\ o.inst # c.inst
    BY <1>2, <2>1, <2>2
  <2>4. \/ c.atom \in DOMAIN r.atoms /\ r.atoms[c.atom] = c.name
        \/ c.name = Synthetic(c.atom) /\ \A o \in newer(j) : o.atom # c.atom
    BY <1>2, <2>1, <2>2
  <2>5. QED BY <2>3, <2>4 DEF c
<1>4. IsInjective(r.atoms) /\ Len(r.atoms) <= MaxAtoms
  BY DEF SameClasses, ClassesOK, ClassesSound
<1>5. QED BY <1>1, <1>3, <1>4 DEF ClassesOK, ClassesSound

LEMMA SameFind ==
  ASSUME NEW k, NEW r, SameClasses(k, r), k.classes \in Seq(ClsT), r.classes \in Seq(ClsT),
         NEW name, NEW inst
  PROVE  Find(r, name, inst) = Find(k, name, inst)
<1> DEFINE F(m) == {i \in DOMAIN m.classes :
                      LET c == m.classes[i]
                      IN /\ c.name = name
                         /\ c.global \/ c.system \/ c.inst = inst \/ inst = NoInstance}
<1>1. DOMAIN k.classes = 1 .. Len(k.classes) /\ DOMAIN r.classes = 1 .. Len(k.classes)
  BY DEF SameClasses
<1>2. \A i \in 1 .. Len(k.classes) :
        /\ r.classes[i].name = k.classes[i].name /\ r.classes[i].inst = k.classes[i].inst
        /\ r.classes[i].global = k.classes[i].global /\ r.classes[i].system = k.classes[i].system
  BY DEF SameClasses
<1>3. F(r) = F(k)
  BY Zenon, <1>1, <1>2
<1>4. QED BY <1>3 DEF Find

---------------------------------------------------------------------------
(* Reference counts.                                                       *)

ClassesSet(k, r, cs) ==
  /\ Shape(r) /\ r.classes = cs
  /\ r.table = k.table /\ r.wnd = k.wnd /\ r.atoms = k.atoms /\ r.heap = k.heap
  /\ r.entry = k.entry /\ r.desktop = k.desktop /\ r.cache = k.cache
  /\ r.created = k.created

LEMMA ClassSet ==
  ASSUME NEW k, Shape(k), NEW cs \in Seq(ClsT)
  PROVE  ClassesSet(k, [k EXCEPT !.classes = cs], cs)
<1> DEFINE r == [k EXCEPT !.classes = cs]
<1>1. r = Globals(k.table, k.wnd, cs, k.atoms, k.heap, k.entry, k.desktop, k.cache, k.created)
  BY FieldSet
<1> HIDE DEF r
<1>2. /\ r.table = k.table /\ r.wnd = k.wnd /\ r.classes = cs /\ r.atoms = k.atoms
      /\ r.heap = k.heap /\ r.entry = k.entry /\ r.desktop = k.desktop
      /\ r.cache = k.cache /\ r.created = k.created
  BY <1>1 DEF Globals
<1>3. Shape(r)
  BY <1>1, <1>2 DEF Shape
<1>4. QED BY <1>2, <1>3 DEF ClassesSet, r

\* The count of class c, if it is one, is d more; nothing else changes.
Counted(k, r, c, d) ==
  /\ Shape(r) /\ SameClasses(k, r)
  /\ \A x \in 1 .. Len(k.classes) :
       r.classes[x].refs = IF x = c THEN k.classes[x].refs + d ELSE k.classes[x].refs
  /\ r.table = k.table /\ r.wnd = k.wnd /\ r.heap = k.heap /\ r.entry = k.entry
  /\ r.desktop = k.desktop /\ r.cache = k.cache /\ r.created = k.created

LEMMA CountSet ==
  ASSUME NEW k, Shape(k), NEW c \in 1 .. Len(k.classes), NEW d \in Int,
         k.classes[c].refs + d \in Nat,
         NEW r, r = [k EXCEPT !.classes[c].refs = @ + d]
  PROVE  Counted(k, r, c, d)
<1> DEFINE cs == k.classes
           one == [cs[c] EXCEPT !.refs = @ + d]
           ds == [cs EXCEPT ![c] = one]
<1>1. cs \in Seq(ClsT) /\ cs[c] \in ClsT
  BY DEF Shape
<1>2. r = [k EXCEPT !.classes = ds]
  OBVIOUS
<1>3. cs[c].refs + d \in Nat /\ c \in 1 .. Len(cs)
  OBVIOUS
<1> HIDE DEF cs
<1>4. /\ one \in ClsT /\ one.refs = cs[c].refs + d
      /\ one.name = cs[c].name /\ one.inst = cs[c].inst
      /\ one.global = cs[c].global /\ one.system = cs[c].system
      /\ one.proc = cs[c].proc /\ one.extra = cs[c].extra
      /\ one.atom = cs[c].atom /\ one.va = cs[c].va
  BY <1>1, <1>3 DEF ClsT
<1> HIDE DEF one
<1>5. /\ ds \in Seq(ClsT) /\ Len(ds) = Len(cs) /\ ds[c] = one
      /\ \A x \in 1 .. Len(cs) : x # c => ds[x] = cs[x]
  BY <1>1, <1>3, <1>4
<1> HIDE DEF ds
<1>6. /\ Shape(r) /\ r.classes = ds
      /\ r.table = k.table /\ r.wnd = k.wnd /\ r.atoms = k.atoms /\ r.heap = k.heap
      /\ r.entry = k.entry /\ r.desktop = k.desktop /\ r.cache = k.cache
      /\ r.created = k.created
  <2>1. ClassesSet(k, r, ds)
    <3>1. ClassesSet(k, [k EXCEPT !.classes = ds], ds)
      BY <1>5, ClassSet
    <3>2. QED BY <1>2, <3>1
  <2>2. QED BY <2>1 DEF ClassesSet
<1>7. SameClasses(k, r)
  <2>1. ASSUME NEW x \in 1 .. Len(cs)
        PROVE  /\ ds[x].name = cs[x].name /\ ds[x].inst = cs[x].inst
               /\ ds[x].global = cs[x].global /\ ds[x].system = cs[x].system
               /\ ds[x].proc = cs[x].proc /\ ds[x].extra = cs[x].extra
               /\ ds[x].atom = cs[x].atom /\ ds[x].va = cs[x].va
    BY Zenon, <1>4, <1>5
  <2>2. QED BY <1>5, <1>6, <2>1 DEF SameClasses, cs
<1>8. \A x \in 1 .. Len(cs) : ds[x].refs = IF x = c THEN cs[x].refs + d ELSE cs[x].refs
  BY <1>4, <1>5
<1>9. QED BY <1>6, <1>7, <1>8 DEF Counted, cs

LEMMA CountSame ==
  ASSUME NEW k, Shape(k), NEW d
  PROVE  Counted(k, k, 0, d)
BY ClassesSame DEF Counted

LEMMA AddRefOK ==
  ASSUME NEW k, Shape(k), NEW c \in 0 .. Len(k.classes)
  PROVE  Counted(k, AddRef(k, c), c, 1)
<1>1. CASE c = 0
  BY <1>1, CountSame DEF AddRef
<1>2. CASE c # 0
  <2>1. c \in 1 .. Len(k.classes) /\ k.classes[c] \in ClsT
    BY <1>2 DEF Shape
  <2>2. k.classes[c].refs + 1 \in Nat /\ 1 \in Int
    BY <2>1 DEF ClsT
  <2>3. AddRef(k, c) = [k EXCEPT !.classes[c].refs = @ + 1]
    BY <1>2 DEF AddRef
  <2>4. QED BY <2>1, <2>2, <2>3, CountSet
<1>3. QED BY <1>1, <1>2

LEMMA ReleaseOK ==
  ASSUME NEW k, Shape(k), NEW c \in 0 .. Len(k.classes), c # 0 => k.classes[c].refs # 0
  PROVE  Counted(k, Release(k, c), c, -1)
<1>1. CASE c = 0
  BY <1>1, CountSame DEF Release
<1>2. CASE c # 0
  <2>1. c \in 1 .. Len(k.classes) /\ k.classes[c] \in ClsT
    BY <1>2 DEF Shape
  <2>2. k.classes[c].refs \in Nat /\ k.classes[c].refs # 0
    BY <1>2, <2>1 DEF ClsT
  <2>3. k.classes[c].refs + (-1) \in Nat /\ -1 \in Int
    BY <2>2
  <2>4. Release(k, c) = [k EXCEPT !.classes[c].refs = @ - 1]
    BY <1>2, <2>2 DEF Release
  <2>5. [k EXCEPT !.classes[c].refs = @ - 1] = [k EXCEPT !.classes[c].refs = @ + (-1)]
    <3>1. k.classes[c].refs - 1 = k.classes[c].refs + (-1)
      BY <2>2
    <3>2. QED BY <3>1
  <2>6. QED BY <2>1, <2>3, <2>4, <2>5, CountSet
<1>3. QED BY <1>1, <1>2

---------------------------------------------------------------------------
(* guest_wnd_create.                                                       *)

\* w has a copy now, at the end of the heap, and an entry leads to it.
Copied(k, r, w) ==
  LET va == Len(k.heap) + 1
      me == k.wnd[w]
  IN /\ va <= HeapSize
     /\ r = Globals(k.table, [k.wnd EXCEPT ![w] = [me EXCEPT !.va = va]], k.classes, k.atoms,
                    Append(k.heap, [NoCell EXCEPT !.h = me.hwnd, !.pcls = ClassVa(k, me.cls)]),
                    [k.entry EXCEPT ![me.hwnd.index] = [va |-> va, gen |-> me.hwnd.gen]],
                    k.desktop, k.cache, k.created)

LEMMA GuestCreateOK ==
  ASSUME NEW k, Shape(k), NEW w \in Wnds, IsValid(k.table, k.wnd[w].hwnd),
         NEW r, r = GuestCreate(k, w)
  PROVE  r = k \/ Copied(k, r, w)
<1> DEFINE va == HeapAlloc(k.heap)
           me == k.wnd[w]
           copy == [NoCell EXCEPT !.h = me.hwnd,
                                  !.pcls = IF me.cls = 0 THEN 0 ELSE k.classes[me.cls].va]
           q == [k EXCEPT !.heap = HeapPut(k.heap, copy), !.wnd[w].va = va]
<1>1. r = IF va = 0 THEN k ELSE SetGuestPtr(q, me.hwnd, va)
  BY Zenon DEF GuestCreate
<1>2. CASE va = 0
  BY <1>1, <1>2
<1>3. CASE va # 0
  <2> DEFINE hp == HeapPut(k.heap, copy)
             wn == [k.wnd EXCEPT ![w] = [me EXCEPT !.va = va]]
             en == [k.entry EXCEPT ![me.hwnd.index] = [va |-> va, gen |-> me.hwnd.gen]]
  <2>1. Len(k.heap) \in Nat /\ HeapSize \in Nat
    BY UserClassesAssumption DEF Shape
  <2>2. va = Len(k.heap) + 1 /\ va <= HeapSize
    BY <1>3, <2>1 DEF HeapAlloc
  <2>3. hp = Append(k.heap, copy)
    BY <1>3 DEF HeapPut
  <2>4. copy = [NoCell EXCEPT !.h = me.hwnd, !.pcls = ClassVa(k, me.cls)]
    BY DEF ClassVa
  <2>5. q = Globals(k.table, wn, k.classes, k.atoms, hp, k.entry, k.desktop, k.cache, k.created)
    <3> DEFINE a == k.table  b == k.wnd  c == k.classes  d == k.atoms  e == k.heap
               f == k.entry  g == k.desktop  h == k.cache  i == k.created
               x == [b[w] EXCEPT !.va = va]
    <3>1. k = Globals(a, b, c, d, e, f, g, h, i)
      BY DEF Shape
    <3>2. q = [[k EXCEPT !.heap = hp] EXCEPT !.wnd[w].va = va]
      OBVIOUS
    <3> HIDE DEF hp, va, copy, q
    <3>3. [k EXCEPT !.heap = hp] = Globals(a, b, c, d, hp, f, g, h, i)
      BY FieldSet
    <3>4. [Globals(a, b, c, d, hp, f, g, h, i) EXCEPT !.wnd[w].va = va]
            = Globals(a, [b EXCEPT ![w] = x], c, d, hp, f, g, h, i)
      <4> HIDE DEF a, b, c, d, e, f, g, h, i
      <4>1. QED BY DEF Globals
    <3>5. QED BY <3>2, <3>3, <3>4
  <2> HIDE DEF q, wn, hp
  <2>6. r = [q EXCEPT !.entry[me.hwnd.index] = [va |-> va, gen |-> me.hwnd.gen]]
    <3>1. q.table = k.table
      BY <2>5 DEF Globals
    <3>2. IsValid(q.table, me.hwnd)
      BY <3>1
    <3>3. r = SetGuestPtr(q, me.hwnd, va)
      BY <1>1, <1>3
    <3> HIDE DEF me, va
    <3>4. QED BY <3>2, <3>3 DEF SetGuestPtr
  <2>7. r = Globals(k.table, wn, k.classes, k.atoms, hp, en, k.desktop, k.cache, k.created)
    <3> DEFINE a == k.table  c == k.classes  d == k.atoms
               f == k.entry  g == k.desktop  h == k.cache  i == k.created
               y == [va |-> va, gen |-> me.hwnd.gen]
               j == me.hwnd.index
    <3>1. r = [q EXCEPT !.entry[j] = y] /\ q = Globals(a, wn, c, d, hp, f, g, h, i)
          /\ en = [f EXCEPT ![j] = y]
      BY <2>5, <2>6
    <3> HIDE DEF a, c, d, f, g, h, i, y, j, en
    <3>2. r = Globals(a, wn, c, d, hp, en, g, h, i)
      BY <3>1 DEF Globals
    <3>3. QED BY <3>2 DEF a, c, d, g, h, i
  <2>8. Copied(k, r, w)
    BY <2>2, <2>3, <2>4, <2>7 DEF Copied, wn, hp
  <2>9. QED BY <2>8
<1>4. QED BY <1>2, <1>3

\* What a new copy leaves as it was.
CopyAdded(k, r, w) ==
  /\ Shape(r) /\ SameTables([k EXCEPT !.entry = r.entry], r)
  /\ r.desktop = k.desktop /\ r.cache = k.cache
  /\ Len(r.heap) = Len(k.heap) + 1 /\ r.wnd[w].va = Len(k.heap) + 1
  /\ r.wnd[w] = [k.wnd[w] EXCEPT !.va = Len(k.heap) + 1]
  /\ \A x \in Wnds \ {w} : r.wnd[x] = k.wnd[x]
  /\ \A a \in 1 .. Len(k.heap) : r.heap[a] = k.heap[a]
  /\ r.heap[Len(k.heap) + 1] =
       [NoCell EXCEPT !.h = k.wnd[w].hwnd, !.pcls = ClassVa(k, k.wnd[w].cls)]
  /\ r.entry[k.wnd[w].hwnd.index] = [va |-> Len(k.heap) + 1, gen |-> k.wnd[w].hwnd.gen]
  /\ \A i \in Slots \ {k.wnd[w].hwnd.index} : r.entry[i] = k.entry[i]

LEMMA CopiedFields ==
  ASSUME NEW k, Shape(k), NEW w \in Wnds, k.wnd[w].cls \in 0 .. Len(k.classes),
         NEW r, Copied(k, r, w)
  PROVE  CopyAdded(k, r, w)
<1> DEFINE n == Len(k.heap)
           va == n + 1
           me == k.wnd[w]
           one == [me EXCEPT !.va = va]
           wn == [k.wnd EXCEPT ![w] = one]
           cell == [NoCell EXCEPT !.h = me.hwnd, !.pcls = ClassVa(k, me.cls)]
           hp == Append(k.heap, cell)
           place == [va |-> va, gen |-> me.hwnd.gen]
           en == [k.entry EXCEPT ![me.hwnd.index] = place]
<1>1. me \in WndT /\ n \in Nat /\ va \in Nat /\ va <= HeapSize
  BY DEF Shape, Copied
<1>2. r = Globals(k.table, wn, k.classes, k.atoms, hp, en, k.desktop, k.cache, k.created)
  BY DEF Copied
<1>3. /\ me.hwnd \in AllHandles /\ me.hwnd.index \in Slots /\ me.hwnd.gen \in Nat
  BY <1>1 DEF WndT, AllHandles
<1>4. ClassVa(k, me.cls) \in Nat
  <2>1. me.cls # 0 => k.classes[me.cls] \in ClsT
    BY DEF Shape
  <2>2. QED BY <2>1 DEF ClassVa, ClsT
<1>5. /\ k.wnd \in [Wnds -> WndT] /\ k.heap \in Seq(CellT) /\ k.entry \in [Slots -> EntryT]
  BY DEF Shape
<1> HIDE DEF me
<1>6. one \in WndT /\ one.va = va
  BY <1>1 DEF WndT
<1>7. cell \in CellT
  BY <1>3, <1>4, SlotFacts DEF CellT, NoCell
<1>8. place \in EntryT
  BY <1>1, <1>3 DEF EntryT
<1> HIDE DEF one, cell, place
<1>9. /\ wn \in [Wnds -> WndT] /\ wn[w] = one /\ \A x \in Wnds \ {w} : wn[x] = k.wnd[x]
  BY <1>5, <1>6
<1>10. /\ hp \in Seq(CellT) /\ Len(hp) = n + 1 /\ hp[n + 1] = cell
       /\ \A a \in 1 .. n : hp[a] = k.heap[a]
  BY <1>5, <1>7
<1>11. /\ en \in [Slots -> EntryT] /\ en[me.hwnd.index] = place
       /\ \A i \in Slots \ {me.hwnd.index} : en[i] = k.entry[i]
  BY <1>3, <1>5, <1>8
<1> HIDE DEF wn, hp, en, n
<1>12. /\ r.table = k.table /\ r.wnd = wn /\ r.classes = k.classes /\ r.atoms = k.atoms
       /\ r.heap = hp /\ r.entry = en /\ r.desktop = k.desktop
       /\ r.cache = k.cache /\ r.created = k.created
  BY <1>2 DEF Globals
<1>13. Shape(r)
  BY <1>1, <1>2, <1>9, <1>10, <1>11, <1>12 DEF Shape
<1>14. SameTables([k EXCEPT !.entry = r.entry], r)
  <2>1. [k EXCEPT !.entry = en] = Globals(k.table, k.wnd, k.classes, k.atoms, k.heap, en, k.desktop, k.cache, k.created)
    BY FieldSet
  <2>2. QED BY <1>12, <2>1 DEF SameTables, Globals
<1>15. QED BY <1>6, <1>9, <1>10, <1>11, <1>12, <1>13, <1>14 DEF CopyAdded, n, me, one, cell, place

---------------------------------------------------------------------------
(* window_create_internal: a window with its handle, class and copy.       *)

Making(k, w, c) ==
  [k EXCEPT !.table = Alloc(k.table, w, "WINDOW"),
            !.wnd[w] = NewWnd(AllocHandle(k.table), c), !.created = @ + 1]

Made(k, r, w, c) ==
  /\ Shape(r) /\ r.table = Alloc(k.table, w, "WINDOW")
  /\ r.wnd = [k.wnd EXCEPT ![w] = NewWnd(AllocHandle(k.table), c)]
  /\ r.classes = k.classes /\ r.atoms = k.atoms /\ r.heap = k.heap /\ r.entry = k.entry
  /\ r.desktop = k.desktop /\ r.cache = k.cache /\ r.created = k.created + 1

LEMMA NewWndIn ==
  ASSUME NEW h \in AllHandles, NEW c \in Nat
  PROVE  /\ NewWnd(h, c) \in WndT /\ NewWnd(h, c).alive
         /\ NewWnd(h, c).hwnd = h /\ NewWnd(h, c).cls = c /\ NewWnd(h, c).va = 0
         /\ NewWnd(h, c).parent = Nothing /\ NewWnd(h, c).next = Nothing
         /\ NewWnd(h, c).prev = Nothing /\ NewWnd(h, c).child = Nothing
BY DEF NewWnd, WndT

LEMMA MadeOK ==
  ASSUME NEW k, Shape(k), NEW w \in Wnds, NEW c \in 0 .. Len(k.classes),
         Alloc(k.table, w, "WINDOW") \in TableT, AllocHandle(k.table) \in AllHandles,
         NEW r, r = Making(k, w, c)
  PROVE  Made(k, r, w, c)
<1> DEFINE T == Alloc(k.table, w, "WINDOW")
           N == NewWnd(AllocHandle(k.table), c)
           wn == [k.wnd EXCEPT ![w] = N]
           n == k.created + 1
<1>1. N \in WndT
  BY NewWndIn DEF Shape
<1>2. r = [[[k EXCEPT !.table = T] EXCEPT !.wnd[w] = N] EXCEPT !.created = @ + 1]
  BY DEF Making
<1> HIDE DEF T, N
<1>3. wn \in [Wnds -> WndT] /\ n \in Nat
  BY <1>1 DEF Shape
<1>4. r = Globals(T, wn, k.classes, k.atoms, k.heap, k.entry, k.desktop, k.cache, n)
  <2> DEFINE b == k.wnd  cc == k.classes  d == k.atoms  e == k.heap
             f == k.entry  g == k.desktop  h == k.cache  i == k.created
  <2>1. [k EXCEPT !.table = T] = Globals(T, b, cc, d, e, f, g, h, i)
    BY FieldSet
  <2> HIDE DEF b, cc, d, e, f, g, h, i
  <2>2. [Globals(T, b, cc, d, e, f, g, h, i) EXCEPT !.wnd[w] = N]
          = Globals(T, [b EXCEPT ![w] = N], cc, d, e, f, g, h, i)
    BY DEF Globals
  <2>3. [Globals(T, [b EXCEPT ![w] = N], cc, d, e, f, g, h, i) EXCEPT !.created = @ + 1]
          = Globals(T, [b EXCEPT ![w] = N], cc, d, e, f, g, h, i + 1)
    BY DEF Globals
  <2>4. r = Globals(T, [b EXCEPT ![w] = N], cc, d, e, f, g, h, i + 1)
    BY <1>2, <2>1, <2>2, <2>3
  <2>5. QED BY <2>4 DEF b, cc, d, e, f, g, h, i
<1>5. wn = [k.wnd EXCEPT ![w] = N] /\ n = k.created + 1
  OBVIOUS
<1> HIDE DEF wn, n
<1>6. /\ r.table = T /\ r.wnd = wn /\ r.classes = k.classes /\ r.atoms = k.atoms
      /\ r.heap = k.heap /\ r.entry = k.entry /\ r.desktop = k.desktop
      /\ r.cache = k.cache /\ r.created = n
  BY <1>4 DEF Globals
<1>7. Shape(r)
  BY <1>3, <1>4, <1>6 DEF Shape, T
<1>8. QED BY <1>5, <1>6, <1>7 DEF Made, T, N

\* w is new, with class c and no links; nothing is said of its copy.
Filled(k, r, w, c) ==
  /\ Shape(r) /\ Appeared(k.wnd, r.wnd, w)
  /\ r.wnd[w].cls = c /\ r.wnd[w].hwnd = AllocHandle(k.table)
  /\ SameClasses(k, r)
  /\ r.desktop = k.desktop /\ r.cache = k.cache /\ r.created = k.created + 1

LEMMA MadeSound ==
  ASSUME NEW k, Sound(k), NEW L, LinksIn(k.wnd, L), NEW w \in Wnds \ LiveIn(k.wnd),
         NEW c \in 0 .. Len(k.classes), AllocHandle(k.table) # NoHandle,
         NEW r, r = AddRef(Making(k, w, c), c)
  PROVE  Sound(r) /\ Filled(k, r, w, c) /\ r.wnd[w].va = 0 /\ IsValid(r.table, r.wnd[w].hwnd)
<1> DEFINE q == Making(k, w, c)
           h == AllocHandle(k.table)
<1>1. Shape(k) /\ TableOK(k.table, k.wnd) /\ RefsOK(k) /\ CopiesOK(k) /\ LinksBut(k, {}) /\ ClassesOK(k)
  BY DEF Sound
<1>2. h \in AllHandles /\ Alloc(k.table, w, "WINDOW") \in TableT
  BY <1>1, HeadIsFree, AllocFields DEF TableOK
<1>3. Made(k, q, w, c)
  BY <1>1, <1>2, MadeOK
<1> HIDE DEF q
<1>4. Shape(q) /\ q.classes = k.classes /\ c \in 0 .. Len(q.classes)
  BY <1>3 DEF Made
<1>5. Counted(q, r, c, 1)
  BY <1>4, AddRefOK DEF q
<1>6. /\ Shape(r) /\ SameClasses(q, r)
      /\ r.wnd = [k.wnd EXCEPT ![w] = NewWnd(h, c)] /\ r.heap = k.heap /\ r.entry = k.entry
      /\ r.table = Alloc(k.table, w, "WINDOW")
      /\ r.desktop = k.desktop /\ r.cache = k.cache /\ r.created = k.created + 1
  BY <1>3, <1>5 DEF Made, Counted
<1>7. SameClasses(k, r)
  <2>1. SameClasses(k, q)
    BY <1>3, ClassesSame DEF Made
  <2>2. QED BY <1>6, <2>1, SameClassesTwice
<1>8. /\ r.wnd[w] = NewWnd(h, c) /\ \A x \in Wnds \ {w} : r.wnd[x] = k.wnd[x]
      /\ r.wnd \in [Wnds -> WndT] /\ k.wnd \in [Wnds -> WndT]
  BY <1>1, <1>6 DEF Shape
<1>9. /\ r.wnd[w].alive /\ r.wnd[w].hwnd = h /\ r.wnd[w].cls = c /\ r.wnd[w].va = 0
      /\ r.wnd[w].parent = Nothing /\ r.wnd[w].next = Nothing
      /\ r.wnd[w].prev = Nothing /\ r.wnd[w].child = Nothing
  BY <1>2, <1>8, NewWndIn
<1>10. LiveIn(r.wnd) = LiveIn(k.wnd) \cup {w} /\ LiveIn(k.wnd) \subseteq Wnds \ {w}
       /\ Nothing \notin Wnds
  <2>1. \A x \in Wnds \ {w} : r.wnd[x].alive = k.wnd[x].alive
    BY <1>8
  <2>2. LiveIn(k.wnd) \subseteq Wnds \ {w}
    BY DEF LiveIn
  <2>3. LiveIn(k.wnd) \cup {w} \subseteq LiveIn(r.wnd)
    BY Zenon, <1>9, <2>1, <2>2 DEF LiveIn
  <2>4. LiveIn(r.wnd) \subseteq LiveIn(k.wnd) \cup {w}
    BY Zenon, <2>1 DEF LiveIn
  <2>5. QED BY <2>2, <2>3, <2>4, UserWindowsAssumption
<1>11. \A x \in LiveIn(k.wnd) : r.wnd[x] = k.wnd[x]
  BY <1>8, <1>10
<1>12. Filled(k, r, w, c)
  BY <1>6, <1>7, <1>8, <1>9 DEF Filled, Appeared
<1>13. TableOK(r.table, r.wnd)
  <2> DEFINE t == k.table  m == k.wnd  n == r.wnd
  <2>1. TableOK(t, m) /\ AllocHandle(t) # NoHandle /\ w \in Wnds \ LiveIn(m)
    BY <1>1
  <2>2. n[w].hwnd = AllocHandle(t) /\ LiveIn(n) = LiveIn(m) \cup {w}
    BY <1>9, <1>10
  <2>3. \A x \in LiveIn(m) : n[x].hwnd = m[x].hwnd
    BY <1>11
  <2>4. r.table = Alloc(t, w, "WINDOW")
    BY <1>6
  <2> HIDE DEF t, m, n
  <2>5. TableOK(Alloc(t, w, "WINDOW"), n)
    BY <2>1, <2>2, <2>3, AllocHolds
  <2>6. QED BY <2>4, <2>5 DEF n
<1>14. RefsOK(r)
  <2>1. Len(r.classes) = Len(k.classes)
    BY <1>7 DEF SameClasses
  <2>2. \A x \in LiveIn(r.wnd) : r.wnd[x].cls \in 0 .. Len(r.classes)
    BY <1>1, <1>9, <1>10, <1>11, <2>1 DEF RefsOK
  <2>3. ASSUME NEW d \in 1 .. Len(k.classes)
        PROVE  r.classes[d].refs = Cardinality(WindowsOf(r, d))
    <3>1. WindowsOf(k, d) \subseteq LiveIn(k.wnd)
      BY DEF WindowsOf
    <3>2. IsFiniteSet(WindowsOf(k, d)) /\ w \notin WindowsOf(k, d)
      BY <1>10, <3>1, WindowsFinite, FS_Subset
    <3>3. k.classes[d].refs = Cardinality(WindowsOf(k, d))
      BY <1>1 DEF RefsOK
    <3>4. r.classes[d].refs = IF d = c THEN k.classes[d].refs + 1 ELSE k.classes[d].refs
      BY <1>4, <1>5 DEF Counted
    <3>5. CASE d = c
      <4>1. WindowsOf(r, d) = WindowsOf(k, d) \cup {w}
        BY <1>9, <1>10, <1>11, <3>5 DEF WindowsOf
      <4>2. Cardinality(WindowsOf(k, d) \cup {w}) = Cardinality(WindowsOf(k, d)) + 1
        BY <3>2, FS_AddElement
      <4>3. QED BY <3>3, <3>4, <3>5, <4>1, <4>2
    <3>6. CASE d # c
      <4>1. WindowsOf(r, d) = WindowsOf(k, d)
        BY <1>9, <1>10, <1>11, <3>6 DEF WindowsOf
      <4>2. QED BY <3>3, <3>4, <3>6, <4>1
    <3>7. QED BY <3>5, <3>6
  <2>4. QED BY <2>1, <2>2, <2>3 DEF RefsOK
<1>15. \A d \in 0 .. Len(k.classes) : ClassVa(r, d) = ClassVa(k, d)
  BY <1>7 DEF ClassVa, SameClasses
<1>16. CopiesOK(r)
  <2>1. ASSUME NEW x \in LiveIn(r.wnd)
        PROVE  r.wnd[x].va \in 0 .. Len(r.heap) /\ (r.wnd[x].va # 0 => CopyOf(r, x, r.wnd[x].va))
    <3>1. CASE x = w
      BY <1>1, <1>6, <1>9, <3>1 DEF Shape
    <3>2. CASE x # w
      <4>1. x \in LiveIn(k.wnd) /\ r.wnd[x] = k.wnd[x]
        BY <1>10, <1>11, <3>2
      <4>2. k.wnd[x].va \in 0 .. Len(k.heap) /\ (k.wnd[x].va # 0 => CopyOf(k, x, k.wnd[x].va))
        BY <1>1, <4>1 DEF CopiesOK
      <4>3. ClassVa(r, k.wnd[x].cls) = ClassVa(k, k.wnd[x].cls)
        BY <1>1, <1>15, <4>1 DEF RefsOK
      <4>4. QED BY <1>6, <4>1, <4>2, <4>3 DEF CopyOf
    <3>3. QED BY <3>1, <3>2
  <2>2. ASSUME NEW d \in 1 .. Len(r.classes)
        PROVE  /\ r.classes[d].va \in 0 .. Len(r.heap)
               /\ r.classes[d].va # 0 => r.heap[r.classes[d].va] = GuestClass(r.classes[d])
    <3>1. d \in 1 .. Len(k.classes) /\ r.classes[d].va = k.classes[d].va
          /\ r.classes[d].atom = k.classes[d].atom
      BY <1>7 DEF SameClasses
    <3>2. /\ k.classes[d].va \in 0 .. Len(k.heap)
          /\ k.classes[d].va # 0 => k.heap[k.classes[d].va] = GuestClass(k.classes[d])
      BY <1>1, <3>1 DEF CopiesOK
    <3>3. GuestClass(r.classes[d]) = GuestClass(k.classes[d])
      BY <3>1 DEF GuestClass
    <3>4. QED BY <1>6, <3>1, <3>2, <3>3
  <2>3. ASSUME NEW a \in 1 .. Len(r.heap), r.heap[a].h # NoHandle
        PROVE  \E x \in LiveIn(r.wnd) : r.wnd[x].va = a
    <3>1. PICK x \in LiveIn(k.wnd) : k.wnd[x].va = a
      BY <1>1, <1>6, <2>3 DEF CopiesOK
    <3>2. QED BY <1>10, <1>11, <3>1
  <2>4. QED BY <2>1, <2>2, <2>3 DEF CopiesOK
<1>17. LinksBut(r, {})
  <2>1. SUFFICES ASSUME NEW x \in LiveIn(r.wnd), r.wnd[x].va # 0 PROVE LinksCopied(r, x)
    BY DEF LinksBut
  <2>2. x \in LiveIn(k.wnd) /\ r.wnd[x] = k.wnd[x]
    BY <1>9, <1>10, <1>11, <2>1
  <2>3. \A y \in LiveIn(k.wnd) \cup {Nothing} : Va(r, y) = Va(k, y)
    BY <1>11 DEF Va
  <2>4. /\ k.wnd[x].parent \in LiveIn(k.wnd) \cup {Nothing} /\ k.wnd[x].next \in LiveIn(k.wnd) \cup {Nothing}
        /\ k.wnd[x].prev \in LiveIn(k.wnd) \cup {Nothing} /\ k.wnd[x].child \in LiveIn(k.wnd) \cup {Nothing}
    BY <2>2 DEF LinksIn
  <2>5. LinksCopied(k, x)
    BY <1>1, <2>1, <2>2 DEF LinksBut
  <2>6. QED BY <1>6, <2>2, <2>3, <2>4, <2>5 DEF LinksCopied
<1>18. ClassesOK(r)
  BY <1>1, <1>6, <1>7, SameClassesOK DEF Shape
<1>19. IsValid(r.table, r.wnd[w].hwnd)
  BY <1>10, <1>13, HandlesFind
<1>20. QED BY <1>6, <1>9, <1>12, <1>13, <1>14, <1>16, <1>17, <1>18, <1>19 DEF Sound

\* No link leads to w, as when it is new.
Unlinked(m, w) ==
  \A x \in LiveIn(m) : /\ m[x].parent # w /\ m[x].next # w /\ m[x].prev # w /\ m[x].child # w

LEMMA CopySound ==
  ASSUME NEW k, Sound(k), NEW w \in LiveIn(k.wnd), k.wnd[w].va = 0, Unlinked(k.wnd, w),
         k.wnd[w].parent = Nothing, k.wnd[w].next = Nothing,
         k.wnd[w].prev = Nothing, k.wnd[w].child = Nothing,
         NEW r, CopyAdded(k, r, w)
  PROVE  Sound(r) /\ SameClasses(k, r) /\ SameLinks(k.wnd, r.wnd, {}) /\ LiveIn(r.wnd) = LiveIn(k.wnd)
<1> DEFINE n == Len(k.heap)
           me == k.wnd[w]
           cell == [NoCell EXCEPT !.h = me.hwnd, !.pcls = ClassVa(k, me.cls)]
<1>1. Shape(k) /\ TableOK(k.table, k.wnd) /\ RefsOK(k) /\ CopiesOK(k) /\ LinksBut(k, {}) /\ ClassesOK(k)
  BY DEF Sound
<1>2. n \in Nat /\ me \in WndT /\ w \in Wnds /\ Nothing \notin Wnds /\ LiveIn(k.wnd) \subseteq Wnds
  BY <1>1, UserWindowsAssumption DEF Shape, LiveIn
<1>3. /\ Shape(r) /\ r.table = k.table /\ r.classes = k.classes /\ r.atoms = k.atoms
      /\ r.created = k.created
  <2>1. SameTables([k EXCEPT !.entry = r.entry], r) /\ Shape(r)
    BY DEF CopyAdded
  <2>2. [k EXCEPT !.entry = r.entry]
          = Globals(k.table, k.wnd, k.classes, k.atoms, k.heap, r.entry, k.desktop, k.cache, k.created)
    BY <1>1, FieldSet
  <2>3. QED BY <2>1, <2>2 DEF SameTables, Globals
<1>4. /\ Len(r.heap) = n + 1 /\ r.wnd[w] = [me EXCEPT !.va = n + 1]
      /\ \A x \in Wnds \ {w} : r.wnd[x] = k.wnd[x]
      /\ \A a \in 1 .. n : r.heap[a] = k.heap[a]
      /\ r.heap[n + 1] = cell
      /\ r.entry[me.hwnd.index] = [va |-> n + 1, gen |-> me.hwnd.gen]
      /\ \A i \in Slots \ {me.hwnd.index} : r.entry[i] = k.entry[i]
  BY DEF CopyAdded
<1>5. /\ cell.h = me.hwnd /\ cell.pcls = ClassVa(k, me.cls) /\ cell.atom = 0
      /\ cell.next = 0 /\ cell.prev = 0 /\ cell.parent = 0 /\ cell.child = 0
  BY DEF NoCell
<1> HIDE DEF n, cell
<1>6. /\ r.wnd[w].va = n + 1 /\ r.wnd[w].hwnd = me.hwnd /\ r.wnd[w].cls = me.cls
      /\ r.wnd[w].alive = me.alive
      /\ r.wnd[w].parent = Nothing /\ r.wnd[w].next = Nothing
      /\ r.wnd[w].prev = Nothing /\ r.wnd[w].child = Nothing
  BY <1>2, <1>4 DEF WndT
<1>7. LiveIn(r.wnd) = LiveIn(k.wnd)
  <2>1. \A x \in Wnds : r.wnd[x].alive = k.wnd[x].alive
    BY Zenon, <1>4, <1>6
  <2>2. QED BY Zenon, <2>1 DEF LiveIn
<1>8. ASSUME NEW x \in LiveIn(k.wnd), x # w
      PROVE  r.wnd[x] = k.wnd[x]
  BY <1>2, <1>4, <1>8
<1> HIDE DEF me
<1>9. SameLinks(k.wnd, r.wnd, {})
  <2>1. ASSUME NEW x \in LiveIn(k.wnd)
        PROVE  /\ r.wnd[x].parent = k.wnd[x].parent /\ r.wnd[x].next = k.wnd[x].next
               /\ r.wnd[x].prev = k.wnd[x].prev /\ r.wnd[x].child = k.wnd[x].child
    BY <1>6, <1>8
  <2>2. QED BY <2>1 DEF SameLinks
<1>10. \A x \in LiveIn(k.wnd) : r.wnd[x].hwnd = k.wnd[x].hwnd /\ r.wnd[x].cls = k.wnd[x].cls
  BY <1>6, <1>8 DEF me
<1>11. TableOK(r.table, r.wnd)
  <2> DEFINE t == k.table  m == k.wnd  q == r.wnd
  <2>1. TableOK(t, m) /\ LiveIn(q) = LiveIn(m)
    BY <1>1, <1>7
  <2>2. \A x \in LiveIn(m) : q[x].hwnd = m[x].hwnd
    BY <1>10
  <2>3. r.table = t
    BY <1>3
  <2> HIDE DEF t, m, q
  <2>4. TableOK(t, q)
    BY <2>1, <2>2 DEF TableOK, Holds
  <2>5. QED BY <2>3, <2>4 DEF q
<1>12. RefsOK(r)
  <2>1. \A c : WindowsOf(r, c) = WindowsOf(k, c)
    BY <1>7, <1>10 DEF WindowsOf
  <2>2. QED BY <1>1, <1>3, <1>7, <1>10, <2>1 DEF RefsOK
<1>13. \A c : ClassVa(r, c) = ClassVa(k, c)
  BY <1>3 DEF ClassVa
<1>14. CopiesOK(r)
  <2>1. ASSUME NEW x \in LiveIn(r.wnd)
        PROVE  r.wnd[x].va \in 0 .. Len(r.heap) /\ (r.wnd[x].va # 0 => CopyOf(r, x, r.wnd[x].va))
    <3>1. CASE x = w
      <4>1. n + 1 \in 0 .. (n + 1) /\ r.wnd[x].va = n + 1 /\ Len(r.heap) = n + 1
        <5>1. n + 1 \in 0 .. (n + 1)
          BY <1>2
        <5>2. r.wnd[x].va = n + 1
          BY Zenon, <1>6, <3>1
        <5>3. Len(r.heap) = n + 1
          BY Zenon, <1>4
        <5>4. QED BY Zenon, <5>1, <5>2, <5>3
      <4>2. r.wnd[x].hwnd = me.hwnd /\ r.wnd[x].cls = me.cls
        BY <1>6, <3>1
      <4>3. r.heap[n + 1] = cell /\ r.entry[me.hwnd.index] = [va |-> n + 1, gen |-> me.hwnd.gen]
        BY <1>4
      <4>4. CopyOf(r, x, n + 1)
        BY <1>5, <1>13, <4>2, <4>3 DEF CopyOf
      <4>5. QED BY <4>1, <4>4
    <3>2. CASE x # w
      <4> DEFINE a == k.wnd[x].va
      <4>1. x \in LiveIn(k.wnd) /\ r.wnd[x] = k.wnd[x] /\ x \in Wnds
        BY <1>2, <1>7, <1>8, <3>2
      <4>2. a \in 0 .. n /\ (a # 0 => CopyOf(k, x, a))
        BY <1>1, <4>1 DEF CopiesOK, n
      <4>3. k.wnd[x].hwnd.index \in Slots \ {me.hwnd.index}
        <5>1. k.wnd[x].hwnd.index # me.hwnd.index
          BY <1>1, <3>2, <4>1, HandlesFind DEF me
        <5>2. k.wnd[x].hwnd \in AllHandles
          BY <1>1, <4>1, HandlesFind
        <5>3. QED BY <5>1, <5>2 DEF AllHandles
      <4>4. a # 0 => a \in 1 .. n
        BY <1>2, <4>2
      <4> HIDE DEF a
      <4>5. a # 0 => CopyOf(r, x, a)
        BY <1>4, <1>13, <4>1, <4>2, <4>3, <4>4 DEF CopyOf
      <4>6. a \in 0 .. (n + 1)
        BY <1>2, <4>2
      <4>7. QED BY <1>4, <4>1, <4>5, <4>6 DEF a
    <3>3. QED BY <3>1, <3>2
  <2>2. ASSUME NEW d \in 1 .. Len(r.classes)
        PROVE  /\ r.classes[d].va \in 0 .. Len(r.heap)
               /\ r.classes[d].va # 0 => r.heap[r.classes[d].va] = GuestClass(r.classes[d])
    <3> DEFINE a == k.classes[d].va
    <3>1. a \in 0 .. n /\ (a # 0 => k.heap[a] = GuestClass(k.classes[d]))
      BY <1>1, <1>3 DEF CopiesOK, n
    <3>2. (a # 0 => a \in 1 .. n) /\ a \in 0 .. (n + 1)
      BY <1>2, <3>1
    <3> HIDE DEF a
    <3>3. QED BY <1>3, <1>4, <3>1, <3>2 DEF a
  <2>3. ASSUME NEW a \in 1 .. Len(r.heap), r.heap[a].h # NoHandle
        PROVE  \E x \in LiveIn(r.wnd) : r.wnd[x].va = a
    <3>1. CASE a = n + 1
      BY <1>6, <1>7, <3>1
    <3>2. CASE a # n + 1
      <4>1. a \in 1 .. n
        BY <1>2, <1>4, <3>2
      <4>2. PICK x \in LiveIn(k.wnd) : k.wnd[x].va = a
        BY <1>1, <1>4, <2>3, <4>1 DEF CopiesOK, n
      <4>3. x # w
        BY <4>1, <4>2
      <4>4. QED BY <1>7, <1>8, <4>2, <4>3
    <3>3. QED BY <3>1, <3>2
  <2>4. QED BY <2>1, <2>2, <2>3 DEF CopiesOK
<1>15. LinksBut(r, {})
  <2>1. SUFFICES ASSUME NEW x \in LiveIn(k.wnd), r.wnd[x].va # 0 PROVE LinksCopied(r, x)
    BY <1>7 DEF LinksBut
  <2>2. Va(r, Nothing) = 0
    BY DEF Va
  <2>3. CASE x = w
    BY <1>4, <1>5, <1>6, <2>2, <2>3 DEF LinksCopied
  <2>4. CASE x # w
    <3>1. r.wnd[x] = k.wnd[x] /\ k.wnd[x] \in WndT
      BY <1>1, <1>2, <1>8, <2>4 DEF Shape
    <3>2. \A y \in Wnds \cup {Nothing} : y # w => Va(r, y) = Va(k, y)
      BY <1>4 DEF Va
    <3>3. /\ k.wnd[x].parent \in (Wnds \cup {Nothing}) \ {w} /\ k.wnd[x].next \in (Wnds \cup {Nothing}) \ {w}
          /\ k.wnd[x].prev \in (Wnds \cup {Nothing}) \ {w} /\ k.wnd[x].child \in (Wnds \cup {Nothing}) \ {w}
      BY <3>1 DEF Unlinked, WndT
    <3>4. LinksCopied(k, x)
      BY <1>1, <2>1, <3>1 DEF LinksBut
    <3>5. k.wnd[x].va \in 1 .. n
      <4>1. k.wnd[x].va \in 0 .. n
        BY <1>1 DEF CopiesOK, n
      <4>2. QED BY <1>2, <2>1, <3>1, <4>1
    <3>6. r.heap[r.wnd[x].va] = k.heap[k.wnd[x].va]
      BY <1>4, <3>1, <3>5
    <3>7. QED BY <3>1, <3>2, <3>3, <3>4, <3>6 DEF LinksCopied
  <2>5. QED BY <2>3, <2>4
<1>16. ClassesOK(r)
  BY <1>1, <1>3 DEF ClassesOK, ClassesSound
<1>17. SameClasses(k, r)
  BY <1>3, ClassesSame
<1>18. QED BY <1>3, <1>7, <1>9, <1>11, <1>12, <1>14, <1>15, <1>16, <1>17 DEF Sound

LEMMA FillOK ==
  ASSUME NEW k, Sound(k), NEW L, LinksIn(k.wnd, L), NEW w \in Wnds \ LiveIn(k.wnd),
         NEW c \in 0 .. Len(k.classes), AllocHandle(k.table) # NoHandle,
         NEW r, r = Fill(k, w, c)
  PROVE  Sound(r) /\ Filled(k, r, w, c)
<1> DEFINE q == AddRef(Making(k, w, c), c)
<1>1. Sound(q) /\ Filled(k, q, w, c) /\ q.wnd[w].va = 0 /\ IsValid(q.table, q.wnd[w].hwnd)
  BY MadeSound
<1>2. r = GuestCreate(q, w)
  BY Zenon DEF Fill, Making
<1> HIDE DEF q
<1>3. Shape(q)
  BY <1>1 DEF Sound
<1>4. r = q \/ Copied(q, r, w)
  BY <1>1, <1>2, <1>3, GuestCreateOK
<1>5. CASE r = q
  BY <1>1, <1>5
<1>6. CASE Copied(q, r, w)
  <2>1. Appeared(k.wnd, q.wnd, w) /\ q.wnd[w].cls = c /\ SameClasses(k, q)
    BY <1>1 DEF Filled
  <2>2. c \in 0 .. Len(q.classes)
    BY <2>1 DEF SameClasses
  <2>3. CopyAdded(q, r, w)
    BY <1>3, <1>6, <2>1, <2>2, CopiedFields
  <2>4. LiveIn(q.wnd) = LiveIn(k.wnd) \cup {w}
    BY Zenon, <2>1 DEF Appeared, LiveIn
  <2>5. Unlinked(q.wnd, w)
    <3>1. LiveIn(k.wnd) \subseteq Wnds /\ w \notin LiveIn(k.wnd) /\ Nothing \notin Wnds
      BY UserWindowsAssumption DEF LiveIn
    <3>2. \A x \in LiveIn(k.wnd) : q.wnd[x] = k.wnd[x]
      BY <2>1, <3>1 DEF Appeared
    <3>3. \A x \in LiveIn(k.wnd) : /\ k.wnd[x].parent # w /\ k.wnd[x].next # w
                                   /\ k.wnd[x].prev # w /\ k.wnd[x].child # w
      BY <3>1 DEF LinksIn
    <3>4. /\ q.wnd[w].parent # w /\ q.wnd[w].next # w /\ q.wnd[w].prev # w /\ q.wnd[w].child # w
      BY <2>1, <3>1 DEF Appeared
    <3>5. QED BY <2>4, <3>2, <3>3, <3>4 DEF Unlinked
  <2>6. /\ q.wnd[w].parent = Nothing /\ q.wnd[w].next = Nothing
        /\ q.wnd[w].prev = Nothing /\ q.wnd[w].child = Nothing /\ w \in LiveIn(q.wnd)
    BY <2>1, <2>4 DEF Appeared
  <2>7. Sound(r) /\ SameClasses(q, r) /\ SameLinks(q.wnd, r.wnd, {}) /\ LiveIn(r.wnd) = LiveIn(q.wnd)
    BY <1>1, <2>3, <2>5, <2>6, CopySound
  <2>8. Appeared(k.wnd, r.wnd, w)
    <3>1. r.wnd \in [Wnds -> WndT]
      BY <2>7 DEF Sound, Shape
    <3>2. \A x \in Wnds \ {w} : r.wnd[x] = k.wnd[x]
      BY <2>1, <2>3 DEF Appeared, CopyAdded
    <3>3. r.wnd[w].alive
      BY Zenon, <2>6, <2>7 DEF LiveIn
    <3>4. /\ r.wnd[w].parent = Nothing /\ r.wnd[w].next = Nothing
          /\ r.wnd[w].prev = Nothing /\ r.wnd[w].child = Nothing
      BY <2>6, <2>7 DEF SameLinks
    <3>5. QED BY <3>1, <3>2, <3>3, <3>4 DEF Appeared
  <2>9. r.wnd[w].cls = c /\ r.wnd[w].hwnd = AllocHandle(k.table)
    <3>1. q.wnd[w] \in WndT /\ q.wnd[w].hwnd = AllocHandle(k.table)
      BY <1>1, <1>3 DEF Filled, Shape
    <3>2. r.wnd[w] = [q.wnd[w] EXCEPT !.va = Len(q.heap) + 1]
      BY <2>3 DEF CopyAdded
    <3>3. QED BY <2>1, <3>1, <3>2 DEF WndT
  <2>10. r.desktop = k.desktop /\ r.cache = k.cache /\ r.created = k.created + 1
    <3>1. r.desktop = q.desktop /\ r.cache = q.cache
      BY <2>3 DEF CopyAdded
    <3>2. r.created = q.created
      <4>1. SameTables([q EXCEPT !.entry = r.entry], r)
        BY <2>3 DEF CopyAdded
      <4>2. [q EXCEPT !.entry = r.entry]
              = Globals(q.table, q.wnd, q.classes, q.atoms, q.heap, r.entry, q.desktop, q.cache, q.created)
        BY <1>3, FieldSet
      <4>3. QED BY <4>1, <4>2 DEF SameTables, Globals
    <3>3. QED BY <1>1, <3>1, <3>2 DEF Filled
  <2>11. SameClasses(k, r)
    BY <2>1, <2>7, SameClassesTwice
  <2>12. QED BY <2>7, <2>8, <2>9, <2>10, <2>11 DEF Filled, Sound
<1>7. QED BY <1>4, <1>5, <1>6

---------------------------------------------------------------------------
(* The whole of the globals.                                               *)

Roots(k) == IF k.desktop = Nothing THEN {} ELSE {k.desktop}

\* The windows are one tree below the desktop, older ones first; before
\* there is a desktop there are none, and the table has room for it.
Tree(k, rank) ==
  /\ LinksIn(k.wnd, Roots(k)) /\ Ranked(k.wnd, rank, k.created)
  /\ Roots(k) \subseteq LiveIn(k.wnd)
  /\ k.desktop = Nothing => LiveIn(k.wnd) = {} /\ AllocHandle(k.table) # NoHandle

\* All that Sound is about.
SameSound(k, r) ==
  /\ r.table = k.table /\ r.wnd = k.wnd /\ r.classes = k.classes /\ r.atoms = k.atoms
  /\ r.heap = k.heap /\ r.entry = k.entry

LEMMA SoundSame ==
  ASSUME NEW k, Sound(k), NEW r, Shape(r), SameSound(k, r)
  PROVE  Sound(r)
<1>1. /\ r.table = k.table /\ r.wnd = k.wnd /\ r.classes = k.classes /\ r.atoms = k.atoms
      /\ r.heap = k.heap /\ r.entry = k.entry
  BY DEF SameSound
<1>2. TableOK(r.table, r.wnd)
  BY <1>1 DEF Sound
<1>3. RefsOK(r)
  <2>1. \A c : WindowsOf(r, c) = WindowsOf(k, c)
    BY <1>1 DEF WindowsOf
  <2>2. QED BY <1>1, <2>1 DEF Sound, RefsOK
<1>4. CopiesOK(r)
  <2>1. \A c : ClassVa(r, c) = ClassVa(k, c)
    BY <1>1 DEF ClassVa
  <2>2. \A w, a : CopyOf(k, w, a) => CopyOf(r, w, a)
    BY <1>1, <2>1 DEF CopyOf
  <2>3. CopiesOK(k)
    BY DEF Sound
  <2>4. QED BY <1>1, <2>2, <2>3 DEF CopiesOK
<1>5. LinksBut(r, {})
  <2>1. \A x : Va(r, x) = Va(k, x)
    BY <1>1 DEF Va
  <2>2. \A x : LinksCopied(k, x) => LinksCopied(r, x)
    BY <1>1, <2>1 DEF LinksCopied
  <2>3. LinksBut(k, {})
    BY DEF Sound
  <2>4. QED BY <1>1, <2>2, <2>3 DEF LinksBut
<1>6. ClassesOK(r)
  <2>1. ClassesOK(k)
    BY DEF Sound
  <2>2. QED BY <1>1, <2>1 DEF ClassesOK, ClassesSound
<1>7. QED BY <1>2, <1>3, <1>4, <1>5, <1>6 DEF Sound

\* Only the cache of the callback changes.
CacheOnly(k, r) == Shape(r) /\ SameSound(k, r) /\ r.desktop = k.desktop /\ r.created = k.created

LEMMA CacheSet ==
  ASSUME NEW k, Shape(k), NEW x
  PROVE  CacheOnly(k, [k EXCEPT !.cache = x])
<1> DEFINE r == [k EXCEPT !.cache = x]
<1>1. r = Globals(k.table, k.wnd, k.classes, k.atoms, k.heap, k.entry, k.desktop, x, k.created)
  BY FieldSet
<1> HIDE DEF r
<1>2. /\ r.table = k.table /\ r.wnd = k.wnd /\ r.classes = k.classes /\ r.atoms = k.atoms
      /\ r.heap = k.heap /\ r.entry = k.entry /\ r.desktop = k.desktop
      /\ r.cache = x /\ r.created = k.created
  BY <1>1 DEF Globals
<1>3. Shape(r)
  BY <1>1, <1>2 DEF Shape
<1>4. QED BY <1>2, <1>3 DEF CacheOnly, SameSound, r

LEMMA CacheSame ==
  ASSUME NEW k, Shape(k)
  PROVE  CacheOnly(k, k)
BY DEF CacheOnly, SameSound

LEMMA EnterOK ==
  ASSUME NEW k, Shape(k), NEW w
  PROVE  CacheOnly(k, Enter(k, w))
BY CacheSet, CacheSame DEF Enter

LEMMA LeaveOK ==
  ASSUME NEW k, Shape(k), NEW w
  PROVE  CacheOnly(k, Leave(k, w))
BY CacheSet, CacheSame DEF Leave

LEMMA CacheKeeps ==
  ASSUME NEW k, Sound(k), NEW rank, Tree(k, rank), NEW r, CacheOnly(k, r)
  PROVE  Sound(r) /\ Tree(r, rank) /\ SameClasses(k, r)
<1>1. Sound(r)
  BY SoundSame DEF CacheOnly
<1>2. r.wnd = k.wnd /\ r.table = k.table /\ r.desktop = k.desktop /\ r.created = k.created
      /\ r.classes = k.classes /\ r.atoms = k.atoms
  BY DEF CacheOnly, SameSound
<1>3. Tree(r, rank)
  BY <1>2 DEF Tree, Roots
<1>4. QED BY <1>1, <1>2, <1>3, ClassesSame

\* Unlinking and linking leave the fields that the tree and the classes need.
LEMMA RewiredFields ==
  ASSUME NEW k, NEW r, Rewired(k, r)
  PROVE  /\ r.desktop = k.desktop /\ r.created = k.created /\ r.table = k.table
         /\ r.classes = k.classes /\ SameClasses(k, r) /\ LiveIn(r.wnd) = LiveIn(k.wnd)
<1>1. /\ r.desktop = k.desktop /\ r.created = k.created /\ r.table = k.table
      /\ r.classes = k.classes /\ r.atoms = k.atoms
  BY DEF Rewired, SameRest, SameTables
<1>2. LiveIn(r.wnd) = LiveIn(k.wnd)
  BY SameLive DEF Rewired
<1>3. QED BY <1>1, <1>2, ClassesSame

---------------------------------------------------------------------------
(* user_window_init, window_create_internal, user_window_create.           *)

\* What is said of ranks when windows are made: the old ones keep theirs.
Older(m, rank, rk, n) ==
  \A x \in LiveIn(m) : rk[x] = rank[x] /\ (\A w \in LiveIn(n) \ LiveIn(m) : rk[x] < rk[w])

LEMMA FilledTree ==
  ASSUME NEW k, Sound(k), NEW rank, Tree(k, rank), NEW w \in Wnds \ LiveIn(k.wnd),
         NEW c, NEW r, Filled(k, r, w, c)
  PROVE  LET rk == [rank EXCEPT ![w] = k.created + 1]
         IN  /\ LinksIn(r.wnd, Roots(k) \cup {w}) /\ Ranked(r.wnd, rk, r.created)
             /\ LiveIn(r.wnd) = LiveIn(k.wnd) \cup {w}
             /\ \A x \in LiveIn(k.wnd) : rk[x] = rank[x] /\ rk[x] < rk[w]
<1>1. /\ k.wnd \in [Wnds -> WndT] /\ k.created \in Nat
      /\ LinksIn(k.wnd, Roots(k)) /\ Ranked(k.wnd, rank, k.created) /\ Roots(k) \subseteq LiveIn(k.wnd)
  BY DEF Sound, Shape, Tree
<1>2. Appeared(k.wnd, r.wnd, w) /\ r.created = k.created + 1
  BY DEF Filled
<1> DEFINE rk == [rank EXCEPT ![w] = k.created + 1]
           m == k.wnd  n == r.wnd  top == k.created  L == Roots(k)
<1>3. /\ m \in [Wnds -> WndT] /\ top \in Nat /\ LinksIn(m, L) /\ Ranked(m, rank, top)
      /\ L \subseteq LiveIn(m) /\ Appeared(m, n, w) /\ w \in Wnds \ LiveIn(m)
      /\ RankedAt(rank, rk, w, top + 1) /\ r.created = top + 1
  BY <1>1, <1>2 DEF RankedAt
<1> HIDE DEF rk, m, n, top, L
<1>4. /\ LinksIn(n, L \cup {w}) /\ Ranked(n, rk, top + 1)
      /\ LiveIn(n) = LiveIn(m) \cup {w} /\ RankedLast(m, rank, rk, w)
  BY <1>3, AppearedLinks
<1>5. QED BY <1>3, <1>4 DEF RankedLast, rk, m, n, top, L

LEMMA WithDesktopOK ==
  ASSUME NEW k, Sound(k), NEW rank, Tree(k, rank), NEW w \in Wnds,
         k.desktop = Nothing => w \notin LiveIn(k.wnd), NEW r, r = WithDesktop(k, w)
  PROVE  /\ Sound(r) /\ (\E rk : Tree(r, rk) /\ Older(k.wnd, rank, rk, r.wnd))
         /\ r.desktop # Nothing /\ SameClasses(k, r)
         /\ k.desktop # Nothing => r = k
         /\ k.desktop = Nothing =>
              r.desktop = w /\ r.created = k.created + 1 /\ LiveIn(r.wnd) = {w}
<1>1. CASE k.desktop # Nothing
  <2>1. r = k
    BY <1>1 DEF WithDesktop
  <2>2. Older(k.wnd, rank, rank, r.wnd)
    BY <2>1 DEF Older
  <2>3. QED BY <1>1, <2>1, <2>2, ClassesSame
<1>2. CASE k.desktop = Nothing
  <2> DEFINE q == Fill(k, w, 0)
             rk == [rank EXCEPT ![w] = k.created + 1]
  <2>1. LiveIn(k.wnd) = {} /\ AllocHandle(k.table) # NoHandle /\ LinksIn(k.wnd, Roots(k))
        /\ Roots(k) = {}
    BY <1>2 DEF Tree, Roots
  <2>2. 0 \in 0 .. Len(k.classes)
    <3>1. Len(k.classes) \in Nat
      BY DEF Sound, Shape
    <3>2. QED BY <3>1
  <2>3. r = [q EXCEPT !.desktop = w]
    BY Zenon, <1>2 DEF WithDesktop
  <2>4. Sound(q) /\ Filled(k, q, w, 0)
    BY <1>2, <2>1, <2>2, FillOK
  <2>5. /\ LinksIn(q.wnd, Roots(k) \cup {w}) /\ Ranked(q.wnd, rk, q.created)
        /\ LiveIn(q.wnd) = LiveIn(k.wnd) \cup {w}
    BY <1>2, <2>4, FilledTree
  <2> HIDE DEF q, rk
  <2>6. r = Globals(q.table, q.wnd, q.classes, q.atoms, q.heap, q.entry, w, q.cache, q.created)
        /\ Shape(q)
    BY <2>3, <2>4, FieldSet DEF Sound
  <2>7. /\ r.table = q.table /\ r.wnd = q.wnd /\ r.classes = q.classes /\ r.atoms = q.atoms
        /\ r.heap = q.heap /\ r.entry = q.entry /\ r.desktop = w
        /\ r.cache = q.cache /\ r.created = q.created
    BY <2>6 DEF Globals
  <2>8. Shape(r)
    BY <2>6, <2>7 DEF Shape
  <2>9. Sound(r)
    BY <2>4, <2>7, <2>8, SoundSame DEF SameSound
  <2>10. w # Nothing
    BY UserWindowsAssumption
  <2>11. Tree(r, rk)
    BY <2>1, <2>5, <2>7, <2>10 DEF Tree, Roots
  <2>12. Older(k.wnd, rank, rk, r.wnd)
    BY <2>1 DEF Older
  <2>13. SameClasses(k, r)
    <3>1. SameClasses(k, q) /\ SameClasses(q, r)
      BY <2>4, <2>7, ClassesSame DEF Filled
    <3>2. QED BY <3>1, SameClassesTwice
  <2>14. r.created = k.created + 1 /\ LiveIn(r.wnd) = {w}
    BY <2>1, <2>4, <2>5, <2>7 DEF Filled
  <2>15. QED BY <1>2, <2>7, <2>9, <2>10, <2>11, <2>12, <2>13, <2>14
<1>3. QED BY <1>1, <1>2

\* n is m with a window w in front of somebody's children.
Added(m, n, w) ==
  \A x \in LiveIn(m) :
    /\ n[x].parent = m[x].parent /\ n[x].next = m[x].next
    /\ n[x].child = m[x].child \/ (n[x].child = w /\ n[w].next = m[x].child)

LEMMA ParentIn ==
  ASSUME NEW k, Sound(k), NEW rank, Tree(k, rank), k.desktop # Nothing,
         NEW h \in AllHandles
  PROVE  Parent(k, h) \in LiveIn(k.wnd)
<1>1. k.desktop \in LiveIn(k.wnd)
  BY DEF Tree, Roots
<1>2. TableOK(k.table, k.wnd)
  BY DEF Sound
<1>3. \A g \in AllHandles : GetTyped(k.table, g, "WINDOW") \in LiveIn(k.wnd) \cup {Nothing}
  BY <1>2, HandlesFind
<1>4. FromHwnd(k, h) \in LiveIn(k.wnd) \cup {Nothing}
  BY <1>1, <1>3 DEF FromHwnd
<1>5. QED BY <1>1, <1>4 DEF Parent

WindowMade(k, r, rank, w) ==
  /\ Sound(r) /\ (\E rk : Tree(r, rk) /\ Older(k.wnd, rank, rk, r.wnd))
  /\ LiveIn(r.wnd) = LiveIn(k.wnd) \cup {w}
  /\ r.desktop = k.desktop /\ r.created = k.created + 1 /\ SameClasses(k, r)
  /\ Added(k.wnd, r.wnd, w)

LEMMA CreatedOK ==
  ASSUME NEW k, Sound(k), NEW rank, Tree(k, rank), k.desktop # Nothing,
         NEW w \in Wnds \ LiveIn(k.wnd), NEW c \in 0 .. Len(k.classes),
         AllocHandle(k.table) # NoHandle, NEW h \in AllHandles,
         NEW r, r = Created(k, w, c, h)
  PROVE  WindowMade(k, r, rank, w)
<1> DEFINE q == Fill(k, w, c)
           p == Parent(k, h)
           rk == [rank EXCEPT ![w] = k.created + 1]
<1>1. r = LinkChild(q, p, w)
  BY Zenon DEF Created
<1>2. p \in LiveIn(k.wnd)
  BY ParentIn
<1>3. Sound(q) /\ Filled(k, q, w, c)
  BY FillOK DEF Tree
<1>4. /\ LinksIn(q.wnd, Roots(k) \cup {w}) /\ Ranked(q.wnd, rk, q.created)
      /\ LiveIn(q.wnd) = LiveIn(k.wnd) \cup {w}
      /\ \A x \in LiveIn(k.wnd) : rk[x] = rank[x] /\ rk[x] < rk[w]
  BY <1>3, FilledTree
<1> HIDE DEF q, p, rk
<1>5. /\ Appeared(k.wnd, q.wnd, w) /\ q.desktop = k.desktop /\ q.created = k.created + 1
      /\ SameClasses(k, q)
  BY <1>3 DEF Filled
<1>6. q.wnd[w].child = Nothing /\ q.created \in Nat /\ q.wnd \in [Wnds -> WndT]
      /\ \A x \in LiveIn(k.wnd) : q.wnd[x] = k.wnd[x]
  <2>1. LiveIn(k.wnd) \subseteq Wnds \ {w}
    BY DEF LiveIn
  <2>2. QED BY <1>3, <1>5, <2>1 DEF Appeared, Sound, Shape
<1>7. Shape(q) /\ CopiesApart(q) /\ LinksBut(q, {})
  BY <1>3, SoundApart DEF Sound
<1>8. w \in LiveIn(q.wnd) /\ p \in LiveIn(q.wnd) \ {w} /\ w \in Roots(k) \cup {w}
  BY <1>2, <1>4
<1>9. LinkedUnder(q.wnd, r.wnd, p, w) /\ Rewired(q, r) /\ LinksBut(r, {})
  BY <1>1, <1>4, <1>6, <1>7, <1>8, LinkChildOK
<1>10. Sound(r)
  BY <1>3, <1>9, RewiredSound
<1>11. /\ r.desktop = k.desktop /\ r.created = k.created + 1 /\ SameClasses(k, r)
       /\ LiveIn(r.wnd) = LiveIn(k.wnd) \cup {w}
  <2>1. /\ r.desktop = q.desktop /\ r.created = q.created /\ SameClasses(q, r)
        /\ LiveIn(r.wnd) = LiveIn(q.wnd)
    BY <1>9, RewiredFields
  <2>2. QED BY <1>4, <1>5, <2>1, SameClassesTwice
<1>12. LinksIn(r.wnd, (Roots(k) \cup {w}) \ {w}) /\ Ranked(r.wnd, rk, q.created)
  <2>1. \A x \in LiveIn(q.wnd) \ {w} : rk[x] < rk[w]
    BY <1>4
  <2>2. QED BY <1>4, <1>6, <1>8, <1>9, <2>1, LinkedLinks
<1>13. Tree(r, rk)
  <2>1. Roots(r) = Roots(k) /\ Roots(k) \subseteq LiveIn(k.wnd) /\ w \notin Roots(k)
    BY <1>11 DEF Roots, Tree
  <2>2. (Roots(k) \cup {w}) \ {w} = Roots(k)
    BY <2>1
  <2>3. QED BY <1>5, <1>11, <1>12, <2>1, <2>2 DEF Tree
<1>14. Older(k.wnd, rank, rk, r.wnd)
  BY <1>4, <1>11 DEF Older
<1>15. Added(k.wnd, r.wnd, w)
  <2>1. SUFFICES ASSUME NEW x \in LiveIn(k.wnd)
                 PROVE  /\ r.wnd[x].parent = k.wnd[x].parent /\ r.wnd[x].next = k.wnd[x].next
                        /\ \/ r.wnd[x].child = k.wnd[x].child
                           \/ r.wnd[x].child = w /\ r.wnd[w].next = k.wnd[x].child
    BY DEF Added
  <2>2. x \in Wnds /\ w \in Wnds /\ x # w /\ q.wnd[x] = k.wnd[x]
    BY <1>6 DEF LiveIn
  <2>3. /\ r.wnd[x].parent = q.wnd[x].parent /\ r.wnd[x].next = q.wnd[x].next
        /\ r.wnd[x].child = IF x = p THEN w ELSE q.wnd[x].child
        /\ r.wnd[w].next = q.wnd[p].child
    BY <1>9, <2>2 DEF LinkedUnder
  <2>4. QED BY <2>2, <2>3
<1>16. QED BY <1>10, <1>11, <1>13, <1>14, <1>15 DEF WindowMade

LEMMA FailedFillOK ==
  ASSUME NEW k, Sound(k), NEW rank, Tree(k, rank), k.desktop # Nothing, NEW w \in Wnds,
         AllocHandle(k.table) # NoHandle, NEW r, r = FailedFill(k, w)
  PROVE  /\ Sound(r) /\ Tree(r, rank) /\ SameClasses(k, r) /\ r.wnd = k.wnd
         /\ r.desktop = k.desktop /\ r.created = k.created + 1
<1> DEFINE t == Free(Alloc(k.table, w, "WINDOW"), AllocHandle(k.table))
           n == k.created + 1
<1>1. TableOK(t, k.wnd)
  BY FailedAllocHolds DEF Sound
<1>2. r = [[k EXCEPT !.table = t] EXCEPT !.created = @ + 1]
  BY DEF FailedFill
<1> HIDE DEF t
<1>3. r = Globals(t, k.wnd, k.classes, k.atoms, k.heap, k.entry, k.desktop, k.cache, n)
  <2> DEFINE b == k.wnd  c == k.classes  d == k.atoms  e == k.heap
             f == k.entry  g == k.desktop  h == k.cache  i == k.created
  <2>1. [k EXCEPT !.table = t] = Globals(t, b, c, d, e, f, g, h, i)
    BY FieldSet DEF Sound
  <2> HIDE DEF b, c, d, e, f, g, h, i
  <2>2. [Globals(t, b, c, d, e, f, g, h, i) EXCEPT !.created = @ + 1]
          = Globals(t, b, c, d, e, f, g, h, i + 1)
    BY DEF Globals
  <2>3. r = Globals(t, b, c, d, e, f, g, h, i + 1)
    BY <1>2, <2>1, <2>2
  <2>4. QED BY <2>3 DEF b, c, d, e, f, g, h, i
<1>4. n \in Nat /\ n = k.created + 1 /\ Shape(k)
  BY DEF Sound, Shape
<1> HIDE DEF n
<1>5. /\ r.table = t /\ r.wnd = k.wnd /\ r.classes = k.classes /\ r.atoms = k.atoms
      /\ r.heap = k.heap /\ r.entry = k.entry /\ r.desktop = k.desktop
      /\ r.cache = k.cache /\ r.created = n
  BY <1>3 DEF Globals
<1>6. Shape(r)
  <2>1. t \in TableT
    BY <1>1 DEF TableOK
  <2>2. QED BY <1>3, <1>4, <1>5, <2>1 DEF Shape
<1>7. Sound(r)
  <2>5. RefsOK(r)
    <3>1. \A c : WindowsOf(r, c) = WindowsOf(k, c)
      BY <1>5 DEF WindowsOf
    <3>2. QED BY <1>5, <3>1 DEF Sound, RefsOK
  <2>6. CopiesOK(r)
    <3>1. \A c : ClassVa(r, c) = ClassVa(k, c)
      BY <1>5 DEF ClassVa
    <3>2. \A x, a : CopyOf(k, x, a) => CopyOf(r, x, a)
      BY <1>5, <3>1 DEF CopyOf
    <3>3. CopiesOK(k)
      BY DEF Sound
    <3>4. QED BY <1>5, <3>2, <3>3 DEF CopiesOK
  <2>7. LinksBut(r, {})
    <3>1. \A x : Va(r, x) = Va(k, x)
      BY <1>5 DEF Va
    <3>2. \A x : LinksCopied(k, x) => LinksCopied(r, x)
      BY <1>5, <3>1 DEF LinksCopied
    <3>3. LinksBut(k, {})
      BY DEF Sound
    <3>4. QED BY <1>5, <3>2, <3>3 DEF LinksBut
  <2>8. ClassesOK(r)
    <3>1. ClassesOK(k)
      BY DEF Sound
    <3>2. QED BY <1>5, <3>1 DEF ClassesOK, ClassesSound
  <2>9. QED BY <1>1, <1>5, <1>6, <2>5, <2>6, <2>7, <2>8 DEF Sound
<1>8. Tree(r, rank)
  <2>1. Ranked(k.wnd, rank, n)
    <3>1. ASSUME NEW x \in LiveIn(k.wnd) PROVE rank[x] <= n
      <4>1. rank[x] <= k.created /\ rank[x] \in Nat /\ k.created \in Nat
        BY <1>4 DEF Tree, Ranked, LiveIn, Shape
      <4>2. QED BY <1>4, <4>1
    <3>2. QED BY <3>1 DEF Tree, Ranked
  <2>2. QED BY <1>5, <2>1 DEF Tree, Roots
<1>9. QED BY <1>4, <1>5, <1>7, <1>8, ClassesSame

---------------------------------------------------------------------------
(* user_window_destroy of a window that has no children.                   *)

\* w, of class c, is gone, with its handle, its copy's and its reference.
Ended(k, r, w) ==
  /\ Shape(r) /\ Gone(k.wnd, r.wnd, w) /\ SameClasses(k, r)
  /\ r.table = Free(k.table, k.wnd[w].hwnd)
  /\ \A x \in 1 .. Len(k.classes) :
       r.classes[x].refs = IF x = k.wnd[w].cls THEN k.classes[x].refs + (-1) ELSE k.classes[x].refs
  /\ Len(r.heap) = Len(k.heap)
  /\ \A a \in 1 .. Len(k.heap) : a # k.wnd[w].va => r.heap[a] = k.heap[a]
  /\ k.wnd[w].va # 0 => r.heap[k.wnd[w].va].h = NoHandle
  /\ r.entry = k.entry /\ r.desktop = k.desktop /\ r.cache = k.cache /\ r.created = k.created

\* The copy of w has no handle.
Wiped(k, r, w) ==
  /\ Shape(r) /\ SameRest(k, r) /\ r.wnd = k.wnd /\ Len(r.heap) = Len(k.heap)
  /\ \A a \in 1 .. Len(k.heap) : a # k.wnd[w].va => r.heap[a] = k.heap[a]
  /\ k.wnd[w].va # 0 => r.heap[k.wnd[w].va].h = NoHandle

LEMMA GuestDestroyOK ==
  ASSUME NEW k, Shape(k), NEW w \in Wnds, k.wnd[w].va \in 0 .. Len(k.heap),
         NEW r, r = GuestDestroy(k, w)
  PROVE  Wiped(k, r, w)
<1>1. CASE k.wnd[w].va = 0
  BY <1>1 DEF GuestDestroy, Wiped, SameRest, SameTables
<1>2. CASE k.wnd[w].va # 0
  <2> DEFINE a == k.wnd[w].va
             hp == k.heap
             one == [hp[a] EXCEPT !.h = NoHandle]
             g == [hp EXCEPT ![a] = one]
  <2>1. hp \in Seq(CellT) /\ Len(hp) <= HeapSize /\ Len(hp) \in Nat
    BY DEF Shape
  <2>2. a \in 1 .. Len(hp) /\ a # 0
    BY <1>2, <2>1
  <2>3. r = [k EXCEPT !.heap = g]
    BY <1>2 DEF GuestDestroy
  <2> HIDE DEF a, hp
  <2>4. hp[a] \in CellT
    BY <2>1, <2>2
  <2>5. one \in CellT /\ one.h = NoHandle
    BY <2>4, SlotFacts DEF CellT
  <2> HIDE DEF one
  <2>6. g \in Seq(CellT) /\ Len(g) = Len(hp) /\ g[a] = one
        /\ \A b \in 1 .. Len(hp) : b # a => g[b] = hp[b]
    BY <2>1, <2>2, <2>5
  <2> HIDE DEF g
  <2>7. Shape(r) /\ SameRest(k, r) /\ r.wnd = k.wnd /\ r.heap = g
    BY <2>1, <2>3, <2>6, HeapSet
  <2>8. QED BY <2>5, <2>6, <2>7 DEF Wiped, hp, a
<1>3. QED BY <1>1, <1>2

Ending(k, w, c, t) ==
  [Release(GuestDestroy(k, w), c) EXCEPT !.table = t, !.wnd[w] = NoWnd]

LEMMA EndedOK ==
  ASSUME NEW k, Shape(k), NEW w \in Wnds, k.wnd[w].va \in 0 .. Len(k.heap),
         NEW c, c = k.wnd[w].cls, c \in 0 .. Len(k.classes), c # 0 => k.classes[c].refs # 0,
         NEW t, t = Free(k.table, k.wnd[w].hwnd), t \in TableT,
         NEW r, r = Ending(k, w, c, t)
  PROVE  Ended(k, r, w)
<1> DEFINE o == GuestDestroy(k, w)
           p == Release(o, c)
           n == [k.wnd EXCEPT ![w] = NoWnd]
<1>1. Wiped(k, o, w)
  BY GuestDestroyOK
<1>2. r = [p EXCEPT !.table = t, !.wnd[w] = NoWnd] /\ p = Release(o, c)
  BY DEF Ending
<1> HIDE DEF o, p
<1>3. Shape(o) /\ o.classes = k.classes /\ o.wnd = k.wnd /\ o.atoms = k.atoms
      /\ o.entry = k.entry /\ o.desktop = k.desktop /\ o.cache = k.cache /\ o.created = k.created
  BY <1>1 DEF Wiped, SameRest, SameTables
<1>4. Counted(o, p, c, -1)
  BY <1>2, <1>3, ReleaseOK
<1>5. /\ Shape(p) /\ SameClasses(o, p) /\ p.wnd = k.wnd /\ p.heap = o.heap /\ p.entry = k.entry
      /\ p.desktop = k.desktop /\ p.cache = k.cache /\ p.created = k.created
  BY <1>3, <1>4 DEF Counted
<1>6. r = Globals(t, n, p.classes, p.atoms, p.heap, p.entry, p.desktop, p.cache, p.created)
  <2> DEFINE a == p.table  b == p.wnd  d == p.classes  e == p.atoms  f == p.heap
             g == p.entry  h == p.desktop  i == p.cache  j == p.created
  <2>1. r = [[p EXCEPT !.table = t] EXCEPT !.wnd[w] = NoWnd]
    BY <1>2
  <2>2. [p EXCEPT !.table = t] = Globals(t, b, d, e, f, g, h, i, j)
    BY <1>5, FieldSet
  <2>3. n = [b EXCEPT ![w] = NoWnd]
    BY <1>5
  <2> HIDE DEF a, b, d, e, f, g, h, i, j, n
  <2>4. [Globals(t, b, d, e, f, g, h, i, j) EXCEPT !.wnd[w] = NoWnd]
          = Globals(t, [b EXCEPT ![w] = NoWnd], d, e, f, g, h, i, j)
    BY DEF Globals
  <2>5. r = Globals(t, n, d, e, f, g, h, i, j)
    BY <2>1, <2>2, <2>3, <2>4
  <2>6. QED BY <2>5 DEF b, d, e, f, g, h, i, j
<1>7. NoWnd \in WndT /\ NoWnd.alive = FALSE
  BY SlotFacts DEF NoWnd, NewWnd, WndT
<1>8. k.wnd \in [Wnds -> WndT]
  BY DEF Shape
<1>9. n \in [Wnds -> WndT] /\ n[w] = NoWnd /\ \A x \in Wnds \ {w} : n[x] = k.wnd[x]
  BY <1>7, <1>8
<1>10. Gone(k.wnd, n, w)
  BY <1>7, <1>9 DEF Gone
<1> HIDE DEF n
<1>11. /\ r.table = t /\ r.wnd = n /\ r.classes = p.classes /\ r.atoms = p.atoms
       /\ r.heap = p.heap /\ r.entry = p.entry /\ r.desktop = p.desktop
       /\ r.cache = p.cache /\ r.created = p.created
  BY <1>6 DEF Globals
<1>12. Shape(r)
  BY <1>5, <1>6, <1>9, <1>11 DEF Shape
<1>13. SameClasses(k, r)
  <2>1. SameClasses(k, o) /\ SameClasses(o, p) /\ SameClasses(p, r)
    BY <1>3, <1>5, <1>11, ClassesSame
  <2>2. SameClasses(k, p)
    BY <2>1, SameClassesTwice
  <2>3. QED BY <2>1, <2>2, SameClassesTwice
<1>14. \A x \in 1 .. Len(k.classes) :
         r.classes[x].refs = IF x = c THEN k.classes[x].refs + (-1) ELSE k.classes[x].refs
  BY <1>3, <1>4, <1>11 DEF Counted
<1>15. /\ Len(r.heap) = Len(k.heap)
       /\ \A a \in 1 .. Len(k.heap) : a # k.wnd[w].va => r.heap[a] = k.heap[a]
       /\ k.wnd[w].va # 0 => r.heap[k.wnd[w].va].h = NoHandle
  BY <1>1, <1>5, <1>11 DEF Wiped
<1>16. QED BY <1>5, <1>10, <1>11, <1>12, <1>13, <1>14, <1>15 DEF Ended

LEMMA EndedSound ==
  ASSUME NEW k, Sound(k), NEW w \in LiveIn(k.wnd), Unlinked(k.wnd, w),
         NEW r, Ended(k, r, w)
  PROVE  Sound(r) /\ LiveIn(r.wnd) = LiveIn(k.wnd) \ {w}
<1>1. Shape(k) /\ TableOK(k.table, k.wnd) /\ RefsOK(k) /\ CopiesOK(k) /\ LinksBut(k, {})
      /\ ClassesOK(k) /\ CopiesApart(k)
  BY SoundApart DEF Sound
<1>2. Shape(r) /\ Gone(k.wnd, r.wnd, w) /\ SameClasses(k, r) /\ r.entry = k.entry
  BY DEF Ended
<1>3. LiveIn(r.wnd) = LiveIn(k.wnd) \ {w} /\ LiveIn(k.wnd) \subseteq Wnds
  <2>1. \A x \in Wnds \ {w} : r.wnd[x].alive = k.wnd[x].alive
    BY Zenon, <1>2 DEF Gone
  <2>2. ~ r.wnd[w].alive
    BY Zenon, <1>2 DEF Gone
  <2>3. LiveIn(r.wnd) \subseteq LiveIn(k.wnd) \ {w}
    BY Zenon, <2>1, <2>2 DEF LiveIn
  <2>4. LiveIn(k.wnd) \ {w} \subseteq LiveIn(r.wnd)
    BY Zenon, <2>1 DEF LiveIn
  <2>5. LiveIn(k.wnd) \subseteq Wnds
    BY DEF LiveIn
  <2>6. QED BY <2>3, <2>4, <2>5
<1>4. \A x \in LiveIn(r.wnd) : x \in LiveIn(k.wnd) /\ x # w /\ r.wnd[x] = k.wnd[x]
  BY <1>2, <1>3 DEF Gone
<1>5. TableOK(r.table, r.wnd)
  <2> DEFINE t == k.table  m == k.wnd  n == r.wnd  h == m[w].hwnd
  <2>1. TableOK(t, m) /\ w \in LiveIn(m) /\ h = m[w].hwnd /\ LiveIn(n) = LiveIn(m) \ {w}
    BY <1>1, <1>3
  <2>2. \A x \in LiveIn(n) : n[x].hwnd = m[x].hwnd
    BY <1>4
  <2>3. r.table = Free(t, h)
    BY DEF Ended
  <2> HIDE DEF t, m, n, h
  <2>4. TableOK(Free(t, h), n)
    BY <2>1, <2>2, FreeHolds
  <2>5. QED BY <2>3, <2>4 DEF n
<1>6. Len(r.classes) = Len(k.classes)
  BY <1>2 DEF SameClasses
<1>7. RefsOK(r)
  <2>1. \A x \in LiveIn(r.wnd) : r.wnd[x].cls \in 0 .. Len(r.classes)
    BY <1>1, <1>4, <1>6 DEF RefsOK
  <2>2. ASSUME NEW d \in 1 .. Len(k.classes)
        PROVE  r.classes[d].refs = Cardinality(WindowsOf(r, d))
    <3>1. WindowsOf(k, d) \subseteq LiveIn(k.wnd)
      BY DEF WindowsOf
    <3>2. IsFiniteSet(WindowsOf(k, d))
      BY <3>1, WindowsFinite, FS_Subset
    <3>3. k.classes[d].refs = Cardinality(WindowsOf(k, d))
      BY <1>1 DEF RefsOK
    <3>4. r.classes[d].refs = IF d = k.wnd[w].cls THEN k.classes[d].refs + (-1) ELSE k.classes[d].refs
      BY DEF Ended
    <3>5. CASE d = k.wnd[w].cls
      <4>1. WindowsOf(r, d) = WindowsOf(k, d) \ {w} /\ w \in WindowsOf(k, d)
        BY <1>3, <1>4, <3>5 DEF WindowsOf
      <4>2. Cardinality(WindowsOf(r, d)) = Cardinality(WindowsOf(k, d)) - 1
            /\ Cardinality(WindowsOf(k, d)) \in Nat
        BY <3>2, <4>1, FS_RemoveElement, FS_CardinalityType
      <4>3. QED BY <3>3, <3>4, <3>5, <4>2
    <3>6. CASE d # k.wnd[w].cls
      <4>1. WindowsOf(r, d) = WindowsOf(k, d)
        BY <1>3, <1>4, <3>6 DEF WindowsOf
      <4>2. QED BY <3>3, <3>4, <3>6, <4>1
    <3>7. QED BY <3>5, <3>6
  <2>3. QED BY <1>6, <2>1, <2>2 DEF RefsOK
<1>8. \A d \in 0 .. Len(k.classes) : ClassVa(r, d) = ClassVa(k, d)
  BY <1>2 DEF ClassVa, SameClasses
<1>9. /\ Len(r.heap) = Len(k.heap) /\ Len(k.heap) \in Nat
      /\ \A a \in 1 .. Len(k.heap) : a # k.wnd[w].va => r.heap[a] = k.heap[a]
      /\ k.wnd[w].va # 0 => r.heap[k.wnd[w].va].h = NoHandle
  BY <1>1 DEF Ended, Shape
<1>10. CopiesOK(r)
  <2>1. ASSUME NEW x \in LiveIn(r.wnd)
        PROVE  r.wnd[x].va \in 0 .. Len(r.heap) /\ (r.wnd[x].va # 0 => CopyOf(r, x, r.wnd[x].va))
    <3> DEFINE a == k.wnd[x].va
    <3>1. x \in LiveIn(k.wnd) /\ x # w /\ r.wnd[x] = k.wnd[x]
      BY <1>4
    <3>2. a \in 0 .. Len(k.heap) /\ (a # 0 => CopyOf(k, x, a))
      BY <1>1, <3>1 DEF CopiesOK
    <3>3. a # 0 => a # k.wnd[w].va
      BY <1>1, <3>1 DEF CopiesApart
    <3>4. ClassVa(r, k.wnd[x].cls) = ClassVa(k, k.wnd[x].cls)
      BY <1>1, <1>8, <3>1 DEF RefsOK
    <3>5. a # 0 => a \in 1 .. Len(k.heap)
      BY <1>9, <3>2
    <3> HIDE DEF a
    <3>6. a # 0 => r.heap[a] = k.heap[a]
      BY <1>9, <3>3, <3>5
    <3>7. a # 0 => CopyOf(r, x, a)
      BY <1>2, <3>1, <3>2, <3>4, <3>6 DEF CopyOf
    <3>8. QED BY <1>9, <3>1, <3>2, <3>7 DEF a
  <2>2. ASSUME NEW d \in 1 .. Len(r.classes)
        PROVE  /\ r.classes[d].va \in 0 .. Len(r.heap)
               /\ r.classes[d].va # 0 => r.heap[r.classes[d].va] = GuestClass(r.classes[d])
    <3> DEFINE a == k.classes[d].va
    <3>1. d \in 1 .. Len(k.classes) /\ r.classes[d].va = a
          /\ r.classes[d].atom = k.classes[d].atom
      BY <1>2, <1>6 DEF SameClasses
    <3>2. a \in 0 .. Len(k.heap) /\ (a # 0 => k.heap[a] = GuestClass(k.classes[d]))
      BY <1>1, <3>1 DEF CopiesOK
    <3>3. GuestClass(r.classes[d]) = GuestClass(k.classes[d])
      BY <3>1 DEF GuestClass
    <3>4. a # 0 => a # k.wnd[w].va
      BY <3>1, ClassApart
    <3>5. a # 0 => a \in 1 .. Len(k.heap)
      BY <1>9, <3>2
    <3> HIDE DEF a
    <3>6. a # 0 => r.heap[a] = k.heap[a]
      BY <1>9, <3>4, <3>5
    <3>7. QED BY <1>9, <3>1, <3>2, <3>3, <3>6
  <2>3. ASSUME NEW a \in 1 .. Len(r.heap), r.heap[a].h # NoHandle
        PROVE  \E x \in LiveIn(r.wnd) : r.wnd[x].va = a
    <3>1. a \in 1 .. Len(k.heap) /\ a # k.wnd[w].va
      <4>1. a # 0
        BY <1>9
      <4>2. QED BY <1>9, <2>3, <4>1
    <3>2. k.heap[a].h # NoHandle
      BY <1>9, <2>3, <3>1
    <3>3. PICK x \in LiveIn(k.wnd) : k.wnd[x].va = a
      BY <1>1, <3>1, <3>2 DEF CopiesOK
    <3>4. x # w
      BY <3>1, <3>3
    <3>5. QED BY <1>3, <1>4, <3>3, <3>4
  <2>4. QED BY <2>1, <2>2, <2>3 DEF CopiesOK
<1>11. LinksBut(r, {})
  <2>1. SUFFICES ASSUME NEW x \in LiveIn(r.wnd), r.wnd[x].va # 0 PROVE LinksCopied(r, x)
    BY DEF LinksBut
  <2>2. x \in LiveIn(k.wnd) /\ x # w /\ r.wnd[x] = k.wnd[x] /\ k.wnd[x] \in WndT
    BY <1>1, <1>3, <1>4 DEF Shape
  <2>3. \A y \in (Wnds \cup {Nothing}) \ {w} : Va(r, y) = Va(k, y)
    BY <1>2 DEF Va, Gone
  <2>4. /\ k.wnd[x].parent \in (Wnds \cup {Nothing}) \ {w} /\ k.wnd[x].next \in (Wnds \cup {Nothing}) \ {w}
        /\ k.wnd[x].prev \in (Wnds \cup {Nothing}) \ {w} /\ k.wnd[x].child \in (Wnds \cup {Nothing}) \ {w}
    BY <2>2 DEF Unlinked, WndT
  <2>5. LinksCopied(k, x)
    BY <1>1, <2>1, <2>2 DEF LinksBut
  <2>6. k.wnd[x].va \in 1 .. Len(k.heap) /\ k.wnd[x].va # k.wnd[w].va
    <3>1. k.wnd[x].va \in 0 .. Len(k.heap) /\ k.wnd[x].va # 0
      BY <1>1, <2>1, <2>2 DEF CopiesOK
    <3>2. k.wnd[x].va # k.wnd[w].va
      BY <1>1, <2>2, <3>1 DEF CopiesApart
    <3>3. QED BY <1>9, <3>1, <3>2
  <2>7. r.heap[r.wnd[x].va] = k.heap[k.wnd[x].va]
    BY <1>9, <2>2, <2>6
  <2>8. QED BY <2>2, <2>3, <2>4, <2>5, <2>7 DEF LinksCopied
<1>12. ClassesOK(r)
  BY <1>1, <1>2, SameClassesOK DEF Shape
<1>13. QED BY <1>2, <1>3, <1>5, <1>7, <1>10, <1>11, <1>12 DEF Sound

\* The windows that stay, when w goes: the next sibling takes its place.
Without(m, n, w) ==
  \A x \in LiveIn(m) \ {w} :
    /\ n[x].parent = m[x].parent
    /\ n[x].next = IF m[x].next = w THEN m[w].next ELSE m[x].next
    /\ n[x].child = IF m[x].child = w THEN m[w].next ELSE m[x].child

\* r is what a call that destroys windows leaves of k.
Remains(k, r, rank) ==
  /\ Sound(r) /\ Tree(r, rank) /\ SameClasses(k, r)
  /\ r.desktop = k.desktop /\ r.created = k.created

LEMMA CutWithout ==
  ASSUME NEW m \in [Wnds -> WndT], NEW L, LinksIn(m, L),
         NEW w \in LiveIn(m), NEW q, CutFrom(m, q, w), NEW n, Gone(q, n, w)
  PROVE  Without(m, n, w)
<1>1. LiveIn(m) \subseteq Wnds /\ Nothing \notin Wnds
  BY UserWindowsAssumption DEF LiveIn
<1>2. SUFFICES ASSUME NEW x \in LiveIn(m) \ {w}
               PROVE  /\ n[x].parent = m[x].parent
                      /\ n[x].next = IF m[x].next = w THEN m[w].next ELSE m[x].next
                      /\ n[x].child = IF m[x].child = w THEN m[w].next ELSE m[x].child
  BY DEF Without
<1>3. x \in Wnds /\ n[x] = q[x]
  BY <1>1 DEF Gone
<1>4. /\ q[x].parent = m[x].parent
      /\ q[x].next = IF x = m[w].prev THEN m[w].next ELSE m[x].next
      /\ q[x].child = IF x = m[w].parent /\ m[x].child = w THEN m[w].next ELSE m[x].child
  BY <1>3 DEF CutFrom
<1>5. m[w].prev = x => m[x].next = w
  BY <1>1 DEF LinksIn
<1>6. m[x].next = w => m[w].prev = x
  BY <1>1 DEF LinksIn
<1>7. m[x].child = w => m[w].parent = x
  BY <1>1 DEF LinksIn
<1>8. QED BY <1>3, <1>4, <1>5, <1>6, <1>7

LEMMA CutUnlinked ==
  ASSUME NEW m \in [Wnds -> WndT], NEW L, LinksIn(m, L),
         NEW top \in Nat, NEW rank, Ranked(m, rank, top),
         NEW w \in LiveIn(m), m[w].child = Nothing, w \in L
  PROVE  Unlinked(m, w)
<1>1. LiveIn(m) \subseteq Wnds /\ Nothing \notin Wnds
  BY UserWindowsAssumption DEF LiveIn
<1>2. m[w].next = Nothing /\ m[w].prev = Nothing /\ m[w].parent = Nothing
  BY DEF LinksIn
<1>3. \A x \in LiveIn(m) : m[x].next # w /\ m[x].prev # w /\ m[x].child # w
  BY <1>1, <1>2 DEF LinksIn
<1>4. \A x \in LiveIn(m) : m[x].parent # w
  BY NoChildren
<1>5. QED BY <1>3, <1>4 DEF Unlinked

LEMMA DestroyLeafOK ==
  ASSUME NEW k, Sound(k), NEW rank, Tree(k, rank), NEW w \in LiveIn(k.wnd),
         w # k.desktop, k.wnd[w].child = Nothing, NEW r, r = DestroyLeaf(k, w)
  PROVE  /\ Remains(k, r, rank) /\ LiveIn(r.wnd) = LiveIn(k.wnd) \ {w}
         /\ Without(k.wnd, r.wnd, w)
<1> DEFINE o == Unlink(k, w)
           c == k.wnd[w].cls
           h == k.wnd[w].hwnd
           t == Free(k.table, h)
           L == Roots(k)
<1>1. /\ Shape(k) /\ CopiesApart(k) /\ LinksIn(k.wnd, L) /\ Ranked(k.wnd, rank, k.created)
      /\ LinksBut(k, {}) /\ k.wnd \in [Wnds -> WndT] /\ k.created \in Nat
  BY SoundApart DEF Sound, Tree, Shape
<1>2. LiveIn(k.wnd) \subseteq Wnds /\ Nothing \notin Wnds /\ w \in Wnds
  BY UserWindowsAssumption DEF LiveIn
<1>3. w \notin L /\ L \subseteq LiveIn(k.wnd)
  BY DEF Roots, Tree
<1>4. r = Ending(o, w, c, t)
  BY Zenon DEF DestroyLeaf, Ending
<1>5. o = Unlink(k, w) /\ c = k.wnd[w].cls /\ h = k.wnd[w].hwnd /\ t = Free(k.table, h)
  OBVIOUS
<1> HIDE DEF o, c, h, t, L
<1>6. CutFrom(k.wnd, o.wnd, w) /\ Rewired(k, o) /\ LinksBut(o, {})
  BY <1>1, <1>5, UnlinkOK
<1>7. Sound(o)
  BY <1>6, RewiredSound
<1>8. LinksIn(o.wnd, L \cup {w}) /\ Ranked(o.wnd, rank, k.created) /\ LiveIn(o.wnd) = LiveIn(k.wnd)
  BY <1>1, <1>6, CutLinks
<1>9. o.wnd[w].child = Nothing
  <2>1. o.wnd[w].child = IF w = k.wnd[w].parent /\ k.wnd[w].child = w THEN k.wnd[w].next ELSE k.wnd[w].child
    BY <1>2, <1>6 DEF CutFrom
  <2>2. QED BY <1>2, <2>1
<1>10. o.wnd \in [Wnds -> WndT] /\ w \in LiveIn(o.wnd) /\ w \in L \cup {w}
  BY <1>7, <1>8 DEF Sound, Shape
<1>11. Unlinked(o.wnd, w)
  BY <1>1, <1>8, <1>9, <1>10, CutUnlinked
<1>12. /\ o.wnd[w].cls = c /\ o.wnd[w].hwnd = h /\ o.table = k.table /\ SameClasses(k, o)
       /\ o.desktop = k.desktop /\ o.created = k.created
  BY <1>2, <1>5, <1>6, RewiredFields DEF Rewired, SameWindows
<1>13. o.wnd[w].va \in 0 .. Len(o.heap) /\ c \in 0 .. Len(o.classes)
  BY <1>7, <1>10, <1>12 DEF Sound, CopiesOK, RefsOK
<1>14. ASSUME c # 0 PROVE o.classes[c].refs # 0
  <2>1. c \in 1 .. Len(o.classes)
    <3>1. Len(o.classes) \in Nat
      BY <1>7 DEF Sound, Shape
    <3>2. QED BY <1>13, <1>14, <3>1
  <2>2. o.classes[c].refs = Cardinality(WindowsOf(o, c))
    BY <1>7, <2>1 DEF Sound, RefsOK
  <2>3. WindowsOf(o, c) \subseteq LiveIn(o.wnd) /\ w \in WindowsOf(o, c)
    BY <1>10, <1>12 DEF WindowsOf
  <2>4. IsFiniteSet(WindowsOf(o, c))
    BY <2>3, WindowsFinite, FS_Subset
  <2>5. Cardinality(WindowsOf(o, c)) # 0
    BY <2>3, <2>4, FS_EmptySet
  <2>6. QED BY <2>2, <2>5
<1>15. t \in TableT
  <2> DEFINE tb == k.table  m == k.wnd  n == [m EXCEPT ![w] = NoWnd]
  <2>1. h \in AllHandles /\ h.index # 0 /\ tb.gen[h.index] = h.gen /\ tb.type[h.index] = "WINDOW"
        /\ tb \in TableT
    BY <1>5 DEF Sound, TableOK, Holds
  <2>2. t = Free(tb, h)
    BY <1>5
  <2> HIDE DEF tb
  <2>3. QED BY <2>1, <2>2, FreeFields
<1>16. Ended(o, r, w)
  <2>1. Shape(o) /\ c = o.wnd[w].cls /\ t = Free(o.table, o.wnd[w].hwnd)
    BY <1>5, <1>7, <1>12 DEF Sound
  <2>2. QED BY <1>2, <1>4, <1>13, <1>14, <1>15, <2>1, EndedOK
<1>17. Sound(r) /\ LiveIn(r.wnd) = LiveIn(k.wnd) \ {w}
  BY <1>7, <1>8, <1>10, <1>11, <1>16, EndedSound
<1>18. /\ Gone(o.wnd, r.wnd, w) /\ SameClasses(o, r) /\ r.desktop = k.desktop
       /\ r.created = k.created
  BY <1>12, <1>16 DEF Ended
<1>19. SameClasses(k, r)
  BY <1>12, <1>18, SameClassesTwice
<1>20. LinksIn(r.wnd, (L \cup {w}) \ {w}) /\ Ranked(r.wnd, rank, k.created)
  BY <1>1, <1>8, <1>9, <1>10, <1>18, GoneLinks
<1>21. Tree(r, rank)
  <2>1. (L \cup {w}) \ {w} = L /\ L = Roots(k) /\ Roots(r) = Roots(k)
    BY <1>3, <1>18 DEF L, Roots
  <2>2. k.desktop # Nothing
    BY DEF Tree
  <2>3. L \subseteq LiveIn(r.wnd)
    BY <1>3, <1>17
  <2>4. LinksIn(r.wnd, Roots(r)) /\ Ranked(r.wnd, rank, r.created) /\ Roots(r) \subseteq LiveIn(r.wnd)
    BY <1>18, <1>20, <2>1, <2>3
  <2>5. QED BY <1>18, <2>2, <2>4 DEF Tree
<1>22. Without(k.wnd, r.wnd, w)
  BY <1>1, <1>6, <1>18, CutWithout
<1>23. QED BY <1>17, <1>18, <1>19, <1>21, <1>22 DEF Remains

---------------------------------------------------------------------------
(* The window that user_window_destroy frees first.                        *)

Down(m, x) == IF m[x].child = Nothing THEN x ELSE m[x].child
DownTo(m, w, at, n) == at = [i \in 0 .. n |-> IF i = 0 THEN w ELSE Down(m, at[i - 1])]

LEMMA DownExists ==
  ASSUME NEW m, NEW w, NEW n \in Nat
  PROVE  \E at : DownTo(m, w, at, n)
<1> DEFINE S == {q \in Nat : \E at : DownTo(m, w, at, q)}
<1>1. 0 \in S
  <2> DEFINE at == [i \in 0 .. 0 |-> w]
  <2>1. at = [i \in 0 .. 0 |-> IF i = 0 THEN w ELSE Down(m, at[i - 1])]
    OBVIOUS
  <2>2. QED BY <2>1 DEF DownTo
<1>2. ASSUME NEW q \in Nat, q \in S PROVE q + 1 \in S
  <2>1. PICK at : DownTo(m, w, at, q)
    BY <1>2
  <2> DEFINE b == [i \in 0 .. q + 1 |-> IF i <= q THEN at[i] ELSE Down(m, at[q])]
  <2>2. b = [i \in 0 .. q + 1 |-> IF i = 0 THEN w ELSE Down(m, b[i - 1])]
    <3>1. \A i \in 0 .. q : at[i] = IF i = 0 THEN w ELSE Down(m, at[i - 1])
      BY <2>1 DEF DownTo
    <3>2. \A i \in 0 .. q : b[i] = at[i]
      BY <1>2
    <3>3. b[q + 1] = Down(m, at[q])
      BY <1>2
    <3>4. ASSUME NEW i \in 0 .. q + 1
          PROVE  b[i] = IF i = 0 THEN w ELSE Down(m, b[i - 1])
      <4>1. CASE i = 0
        BY <1>2, <3>1, <3>2, <4>1
      <4>2. CASE i # 0 /\ i # q + 1
        <5>1. i \in 0 .. q /\ i - 1 \in 0 .. q
          BY <1>2, <4>2
        <5>2. QED BY <3>1, <3>2, <4>2, <5>1
      <4>3. CASE i = q + 1
        <5>1. i # 0 /\ i - 1 = q /\ q \in 0 .. q
          BY <1>2, <4>3
        <5>2. QED BY <3>2, <3>3, <4>3, <5>1
      <4>4. QED BY <4>1, <4>2, <4>3
    <3>5. b = [i \in 0 .. q + 1 |-> b[i]]
      OBVIOUS
    <3> HIDE DEF b
    <3>6. QED BY <3>4, <3>5
  <2> HIDE DEF b
  <2>3. QED BY <2>2 DEF DownTo
<1> HIDE DEF S
<1>3. n \in S
  BY <1>1, <1>2, Induct
<1>4. QED BY <1>3 DEF S

\* at leads from w down to x in n steps.
Descends(m, w, at, n, x) ==
  at[0] = w /\ at[n] = x /\ \A i \in 0 .. (n - 1) : at[i + 1] = Down(m, at[i])

LEMMA LeafDescends ==
  ASSUME NEW k, NEW w, NEW n \in Nat, n = Cardinality(LiveIn(k.wnd))
  PROVE  \E at : Descends(k.wnd, w, at, n, FirstLeaf(k, w))
<1> DEFINE m == k.wnd
           Is(at) == at = [i \in 0 .. Cardinality(Live(k)) |->
                             IF i = 0 THEN w
                             ELSE LET x == at[i - 1]
                                  IN IF k.wnd[x].child = Nothing THEN x ELSE k.wnd[x].child]
           at == CHOOSE z : Is(z)
<1>1. n = Cardinality(Live(k))
  BY DEF LiveIn, Live
<1>2. PICK b : DownTo(m, w, b, n)
  BY DownExists
<1>3. Is(b)
  BY <1>1, <1>2 DEF DownTo, Down
<1>4. Is(at)
  <2> HIDE DEF Is
  <2> QED BY <1>3
<1>5. FirstLeaf(k, w) = at[Cardinality(Live(k))]
  BY Zenon DEF FirstLeaf
<1>6. at = [i \in 0 .. n |-> IF i = 0 THEN w ELSE Down(m, at[i - 1])]
  <2> HIDE DEF at
  <2> QED BY <1>1, <1>4 DEF Down
<1>7. FirstLeaf(k, w) = at[n]
  BY <1>1, <1>5
<1> HIDE DEF at, m, Is
<1>8. \A i \in 0 .. n : at[i] = IF i = 0 THEN w ELSE Down(m, at[i - 1])
  BY <1>6
<1>9. at[0] = w
  BY <1>8
<1>10. ASSUME NEW i \in 0 .. (n - 1) PROVE at[i + 1] = Down(m, at[i])
  <2>1. i + 1 \in 0 .. n /\ i + 1 # 0 /\ (i + 1) - 1 = i
    OBVIOUS
  <2>2. QED BY <1>8, <2>1
<1>11. Descends(m, w, at, n, FirstLeaf(k, w))
  BY <1>7, <1>9, <1>10 DEF Descends
<1>12. QED BY <1>11 DEF m

\* B holds, with a window, everything below it.
Closed(m, B) == \A y \in LiveIn(m) : m[y].parent \in B => y \in B

LEMMA DescentStays ==
  ASSUME NEW m \in [Wnds -> WndT], NEW L, LinksIn(m, L), NEW w \in LiveIn(m),
         NEW B, Closed(m, B), w \in B, NEW n \in Nat, NEW at, NEW x, Descends(m, w, at, n, x)
  PROVE  \A i \in 0 .. n : at[i] \in LiveIn(m) /\ at[i] \in B
<1> DEFINE S == {q \in Nat : q <= n => at[q] \in LiveIn(m) /\ at[q] \in B}
<1>1. 0 \in S
  BY DEF Descends
<1>2. ASSUME NEW q \in Nat, q \in S PROVE q + 1 \in S
  <2>1. SUFFICES ASSUME q + 1 <= n PROVE at[q + 1] \in LiveIn(m) /\ at[q + 1] \in B
    OBVIOUS
  <2>2. q \in 0 .. (n - 1) /\ q <= n
    BY <2>1
  <2>3. at[q] \in LiveIn(m) /\ at[q] \in B /\ at[q + 1] = Down(m, at[q])
    BY <1>2, <2>2 DEF Descends
  <2> DEFINE y == at[q]  z == at[q + 1]
  <2>4. y \in LiveIn(m) /\ y \in B /\ z = IF m[y].child = Nothing THEN y ELSE m[y].child
    BY <2>3 DEF Down
  <2> HIDE DEF y, z
  <2>5. m[y].child # Nothing => m[y].child \in LiveIn(m) /\ m[m[y].child].parent = y
    BY <2>4 DEF LinksIn
  <2>6. z \in LiveIn(m) /\ z \in B
    BY <2>4, <2>5 DEF Closed
  <2>7. QED BY <2>6 DEF z
<1> HIDE DEF S
<1>3. Nat \subseteq S
  BY <1>1, <1>2, Induct
<1>4. QED BY <1>3 DEF S

LEMMA LeafOK ==
  ASSUME NEW k, k.wnd \in [Wnds -> WndT], NEW L, LinksIn(k.wnd, L),
         NEW top \in Nat, NEW rank, Ranked(k.wnd, rank, top), NEW w \in LiveIn(k.wnd),
         NEW B, Closed(k.wnd, B), w \in B, NEW x, x = FirstLeaf(k, w)
  PROVE  x \in LiveIn(k.wnd) /\ x \in B /\ k.wnd[x].child = Nothing
<1> DEFINE m == k.wnd
           n == Cardinality(LiveIn(m))
<1>1. n \in Nat /\ IsFiniteSet(LiveIn(m)) /\ LiveIn(m) \subseteq Wnds /\ Nothing \notin Wnds
  BY WindowsFinite, UserWindowsAssumption DEF LiveIn
<1>2. PICK at : Descends(m, w, at, n, x)
  BY <1>1, LeafDescends
<1>3. \A i \in 0 .. n : at[i] \in LiveIn(m) /\ at[i] \in B
  BY <1>1, <1>2, DescentStays
<1>4. at[n] = x /\ n \in 0 .. n
  BY <1>1, <1>2 DEF Descends
<1>5. m \in [Wnds -> WndT] /\ LinksIn(m, L) /\ Ranked(m, rank, top)
  OBVIOUS
<1>6. SUFFICES ASSUME m[x].child # Nothing PROVE FALSE
  BY <1>3, <1>4
<1> HIDE DEF m
\* None of the windows on the way is a leaf: the way would end there.
<1>7. ASSUME NEW i \in 0 .. n PROVE m[at[i]].child # Nothing
  <2> DEFINE S == {q \in Nat : q <= n => m[at[n - q]].child # Nothing}
  <2>1. 0 \in S
    BY <1>1, <1>4, <1>6
  <2>2. ASSUME NEW q \in Nat, q \in S PROVE q + 1 \in S
    <3>1. SUFFICES ASSUME q + 1 <= n PROVE m[at[n - (q + 1)]].child # Nothing
      OBVIOUS
    <3> DEFINE i1 == n - (q + 1)
    <3>2. i1 \in 0 .. (n - 1) /\ i1 + 1 = n - q /\ q <= n
      BY <1>1, <3>1
    <3>3. m[at[n - q]].child # Nothing
      BY <2>2, <3>2
    <3>4. m[at[i1 + 1]].child # Nothing
      BY <3>2, <3>3
    <3> HIDE DEF i1
    <3>5. at[i1 + 1] = Down(m, at[i1])
      BY <1>2, <3>2 DEF Descends
    <3>6. m[at[i1]].child # Nothing
      BY <3>4, <3>5 DEF Down
    <3>7. QED BY <3>6 DEF i1
  <2> HIDE DEF S
  <2>3. n - i \in S
    <3>1. n - i \in Nat
      BY <1>1
    <3>2. QED BY <2>1, <2>2, <3>1, Induct
  <2>4. n - i <= n /\ n - (n - i) = i
    BY <1>1
  <2>5. QED BY <2>3, <2>4 DEF S
<1>8. ASSUME NEW i \in 0 .. (n - 1) PROVE rank[at[i]] < rank[at[i + 1]]
  <2>1. i \in 0 .. n /\ i + 1 \in 0 .. n
    BY <1>1
  <2>2. at[i + 1] = m[at[i]].child
    BY <1>2, <1>7, <2>1 DEF Descends, Down
  <2> DEFINE y == at[i]  z == at[i + 1]
  <2>3. y \in LiveIn(m) /\ z \in LiveIn(m) /\ z = m[y].child /\ m[y].child # Nothing
    BY <1>3, <1>7, <2>1, <2>2
  <2> HIDE DEF y, z
  <2>4. m[z].parent = y /\ y # Nothing
    BY <1>1, <1>5, <2>3 DEF LinksIn
  <2>5. rank[y] < rank[z]
    BY <1>5, <2>3, <2>4 DEF Ranked
  <2>6. QED BY <2>5 DEF y, z
\* So there are more windows on the way than there are.
<1> DEFINE T(i) == {at[j] : j \in 0 .. i}
           S == {q \in Nat : q <= n =>
                   /\ IsFiniteSet(T(q)) /\ Cardinality(T(q)) = q + 1
                   /\ \A y \in T(q) : rank[y] <= rank[at[q]]}
<1>9. \A i \in 0 .. n : rank[at[i]] \in Nat
  BY <1>1, <1>3, <1>5 DEF Ranked
<1>10. 0 \in S
  <2>1. T(0) = {at[0]}
    OBVIOUS
  <2>2. 0 \in 0 .. n
    BY <1>1
  <2>3. rank[at[0]] <= rank[at[0]]
    BY <1>9, <2>2
  <2>4. IsFiniteSet({at[0]}) /\ Cardinality({at[0]}) = 1
    BY FS_Singleton
  <2> HIDE DEF T
  <2>5. IsFiniteSet(T(0)) /\ Cardinality(T(0)) = 0 + 1
    BY <2>1, <2>4
  <2>6. QED BY <2>1, <2>3, <2>5
<1>11. ASSUME NEW q \in Nat, q \in S PROVE q + 1 \in S
  <2>1. SUFFICES ASSUME q + 1 <= n
                 PROVE  /\ IsFiniteSet(T(q + 1)) /\ Cardinality(T(q + 1)) = (q + 1) + 1
                        /\ \A y \in T(q + 1) : rank[y] <= rank[at[q + 1]]
    OBVIOUS
  <2>2. q \in 0 .. (n - 1) /\ q <= n /\ q \in 0 .. n /\ q + 1 \in 0 .. n
    BY <1>1, <2>1
  <2>3. T(q + 1) = T(q) \cup {at[q + 1]}
    <3>1. 0 .. (q + 1) = (0 .. q) \cup {q + 1}
      OBVIOUS
    <3>2. QED BY <3>1
  <2>4. \A y \in T(q) : rank[y] \in Nat
    <3>1. ASSUME NEW j \in 0 .. q PROVE rank[at[j]] \in Nat
      <4>1. j \in 0 .. n
        BY <1>1, <2>2
      <4>2. QED BY <1>9, <4>1
    <3>2. QED BY <3>1
  <2>5. /\ IsFiniteSet(T(q)) /\ Cardinality(T(q)) = q + 1
        /\ \A y \in T(q) : rank[y] <= rank[at[q]]
    BY <1>11, <2>2
  <2> HIDE DEF T
  <2>6. rank[at[q]] < rank[at[q + 1]] /\ rank[at[q]] \in Nat /\ rank[at[q + 1]] \in Nat
    BY <1>8, <1>9, <2>2
  <2>7. \A y \in T(q) : rank[y] < rank[at[q + 1]]
    BY <2>4, <2>5, <2>6
  <2>8. at[q + 1] \notin T(q)
    BY <2>6, <2>7
  <2>9. IsFiniteSet(T(q + 1)) /\ Cardinality(T(q + 1)) = (q + 1) + 1
    BY <2>3, <2>5, <2>8, FS_AddElement
  <2>10. \A y \in T(q + 1) : rank[y] <= rank[at[q + 1]]
    BY <2>3, <2>4, <2>6, <2>7
  <2>11. QED BY <2>9, <2>10
<1>12. T(n) \subseteq LiveIn(m)
  BY <1>3
<1> HIDE DEF T
<1>13. Cardinality(T(n)) = n + 1
  <2> HIDE DEF S
  <2>1. n \in S
    BY <1>1, <1>10, <1>11, Induct
  <2>2. QED BY <1>1, <2>1 DEF S
<1>14. Cardinality(T(n)) <= n
  BY <1>1, <1>12, FS_Subset
<1> HIDE DEF n, S
<1>15. QED BY <1>1, <1>13, <1>14

---------------------------------------------------------------------------
(* user_window_destroy: a window and everything below it.                  *)

Below(m, w) ==
  {x \in LiveIn(m) : \A S \in SUBSET LiveIn(m) : w \in S /\ Closed(m, S) => x \in S}

LEMMA BelowIs ==
  ASSUME NEW m \in [Wnds -> WndT], NEW L, LinksIn(m, L),
         NEW top \in Nat, NEW rank, Ranked(m, rank, top),
         NEW w \in LiveIn(m), NEW B, B = Below(m, w)
  PROVE  /\ w \in B /\ B \subseteq LiveIn(m) /\ Closed(m, B)
         /\ \A S : w \in S /\ Closed(m, S) => B \subseteq S
         /\ \A x \in B \ {w} : m[x].parent \in B
         /\ \A x \in B : rank[w] <= rank[x]
<1>1. w \in B /\ B \subseteq LiveIn(m)
  BY DEF Below
<1>2. Closed(m, B)
  <2>1. SUFFICES ASSUME NEW y \in LiveIn(m), m[y].parent \in B,
                        NEW S \in SUBSET LiveIn(m), w \in S, Closed(m, S)
                 PROVE  y \in S
    BY DEF Closed, Below
  <2>2. m[y].parent \in S
    BY <2>1 DEF Below
  <2>3. QED BY <2>1, <2>2 DEF Closed
<1>3. ASSUME NEW S, w \in S, Closed(m, S) PROVE B \subseteq S
  <2>1. Closed(m, S \cap LiveIn(m)) /\ w \in S \cap LiveIn(m) /\ S \cap LiveIn(m) \in SUBSET LiveIn(m)
    BY <1>3 DEF Closed
  <2>2. B \subseteq S \cap LiveIn(m)
    BY <2>1 DEF Below
  <2>3. QED BY <2>2
<1>4. ASSUME NEW x \in B \ {w} PROVE m[x].parent \in B
  <2>1. SUFFICES ASSUME m[x].parent \notin B PROVE FALSE
    OBVIOUS
  <2>2. Closed(m, B \ {x}) /\ w \in B \ {x}
    BY <1>1, <1>2, <1>4, <2>1 DEF Closed
  <2>3. B \subseteq B \ {x}
    BY <1>3, <2>2
  <2>4. QED BY <1>4, <2>3
<1>5. \A x \in B : rank[w] <= rank[x]
  <2> DEFINE S == {x \in LiveIn(m) : rank[w] <= rank[x]}
  <2>1. LiveIn(m) \subseteq Wnds /\ Nothing \notin Wnds
    BY UserWindowsAssumption DEF LiveIn
  <2>2. \A x \in LiveIn(m) : rank[x] \in Nat
    BY <2>1 DEF Ranked
  <2>3. w \in S
    BY <2>2
  <2>4. ASSUME NEW y \in LiveIn(m), m[y].parent \in S PROVE y \in S
    <3> DEFINE p == m[y].parent
    <3>1. p \in LiveIn(m) /\ p # Nothing /\ rank[w] <= rank[p]
      BY <2>1, <2>4
    <3>2. rank[p] < rank[y]
      BY <3>1 DEF Ranked
    <3> HIDE DEF p
    <3>3. rank[w] <= rank[y]
      BY <2>2, <3>1, <3>2
    <3>4. QED BY <3>3
  <2>5. Closed(m, S)
    <3> HIDE DEF S
    <3> QED BY <2>4 DEF Closed
  <2>6. B \subseteq S
    <3> HIDE DEF S
    <3> QED BY <1>3, <2>3, <2>5
  <2>7. QED BY <2>6
<1>6. QED BY <1>1, <1>2, <1>3, <1>4, <1>5

\* Some of the windows in B are gone from k, w the last of them.
Partly(k, q, w, B, rank) ==
  LET m == k.wnd
      n == q.wnd
  IN /\ Remains(k, q, rank)
     /\ LiveIn(n) \subseteq LiveIn(m) /\ LiveIn(m) \ LiveIn(n) \subseteq B
     /\ \A x \in LiveIn(n) : n[x].parent = m[x].parent
     /\ w \in LiveIn(n) => n[w].next = m[w].next
     /\ \A x \in LiveIn(m) \ B :
          IF w \in LiveIn(n)
          THEN n[x].next = m[x].next /\ n[x].child = m[x].child
          ELSE /\ n[x].next = IF m[x].next = w THEN m[w].next ELSE m[x].next
               /\ n[x].child = IF m[x].child = w THEN m[w].next ELSE m[x].child

LEMMA RemainsTwice ==
  ASSUME NEW k, NEW q, NEW r, NEW rank, Remains(k, q, rank), Remains(q, r, rank)
  PROVE  Remains(k, r, rank)
BY SameClassesTwice DEF Remains

LEMMA LeafStep ==
  ASSUME NEW k, Sound(k), NEW rank, Tree(k, rank), NEW w \in LiveIn(k.wnd), w # k.desktop,
         NEW B, B = Below(k.wnd, w), NEW q, Partly(k, q, w, B, rank), w \in LiveIn(q.wnd),
         NEW r, r = DestroyNext(q, w)
  PROVE  /\ Partly(k, r, w, B, rank)
         /\ Cardinality(LiveIn(r.wnd)) = Cardinality(LiveIn(q.wnd)) - 1
<1> DEFINE m == k.wnd  n == q.wnd  o == r.wnd
           x == FirstLeaf(q, w)
<1>1. /\ m \in [Wnds -> WndT] /\ LinksIn(m, Roots(k)) /\ Ranked(m, rank, k.created) /\ k.created \in Nat
      /\ Nothing \notin Wnds /\ LiveIn(m) \subseteq Wnds /\ w \in LiveIn(m)
  BY UserWindowsAssumption DEF Sound, Shape, Tree, LiveIn
<1>2. /\ w \in B /\ B \subseteq LiveIn(m) /\ Closed(m, B)
      /\ (\A y \in B \ {w} : m[y].parent \in B) /\ (\A y \in B : rank[w] <= rank[y])
  BY <1>1, BelowIs
<1>3. /\ Remains(k, q, rank)
      /\ LiveIn(n) \subseteq LiveIn(m) /\ LiveIn(m) \ LiveIn(n) \subseteq B
      /\ \A y \in LiveIn(n) : n[y].parent = m[y].parent
      /\ n[w].next = m[w].next
      /\ \A y \in LiveIn(m) \ B : n[y].next = m[y].next /\ n[y].child = m[y].child
  BY DEF Partly
<1>4. Sound(q) /\ Tree(q, rank) /\ q.desktop = k.desktop
  BY <1>3 DEF Remains
<1>5. /\ n \in [Wnds -> WndT] /\ LinksIn(n, Roots(q)) /\ Ranked(n, rank, q.created) /\ q.created \in Nat
      /\ w \in LiveIn(n)
  BY <1>4 DEF Sound, Shape, Tree
<1>6. Closed(n, B)
  BY <1>2, <1>3 DEF Closed
<1>7. x \in LiveIn(n) /\ x \in B /\ n[x].child = Nothing
  BY <1>2, <1>5, <1>6, LeafOK
<1>8. r = DestroyLeaf(q, x)
  BY Zenon DEF DestroyNext, LiveIn
<1>9. x # q.desktop
  <2>1. SUFFICES ASSUME x = k.desktop, x # w PROVE FALSE
    BY <1>4
  <2>2. m[x].parent \in B
    BY <1>2, <1>7, <2>1
  <2>3. x \in Roots(k)
    BY <1>1, <1>3, <1>7, <2>1 DEF Roots
  <2>4. m[x].parent = Nothing
    BY <1>1, <1>3, <1>7, <2>3 DEF LinksIn
  <2>5. QED BY <1>1, <1>2, <2>2, <2>4
<1>10. Remains(q, r, rank) /\ LiveIn(o) = LiveIn(n) \ {x} /\ Without(n, o, x)
  BY <1>4, <1>7, <1>8, <1>9, DestroyLeafOK
<1> HIDE DEF m, n, o, x
<1>11. Remains(k, r, rank)
  BY <1>3, <1>10, RemainsTwice
<1>12. Cardinality(LiveIn(o)) = Cardinality(LiveIn(n)) - 1
  BY <1>7, <1>10, WindowsFinite, FS_RemoveElement
<1>13. LiveIn(o) \subseteq LiveIn(m) /\ LiveIn(m) \ LiveIn(o) \subseteq B
  BY <1>3, <1>7, <1>10
<1>14. \A y \in LiveIn(o) : o[y].parent = m[y].parent
  BY <1>3, <1>10 DEF Without
<1>15. ASSUME NEW y \in LiveIn(m) \ B
       PROVE  /\ y \in LiveIn(n) \ {x} /\ n[y].next = m[y].next /\ n[y].child = m[y].child
              /\ o[y].next = IF n[y].next = x THEN n[x].next ELSE n[y].next
              /\ o[y].child = IF n[y].child = x THEN n[x].next ELSE n[y].child
  BY <1>3, <1>7, <1>10 DEF Without
<1>16. CASE x = w
  <2>1. w \notin LiveIn(o)
    BY <1>10, <1>16
  <2>2. ASSUME NEW y \in LiveIn(m) \ B
        PROVE  /\ o[y].next = IF m[y].next = w THEN m[w].next ELSE m[y].next
               /\ o[y].child = IF m[y].child = w THEN m[w].next ELSE m[y].child
    BY <1>3, <1>15, <1>16
  <2>3. Partly(k, r, w, B, rank)
    BY <1>11, <1>13, <1>14, <2>1, <2>2 DEF Partly, m, o
  <2>4. QED BY <1>12, <2>3 DEF n, o
<1>17. CASE x # w
  <2>1. m[x].parent \in B /\ x \in LiveIn(m) /\ w \in LiveIn(o)
    BY <1>2, <1>5, <1>7, <1>10, <1>17
  <2>2. ASSUME NEW y \in LiveIn(m), m[y].next = x PROVE y \in B
    <3>1. m[y].next # Nothing
      BY <1>1, <2>1, <2>2
    <3>2. m[x].parent = m[y].parent
      BY <1>1, <2>2, <3>1 DEF LinksIn
    <3>3. QED BY <1>2, <2>1, <3>2 DEF Closed
  <2>3. ASSUME NEW y \in LiveIn(m), m[y].child = x PROVE y \in B
    <3>1. m[y].child # Nothing
      BY <1>1, <2>1, <2>3
    <3>2. m[x].parent = y
      BY <1>1, <2>3, <3>1 DEF LinksIn
    <3>3. QED BY <2>1, <3>2
  <2>4. m[w].next # x
    <3>1. SUFFICES ASSUME m[w].next = x PROVE FALSE
      OBVIOUS
    <3>2. m[w].next # Nothing
      BY <1>1, <2>1, <3>1
    <3>3. m[x].parent = m[w].parent
      BY <1>1, <3>1, <3>2 DEF LinksIn
    <3> DEFINE p == m[w].parent
    <3>4. p \in B /\ p \in LiveIn(m) /\ p # Nothing
      BY <1>1, <1>2, <2>1, <3>3
    <3>5. rank[p] < rank[w] /\ rank[p] \in Nat /\ rank[w] \in Nat
      BY <1>1, <3>4 DEF Ranked
    <3> HIDE DEF p
    <3>6. rank[w] <= rank[p]
      BY <1>2, <3>4
    <3>7. QED BY <3>5, <3>6
  <2>5. o[w].next = m[w].next
    <3>1. o[w].next = IF n[w].next = x THEN n[x].next ELSE n[w].next
      BY <1>5, <1>10, <1>17 DEF Without
    <3>2. QED BY <1>3, <2>4, <3>1
  <2>6. ASSUME NEW y \in LiveIn(m) \ B
        PROVE  o[y].next = m[y].next /\ o[y].child = m[y].child
    BY <1>15, <2>2, <2>3
  <2>7. Partly(k, r, w, B, rank)
    BY <1>11, <1>13, <1>14, <2>1, <2>5, <2>6 DEF Partly, m, o
  <2>8. QED BY <1>12, <2>7 DEF n, o
<1>18. QED BY <1>16, <1>17

\* The globals after each window.
GoesTo(k, w, at, n) == at = [i \in 0 .. n |-> IF i = 0 THEN k ELSE DestroyNext(at[i - 1], w)]

LEMMA GoesExists ==
  ASSUME NEW k, NEW w, NEW n \in Nat
  PROVE  \E at : GoesTo(k, w, at, n)
<1> DEFINE S == {q \in Nat : \E at : GoesTo(k, w, at, q)}
<1>1. 0 \in S
  <2> DEFINE at == [i \in 0 .. 0 |-> k]
  <2>1. at = [i \in 0 .. 0 |-> IF i = 0 THEN k ELSE DestroyNext(at[i - 1], w)]
    OBVIOUS
  <2>2. QED BY <2>1 DEF GoesTo
<1>2. ASSUME NEW q \in Nat, q \in S PROVE q + 1 \in S
  <2>1. PICK at : GoesTo(k, w, at, q)
    BY <1>2
  <2> DEFINE b == [i \in 0 .. q + 1 |-> IF i <= q THEN at[i] ELSE DestroyNext(at[q], w)]
  <2>2. b = [i \in 0 .. q + 1 |-> IF i = 0 THEN k ELSE DestroyNext(b[i - 1], w)]
    <3>1. \A i \in 0 .. q : at[i] = IF i = 0 THEN k ELSE DestroyNext(at[i - 1], w)
      BY <2>1 DEF GoesTo
    <3>2. \A i \in 0 .. q : b[i] = at[i]
      BY <1>2
    <3>3. b[q + 1] = DestroyNext(at[q], w)
      BY <1>2
    <3>4. ASSUME NEW i \in 0 .. q + 1
          PROVE  b[i] = IF i = 0 THEN k ELSE DestroyNext(b[i - 1], w)
      <4>1. CASE i = 0
        BY <1>2, <3>1, <3>2, <4>1
      <4>2. CASE i # 0 /\ i # q + 1
        <5>1. i \in 0 .. q /\ i - 1 \in 0 .. q
          BY <1>2, <4>2
        <5>2. QED BY <3>1, <3>2, <4>2, <5>1
      <4>3. CASE i = q + 1
        <5>1. i # 0 /\ i - 1 = q /\ q \in 0 .. q
          BY <1>2, <4>3
        <5>2. QED BY <3>2, <3>3, <4>3, <5>1
      <4>4. QED BY <4>1, <4>2, <4>3
    <3>5. b = [i \in 0 .. q + 1 |-> b[i]]
      OBVIOUS
    <3> HIDE DEF b
    <3>6. QED BY <3>4, <3>5
  <2> HIDE DEF b
  <2>3. QED BY <2>2 DEF GoesTo
<1> HIDE DEF S
<1>3. n \in S
  BY <1>1, <1>2, Induct
<1>4. QED BY <1>3 DEF S

\* at leads from k to r in n steps.
Goes(k, w, at, n, r) ==
  at[0] = k /\ at[n] = r /\ \A i \in 0 .. (n - 1) : at[i + 1] = DestroyNext(at[i], w)

LEMMA DestroyGoes ==
  ASSUME NEW k, NEW w, NEW n \in Nat, n = Cardinality(LiveIn(k.wnd))
  PROVE  \E at : Goes(k, w, at, n, Destroy(k, w))
<1> DEFINE Is(at) == at = [i \in 0 .. Cardinality(Live(k)) |->
                             IF i = 0 THEN k ELSE DestroyNext(at[i - 1], w)]
           at == CHOOSE z : Is(z)
<1>1. n = Cardinality(Live(k))
  BY DEF LiveIn, Live
<1>2. PICK b : GoesTo(k, w, b, n)
  BY GoesExists
<1>3. Is(b)
  BY <1>1, <1>2 DEF GoesTo
<1>4. Is(at)
  <2> HIDE DEF Is
  <2> QED BY <1>3
<1>5. Destroy(k, w) = at[Cardinality(Live(k))]
  BY Zenon DEF Destroy
<1>6. at = [i \in 0 .. n |-> IF i = 0 THEN k ELSE DestroyNext(at[i - 1], w)]
  <2> HIDE DEF at
  <2> QED BY <1>1, <1>4
<1>7. Destroy(k, w) = at[n]
  BY <1>1, <1>5
<1> HIDE DEF at, Is
<1>8. \A i \in 0 .. n : at[i] = IF i = 0 THEN k ELSE DestroyNext(at[i - 1], w)
  BY <1>6
<1>9. at[0] = k
  BY <1>8
<1>10. ASSUME NEW i \in 0 .. (n - 1) PROVE at[i + 1] = DestroyNext(at[i], w)
  <2>1. i + 1 \in 0 .. n /\ i + 1 # 0 /\ (i + 1) - 1 = i
    OBVIOUS
  <2>2. QED BY <1>8, <2>1
<1>11. QED BY <1>7, <1>9, <1>10 DEF Goes

LEMMA DestroyRuns ==
  ASSUME NEW k, Sound(k), NEW rank, Tree(k, rank), NEW w \in LiveIn(k.wnd), w # k.desktop,
         NEW B, B = Below(k.wnd, w), NEW r, r = Destroy(k, w)
  PROVE  Partly(k, r, w, B, rank) /\ w \notin LiveIn(r.wnd)
<1> DEFINE n == Cardinality(LiveIn(k.wnd))
           Left(q) == Cardinality(LiveIn(q.wnd))
<1>1. n \in Nat
  BY WindowsFinite
<1>2. PICK at : Goes(k, w, at, n, r)
  BY <1>1, DestroyGoes
<1> DEFINE S == {i \in Nat : i <= n =>
                   /\ Partly(k, at[i], w, B, rank)
                   /\ w \in LiveIn(at[i].wnd) => Left(at[i]) + i <= n}
<1>3. 0 \in S
  <2>1. at[0] = k
    BY <1>2 DEF Goes
  <2>2. SameClasses(k, k)
    BY ClassesSame
  <2>3. Partly(k, k, w, B, rank)
    BY <2>2 DEF Partly, Remains
  <2>4. Left(k) + 0 <= n
    BY <1>1
  <2> HIDE DEF Left, n
  <2>5. QED BY <2>1, <2>3, <2>4
<1>4. ASSUME NEW i \in Nat, i \in S PROVE i + 1 \in S
  <2>1. SUFFICES ASSUME i + 1 <= n
                 PROVE  /\ Partly(k, at[i + 1], w, B, rank)
                        /\ w \in LiveIn(at[i + 1].wnd) => Left(at[i + 1]) + (i + 1) <= n
    OBVIOUS
  <2>2. i <= n /\ i \in 0 .. (n - 1)
    BY <1>1, <2>1
  <2>3. Partly(k, at[i], w, B, rank) /\ (w \in LiveIn(at[i].wnd) => Left(at[i]) + i <= n)
    BY <1>4, <2>2
  <2>4. at[i + 1] = DestroyNext(at[i], w)
    BY <1>2, <2>2 DEF Goes
  <2> DEFINE q == at[i]  o == at[i + 1]
  <2>5. CASE w \in LiveIn(q.wnd)
    <3>1. Partly(k, o, w, B, rank) /\ Left(o) = Left(q) - 1
      BY <2>3, <2>4, <2>5, LeafStep
    <3>2. Left(q) \in Nat /\ Left(q) + i <= n
      BY <2>3, <2>5, WindowsFinite
    <3> HIDE DEF o, q, Left, n
    <3>3. Left(o) + (i + 1) <= n
      BY <1>1, <3>1, <3>2
    <3>4. QED BY <3>1, <3>3 DEF o
  <2>6. CASE w \notin LiveIn(q.wnd)
    <3>1. w \in Wnds
      BY DEF LiveIn
    <3>2. ~ q.wnd[w].alive
      BY Zenon, <2>6, <3>1 DEF LiveIn
    <3>3. o = q
      BY Zenon, <2>4, <3>2 DEF DestroyNext
    <3>4. QED BY <2>3, <2>6, <3>3
  <2>7. QED BY <2>5, <2>6
<1>5. n \in S
  <2> HIDE DEF S, n
  <2> QED BY <1>1, <1>3, <1>4, Induct
<1>6. at[n] = r
  BY <1>2 DEF Goes
<1>7. Partly(k, r, w, B, rank) /\ (w \in LiveIn(r.wnd) => Left(r) + n <= n)
  <2>1. n <= n
    BY <1>1
  <2> HIDE DEF n, Left
  <2>2. QED BY <1>5, <1>6, <2>1
<1>8. w \notin LiveIn(r.wnd)
  <2>1. SUFFICES ASSUME w \in LiveIn(r.wnd) PROVE FALSE
    OBVIOUS
  <2>2. Left(r) \in Nat /\ IsFiniteSet(LiveIn(r.wnd)) /\ Left(r) + n <= n
    BY <1>7, <2>1, WindowsFinite
  <2>3. Left(r) = 0
    <3> HIDE DEF n, Left
    <3> QED BY <1>1, <2>2
  <2>4. LiveIn(r.wnd) = {}
    BY <2>2, <2>3, FS_EmptySet
  <2>5. QED BY <2>1, <2>4
<1>9. QED BY <1>7, <1>8

\* w is gone with everything below it, and the others closed up.
Taken(m, n, w) ==
  LET dead == LiveIn(m) \ LiveIn(n)
      past(x) == IF x \in dead THEN m[x].next ELSE x
  IN /\ w \in dead /\ LiveIn(n) \subseteq LiveIn(m)
     /\ \A x \in LiveIn(m) \ {w} : x \in dead <=> m[x].parent \in dead
     /\ \A x \in LiveIn(n) : /\ n[x].parent = m[x].parent
                             /\ n[x].next = past(m[x].next)
                             /\ n[x].child = past(m[x].child)

LEMMA DestroyOK ==
  ASSUME NEW k, Sound(k), NEW rank, Tree(k, rank), NEW w \in LiveIn(k.wnd), w # k.desktop,
         NEW r, r = Destroy(k, w)
  PROVE  /\ Remains(k, r, rank) /\ Taken(k.wnd, r.wnd, w)
         /\ \A x \in LiveIn(k.wnd) \ LiveIn(r.wnd) : rank[w] <= rank[x]
<1> DEFINE m == k.wnd  n == r.wnd  B == Below(m, w)  D == LiveIn(m) \ LiveIn(n)
<1>1. Partly(k, r, w, B, rank) /\ w \notin LiveIn(n)
  BY DestroyRuns
<1>2. /\ m \in [Wnds -> WndT] /\ LinksIn(m, Roots(k)) /\ Ranked(m, rank, k.created) /\ k.created \in Nat
      /\ Nothing \notin Wnds /\ LiveIn(m) \subseteq Wnds /\ w \in LiveIn(m)
  BY UserWindowsAssumption DEF Sound, Shape, Tree, LiveIn
<1>3. /\ w \in B /\ B \subseteq LiveIn(m) /\ Closed(m, B)
      /\ (\A S : w \in S /\ Closed(m, S) => B \subseteq S)
      /\ (\A y \in B \ {w} : m[y].parent \in B) /\ (\A y \in B : rank[w] <= rank[y])
  <2> HIDE DEF m
  <2>1. B = Below(m, w)
    OBVIOUS
  <2> HIDE DEF B
  <2>2. QED BY <1>2, <2>1, BelowIs
<1>4. /\ Remains(k, r, rank) /\ LiveIn(n) \subseteq LiveIn(m) /\ D \subseteq B
      /\ \A y \in LiveIn(n) : n[y].parent = m[y].parent
      /\ \A y \in LiveIn(m) \ B :
           /\ n[y].next = IF m[y].next = w THEN m[w].next ELSE m[y].next
           /\ n[y].child = IF m[y].child = w THEN m[w].next ELSE m[y].child
  BY <1>1 DEF Partly
<1>5. LinksIn(n, Roots(r))
  BY <1>4 DEF Remains, Tree
<1> HIDE DEF m, n, B
<1>6. Closed(m, D)
  <2>1. SUFFICES ASSUME NEW y \in LiveIn(n), m[y].parent \in D PROVE FALSE
    BY DEF Closed
  <2>2. m[y].parent = n[y].parent /\ m[y].parent # Nothing
    BY <1>2, <1>4, <2>1
  <2>3. n[y].parent \in LiveIn(n)
    BY <1>5, <2>2 DEF LinksIn
  <2>4. QED BY <2>1, <2>2, <2>3
<1>7. w \in D
  BY <1>1, <1>2
<1>8. D = B
  BY <1>3, <1>4, <1>6, <1>7
<1>9. \A x \in LiveIn(m) \ {w} : x \in D <=> m[x].parent \in D
  BY <1>3, <1>6, <1>8 DEF Closed
<1>10. ASSUME NEW x \in LiveIn(n)
       PROVE  /\ x \in LiveIn(m) \ B
              /\ m[x].next \in D => m[x].next = w
              /\ m[x].child \in D => m[x].child = w
  <2>1. x \in LiveIn(m) \ B
    BY <1>4, <1>8
  <2>2. ASSUME m[x].next \in D, m[x].next # w PROVE FALSE
    <3> DEFINE y == m[x].next
    <3>1. y \in B /\ y # w /\ y # Nothing /\ y \in LiveIn(m)
      BY <1>2, <1>3, <1>8, <2>2
    <3>2. m[y].parent = m[x].parent
      BY <1>2, <2>1, <3>1 DEF LinksIn
    <3> HIDE DEF y
    <3>3. m[x].parent \in B
      BY <1>3, <3>1, <3>2
    <3>4. QED BY <1>3, <2>1, <3>3 DEF Closed
  <2>3. ASSUME m[x].child \in D, m[x].child # w PROVE FALSE
    <3> DEFINE y == m[x].child
    <3>1. y \in B /\ y # w /\ y # Nothing /\ y \in LiveIn(m)
      BY <1>2, <1>3, <1>8, <2>3
    <3>2. m[y].parent = x
      BY <1>2, <2>1, <3>1 DEF LinksIn
    <3> HIDE DEF y
    <3>3. QED BY <1>3, <2>1, <3>1, <3>2
  <2>4. QED BY <2>1, <2>2, <2>3
<1>11. ASSUME NEW x \in LiveIn(n)
       PROVE  /\ n[x].parent = m[x].parent
              /\ n[x].next = IF m[x].next \in D THEN m[m[x].next].next ELSE m[x].next
              /\ n[x].child = IF m[x].child \in D THEN m[m[x].child].next ELSE m[x].child
  BY <1>4, <1>7, <1>10
<1>12. Taken(m, n, w)
  BY <1>4, <1>7, <1>9, <1>11 DEF Taken
<1>13. \A x \in D : rank[w] <= rank[x]
  BY <1>3, <1>8
<1>14. QED BY <1>4, <1>12, <1>13 DEF m, n
(***************************************************************************)
(* Registering a class.                                                    *)
(***************************************************************************)

\* Newest answers 0 for no index at all, or the greatest.
LEMMA NewestOK ==
  ASSUME NEW b \in Nat, NEW S, S \subseteq 1 .. b
  PROVE  /\ Newest(S) \in 0 .. b
         /\ S = {} <=> Newest(S) = 0
         /\ S # {} => Newest(S) \in S /\ \A y \in S : y <= Newest(S)
<1>1. CASE S = {}
  BY <1>1 DEF Newest
<1>2. CASE S # {}
  <2>1. S \subseteq 0 .. b /\ \A y \in S : y \in 1 .. b
    OBVIOUS
  <2>2. PICK x \in S : \A y \in S : y <= x
    BY <1>2, <2>1, GreatestIn
  <2>3. \A y \in S : x >= y
    BY <2>1, <2>2
  <2>4. Max(S) \in S /\ \A y \in S : Max(S) >= y
    BY <2>2, <2>3 DEF Max
  <2>5. Newest(S) = Max(S)
    BY <1>2 DEF Newest
  <2>6. Newest(S) \in S /\ \A y \in S : y <= Newest(S)
    BY <2>1, <2>4, <2>5
  <2>7. Newest(S) \in 1 .. b
    BY <2>1, <2>6
  <2>8. Newest(S) # 0 /\ Newest(S) \in 0 .. b
    BY <2>7
  <2> QED
    BY <1>2, <2>6, <2>8
<1> QED
  BY <1>1, <1>2

\* The table of user_class_add_atom after a name was looked up or entered.
LEMMA AtomForOK ==
  ASSUME NEW atoms \in Seq(Names), Len(atoms) <= MaxAtoms, IsInjective(atoms),
         NEW name \in Names, AtomFor(atoms, name) # 0
  PROVE  /\ AddAtom(atoms, name) \in Seq(Names) /\ Len(AddAtom(atoms, name)) <= MaxAtoms
         /\ IsInjective(AddAtom(atoms, name))
         /\ AtomFor(atoms, name) \in 1 .. Len(AddAtom(atoms, name))
         /\ AddAtom(atoms, name)[AtomFor(atoms, name)] = name
         /\ Len(AddAtom(atoms, name)) >= Len(atoms)
         /\ \A i \in 1 .. Len(atoms) : AddAtom(atoms, name)[i] = atoms[i]
<1>0. Len(atoms) \in Nat /\ MaxAtoms \in Nat /\ DOMAIN atoms = 1 .. Len(atoms)
  BY UserClassesAssumption
<1>1. CASE Contains(atoms, name)
  <2>1. AddAtom(atoms, name) = atoms
    BY <1>1 DEF AddAtom
  <2>2. PICK i \in DOMAIN atoms : atoms[i] = name
    BY <1>0, <1>1 DEF Contains
  <2>3. AtomFor(atoms, name) = CHOOSE j \in DOMAIN atoms : atoms[j] = name
    BY <1>1 DEF AtomFor
  <2>4. AtomFor(atoms, name) \in DOMAIN atoms /\ atoms[AtomFor(atoms, name)] = name
    BY <2>2, <2>3
  <2> QED
    BY <1>0, <2>1, <2>4
<1>2. CASE ~ Contains(atoms, name)
  <2>1. Len(atoms) < MaxAtoms /\ AtomFor(atoms, name) = Len(atoms) + 1
    BY <1>2 DEF AtomFor
  <2>6. Len(atoms) # MaxAtoms
    <3>1. \A a, b \in Nat : a < b => a # b
      OBVIOUS
    <3> QED
      BY <1>0, <2>1, <3>1, Zenon
  <2>2. AddAtom(atoms, name) = Append(atoms, name)
    BY <1>2, <2>6, Zenon DEF AddAtom
  <2> DEFINE at == Append(atoms, name)
  <2>3. /\ at \in Seq(Names) /\ Len(at) = Len(atoms) + 1 /\ at[Len(atoms) + 1] = name
        /\ \A i \in 1 .. Len(atoms) : at[i] = atoms[i]
    OBVIOUS
  <2>4. \A i \in 1 .. Len(atoms) : atoms[i] # name
    BY <1>2 DEF Contains
  <2> HIDE DEF at
  <2>5. IsInjective(at)
    <3>1. SUFFICES ASSUME NEW i \in 1 .. (Len(atoms) + 1), NEW j \in 1 .. (Len(atoms) + 1),
                          at[i] = at[j]
                   PROVE  i = j
      BY <2>3 DEF IsInjective
    <3>2. CASE i = Len(atoms) + 1 \/ j = Len(atoms) + 1
      BY <1>0, <2>3, <2>4, <3>1, <3>2
    <3>3. CASE i \in 1 .. Len(atoms) /\ j \in 1 .. Len(atoms)
      BY <1>0, <2>3, <3>1, <3>3 DEF IsInjective
    <3> QED
      BY <1>0, <3>2, <3>3
  <2> QED
    BY <1>0, <2>1, <2>2, <2>3, <2>5 DEF at
<1> QED
  BY <1>1, <1>2

\* What user_class_find takes class i for.
Answers(k, i, name, inst) ==
  /\ k.classes[i].name = name
  /\ \/ k.classes[i].global \/ k.classes[i].system
     \/ k.classes[i].inst = inst \/ inst = NoInstance

\* The newest class that answers to a name.
LEMMA FindOK ==
  ASSUME NEW k, k.classes \in Seq(ClsT), NEW name, NEW inst
  PROVE  LET f == Find(k, name, inst)
         IN  /\ f \in 0 .. Len(k.classes)
             /\ f = 0 <=> \A i \in 1 .. Len(k.classes) : ~ Answers(k, i, name, inst)
             /\ f # 0 => Answers(k, f, name, inst)
             /\ \A i \in 1 .. Len(k.classes) : Answers(k, i, name, inst) => i <= f
<1> DEFINE S == {i \in 1 .. Len(k.classes) : Answers(k, i, name, inst)}
<1>1. DOMAIN k.classes = 1 .. Len(k.classes) /\ Len(k.classes) \in Nat
  OBVIOUS
<1>2. Find(k, name, inst) = Newest(S)
  BY <1>1, Zenon DEF Find, Answers
<1>3. \A i \in 1 .. Len(k.classes) : i \in S <=> Answers(k, i, name, inst)
  BY Zenon
<1>4. S \subseteq 1 .. Len(k.classes)
  BY Zenon
<1> HIDE DEF S
<1>5. /\ Newest(S) \in 0 .. Len(k.classes)
      /\ S = {} <=> Newest(S) = 0
      /\ S # {} => Newest(S) \in S /\ \A y \in S : y <= Newest(S)
  BY <1>1, <1>4, NewestOK
<1>6. Newest(S) = 0 <=> \A i \in 1 .. Len(k.classes) : ~ Answers(k, i, name, inst)
  BY <1>3, <1>4, <1>5, Zenon
<1>7. Newest(S) # 0 => Answers(k, Newest(S), name, inst)
  BY <1>3, <1>4, <1>5, Zenon
<1>8. \A i \in 1 .. Len(k.classes) : Answers(k, i, name, inst) => i <= Newest(S)
  BY <1>3, <1>4, <1>5, Zenon
<1> QED
  BY <1>2, <1>5, <1>6, <1>7, <1>8, Zenon

\* The newest class with an atom.
LEMMA ByAtomOK ==
  ASSUME NEW k, k.classes \in Seq(ClsT), NEW a
  PROVE  /\ FindByAtom(k, a) \in 0 .. Len(k.classes)
         /\ FindByAtom(k, a) = 0 => \A i \in 1 .. Len(k.classes) : k.classes[i].atom # a
<1> DEFINE S == {i \in 1 .. Len(k.classes) : k.classes[i].atom = a}
<1>1. DOMAIN k.classes = 1 .. Len(k.classes) /\ Len(k.classes) \in Nat
  OBVIOUS
<1>2. FindByAtom(k, a) = Newest(S)
  BY <1>1, Zenon DEF FindByAtom
<1>3. S \subseteq 1 .. Len(k.classes) /\ (S = {} => \A i \in 1 .. Len(k.classes) : k.classes[i].atom # a)
  BY Zenon
<1> HIDE DEF S
<1>4. Newest(S) \in 0 .. Len(k.classes) /\ (S = {} <=> Newest(S) = 0)
  BY <1>1, <1>3, NewestOK
<1> QED
  BY <1>2, <1>3, <1>4, Zenon

\* NtUserCreateWindowEx finds a class of the list, or none.
LEMMA AskedIn ==
  ASSUME NEW k, k.classes \in Seq(ClsT), NEW c \in ClassesAsked(k)
  PROVE  c \in 0 .. Len(k.classes)
<1>1. \A a : FindByAtom(k, a) \in 0 .. Len(k.classes)
  BY ByAtomOK
<1>2. \A name, inst : Find(k, name, inst) \in 0 .. Len(k.classes)
  BY FindOK
<1> QED
  BY <1>1, <1>2 DEF ClassesAsked

\* A class as the two ways to register one fill it in.
Fits(k, c) ==
  /\ c \in [name : NameT, inst : Instances, global : BOOLEAN, system : {FALSE},
            proc : BOOLEAN, extra : BOOLEAN, atom : Atoms \cup {0}, refs : {0}, va : {0}]
  /\ c.atom = 0 => c.name \in Names
  /\ c.atom # 0 => c.name = Synthetic(c.atom) /\ FindByAtom(k, c.atom) = 0

LEMMA NewClassFits ==
  ASSUME NEW k, NEW wc \in WndClasses, NEW name, NEW a,
         (a = 0 /\ name \in Names)
           \/ (a \in Atoms /\ name = Synthetic(a) /\ FindByAtom(k, a) = 0)
  PROVE  Fits(k, NewClass(name, wc, a))
<1>1. 0 \notin Atoms
  BY UserClassesAssumption DEF Atoms
<1>2. name \in NameT
  BY DEF NameT
<1>3. wc \in [inst : Instances, global : BOOLEAN, proc : BOOLEAN, extra : BOOLEAN]
  BY UserWindowsAssumption
<1> QED
  BY <1>1, <1>2, <1>3 DEF Fits, NewClass

\* r is k with the class n registered; A is the table of atoms.
Registered(k, r, n, A) ==
  r = Globals(k.table, k.wnd, Append(k.classes, n), A, HeapPut(k.heap, GuestClass(n)),
              k.entry, k.desktop, k.cache, k.created)

LEMMA RegisterFields ==
  ASSUME NEW k, Shape(k), NEW c, NEW r, r = Register(k, c)
  PROVE  Registered(k, r, [c EXCEPT !.atom = OwnAtom(k, c), !.va = HeapAlloc(k.heap)],
                    IF c.atom = 0 THEN AddAtom(k.atoms, c.name) ELSE k.atoms)
<1> DEFINE n == [c EXCEPT !.atom = OwnAtom(k, c), !.va = HeapAlloc(k.heap)]
           A == IF c.atom = 0 THEN AddAtom(k.atoms, c.name) ELSE k.atoms
           H == HeapPut(k.heap, GuestClass(n))
           C == Append(k.classes, n)
<1>1. r = [k EXCEPT !.classes = C, !.atoms = A, !.heap = H]
  BY Zenon DEF Register
<1> HIDE DEF n, A, H, C
<1> DEFINE t == k.table  m == k.wnd  e == k.entry  d == k.desktop  ca == k.cache  cr == k.created
           cs == k.classes  at == k.atoms  he == k.heap
<1>2. k = [table |-> t, wnd |-> m, classes |-> cs, atoms |-> at, heap |-> he, entry |-> e,
           desktop |-> d, cache |-> ca, created |-> cr]
  BY DEF Shape, Globals
<1> HIDE DEF t, m, e, d, ca, cr, cs, at, he
<1>3. r = [table |-> t, wnd |-> m, classes |-> C, atoms |-> A, heap |-> H, entry |-> e,
           desktop |-> d, cache |-> ca, created |-> cr]
  BY <1>1, <1>2
<1> QED
  BY <1>3 DEF Registered, Globals, n, A, H, C, t, m, e, d, ca, cr

\* A class that may be registered: its fields, and its place in the atoms A.
Entered(k, n, A) ==
  /\ n \in ClsT /\ n.refs = 0 /\ n.va = HeapAlloc(k.heap)
  /\ A \in Seq(Names) /\ Len(A) <= MaxAtoms /\ IsInjective(A)
  /\ Len(A) >= Len(k.atoms) /\ \A i \in 1 .. Len(k.atoms) : A[i] = k.atoms[i]
  /\ \/ n.atom \in 1 .. Len(A) /\ A[n.atom] = n.name
     \/ /\ n.name = Synthetic(n.atom)
        /\ \A i \in 1 .. Len(k.classes) : k.classes[i].atom # n.atom
  /\ \A i \in 1 .. Len(k.classes) :
       k.classes[i].name = n.name => ~ k.classes[i].global /\ k.classes[i].inst # n.inst

LEMMA EnteredOK ==
  ASSUME NEW k, Shape(k), ClassesOK(k), NEW c, Fits(k, c), MayRegister(k, c)
  PROVE  /\ Entered(k, [c EXCEPT !.atom = OwnAtom(k, c), !.va = HeapAlloc(k.heap)],
                    IF c.atom = 0 THEN AddAtom(k.atoms, c.name) ELSE k.atoms)
         /\ OwnAtom(k, c) \in Atoms
<1> DEFINE a == OwnAtom(k, c)
           va == HeapAlloc(k.heap)
           A == IF c.atom = 0 THEN AddAtom(k.atoms, c.name) ELSE k.atoms
           n == [c EXCEPT !.atom = a, !.va = va]
<1>0. k.classes \in Seq(ClsT) /\ k.atoms \in Seq(Names) /\ k.heap \in Seq(CellT)
  BY DEF Shape
<1>1. Len(k.atoms) <= MaxAtoms /\ IsInjective(k.atoms) /\ a # 0
  BY DEF ClassesOK, ClassesSound, MayRegister
<1>2. c.atom = 0 => AtomFor(k.atoms, c.name) = a /\ A = AddAtom(k.atoms, c.name)
  BY DEF OwnAtom
<1>3. c.atom # 0 => a = c.atom /\ A = k.atoms
  BY DEF OwnAtom
<1>4. va \in Nat
  BY <1>0 DEF HeapAlloc
<1> HIDE DEF a, A, va
<1>5. /\ A \in Seq(Names) /\ Len(A) <= MaxAtoms /\ IsInjective(A)
      /\ Len(A) >= Len(k.atoms) /\ \A i \in 1 .. Len(k.atoms) : A[i] = k.atoms[i]
      /\ c.atom = 0 => a \in 1 .. Len(A) /\ A[a] = c.name
  <2>1. CASE c.atom = 0
    <3>1. c.name \in Names
      BY <2>1 DEF Fits
    <3> QED
      BY <1>0, <1>1, <1>2, <2>1, <3>1, AtomForOK
  <2>2. CASE c.atom # 0
    BY <1>0, <1>1, <1>3, <2>2
  <2> QED
    BY <2>1, <2>2
<1>6. a \in Atoms
  <2>1. CASE c.atom = 0
    <3>1. a \in 1 .. Len(A) /\ Len(A) <= MaxAtoms /\ Len(A) \in Nat
      BY <1>5, <2>1
    <3> QED
      BY <3>1, UserClassesAssumption DEF Atoms
  <2>2. CASE c.atom # 0
    BY <1>3, <2>2 DEF Fits
  <2> QED
    BY <2>1, <2>2
<1>7. /\ n \in ClsT /\ n.refs = 0 /\ n.va = va /\ n.atom = a
      /\ n.name = c.name /\ n.inst = c.inst
  <2> DEFINE nm == c.name  i == c.inst  g == c.global  s == c.system  p == c.proc  x == c.extra
             f == c.refs  oa == c.atom  ov == c.va
  <2>1. /\ nm \in NameT /\ i \in Instances /\ g \in BOOLEAN /\ s \in {FALSE}
        /\ p \in BOOLEAN /\ x \in BOOLEAN /\ f = 0
    BY Zenon DEF Fits
  <2>2. c = [name |-> nm, inst |-> i, global |-> g, system |-> s, proc |-> p, extra |-> x,
             atom |-> oa, refs |-> f, va |-> ov]
    BY DEF Fits
  <2>3. n = [c EXCEPT !.atom = a, !.va = va]
    OBVIOUS
  <2>7. nm = c.name /\ i = c.inst
    OBVIOUS
  <2> HIDE DEF nm, i, g, s, p, x, f, oa, ov, n
  <2>4. n = [name |-> nm, inst |-> i, global |-> g, system |-> s, proc |-> p, extra |-> x,
             atom |-> a, refs |-> f, va |-> va]
    BY <2>2, <2>3
  <2>5. s \in BOOLEAN
    BY <2>1, Zenon
  <2>6. n \in ClsT
    BY <1>4, <1>6, <2>1, <2>4, <2>5 DEF ClsT
  <2> QED
    BY <2>1, <2>4, <2>6, <2>7
<1> HIDE DEF n
<1>8. \/ n.atom \in 1 .. Len(A) /\ A[n.atom] = n.name
      \/ /\ n.name = Synthetic(n.atom)
         /\ \A i \in 1 .. Len(k.classes) : k.classes[i].atom # n.atom
  <2>1. CASE c.atom = 0
    BY <1>5, <1>7, <2>1
  <2>2. CASE c.atom # 0
    <3>1. c.name = Synthetic(a) /\ FindByAtom(k, a) = 0
      BY <1>3, <2>2 DEF Fits
    <3> QED
      BY <1>0, <1>7, <3>1, ByAtomOK
  <2> QED
    BY <2>1, <2>2
<1>9. ASSUME NEW i \in 1 .. Len(k.classes), k.classes[i].name = n.name
      PROVE  ~ k.classes[i].global /\ k.classes[i].inst # n.inst
  <2>1. Find(k, c.name, c.inst) = 0
    BY DEF MayRegister
  <2>2. ~ Answers(k, i, c.name, c.inst)
    BY <1>0, <2>1, FindOK
  <2> QED
    BY <1>7, <1>9, <2>2 DEF Answers
<1>10. Entered(k, n, A)
  BY <1>5, <1>7, <1>8, <1>9 DEF Entered, va
<1> QED
  BY <1>6, <1>10 DEF n, A, a, va

\* The list with the new class at its end.
Extended(k, r, n) ==
  /\ Len(r.classes) = Len(k.classes) + 1 /\ r.classes[Len(k.classes) + 1] = n
  /\ \A i \in 1 .. Len(k.classes) : r.classes[i] = k.classes[i]

LEMMA RegisteredShape ==
  ASSUME NEW k, Sound(k), NEW n, NEW A, Entered(k, n, A), NEW r, Registered(k, r, n, A)
  PROVE  /\ Shape(r) /\ Extended(k, r, n) /\ r.atoms = A
         /\ r.table = k.table /\ r.wnd = k.wnd /\ r.entry = k.entry /\ r.desktop = k.desktop
         /\ r.created = k.created
         /\ r.heap = HeapPut(k.heap, GuestClass(n))
<1>1. /\ r.classes = Append(k.classes, n) /\ r.atoms = A
      /\ r.table = k.table /\ r.wnd = k.wnd /\ r.entry = k.entry /\ r.desktop = k.desktop
      /\ r.created = k.created /\ r.cache = k.cache
      /\ r.heap = HeapPut(k.heap, GuestClass(n))
  BY DEF Registered, Globals
<1>2. r = Globals(r.table, r.wnd, r.classes, r.atoms, r.heap, r.entry, r.desktop, r.cache, r.created)
  BY <1>1 DEF Registered
<1>3. /\ k.table \in TableT /\ k.wnd \in [Wnds -> WndT] /\ k.classes \in Seq(ClsT)
      /\ k.heap \in Seq(CellT) /\ Len(k.heap) <= HeapSize
      /\ k.entry \in [Slots -> EntryT] /\ k.desktop \in Wnds \cup {Nothing} /\ k.created \in Nat
  BY DEF Sound, Shape
<1>4. n \in ClsT /\ A \in Seq(Names)
  BY DEF Entered
<1>5. GuestClass(n) \in CellT
  <2>1. n.atom \in Nat
    BY <1>4, UserClassesAssumption DEF ClsT, Atoms
  <2>2. NoCell \in CellT
    BY SlotFacts DEF NoCell, CellT
  <2> QED
    BY <2>1, <2>2 DEF GuestClass, CellT
<1>6. r.heap \in Seq(CellT) /\ Len(r.heap) <= HeapSize
  <2> DEFINE g == GuestClass(n)
             he == k.heap
  <2>1. g \in CellT /\ he \in Seq(CellT) /\ Len(he) <= HeapSize /\ HeapSize \in Nat
    BY <1>3, <1>5, UserClassesAssumption
  <2> HIDE DEF g, he
  <2>2. HeapPut(he, g) \in Seq(CellT) /\ Len(HeapPut(he, g)) <= HeapSize
    BY <2>1 DEF HeapPut, HeapAlloc
  <2> QED
    BY <1>1, <2>2 DEF g, he
<1>7. r.classes \in Seq(ClsT) /\ Extended(k, r, n)
  BY <1>1, <1>3, <1>4 DEF Extended
<1>8. Shape(r)
  BY <1>1, <1>2, <1>3, <1>4, <1>6, <1>7 DEF Shape
<1> QED
  BY <1>1, <1>7, <1>8

LEMMA ExtendedClasses ==
  ASSUME NEW k, Sound(k), NEW n, NEW A, Entered(k, n, A),
         NEW r, r.classes \in Seq(ClsT), Extended(k, r, n), r.atoms = A
  PROVE  ClassesOK(r)
<1> DEFINE top == Len(k.classes) + 1
<1>1. Len(k.classes) \in Nat /\ DOMAIN r.classes = 1 .. top /\ DOMAIN k.classes = 1 .. Len(k.classes)
  BY DEF Sound, Shape, Extended
<1>2. IsInjective(A) /\ Len(A) <= MaxAtoms /\ DOMAIN A = 1 .. Len(A)
  BY DEF Entered
<1>3. ASSUME NEW j \in 1 .. top, NEW i \in 1 .. (j - 1)
      PROVE  i \in 1 .. Len(k.classes)
  BY <1>1
<1>4. ASSUME NEW j \in 1 .. top, NEW i \in 1 .. (j - 1), r.classes[i].name = r.classes[j].name
      PROVE  ~ r.classes[i].global /\ r.classes[i].inst # r.classes[j].inst
  <2>1. i \in 1 .. Len(k.classes) /\ r.classes[i] = k.classes[i]
    BY <1>3 DEF Extended
  <2>2. CASE j = top
    BY <1>4, <2>1, <2>2 DEF Extended, Entered
  <2>3. CASE j \in 1 .. Len(k.classes)
    <3>1. r.classes[j] = k.classes[j]
      BY <2>3 DEF Extended
    <3>2. k.classes[i] \in {k.classes[x] : x \in 1 .. (j - 1)}
      BY <1>4
    <3>3. \A o \in {k.classes[x] : x \in 1 .. (j - 1)} : o.name = k.classes[j].name =>
            ~ o.global /\ o.inst # k.classes[j].inst
      BY <1>1, <2>3, Zenon DEF Sound, ClassesOK, ClassesSound
    <3>4. k.classes[i].name = k.classes[j].name
      BY <1>4, <2>1, <3>1
    <3> QED
      BY <2>1, <3>1, <3>2, <3>3, <3>4, Zenon
  <2> QED
    BY <1>1, <2>2, <2>3
<1>5. ASSUME NEW j \in 1 .. top
      PROVE  \/ r.classes[j].atom \in 1 .. Len(A) /\ A[r.classes[j].atom] = r.classes[j].name
             \/ /\ r.classes[j].name = Synthetic(r.classes[j].atom)
                /\ \A i \in 1 .. (j - 1) : r.classes[i].atom # r.classes[j].atom
  <2>1. \A i \in 1 .. (j - 1) : i \in 1 .. Len(k.classes) /\ r.classes[i] = k.classes[i]
    BY <1>3, <1>5 DEF Extended
  <2>2. CASE j = top
    BY <2>1, <2>2 DEF Extended, Entered
  <2>3. CASE j \in 1 .. Len(k.classes)
    <3> DEFINE c == k.classes[j]
    <3>1. r.classes[j] = c
      BY <2>3 DEF Extended
    <3>2. \/ c.atom \in DOMAIN k.atoms /\ k.atoms[c.atom] = c.name
          \/ /\ c.name = Synthetic(c.atom)
             /\ \A o \in {k.classes[x] : x \in 1 .. (j - 1)} : o.atom # c.atom
      BY <1>1, <2>3, Zenon DEF Sound, ClassesOK, ClassesSound
    <3>3. CASE c.atom \in DOMAIN k.atoms /\ k.atoms[c.atom] = c.name
      <4>1. c.atom \in 1 .. Len(k.atoms) /\ Len(k.atoms) \in Nat
        BY <3>3 DEF Sound, Shape
      <4>2. c.atom \in 1 .. Len(A) /\ A[c.atom] = k.atoms[c.atom]
        BY <4>1 DEF Entered
      <4> QED
        BY <3>1, <3>3, <4>2
    <3>4. CASE /\ c.name = Synthetic(c.atom)
               /\ \A o \in {k.classes[x] : x \in 1 .. (j - 1)} : o.atom # c.atom
      BY <2>1, <3>1, <3>4
    <3> QED
      BY <3>2, <3>3, <3>4
  <2> QED
    BY <1>1, <2>2, <2>3
<1>6. \A j \in DOMAIN r.classes :
        LET c == r.classes[j]
            older == {r.classes[i] : i \in 1 .. (j - 1)}
        IN /\ \A o \in older : o.name = c.name => ~o.global /\ o.inst # c.inst
           /\ \/ c.atom \in DOMAIN r.atoms /\ r.atoms[c.atom] = c.name
              \/ c.name = Synthetic(c.atom) /\ \A o \in older : o.atom # c.atom
  <2>1. SUFFICES ASSUME NEW j \in 1 .. top
                 PROVE  LET c == r.classes[j]
                            older == {r.classes[i] : i \in 1 .. (j - 1)}
                        IN /\ \A o \in older : o.name = c.name => ~o.global /\ o.inst # c.inst
                           /\ \/ c.atom \in DOMAIN r.atoms /\ r.atoms[c.atom] = c.name
                              \/ c.name = Synthetic(c.atom) /\ \A o \in older : o.atom # c.atom
    BY <1>1
  <2>2. ASSUME NEW o \in {r.classes[i] : i \in 1 .. (j - 1)}, o.name = r.classes[j].name
        PROVE  ~o.global /\ o.inst # r.classes[j].inst
    <3>1. PICK i \in 1 .. (j - 1) : o = r.classes[i]
      BY <2>2
    <3> QED
      BY <1>4, <2>2, <3>1
  <2>3. \/ r.classes[j].atom \in DOMAIN A /\ A[r.classes[j].atom] = r.classes[j].name
        \/ /\ r.classes[j].name = Synthetic(r.classes[j].atom)
           /\ \A o \in {r.classes[i] : i \in 1 .. (j - 1)} : o.atom # r.classes[j].atom
    BY <1>2, <1>5
  <2> QED
    BY <2>2, <2>3, Zenon
<1>7. ClassesSound(r)
  BY <1>2, <1>6, Zenon DEF ClassesSound
<1> QED
  BY <1>2, <1>7 DEF ClassesOK

\* The new class gets a copy of its own and no window.
LEMMA ExtendedRefs ==
  ASSUME NEW k, Sound(k), NEW n, n.refs = 0,
         NEW r, Extended(k, r, n), r.wnd = k.wnd
  PROVE  RefsOK(r)
<1> DEFINE top == Len(k.classes) + 1
<1>1. Len(k.classes) \in Nat /\ Len(r.classes) = top
  BY DEF Sound, Shape, Extended
<1>2. \A w \in LiveIn(k.wnd) : k.wnd[w].cls \in 0 .. Len(k.classes)
  BY DEF Sound, RefsOK
<1>3. ASSUME NEW c \in 1 .. top
      PROVE  r.classes[c].refs = Cardinality(WindowsOf(r, c))
  <2>1. WindowsOf(r, c) = WindowsOf(k, c)
    BY DEF WindowsOf
  <2>2. CASE c \in 1 .. Len(k.classes)
    BY <2>1, <2>2 DEF Extended, Sound, RefsOK
  <2>3. CASE c = top
    <3>1. WindowsOf(k, c) = {}
      BY <1>1, <1>2, <2>3 DEF WindowsOf
    <3> QED
      BY <2>1, <2>3, <3>1, FS_EmptySet DEF Extended
  <2> QED
    BY <1>1, <2>2, <2>3
<1> QED
  BY <1>1, <1>2, <1>3 DEF RefsOK

LEMMA ExtendedCopies ==
  ASSUME NEW k, Sound(k), NEW n, n.va = HeapAlloc(k.heap), NEW r, Shape(r),
         Extended(k, r, n), r.wnd = k.wnd, r.entry = k.entry,
         r.heap = HeapPut(k.heap, GuestClass(n))
  PROVE  CopiesOK(r) /\ LinksBut(r, {})
<1> DEFINE top == Len(k.classes) + 1
           g == GuestClass(n)
<1>1. /\ Len(k.classes) \in Nat /\ Len(r.classes) = top
      /\ k.heap \in Seq(CellT) /\ Len(k.heap) \in Nat /\ Len(k.heap) <= HeapSize
  BY DEF Sound, Shape, Extended
<1>2. g.h = NoHandle
  BY DEF GuestClass, NoCell
<1>3. r.heap \in Seq(CellT)
  BY DEF Shape
<1> HIDE DEF g
<1>4. \/ n.va = 0 /\ r.heap = k.heap
      \/ n.va = Len(k.heap) + 1 /\ r.heap = Append(k.heap, g)
  BY <1>1 DEF HeapPut, HeapAlloc, g
<1>5. /\ Len(r.heap) \in {Len(k.heap), Len(k.heap) + 1} /\ n.va \in 0 .. Len(r.heap)
      /\ \A a \in 1 .. Len(k.heap) : r.heap[a] = k.heap[a]
      /\ n.va # 0 => r.heap[n.va] = g
      /\ \A a \in 1 .. Len(r.heap) : a \in 1 .. Len(k.heap) \/ (a = n.va /\ a # 0)
  BY <1>1, <1>4
<1>6. \A w \in LiveIn(k.wnd) : /\ k.wnd[w].cls \in 0 .. Len(k.classes)
                               /\ k.wnd[w].va \in 0 .. Len(k.heap)
  BY DEF Sound, RefsOK, CopiesOK
<1>7. \A w \in LiveIn(r.wnd) : r.wnd[w].va \in 0 .. Len(r.heap)
  BY <1>1, <1>5, <1>6
<1>8. ASSUME NEW w \in LiveIn(r.wnd), r.wnd[w].va # 0
      PROVE  CopyOf(r, w, r.wnd[w].va) /\ LinksCopied(r, w)
  <2> DEFINE a == k.wnd[w].va
  <2>1. a \in 1 .. Len(k.heap) /\ r.heap[a] = k.heap[a]
    BY <1>1, <1>5, <1>6, <1>8
  <2>2. CopyOf(k, w, a) /\ LinksCopied(k, w)
    BY <1>8 DEF Sound, CopiesOK, LinksBut
  <2>3. ClassVa(r, k.wnd[w].cls) = ClassVa(k, k.wnd[w].cls)
    BY <1>1, <1>6, <1>8 DEF ClassVa, Extended
  <2>4. CopyOf(r, w, a)
    BY <2>1, <2>2, <2>3 DEF CopyOf
  <2>5. \A x : Va(r, x) = Va(k, x)
    BY DEF Va
  <2>6. LinksCopied(r, w)
    BY <2>1, <2>2, <2>5 DEF LinksCopied
  <2> QED
    BY <2>4, <2>6
<1>9. ASSUME NEW c \in 1 .. top
      PROVE  /\ r.classes[c].va \in 0 .. Len(r.heap)
             /\ r.classes[c].va # 0 => r.heap[r.classes[c].va] = GuestClass(r.classes[c])
  <2>1. CASE c = top
    BY <1>5, <2>1 DEF Extended, g
  <2>2. CASE c \in 1 .. Len(k.classes)
    <3>1. /\ k.classes[c].va \in 0 .. Len(k.heap)
          /\ k.classes[c].va # 0 => k.heap[k.classes[c].va] = GuestClass(k.classes[c])
      BY <2>2 DEF Sound, CopiesOK
    <3>2. r.classes[c] = k.classes[c]
      BY <2>2 DEF Extended
    <3> QED
      BY <1>1, <1>5, <3>1, <3>2
  <2> QED
    BY <1>1, <2>1, <2>2
<1>10. ASSUME NEW a \in 1 .. Len(r.heap), r.heap[a].h # NoHandle
       PROVE  \E w \in LiveIn(r.wnd) : r.wnd[w].va = a
  <2>1. a \in 1 .. Len(k.heap)
    BY <1>2, <1>5, <1>10
  <2> QED
    BY <1>5, <1>10, <2>1 DEF Sound, CopiesOK
<1>11. CopiesOK(r)
  BY <1>1, <1>7, <1>8, <1>9, <1>10 DEF CopiesOK
<1>12. LinksBut(r, {})
  BY <1>8 DEF LinksBut
<1> QED
  BY <1>11, <1>12

\* Only the classes differ, and what belongs to them.
Grown(k, r, rank) ==
  /\ Sound(r) /\ Tree(r, rank) /\ r.wnd = k.wnd /\ r.desktop = k.desktop
  /\ r.created = k.created

\* No name leads to a class that is not global and was not there.
NamesKept(k, r) ==
  \A name, inst : inst # NoInstance =>
    \/ Find(k, name, inst) = 0 \/ Find(r, name, inst) = Find(k, name, inst)
    \/ /\ Find(r, name, inst) > Len(k.classes)
       /\ r.classes[Find(r, name, inst)].global

LEMMA ExtendedKeeps ==
  ASSUME NEW k, k.classes \in Seq(ClsT), NEW r, r.classes \in Seq(ClsT), NEW n,
         Extended(k, r, n), ~ n.system, Find(k, n.name, n.inst) = 0
  PROVE  NamesKept(k, r)
<1>1. SUFFICES ASSUME NEW name, NEW inst, inst # NoInstance, Find(k, name, inst) # 0,
                      Find(r, name, inst) # Find(k, name, inst)
               PROVE  /\ Find(r, name, inst) > Len(k.classes)
                      /\ r.classes[Find(r, name, inst)].global
  BY DEF NamesKept
<1> DEFINE f == Find(k, name, inst)
           g == Find(r, name, inst)
<1>2. /\ f \in 1 .. Len(k.classes) /\ Answers(k, f, name, inst)
      /\ \A i \in 1 .. Len(k.classes) : Answers(k, i, name, inst) => i <= f
  BY <1>1, FindOK
<1>3. /\ g \in 0 .. Len(r.classes) /\ (g # 0 => Answers(r, g, name, inst))
      /\ \A i \in 1 .. Len(r.classes) : Answers(r, i, name, inst) => i <= g
  BY FindOK
<1>4. f # g
  BY <1>1
<1> HIDE DEF f, g
<1>5. \A i \in 1 .. Len(k.classes) : Answers(r, i, name, inst) <=> Answers(k, i, name, inst)
  BY DEF Extended, Answers
<1>6. Len(k.classes) \in Nat /\ Len(r.classes) = Len(k.classes) + 1
  BY DEF Extended
<1>7. Answers(r, f, name, inst)
  BY <1>2, <1>5
<1>10. f <= g
  BY <1>2, <1>3, <1>6, <1>7
<1>8. g \in 1 .. Len(k.classes) => g <= f
  BY <1>2, <1>3, <1>5
<1>9. g = Len(k.classes) + 1
  BY <1>2, <1>3, <1>4, <1>6, <1>8, <1>10
<1>11. r.classes[g] = n /\ Answers(r, g, name, inst)
  BY <1>3, <1>6, <1>9 DEF Extended
<1>12. n.name = name /\ (n.global \/ n.system \/ n.inst = inst \/ inst = NoInstance)
  BY <1>11, Zenon DEF Answers
<1>13. n.inst # inst
  BY <1>1, <1>12
<1>14. n.global
  BY <1>1, <1>12, <1>13, Zenon
<1> QED
  BY <1>6, <1>9, <1>11, <1>14 DEF g

LEMMA RegisterOK ==
  ASSUME NEW k, Sound(k), NEW rank, Tree(k, rank), NEW c, Fits(k, c), MayRegister(k, c),
         NEW r, r = Register(k, c)
  PROVE  Grown(k, r, rank) /\ NamesKept(k, r)
<1> DEFINE n == [c EXCEPT !.atom = OwnAtom(k, c), !.va = HeapAlloc(k.heap)]
           A == IF c.atom = 0 THEN AddAtom(k.atoms, c.name) ELSE k.atoms
<1>1. Shape(k) /\ ClassesOK(k) /\ TableOK(k.table, k.wnd)
  BY DEF Sound
<1>2. Entered(k, n, A) /\ Registered(k, r, n, A)
  BY <1>1, EnteredOK, RegisterFields
<1>3. n.name = c.name /\ n.inst = c.inst /\ n.system = c.system
  BY DEF Fits
<1>4. ~ n.system /\ Find(k, n.name, n.inst) = 0
  <2>1. c.system = FALSE
    BY DEF Fits
  <2> QED
    BY <1>3, <2>1 DEF MayRegister
<1> HIDE DEF n, A
<1>5. /\ Shape(r) /\ Extended(k, r, n) /\ r.atoms = A
      /\ r.table = k.table /\ r.wnd = k.wnd /\ r.entry = k.entry /\ r.desktop = k.desktop
      /\ r.created = k.created /\ r.heap = HeapPut(k.heap, GuestClass(n))
  BY <1>2, RegisteredShape
<1>6. n.refs = 0 /\ n.va = HeapAlloc(k.heap)
  BY <1>2 DEF Entered
<1>7. r.classes \in Seq(ClsT) /\ k.classes \in Seq(ClsT)
  BY <1>1, <1>5 DEF Shape
<1>8. RefsOK(r)
  BY <1>5, <1>6, ExtendedRefs
<1>9. CopiesOK(r) /\ LinksBut(r, {})
  BY <1>5, <1>6, ExtendedCopies
<1>10. ClassesOK(r)
  BY <1>2, <1>5, <1>7, ExtendedClasses
<1>11. Sound(r)
  BY <1>1, <1>5, <1>8, <1>9, <1>10 DEF Sound
<1>12. Tree(r, rank)
  BY <1>5 DEF Tree, Roots
<1>13. NamesKept(k, r)
  BY <1>4, <1>5, <1>7, ExtendedKeeps
<1> QED
  BY <1>5, <1>11, <1>12, <1>13 DEF Grown

(***************************************************************************)
(* The globals before any call.                                            *)
(***************************************************************************)

LEMMA NewTableOK ==
  ASSUME NEW m, LiveIn(m) = {}
  PROVE  TableOK(NewTable, m) /\ AllocHandle(NewTable) # NoHandle
<1> DEFINE t == NewTable
<1>1. MaxHandles \in Nat /\ MaxHandles >= 2 /\ GenSpan \in Nat /\ GenSpan >= 2
  BY HandleTableAssumption
<1>2. Slots = 0 .. (MaxHandles - 1) /\ EndOfList = -1
  BY DEF Slots, EndOfList
<1>3. \A i \in Slots :
        /\ t.type[i] = IF i = 0 THEN "WINDOW" ELSE "FREE"
        /\ t.gen[i] = 1
        /\ t.ptr[i] = IF i = 0 THEN Nothing ELSE IF i = MaxHandles - 1 THEN EndOfList ELSE i + 1
  BY <1>1, <1>2 DEF NewTable
<1>4. /\ DOMAIN t.type = Slots /\ DOMAIN t.gen = Slots /\ DOMAIN t.ptr = Slots
      /\ t.first = 1 /\ t.count = 1
      /\ t = [type |-> t.type, gen |-> t.gen, ptr |-> t.ptr, first |-> t.first, count |-> t.count]
  BY DEF NewTable
<1>5. t.type \in [Slots -> {"FREE", "WINDOW"}]
  <2>1. t.type = [i \in Slots |-> IF i = 0 THEN "WINDOW" ELSE "FREE"]
    BY DEF NewTable
  <2> QED
    BY <2>1
<1>6. t.gen \in [Slots -> 0 .. (GenSpan - 1)]
  <2>1. t.gen = [i \in Slots |-> 1]
    BY DEF NewTable
  <2> QED
    BY <1>1, <2>1
<1>7. t.ptr \in [Slots -> Wnds \cup {Nothing} \cup (EndOfList .. (MaxHandles - 1))]
  <2>1. t.ptr = [i \in Slots |-> t.ptr[i]]
    BY DEF NewTable
  <2>2. \A i \in Slots : t.ptr[i] \in Wnds \cup {Nothing} \cup (EndOfList .. (MaxHandles - 1))
    <3> SUFFICES ASSUME NEW i \in Slots
                 PROVE  t.ptr[i] = Nothing \/ t.ptr[i] \in EndOfList .. (MaxHandles - 1)
      OBVIOUS
    <3> QED
      BY <1>1, <1>2, <1>3
  <2> QED
    BY <2>1, <2>2
<1> HIDE DEF t
<1>8. t \in TableT
  <2>1. t.first \in EndOfList .. (MaxHandles - 1) /\ t.count \in Int
    BY <1>1, <1>2, <1>4
  <2> QED
    BY <1>4, <1>5, <1>6, <1>7, <2>1 DEF TableT
<1>9. FreeSlots(t) = 1 .. (MaxHandles - 1)
  BY <1>1, <1>2, <1>3 DEF FreeSlots
<1>10. \A i \in FreeSlots(t) :
         /\ i \in 1 .. (MaxHandles - 1)
         /\ t.ptr[i] = IF i = MaxHandles - 1 THEN EndOfList ELSE i + 1
  BY <1>1, <1>2, <1>3, <1>9
<1>11. FreeOK(t)
  <2>1. t.first \in FreeSlots(t) /\ t.first = 1
    BY <1>1, <1>4, <1>9
  <2>2. ASSUME NEW i \in FreeSlots(t)
        PROVE  /\ t.ptr[i] \in FreeSlots(t) \cup {EndOfList}
               /\ t.ptr[i] # EndOfList => t.ptr[i] # 1
    BY <1>1, <1>2, <1>9, <1>10
  <2>3. ASSUME NEW i \in FreeSlots(t), NEW j \in FreeSlots(t), t.ptr[i] = t.ptr[j],
               t.ptr[i] # EndOfList
        PROVE  i = j
    BY <1>1, <1>2, <1>10, <2>3
  <2> QED
    BY <2>1, <2>2, <2>3 DEF FreeOK
<1>12. Holds(t, m)
  <2>1. t.type[0] = "WINDOW" /\ t.ptr[0] = Nothing
    BY <1>3, SlotFacts
  <2>2. \A i \in Slots \ {0} : t.type[i] # "WINDOW"
    BY <1>3
  <2>3. t.count = Cardinality(LiveIn(m)) + 1
    BY <1>4, FS_EmptySet
  <2> QED
    BY <2>1, <2>2, <2>3 DEF Holds
<1>13. AllocHandle(t) # NoHandle
  <2>1. 1 \in Slots
    BY <1>1, <1>2
  <2>2. AllocHandle(t) = [index |-> 1, gen |-> 1]
    BY <1>3, <1>4, <2>1 DEF AllocHandle
  <2>3. AllocHandle(t).index = 1 /\ NoHandle.index = 0
    BY <2>2 DEF NoHandle
  <2> QED
    BY <2>3
<1>14. TableOK(t, m) /\ AllocHandle(t) # NoHandle
  BY <1>8, <1>11, <1>12, <1>13 DEF TableOK
<1> QED
  BY <1>14 DEF t

\* The system's classes are sound: their names differ, and so do their atoms.
SystemNames == [i \in DOMAIN SystemDefs |-> SystemDefs[i].name]

LEMMA SystemClassesOK ==
  ASSUME NEW k, k.classes = SystemClasses, k.atoms = SystemNames
  PROVE  /\ k.classes \in Seq(ClsT) /\ k.atoms \in Seq(Names) /\ ClassesOK(k)
         /\ \A c \in 1 .. Len(k.classes) : k.classes[c].refs = 0 /\ k.classes[c].va = 0
<1> DEFINE n == Len(SystemDefs)
           S == SystemDefs
<1>1. /\ n \in Nat /\ DOMAIN S = 1 .. n /\ n <= MaxAtoms /\ MaxAtoms <= TopAtom
      /\ MaxAtoms \in Nat /\ TopAtom \in Nat
      /\ \A i \in 1 .. n : S[i].name \in Names /\ S[i].extra \in BOOLEAN
      /\ \A i, j \in 1 .. n : S[i].name = S[j].name => i = j
  <2>1. /\ S \in Seq([name : Names, extra : BOOLEAN]) /\ n <= MaxAtoms /\ MaxAtoms <= TopAtom
        /\ MaxAtoms \in Nat /\ TopAtom \in Nat
        /\ \A i, j \in DOMAIN S : S[i].name = S[j].name => i = j
    BY UserClassesAssumption
  <2>2. n \in Nat /\ DOMAIN S = 1 .. n
    BY <2>1
  <2>3. \A i \in 1 .. n : S[i] \in [name : Names, extra : BOOLEAN]
    <3> DEFINE D == [name : Names, extra : BOOLEAN]
    <3>1. S \in Seq(D)
      BY <2>1
    <3> HIDE DEF D, S
    <3>2. \A i \in 1 .. Len(S) : S[i] \in D
      BY <3>1
    <3> QED
      BY <3>2 DEF S, D
  <2>4. \A d \in [name : Names, extra : BOOLEAN] : d.name \in Names /\ d.extra \in BOOLEAN
    BY Zenon
  <2> HIDE DEF n, S
  <2> QED
    BY <2>1, <2>2, <2>3, <2>4, Zenon
<1> HIDE DEF n
<1>2. k.atoms = [i \in 1 .. n |-> S[i].name]
  BY <1>1 DEF SystemNames
<1>3. k.atoms \in Seq(Names) /\ Len(k.atoms) = n /\ \A i \in 1 .. n : k.atoms[i] = S[i].name
  BY <1>1, <1>2
<1>4. k.classes =
        [i \in 1 .. n |->
           [name |-> S[i].name, inst |-> NoInstance, global |-> TRUE, system |-> TRUE,
            proc |-> FALSE, extra |-> S[i].extra, atom |-> i, refs |-> 0, va |-> 0]]
  BY <1>1 DEF SystemClasses
<1>5. ASSUME NEW i \in 1 .. n
      PROVE  [name |-> S[i].name, inst |-> NoInstance, global |-> TRUE, system |-> TRUE,
              proc |-> FALSE, extra |-> S[i].extra, atom |-> i, refs |-> 0, va |-> 0] \in ClsT
  <2>1. i \in Atoms
    BY <1>1 DEF Atoms
  <2>2. S[i].name \in NameT /\ S[i].extra \in BOOLEAN
    BY <1>1 DEF NameT
  <2> DEFINE nm == S[i].name  e == S[i].extra
  <2>3. nm \in NameT /\ e \in BOOLEAN
    BY <2>2
  <2> HIDE DEF nm, e
  <2>4. [name |-> nm, inst |-> NoInstance, global |-> TRUE, system |-> TRUE,
         proc |-> FALSE, extra |-> e, atom |-> i, refs |-> 0, va |-> 0] \in ClsT
    BY <2>1, <2>3 DEF ClsT
  <2> QED
    BY <2>4 DEF nm, e
<1>6. /\ k.classes \in Seq(ClsT) /\ Len(k.classes) = n /\ DOMAIN k.classes = 1 .. n
  BY <1>1, <1>4, <1>5
<1>7. \A i \in 1 .. n : /\ k.classes[i].refs = 0 /\ k.classes[i].va = 0
                        /\ k.classes[i].atom = i /\ k.classes[i].name = S[i].name
  BY <1>4
<1>8. IsInjective(k.atoms) /\ DOMAIN k.atoms = 1 .. n
  BY <1>1, <1>2, <1>3 DEF IsInjective
<1>9. ASSUME NEW j \in 1 .. n, NEW i \in 1 .. (j - 1)
      PROVE  k.classes[i].name # k.classes[j].name
  BY <1>1, <1>7
<1>10. ClassesSound(k)
  <2>1. SUFFICES ASSUME NEW j \in 1 .. n
                 PROVE  LET c == k.classes[j]
                            older == {k.classes[i] : i \in 1 .. (j - 1)}
                        IN /\ \A o \in older : o.name = c.name => ~o.global /\ o.inst # c.inst
                           /\ \/ c.atom \in DOMAIN k.atoms /\ k.atoms[c.atom] = c.name
                              \/ c.name = Synthetic(c.atom) /\ \A o \in older : o.atom # c.atom
    BY <1>6, <1>8, Zenon DEF ClassesSound
  <2>2. \A o \in {k.classes[i] : i \in 1 .. (j - 1)} : o.name # k.classes[j].name
    BY <1>9
  <2>3. k.classes[j].atom \in DOMAIN k.atoms /\ k.atoms[k.classes[j].atom] = k.classes[j].name
    BY <1>3, <1>7, <1>8
  <2> QED
    BY <2>2, <2>3
<1> QED
  BY <1>1, <1>3, <1>6, <1>7, <1>10 DEF ClassesOK

AtStart(k) ==
  k = Globals(NewTable, [w \in Wnds |-> NoWnd], SystemClasses, SystemNames, <<>>,
              [i \in Slots |-> NoEntry], Nothing, [hwnd |-> NoHandle, va |-> 0], 0)

LEMMA StartOK ==
  ASSUME NEW k, AtStart(k)
  PROVE  Sound(k) /\ LiveIn(k.wnd) = {} /\ Tree(k, [w \in Wnds |-> 0])
<1>1. /\ k.table = NewTable /\ k.wnd = [w \in Wnds |-> NoWnd] /\ k.classes = SystemClasses
      /\ k.atoms = SystemNames /\ k.heap = <<>>
      /\ k.entry = [i \in Slots |-> NoEntry] /\ k.desktop = Nothing
      /\ k.cache = [hwnd |-> NoHandle, va |-> 0] /\ k.created = 0
  BY DEF AtStart, Globals
<1>2. k = Globals(k.table, k.wnd, k.classes, k.atoms, k.heap, k.entry, k.desktop, k.cache, k.created)
  BY <1>1 DEF AtStart
<1>3. NoWnd \in WndT /\ NoWnd.alive = FALSE
  <2>1. NewWnd(NoHandle, 0) \in WndT
    BY NewWndIn, SlotFacts
  <2> QED
    BY <2>1 DEF NoWnd, WndT
<1>4. LiveIn(k.wnd) = {}
  BY <1>1, <1>3 DEF LiveIn
<1>5. TableOK(k.table, k.wnd) /\ AllocHandle(k.table) # NoHandle
  BY <1>1, <1>4, NewTableOK
<1>6. /\ k.classes \in Seq(ClsT) /\ k.atoms \in Seq(Names) /\ ClassesOK(k)
      /\ \A c \in 1 .. Len(k.classes) : k.classes[c].refs = 0 /\ k.classes[c].va = 0
  BY <1>1, SystemClassesOK
<1>7. k.heap \in Seq(CellT) /\ Len(k.heap) = 0 /\ 0 <= HeapSize
  <2>1. HeapSize \in Nat
    BY UserClassesAssumption
  <2> QED
    BY <1>1, <2>1
<1>8. k.wnd \in [Wnds -> WndT]
  BY <1>1, <1>3
<1>9. k.entry \in [Slots -> EntryT]
  <2>1. NoEntry \in EntryT
    BY DEF NoEntry, EntryT
  <2> QED
    BY <1>1, <2>1
<1>10. k.table \in TableT
  BY <1>5 DEF TableOK
<1>11. k.desktop \in Wnds \cup {Nothing} /\ k.created \in Nat /\ Len(k.heap) <= HeapSize
  BY <1>1, <1>7
<1>12. Shape(k)
  BY <1>2, <1>6, <1>7, <1>8, <1>9, <1>10, <1>11, Zenon DEF Shape
<1>13. RefsOK(k)
  <2>1. \A c : WindowsOf(k, c) = {}
    BY <1>4 DEF WindowsOf
  <2>2. \A c \in 1 .. Len(k.classes) : k.classes[c].refs = Cardinality(WindowsOf(k, c))
    BY <1>6, <2>1, FS_EmptySet
  <2>3. \A w \in LiveIn(k.wnd) : k.wnd[w].cls \in 0 .. Len(k.classes)
    BY <1>4
  <2> QED
    BY <2>2, <2>3 DEF RefsOK
<1>14. CopiesOK(k) /\ LinksBut(k, {})
  <2>1. \A c \in 1 .. Len(k.classes) :
          /\ k.classes[c].va \in 0 .. Len(k.heap)
          /\ k.classes[c].va # 0 => k.heap[k.classes[c].va] = GuestClass(k.classes[c])
    BY <1>6, <1>7
  <2>2. \A a \in 1 .. Len(k.heap) : FALSE
    BY <1>7
  <2> QED
    BY <1>4, <2>1, <2>2, Zenon DEF CopiesOK, LinksBut
<1>15. Sound(k)
  BY <1>5, <1>6, <1>12, <1>13, <1>14 DEF Sound
<1>16. Tree(k, [w \in Wnds |-> 0])
  BY <1>1, <1>4, <1>5 DEF Tree, LinksIn, Ranked, Roots
<1> QED
  BY <1>4, <1>15, <1>16

(***************************************************************************)
(* The inductive invariant.  A rank orders the windows as they were made:  *)
(* a parent and a next sibling are older than a window, and a call under   *)
(* way is for a younger window than the calls around it, so that a failed  *)
(* WM_CREATE, which takes a window and what is below it, takes no window   *)
(* of another call.                                                        *)
(***************************************************************************)

FrameT == [wnd : Wnds, msg : {"WM_NCCREATE", "WM_CREATE"}]

Frames(k, s, rank) ==
  /\ s \in Seq(FrameT) /\ Len(s) <= MaxDepth
  /\ \A i \in 1 .. Len(s) : s[i].wnd \in LiveIn(k.wnd) /\ s[i].wnd # k.desktop
  /\ \A i, j \in 1 .. Len(s) : i < j => rank[s[i].wnd] < rank[s[j].wnd]

Counts(k) ==
  Cardinality(LiveIn(k.wnd)) <= k.created /\ k.created <= MaxCreates + 1

Good(k, s) ==
  Sound(k) /\ Counts(k) /\ \E rank : Tree(k, rank) /\ Frames(k, s, rank)

IInv == Good(u, stack) /\ seen \subseteq AllHandles

\* The windows of calls under way stay the same when a window is made.
LEMMA FramesOlder ==
  ASSUME NEW k, NEW rank, NEW s, Frames(k, s, rank), NEW r, NEW rk,
         LiveIn(k.wnd) \subseteq LiveIn(r.wnd), r.desktop = k.desktop,
         Older(k.wnd, rank, rk, r.wnd)
  PROVE  Frames(r, s, rk)
<1>1. /\ s \in Seq(FrameT) /\ Len(s) <= MaxDepth
      /\ \A i \in 1 .. Len(s) : s[i].wnd \in LiveIn(k.wnd) /\ s[i].wnd # k.desktop
  BY DEF Frames
<1>2. \A i \in 1 .. Len(s) : rk[s[i].wnd] = rank[s[i].wnd]
  BY <1>1 DEF Older
<1>3. \A i, j \in 1 .. Len(s) : i < j => rk[s[i].wnd] < rk[s[j].wnd]
  BY <1>2 DEF Frames
<1>4. \A i \in 1 .. Len(s) : s[i].wnd \in LiveIn(r.wnd) /\ s[i].wnd # r.desktop
  BY <1>1
<1> QED
  BY <1>1, <1>3, <1>4 DEF Frames

\* The call for a new window is innermost.
LEMMA FramesPushed ==
  ASSUME NEW k, NEW rank, NEW s, Frames(k, s, rank), NEW r, NEW rk,
         LiveIn(k.wnd) \subseteq LiveIn(r.wnd), r.desktop = k.desktop,
         Older(k.wnd, rank, rk, r.wnd),
         NEW w \in LiveIn(r.wnd) \ LiveIn(k.wnd), w # r.desktop, Len(s) < MaxDepth
  PROVE  Frames(r, Append(s, [wnd |-> w, msg |-> "WM_NCCREATE"]), rk)
<1> DEFINE f == [wnd |-> w, msg |-> "WM_NCCREATE"]
           n == Len(s)
           q == Append(s, f)
<1>0. Frames(r, s, rk)
  BY FramesOlder
<1>1. n \in Nat /\ MaxDepth \in Nat /\ s \in Seq(FrameT)
  BY UserWindowsAssumption DEF Frames
<1>2. f \in FrameT /\ f.wnd = w
  BY DEF LiveIn, FrameT
<1> HIDE DEF f
<1>3. /\ q \in Seq(FrameT) /\ Len(q) = n + 1 /\ q[n + 1] = f
      /\ \A i \in 1 .. n : q[i] = s[i]
  BY <1>1, <1>2
<1> HIDE DEF q
<1>4. \A i \in 1 .. n : s[i].wnd \in LiveIn(k.wnd)
  BY DEF Frames
<1>5. \A i \in 1 .. n : rk[s[i].wnd] < rk[w]
  BY <1>4 DEF Older
<1>6. \A i \in 1 .. (n + 1) : q[i].wnd \in LiveIn(r.wnd) /\ q[i].wnd # r.desktop
  <2>1. SUFFICES ASSUME NEW i \in 1 .. (n + 1)
                 PROVE  q[i].wnd \in LiveIn(r.wnd) /\ q[i].wnd # r.desktop
    OBVIOUS
  <2>2. CASE i = n + 1
    BY <1>2, <1>3, <2>2
  <2>3. CASE i \in 1 .. n
    BY <1>0, <1>3, <2>3 DEF Frames
  <2> QED
    BY <1>1, <2>2, <2>3
<1>7. \A i, j \in 1 .. (n + 1) : i < j => rk[q[i].wnd] < rk[q[j].wnd]
  <2>1. SUFFICES ASSUME NEW i \in 1 .. (n + 1), NEW j \in 1 .. (n + 1), i < j
                 PROVE  rk[q[i].wnd] < rk[q[j].wnd]
    OBVIOUS
  <2>2. i \in 1 .. n /\ (j = n + 1 \/ j \in 1 .. n)
    BY <1>1, <2>1
  <2>3. CASE j = n + 1
    BY <1>2, <1>3, <1>5, <2>2, <2>3
  <2>4. CASE j \in 1 .. n
    BY <1>0, <1>3, <2>1, <2>2, <2>4 DEF Frames
  <2> QED
    BY <2>2, <2>3, <2>4
<1>8. Len(q) <= MaxDepth
  BY <1>1, <1>3
<1> QED
  BY <1>3, <1>6, <1>7, <1>8 DEF Frames, q, f

LEMMA FrontOK ==
  ASSUME NEW s \in Seq(FrameT), s # <<>>
  PROVE  /\ Front(s) \in Seq(FrameT) /\ Len(Front(s)) = Len(s) - 1
         /\ \A i \in 1 .. (Len(s) - 1) : Front(s)[i] = s[i]
<1>1. Len(s) \in Nat /\ Len(s) # 0 /\ \A i \in 1 .. Len(s) : s[i] \in FrameT
  OBVIOUS
<1>2. 1 \in Int /\ Len(s) - 1 \in Int /\ \A i \in 1 .. (Len(s) - 1) : s[i] \in FrameT
  BY <1>1
<1> DEFINE n == Len(s)
           q == SubSeq(s, 1, n - 1)
<1>3. /\ q \in Seq(FrameT) /\ Len(q) = IF 1 <= n - 1 THEN (n - 1) - 1 + 1 ELSE 0
      /\ \A i \in 1 .. ((n - 1) - 1 + 1) : q[i] = s[1 + i - 1]
  BY <1>2, SubSeqProperties
<1>4. Front(s) = q
  BY DEF Front
<1> HIDE DEF q, n
<1>6. n \in Nat /\ n # 0
  BY <1>1 DEF n
<1>7. (IF 1 <= n - 1 THEN (n - 1) - 1 + 1 ELSE 0) = n - 1 /\ (n - 1) - 1 + 1 = n - 1
  BY <1>6
<1>8. \A i \in 1 .. (n - 1) : 1 + i - 1 = i
  BY <1>6
<1>5. Len(q) = n - 1 /\ \A i \in 1 .. (n - 1) : q[i] = s[i]
  BY <1>3, <1>7, <1>8
<1> QED
  BY <1>3, <1>4, <1>5 DEF n

\* What a call gives back is what was there before it, less its own window.
LEMMA FramesPopped ==
  ASSUME NEW k, NEW rank, NEW s, Frames(k, s, rank), s # <<>>, NEW r,
         r.desktop = k.desktop, rank \in [Wnds -> Nat],
         LiveIn(r.wnd) \subseteq LiveIn(k.wnd),
         \A x \in LiveIn(k.wnd) \ LiveIn(r.wnd) : rank[Last(s).wnd] <= rank[x]
  PROVE  Frames(r, Front(s), rank)
<1> DEFINE n == Len(s)
           q == Front(s)
<1>1. s \in Seq(FrameT) /\ n \in Nat /\ n # 0 /\ n <= MaxDepth
  BY DEF Frames
<1>2. Last(s) = s[n]
  BY DEF Last
<1>3. /\ q \in Seq(FrameT) /\ Len(q) = n - 1
      /\ \A i \in 1 .. (n - 1) : q[i] = s[i]
  BY <1>1, FrontOK
<1> HIDE DEF q
<1>4. ASSUME NEW i \in 1 .. (n - 1)
      PROVE  s[i].wnd \in LiveIn(r.wnd) /\ s[i].wnd # r.desktop
  <2>1. i \in 1 .. n /\ n \in 1 .. n /\ i < n
    BY <1>1, <1>4
  <2>2. /\ s[i].wnd \in LiveIn(k.wnd) /\ s[i].wnd # r.desktop /\ s[n].wnd \in LiveIn(k.wnd)
        /\ rank[s[i].wnd] < rank[s[n].wnd]
    BY <2>1 DEF Frames
  <2>3. rank[s[i].wnd] \in Nat /\ rank[s[n].wnd] \in Nat
    BY <2>2 DEF LiveIn
  <2>4. ~ (rank[s[n].wnd] <= rank[s[i].wnd])
    BY <2>2, <2>3
  <2> QED
    BY <1>2, <2>2, <2>4
<1>5. \A i, j \in 1 .. (n - 1) : i \in 1 .. n /\ j \in 1 .. n
  BY <1>1
<1>6. \A i, j \in 1 .. (n - 1) : i < j => rank[q[i].wnd] < rank[q[j].wnd]
  BY <1>3, <1>5 DEF Frames
<1>7. Len(q) <= MaxDepth
  <2>1. MaxDepth \in Nat
    BY UserWindowsAssumption
  <2> QED
    BY <1>1, <1>3, <2>1
<1> QED
  BY <1>3, <1>4, <1>6, <1>7 DEF Frames, q

\* The call goes on with the next message to its window.
LEMMA FramesTurned ==
  ASSUME NEW k, NEW rank, NEW s, Frames(k, s, rank), s # <<>>, NEW r,
         r.desktop = k.desktop, r.wnd = k.wnd
  PROVE  Frames(r, Append(Front(s), [wnd |-> Last(s).wnd, msg |-> "WM_CREATE"]), rank)
<1> DEFINE n == Len(s)
           f == [wnd |-> Last(s).wnd, msg |-> "WM_CREATE"]
           p == Front(s)
           q == Append(p, f)
<1>1. s \in Seq(FrameT) /\ n \in Nat /\ n # 0 /\ n <= MaxDepth
  BY DEF Frames
<1>2. Last(s) = s[n] /\ n \in 1 .. n
  BY <1>1 DEF Last
<1>3. p \in Seq(FrameT) /\ Len(p) = n - 1 /\ \A i \in 1 .. (n - 1) : p[i] = s[i]
  BY <1>1, FrontOK
<1>4. f \in FrameT /\ f.wnd = s[n].wnd
  <2>1. s[n] \in FrameT
    BY <1>1, <1>2
  <2> QED
    BY <1>2, <2>1 DEF FrameT
<1> HIDE DEF f, p
<1>5. q \in Seq(FrameT) /\ Len(q) = n /\ q[n] = f /\ \A i \in 1 .. (n - 1) : q[i] = s[i]
  BY <1>1, <1>3, <1>4
<1> HIDE DEF q
<1>6. \A i \in 1 .. n : q[i].wnd = s[i].wnd
  <2>1. \A i \in 1 .. n : i = n \/ i \in 1 .. (n - 1)
    BY <1>1
  <2> QED
    BY <1>4, <1>5, <2>1
<1> QED
  BY <1>1, <1>5, <1>6 DEF Frames, q, f, p

(***************************************************************************)
(* What a call leaves of the windows and names of the others: CallsKeep,   *)
(* of the globals before and after.                                        *)
(***************************************************************************)

KeptIn(k, r, w, dead) ==
  LET past(x) == IF x \in dead THEN k.wnd[x].next ELSE x
      first   == r.wnd[w].child
  IN /\ r.wnd[w].parent = k.wnd[w].parent
     /\ r.wnd[w].next = past(k.wnd[w].next)
     /\ \/ first = past(k.wnd[w].child)
        \/ first \notin LiveIn(k.wnd) /\ r.wnd[first].next = past(k.wnd[w].child)

Keeps(k, r, s) ==
  LET dead == LiveIn(k.wnd) \ LiveIn(r.wnd)
  IN /\ dead # {} => /\ s # <<>> /\ Last(s).wnd \in dead
                     /\ \A w \in LiveIn(k.wnd) \ {Last(s).wnd} :
                          w \in dead <=> k.wnd[w].parent \in dead
     /\ \A w \in LiveIn(k.wnd) \cap LiveIn(r.wnd) : KeptIn(k, r, w, dead)
     /\ NamesKept(k, r)

LEMMA SameNames ==
  ASSUME NEW k, NEW r, SameClasses(k, r), k.classes \in Seq(ClsT), r.classes \in Seq(ClsT)
  PROVE  NamesKept(k, r)
BY SameFind DEF NamesKept

LEMMA KeepsAdded ==
  ASSUME NEW k, NEW r, NEW s, NamesKept(k, r), LiveIn(k.wnd) \subseteq LiveIn(r.wnd),
         NEW w, w \notin LiveIn(k.wnd), Added(k.wnd, r.wnd, w)
  PROVE  Keeps(k, r, s)
<1>1. LiveIn(k.wnd) \ LiveIn(r.wnd) = {}
  OBVIOUS
<1>2. ASSUME NEW x \in LiveIn(k.wnd)
      PROVE  KeptIn(k, r, x, {})
  <2>1. /\ r.wnd[x].parent = k.wnd[x].parent /\ r.wnd[x].next = k.wnd[x].next
        /\ \/ r.wnd[x].child = k.wnd[x].child
           \/ r.wnd[x].child = w /\ r.wnd[w].next = k.wnd[x].child
    BY <1>2 DEF Added
  <2> QED
    BY <2>1, Zenon DEF KeptIn
<1> QED
  BY <1>1, <1>2, Zenon DEF Keeps

LEMMA KeepsSame ==
  ASSUME NEW k, NEW r, NEW s, NamesKept(k, r), r.wnd = k.wnd
  PROVE  Keeps(k, r, s)
<1>1. LiveIn(k.wnd) \ LiveIn(r.wnd) = {}
  OBVIOUS
<1>2. \A x \in LiveIn(k.wnd) : KeptIn(k, r, x, {})
  BY Zenon DEF KeptIn
<1> QED
  BY <1>1, <1>2, Zenon DEF Keeps

LEMMA KeepsFirst ==
  ASSUME NEW k, NEW r, NEW s, NamesKept(k, r), LiveIn(k.wnd) = {}
  PROVE  Keeps(k, r, s)
<1>1. LiveIn(k.wnd) \ LiveIn(r.wnd) = {}
  BY Zenon
<1> QED
  BY <1>1, Zenon DEF Keeps

LEMMA KeepsTaken ==
  ASSUME NEW k, NEW r, NEW s, s # <<>>, NamesKept(k, r), Taken(k.wnd, r.wnd, Last(s).wnd)
  PROVE  Keeps(k, r, s)
<1> DEFINE dead == LiveIn(k.wnd) \ LiveIn(r.wnd)
<1>1. /\ Last(s).wnd \in dead
      /\ \A x \in LiveIn(k.wnd) \ {Last(s).wnd} : x \in dead <=> k.wnd[x].parent \in dead
  BY Zenon DEF Taken
<1>2. ASSUME NEW x \in LiveIn(k.wnd) \cap LiveIn(r.wnd)
      PROVE  KeptIn(k, r, x, dead)
  <2>1. /\ r.wnd[x].parent = k.wnd[x].parent
        /\ r.wnd[x].next = IF k.wnd[x].next \in dead THEN k.wnd[k.wnd[x].next].next
                           ELSE k.wnd[x].next
        /\ r.wnd[x].child = IF k.wnd[x].child \in dead THEN k.wnd[k.wnd[x].child].next
                            ELSE k.wnd[x].child
    BY <1>2, Zenon DEF Taken
  <2> QED
    BY <2>1, Zenon DEF KeptIn
<1> QED
  BY <1>1, <1>2, Zenon DEF Keeps

\* Keeps is what CallsKeep says of a step.
LEMMA KeepsMeans ==
  ASSUME Keeps(u, u', stack)
  PROVE  LET dead == Live(u) \ Live(u')
         IN /\ dead # {} =>
                 /\ stack # <<>>
                 /\ Last(stack).wnd \in dead
                 /\ \A w \in Live(u) \ {Last(stack).wnd} :
                      w \in dead <=> u.wnd[w].parent \in dead
            /\ \A w \in Live(u) \cap Live(u') : ChildrenKept(w, dead)
            /\ \A name \in Names, inst \in Instances : ClassKept(name, inst)
<1> DEFINE dead == LiveIn(u.wnd) \ LiveIn(u'.wnd)
<1>1. Live(u) = LiveIn(u.wnd) /\ Live(u') = LiveIn(u'.wnd)
  BY DEF Live, LiveIn
<1>2. ASSUME NEW w \in Live(u) \cap Live(u')
      PROVE  ChildrenKept(w, dead)
  <2>1. KeptIn(u, u', w, dead)
    BY <1>1, <1>2, Zenon DEF Keeps
  <2> QED
    BY <1>1, <2>1, Zenon DEF KeptIn, ChildrenKept
<1>3. ASSUME NEW name \in Names, NEW inst \in Instances
      PROVE  ClassKept(name, inst)
  <2>1. inst # NoInstance
    BY UserClassesAssumption
  <2>2. NamesKept(u, u')
    BY Zenon DEF Keeps
  <2> QED
    BY <2>1, <2>2, Zenon DEF NamesKept, ClassKept
<1>4. dead # {} => /\ stack # <<>> /\ Last(stack).wnd \in dead
                   /\ \A w \in LiveIn(u.wnd) \ {Last(stack).wnd} :
                        w \in dead <=> u.wnd[w].parent \in dead
  BY Zenon DEF Keeps
<1> QED
  BY <1>1, <1>2, <1>3, <1>4, Zenon

(***************************************************************************)
(* The calls, one after the other: each leaves good globals and frames.    *)
(***************************************************************************)

LEMMA GoodFacts ==
  ASSUME NEW k, NEW s, Good(k, s)
  PROVE  /\ Sound(k) /\ Shape(k) /\ k.classes \in Seq(ClsT) /\ k.wnd \in [Wnds -> WndT]
         /\ k.created \in Nat /\ MaxCreates \in Nat /\ Counts(k)
         /\ s \in Seq(FrameT)
         /\ k.desktop # Nothing => k.desktop \in LiveIn(k.wnd)
         /\ \A w \in Wnds : k.wnd[w].hwnd \in AllHandles
<1>1. Sound(k) /\ Shape(k) /\ Counts(k)
  BY DEF Good, Sound
<1>2. PICK rank : Tree(k, rank) /\ Frames(k, s, rank)
  BY DEF Good
<1>3. s \in Seq(FrameT) /\ (k.desktop # Nothing => k.desktop \in LiveIn(k.wnd))
  BY <1>2 DEF Frames, Tree, Roots
<1>4. k.classes \in Seq(ClsT) /\ k.wnd \in [Wnds -> WndT] /\ k.created \in Nat
  BY <1>1 DEF Shape
<1>5. \A w \in Wnds : k.wnd[w].hwnd \in AllHandles
  BY <1>4 DEF WndT
<1> QED
  BY <1>1, <1>3, <1>4, <1>5, UserWindowsAssumption

LEMMA GoodRegister ==
  ASSUME NEW k, NEW s, Good(k, s), NEW c, Fits(k, c), MayRegister(k, c),
         NEW r, r = Register(k, c)
  PROVE  Good(r, s) /\ Keeps(k, r, s)
<1>1. Sound(k)
  BY DEF Good
<1>2. PICK rank : Tree(k, rank) /\ Frames(k, s, rank)
  BY DEF Good
<1>3. Grown(k, r, rank) /\ NamesKept(k, r)
  BY <1>1, <1>2, RegisterOK
<1>4. r.wnd = k.wnd /\ r.desktop = k.desktop /\ r.created = k.created
  BY <1>3 DEF Grown
<1>5. Frames(r, s, rank)
  BY <1>2, <1>4 DEF Frames
<1>6. Counts(r)
  BY <1>4 DEF Good, Counts
<1>7. Good(r, s)
  BY <1>3, <1>5, <1>6 DEF Grown, Good
<1> QED
  BY <1>3, <1>4, <1>7, KeepsSame

LEMMA GoodCache ==
  ASSUME NEW k, NEW s, Good(k, s), NEW r, CacheOnly(k, r)
  PROVE  /\ Good(r, s) /\ SameClasses(k, r) /\ NamesKept(k, r)
         /\ r.wnd = k.wnd /\ r.desktop = k.desktop /\ r.created = k.created
<1>1. Sound(k)
  BY DEF Good
<1>2. PICK rank : Tree(k, rank) /\ Frames(k, s, rank)
  BY DEF Good
<1>3. Sound(r) /\ Tree(r, rank) /\ SameClasses(k, r)
  BY <1>1, <1>2, CacheKeeps
<1>4. r.wnd = k.wnd /\ r.desktop = k.desktop /\ r.created = k.created
  BY DEF CacheOnly, SameSound
<1>5. Frames(r, s, rank)
  BY <1>2, <1>4 DEF Frames
<1>6. Counts(r)
  BY <1>4 DEF Good, Counts
<1>7. Good(r, s)
  BY <1>3, <1>5, <1>6 DEF Good
<1>8. NamesKept(k, r)
  BY <1>1, <1>3, SameNames DEF Sound, Shape
<1> QED
  BY <1>3, <1>4, <1>7, <1>8

LEMMA GoodDesktop ==
  ASSUME NEW k, NEW s, Good(k, s), k.created < MaxCreates, NEW w \in Wnds,
         k.desktop = Nothing => w \notin LiveIn(k.wnd), NEW r, r = WithDesktop(k, w)
  PROVE  /\ Good(r, s) /\ r.desktop # Nothing /\ SameClasses(k, r) /\ r.created <= MaxCreates
         /\ k.desktop # Nothing => r = k
         /\ k.desktop = Nothing => LiveIn(k.wnd) = {} /\ LiveIn(r.wnd) = {w}
<1>0. Sound(k) /\ k.created \in Nat /\ MaxCreates \in Nat
  BY GoodFacts
<1>1. PICK rank : Tree(k, rank) /\ Frames(k, s, rank)
  BY DEF Good
<1>2. /\ Sound(r) /\ (\E rk : Tree(r, rk) /\ Older(k.wnd, rank, rk, r.wnd))
      /\ r.desktop # Nothing /\ SameClasses(k, r)
      /\ k.desktop # Nothing => r = k
      /\ k.desktop = Nothing =>
           r.desktop = w /\ r.created = k.created + 1 /\ LiveIn(r.wnd) = {w}
  BY <1>0, <1>1, WithDesktopOK
<1>3. CASE k.desktop # Nothing
  <2>1. k.created <= MaxCreates
    BY <1>0
  <2> QED
    BY <1>2, <1>3, <2>1
<1>4. CASE k.desktop = Nothing
  <2>1. LiveIn(k.wnd) = {}
    BY <1>1, <1>4 DEF Tree
  <2>2. PICK rk : Tree(r, rk)
    BY <1>2
  <2>3. s \in Seq(FrameT) /\ Len(s) <= MaxDepth /\ Len(s) \in Nat
        /\ \A i \in 1 .. Len(s) : FALSE
    BY <1>1, <2>1 DEF Frames
  <2>4. Frames(r, s, rk)
    BY <2>3, Zenon DEF Frames
  <2>5. r.created = k.created + 1 /\ LiveIn(r.wnd) = {w}
    BY <1>2, <1>4
  <2>6. Cardinality(LiveIn(r.wnd)) = 1
    BY <2>5, FS_Singleton
  <2>7. r.created <= MaxCreates /\ Counts(r)
    BY <1>0, <2>5, <2>6 DEF Counts
  <2>8. Good(r, s)
    BY <1>2, <2>2, <2>4, <2>7 DEF Good
  <2> QED
    BY <1>2, <1>4, <2>1, <2>7, <2>8
<1> QED
  BY <1>3, <1>4

LEMMA GoodCreated ==
  ASSUME NEW k, NEW s, Good(k, s), k.desktop # Nothing, k.created <= MaxCreates,
         NEW w \in Wnds \ LiveIn(k.wnd), NEW c \in 0 .. Len(k.classes),
         AllocHandle(k.table) # NoHandle, NEW h \in AllHandles,
         NEW r, r = Created(k, w, c, h)
  PROVE  /\ Good(r, s) /\ Keeps(k, r, s) /\ SameClasses(k, r) /\ r.desktop = k.desktop
         /\ Len(s) < MaxDepth => Good(r, Append(s, [wnd |-> w, msg |-> "WM_NCCREATE"]))
<1>0. Sound(k) /\ k.created \in Nat /\ MaxCreates \in Nat /\ k.desktop \in LiveIn(k.wnd)
  BY GoodFacts
<1>1. PICK rank : Tree(k, rank) /\ Frames(k, s, rank)
  BY DEF Good
<1>2. WindowMade(k, r, rank, w)
  BY <1>0, <1>1, CreatedOK
<1>11. /\ Sound(r) /\ LiveIn(r.wnd) = LiveIn(k.wnd) \cup {w}
       /\ r.desktop = k.desktop /\ r.created = k.created + 1 /\ SameClasses(k, r)
       /\ Added(k.wnd, r.wnd, w)
  BY <1>2 DEF WindowMade
<1>3. PICK rk : Tree(r, rk) /\ Older(k.wnd, rank, rk, r.wnd)
  BY <1>2 DEF WindowMade
<1>4. LiveIn(k.wnd) \subseteq LiveIn(r.wnd) /\ w \in LiveIn(r.wnd) \ LiveIn(k.wnd) /\ w # r.desktop
  BY <1>0, <1>11
<1>5. Frames(r, s, rk)
  BY <1>1, <1>11, <1>3, <1>4, FramesOlder
<1>6. Counts(r)
  <2>1. IsFiniteSet(LiveIn(k.wnd)) /\ Cardinality(LiveIn(k.wnd)) \in Nat
    BY WindowsFinite
  <2>2. Cardinality(LiveIn(r.wnd)) = Cardinality(LiveIn(k.wnd)) + 1
    BY <1>11, <2>1, FS_AddElement
  <2>3. Cardinality(LiveIn(k.wnd)) <= k.created
    BY DEF Good, Counts
  <2> QED
    BY <1>0, <1>11, <2>1, <2>2, <2>3 DEF Counts
<1>7. Good(r, s)
  BY <1>11, <1>3, <1>5, <1>6 DEF Good
<1>8. ASSUME Len(s) < MaxDepth
      PROVE  Good(r, Append(s, [wnd |-> w, msg |-> "WM_NCCREATE"]))
  <2>1. Frames(r, Append(s, [wnd |-> w, msg |-> "WM_NCCREATE"]), rk)
    BY <1>1, <1>11, <1>3, <1>4, <1>8, FramesPushed
  <2> QED
    BY <1>11, <1>3, <1>6, <2>1 DEF Good
<1>9. NamesKept(k, r)
  BY <1>0, <1>11, SameNames DEF Sound, Shape
<1>10. Keeps(k, r, s)
  BY <1>11, <1>4, <1>9, KeepsAdded
<1> QED
  BY <1>11, <1>7, <1>8, <1>10

LEMMA GoodFailed ==
  ASSUME NEW k, NEW s, Good(k, s), k.desktop # Nothing, k.created <= MaxCreates,
         NEW w \in Wnds, AllocHandle(k.table) # NoHandle, NEW r, r = FailedFill(k, w)
  PROVE  Good(r, s) /\ Keeps(k, r, s) /\ SameClasses(k, r)
<1>0. Sound(k) /\ k.created \in Nat /\ MaxCreates \in Nat
  BY GoodFacts
<1>1. PICK rank : Tree(k, rank) /\ Frames(k, s, rank)
  BY DEF Good
<1>2. /\ Sound(r) /\ Tree(r, rank) /\ SameClasses(k, r) /\ r.wnd = k.wnd
      /\ r.desktop = k.desktop /\ r.created = k.created + 1
  BY <1>0, <1>1, FailedFillOK
<1>3. Frames(r, s, rank)
  BY <1>1, <1>2 DEF Frames
<1>4. Counts(r)
  <2>1. Cardinality(LiveIn(k.wnd)) \in Nat
    BY WindowsFinite
  <2>2. Cardinality(LiveIn(k.wnd)) <= k.created
    BY DEF Good, Counts
  <2>3. LiveIn(r.wnd) = LiveIn(k.wnd)
    BY <1>2
  <2> QED
    BY <1>0, <1>2, <2>1, <2>2, <2>3 DEF Counts
<1>5. Good(r, s)
  BY <1>2, <1>3, <1>4 DEF Good
<1>6. NamesKept(k, r)
  BY <1>0, <1>2, SameNames DEF Sound, Shape
<1> QED
  BY <1>2, <1>5, <1>6, KeepsSame

LEMMA GoodDestroyed ==
  ASSUME NEW k, NEW s, Good(k, s), s # <<>>, NEW r, r = Destroy(k, Last(s).wnd)
  PROVE  Good(r, Front(s)) /\ Keeps(k, r, s)
<1> DEFINE w == Last(s).wnd
<1>0. Sound(k) /\ k.created \in Nat /\ MaxCreates \in Nat /\ Counts(k)
  BY GoodFacts
<1>1. PICK rank : Tree(k, rank) /\ Frames(k, s, rank)
  BY DEF Good
<1>2. w \in LiveIn(k.wnd) /\ w # k.desktop
  <2>1. Last(s) = s[Len(s)] /\ Len(s) \in 1 .. Len(s)
    BY <1>1 DEF Last, Frames
  <2> QED
    BY <1>1, <2>1 DEF Frames
<1>3. r = Destroy(k, w)
  OBVIOUS
<1> HIDE DEF w
<1>4. /\ Remains(k, r, rank) /\ Taken(k.wnd, r.wnd, w)
      /\ \A x \in LiveIn(k.wnd) \ LiveIn(r.wnd) : rank[w] <= rank[x]
  BY <1>0, <1>1, <1>2, <1>3, DestroyOK
<1>5. /\ Sound(r) /\ Tree(r, rank) /\ SameClasses(k, r)
      /\ r.desktop = k.desktop /\ r.created = k.created
  BY <1>4 DEF Remains
<1>6. LiveIn(r.wnd) \subseteq LiveIn(k.wnd)
  BY <1>4, Zenon DEF Taken
<1>7. Frames(r, Front(s), rank)
  <2>1. rank \in [Wnds -> Nat]
    BY <1>1 DEF Tree, Ranked
  <2> QED
    BY <1>1, <1>4, <1>5, <1>6, <2>1, FramesPopped DEF w
<1>8. Counts(r)
  <2>1. IsFiniteSet(LiveIn(k.wnd)) /\ Cardinality(LiveIn(k.wnd)) \in Nat
    BY WindowsFinite
  <2>2. Cardinality(LiveIn(r.wnd)) <= Cardinality(LiveIn(k.wnd)) /\ Cardinality(LiveIn(r.wnd)) \in Nat
    BY <1>6, <2>1, FS_Subset, WindowsFinite
  <2> QED
    BY <1>0, <1>5, <2>1, <2>2 DEF Counts
<1>9. Good(r, Front(s))
  BY <1>5, <1>7, <1>8 DEF Good
<1>10. NamesKept(k, r)
  BY <1>0, <1>5, SameNames DEF Sound, Shape
<1>11. Keeps(k, r, s)
  BY <1>4, <1>10, KeepsTaken DEF w
<1> QED
  BY <1>9, <1>11

LEMMA GoodPopped ==
  ASSUME NEW k, NEW s, Good(k, s), s # <<>>
  PROVE  Good(k, Front(s))
<1>1. PICK rank : Tree(k, rank) /\ Frames(k, s, rank)
  BY DEF Good
<1>2. rank \in [Wnds -> Nat]
  BY <1>1 DEF Tree, Ranked
<1>3. Frames(k, Front(s), rank)
  BY <1>1, <1>2, FramesPopped
<1> QED
  BY <1>1, <1>3 DEF Good

LEMMA GoodTurned ==
  ASSUME NEW k, NEW s, Good(k, s), s # <<>>
  PROVE  Good(k, Append(Front(s), [wnd |-> Last(s).wnd, msg |-> "WM_CREATE"]))
<1>1. PICK rank : Tree(k, rank) /\ Frames(k, s, rank)
  BY DEF Good
<1>2. Frames(k, Append(Front(s), [wnd |-> Last(s).wnd, msg |-> "WM_CREATE"]), rank)
  BY <1>1, FramesTurned
<1> QED
  BY <1>1, <1>2 DEF Good

LEMMA NamesSame ==
  ASSUME NEW k, NEW q, NEW r, r.classes = q.classes, NamesKept(k, q)
  PROVE  NamesKept(k, r)
<1>1. \A name, inst : Find(r, name, inst) = Find(q, name, inst)
  BY Zenon DEF Find
<1> QED
  BY <1>1, Zenon DEF NamesKept

\* A step that changes neither windows nor classes may come before or after.
LEMMA KeepsThen ==
  ASSUME NEW k, NEW q, NEW r, NEW s, Keeps(k, q, s), r.wnd = q.wnd, r.classes = q.classes
  PROVE  Keeps(k, r, s)
<1>1. NamesKept(k, q)
  BY Zenon DEF Keeps
<1>2. NamesKept(k, r)
  BY <1>1, NamesSame
<1>3. \A w, D : KeptIn(k, q, w, D) => KeptIn(k, r, w, D)
  BY Zenon DEF KeptIn
<1> QED
  BY <1>2, <1>3, Zenon DEF Keeps

LEMMA KeepsAfter ==
  ASSUME NEW k, NEW q, NEW r, NEW s, Keeps(q, r, s), q.wnd = k.wnd, q.classes = k.classes
  PROVE  Keeps(k, r, s)
<1>1. \A name, inst : Find(k, name, inst) = Find(q, name, inst)
  BY Zenon DEF Find
<1>2. NamesKept(k, r)
  BY <1>1, Zenon DEF NamesKept, Keeps
<1>3. \A w, D : KeptIn(q, r, w, D) => KeptIn(k, r, w, D)
  BY Zenon DEF KeptIn
<1> QED
  BY <1>2, <1>3, Zenon DEF Keeps

\* NtUserRegisterClassExWOW
LEMMA RegisterStep ==
  ASSUME IInv, NtUserRegisterClassExWOW
  PROVE  IInv' /\ Keeps(u, u', stack)
<1>1. Good(u, stack) /\ seen \subseteq AllHandles /\ stack' = stack /\ seen' = seen
  BY DEF IInv, NtUserRegisterClassExWOW
<1>2. SUFFICES Good(u', stack) /\ Keeps(u, u', stack)
  BY <1>1 DEF IInv
<1>3. CASE u' = u
  <2>1. NamesKept(u, u')
    BY <1>3 DEF NamesKept
  <2> QED
    BY <1>1, <1>3, <2>1, KeepsSame
<1>4. ASSUME NEW c, Fits(u, c), MayRegister(u, c), u' = Register(u, c)
      PROVE  Good(u', stack) /\ Keeps(u, u', stack)
  BY <1>1, <1>4, GoodRegister
<1>5. ASSUME NEW wc \in WndClasses, NEW a \in Atoms, RegisterByAtom(a, wc)
      PROVE  u' = u \/ \E c : Fits(u, c) /\ MayRegister(u, c) /\ u' = Register(u, c)
  <2> DEFINE c == NewClass(Synthetic(a), wc, a)
             f == FindByAtom(u, a)
  <2>1. \/ f = 0 /\ MayRegister(u, c) /\ u' = Register(u, c)
        \/ f # 0 /\ u' = u
    BY <1>5, Zenon DEF RegisterByAtom, RegisterAs
  <2>2. f = 0 => Fits(u, c)
    BY NewClassFits
  <2> QED
    BY <2>1, <2>2, Zenon
<1>6. ASSUME NEW wc \in WndClasses, NEW name \in Names, NEW r \in NameReads,
             RegisterByName(name, wc, r)
      PROVE  u' = u \/ \E c : Fits(u, c) /\ MayRegister(u, c) /\ u' = Register(u, c)
  <2>1. CASE r # 0
    <3>1. r \in Atoms /\ RegisterByAtom(r, wc)
      BY <1>6, <2>1, UserWindowsAssumption DEF RegisterByName
    <3> QED
      BY <1>5, <3>1
  <2>2. CASE r = 0
    <3> DEFINE c == NewClass(name, wc, 0)
               f == Find(u, name, wc.inst)
    <3>1. \/ f = 0 /\ MayRegister(u, c) /\ u' = Register(u, c)
          \/ f # 0 /\ u' = u
      BY <1>6, <2>2, Zenon DEF RegisterByName, RegisterAs
    <3>2. Fits(u, c)
      BY NewClassFits
    <3> QED
      BY <3>1, <3>2, Zenon
  <2> QED
    BY <2>1, <2>2
<1>7. u' = u \/ \E c : Fits(u, c) /\ MayRegister(u, c) /\ u' = Register(u, c)
  BY <1>5, <1>6, Zenon DEF NtUserRegisterClassExWOW, RegisterFails
<1> QED
  BY <1>3, <1>4, <1>7

\* q is what NtUserCreateWindowEx starts from, the desktop made first.
Begun(k, q) ==
  /\ q.desktop # Nothing /\ SameClasses(k, q)
  /\ k.desktop # Nothing => q = k
  /\ k.desktop = Nothing => LiveIn(k.wnd) = {}

LEMMA KeepsBegun ==
  ASSUME NEW k, NEW q, NEW r, NEW s, Begun(k, q), Keeps(q, r, s), SameClasses(q, r),
         k.classes \in Seq(ClsT), r.classes \in Seq(ClsT)
  PROVE  Keeps(k, r, s)
<1>1. CASE k.desktop # Nothing
  BY <1>1, Zenon DEF Begun
<1>2. CASE k.desktop = Nothing
  <2>1. SameClasses(k, r)
    BY SameClassesTwice DEF Begun
  <2>2. NamesKept(k, r)
    BY <2>1, SameNames
  <2> QED
    BY <1>2, <2>2, KeepsFirst DEF Begun
<1> QED
  BY <1>1, <1>2

\* The part of NtUserCreateWindowEx that makes the window and calls the guest.
LEMMA CreateWindowStep ==
  ASSUME NEW q, Good(q, stack), q.desktop # Nothing, q.created <= MaxCreates,
         seen \subseteq AllHandles, NEW w \in Wnds \ LiveIn(q.wnd),
         NEW c \in 0 .. Len(q.classes), NEW h \in AllHandles, CreateWindow(q, c, h, w)
  PROVE  Good(u', stack') /\ seen' \subseteq AllHandles /\ Keeps(q, u', stack) /\ SameClasses(q, u')
<1> DEFINE r == Created(q, w, c, h)
           f == [wnd |-> w, msg |-> "WM_NCCREATE"]
<1>1. AllocHandle(q.table) # NoHandle
  BY DEF CreateWindow
<1>2. \/ /\ CanCall(r, stack, w) /\ u' = Enter(r, w) /\ stack' = Append(stack, f)
         /\ seen' = seen \cup {r.wnd[w].hwnd}
      \/ Return(r, r.wnd[w].hwnd) /\ stack' = stack
  BY Zenon DEF CreateWindow
<1>3. r = Created(q, w, c, h)
  OBVIOUS
<1> HIDE DEF r
<1>4. /\ Good(r, stack) /\ Keeps(q, r, stack) /\ SameClasses(q, r)
      /\ Len(stack) < MaxDepth => Good(r, Append(stack, f))
  BY <1>1, <1>3, GoodCreated
<1>5. Shape(r) /\ r.wnd[w].hwnd \in AllHandles
  BY <1>4, GoodFacts
<1>6. CASE /\ CanCall(r, stack, w) /\ u' = Enter(r, w) /\ stack' = Append(stack, f)
           /\ seen' = seen \cup {r.wnd[w].hwnd}
  <2>1. Good(r, stack') /\ CacheOnly(r, u')
    BY <1>4, <1>5, <1>6, EnterOK DEF CanCall
  <2>2. Good(u', stack') /\ SameClasses(r, u') /\ u'.wnd = r.wnd
    BY <2>1, GoodCache
  <2>3. u'.classes = r.classes
    BY <2>1 DEF CacheOnly, SameSound
  <2>4. Keeps(q, u', stack)
    BY <1>4, <2>2, <2>3, KeepsThen
  <2>5. SameClasses(q, u')
    BY <1>4, <2>2, SameClassesTwice
  <2> QED
    BY <1>5, <1>6, <2>2, <2>4, <2>5
<1>7. CASE Return(r, r.wnd[w].hwnd) /\ stack' = stack
  <2>1. u' = r /\ seen' \subseteq AllHandles
    BY <1>5, <1>7 DEF Return
  <2> QED
    BY <1>4, <1>7, <2>1
<1> QED
  BY <1>2, <1>6, <1>7

\* NtUserCreateWindowEx
LEMMA CreateStep ==
  ASSUME IInv, NEW c \in ClassesAsked(u), NEW h \in seen \cup {NoHandle},
         NtUserCreateWindowEx(c, h)
  PROVE  IInv' /\ Keeps(u, u', stack)
<1>1. Good(u, stack) /\ seen \subseteq AllHandles
  BY DEF IInv
<1>2. /\ Shape(u) /\ u.classes \in Seq(ClsT) /\ u.wnd \in [Wnds -> WndT]
      /\ u.created \in Nat /\ MaxCreates \in Nat
  BY <1>1, GoodFacts
<1>3. h \in AllHandles /\ c \in 0 .. Len(u.classes)
  BY <1>1, <1>2, AskedIn, SlotFacts
<1>4. u.created < MaxCreates
  BY DEF NtUserCreateWindowEx
<1>5. PICK d \in Fresh(u), w \in Fresh(u) :
        /\ (u.desktop = Nothing) <=> d # w
        /\ LET k == WithDesktop(u, d)
           IN \/ CreateWindow(k, c, h, w)
              \/ CreateRefused(k)
              \/ CreateOutOfMemory(k, c, w)
              \/ DesktopRefused
  BY Zenon DEF NtUserCreateWindowEx
<1> DEFINE q == WithDesktop(u, d)
<1>6. d \in Wnds \ LiveIn(u.wnd) /\ w \in Wnds \ LiveIn(u.wnd)
  BY Zenon DEF Fresh, LiveIn
<1>7. \/ CreateWindow(q, c, h, w) \/ CreateRefused(q) \/ CreateOutOfMemory(q, c, w)
      \/ DesktopRefused
  BY <1>5, Zenon
<1>8. q = WithDesktop(u, d)
  OBVIOUS
<1> HIDE DEF q
<1>9. /\ Good(q, stack) /\ q.desktop # Nothing /\ SameClasses(u, q) /\ q.created <= MaxCreates
      /\ u.desktop # Nothing => q = u
      /\ u.desktop = Nothing => LiveIn(u.wnd) = {} /\ LiveIn(q.wnd) = {d}
  BY <1>1, <1>4, <1>6, <1>8, GoodDesktop
<1>10. w \notin LiveIn(q.wnd) /\ w \in Wnds
  BY <1>5, <1>6, <1>9
<1>11. Begun(u, q)
  BY <1>9 DEF Begun
<1>12. c \in 0 .. Len(q.classes)
  BY <1>3, <1>9 DEF SameClasses
<1>13. ASSUME Good(u', stack'), seen' \subseteq AllHandles, Keeps(q, u', stack), SameClasses(q, u')
       PROVE  IInv' /\ Keeps(u, u', stack)
  <2>1. u'.classes \in Seq(ClsT)
    BY <1>13, GoodFacts
  <2>2. Keeps(u, u', stack)
    BY <1>2, <1>11, <1>13, <2>1, KeepsBegun
  <2> QED
    BY <1>13, <2>2 DEF IInv
<1>14. CASE CreateWindow(q, c, h, w)
  <2>1. Good(u', stack') /\ seen' \subseteq AllHandles /\ Keeps(q, u', stack) /\ SameClasses(q, u')
    BY <1>1, <1>3, <1>9, <1>10, <1>12, <1>14, CreateWindowStep
  <2> QED
    BY <1>13, <2>1
<1>15. CASE CreateRefused(q)
  <2>1. u' = q /\ stack' = stack /\ seen' = seen
    BY <1>15, Zenon DEF CreateRefused, Return
  <2>2. SameClasses(q, q) /\ NamesKept(q, q)
    BY Zenon DEF SameClasses, NamesKept
  <2>3. Keeps(q, q, stack)
    BY <2>2, KeepsSame
  <2> QED
    BY <1>1, <1>9, <1>13, <2>1, <2>2, <2>3
<1>16. CASE CreateOutOfMemory(q, c, w)
  <2>1. /\ AllocHandle(q.table) # NoHandle
        /\ u' = FailedFill(q, w) /\ stack' = stack /\ seen' = seen
    BY <1>16, Zenon DEF CreateOutOfMemory, Return
  <2>2. Good(u', stack) /\ Keeps(q, u', stack) /\ SameClasses(q, u')
    BY <1>9, <1>10, <2>1, GoodFailed
  <2> QED
    BY <1>1, <1>13, <2>1, <2>2
<1>17. CASE DesktopRefused
  <2>1. u' = u /\ stack' = stack /\ seen' = seen
    BY <1>17, Zenon DEF DesktopRefused, Return
  <2>2. NamesKept(u, u)
    BY Zenon DEF NamesKept
  <2>3. Keeps(u, u', stack)
    BY <2>1, <2>2, KeepsSame
  <2> QED
    BY <1>1, <2>1, <2>3 DEF IInv
<1> QED
  BY <1>7, <1>14, <1>15, <1>16, <1>17

\* WM_NCCREATE has returned.
LEMMA NcCreateReturnsStep ==
  ASSUME IInv, NcCreateReturns
  PROVE  IInv' /\ Keeps(u, u', stack)
<1> DEFINE w == Last(stack).wnd
<1>1. /\ Good(u, stack) /\ seen \subseteq AllHandles /\ stack # <<>> /\ seen' = seen
      /\ u' = Enter(Leave(u, w), w)
      /\ stack' = Append(Front(stack), [wnd |-> w, msg |-> "WM_CREATE"])
  BY DEF IInv, NcCreateReturns
<1>2. Shape(u)
  BY <1>1, GoodFacts
<1>3. CacheOnly(u, Leave(u, w))
  BY <1>2, LeaveOK
<1>4. Shape(Leave(u, w)) /\ Good(Leave(u, w), stack)
  BY <1>1, <1>3, GoodCache DEF CacheOnly
<1>5. CacheOnly(Leave(u, w), u')
  BY <1>1, <1>4, EnterOK
<1>6. Good(u', stack)
  BY <1>4, <1>5, GoodCache
<1>7. Good(u', stack')
  BY <1>1, <1>6, GoodTurned
<1>8. u'.wnd = u.wnd /\ u'.classes = u.classes
  BY <1>3, <1>5 DEF CacheOnly, SameSound
<1>9. NamesKept(u, u')
  <2>1. NamesKept(u, u)
    BY Zenon DEF NamesKept
  <2> QED
    BY <1>8, <2>1, NamesSame
<1>10. Keeps(u, u', stack)
  BY <1>8, <1>9, KeepsSame
<1> QED
  BY <1>1, <1>7, <1>10 DEF IInv

\* WM_CREATE has returned.
LEMMA CreateReturnsStep ==
  ASSUME IInv, NEW fails \in BOOLEAN, CreateReturns(fails)
  PROVE  IInv' /\ Keeps(u, u', stack)
<1> DEFINE w == Last(stack).wnd
           k == Leave(u, w)
<1>1. /\ Good(u, stack) /\ seen \subseteq AllHandles /\ stack # <<>> /\ stack' = Front(stack)
      /\ IF fails THEN Return(Destroy(k, w), NoHandle) ELSE Return(k, k.wnd[w].hwnd)
  BY DEF IInv, CreateReturns
<1>2. Shape(u)
  BY <1>1, GoodFacts
<1>3. CacheOnly(u, k)
  BY <1>2, LeaveOK
<1> HIDE DEF k
<1>4. Good(k, stack) /\ k.wnd = u.wnd /\ k.classes = u.classes /\ NamesKept(u, k)
  BY <1>1, <1>3, GoodCache DEF CacheOnly, SameSound
<1>5. CASE fails
  <2>1. u' = Destroy(k, w) /\ seen' = seen
    BY <1>1, <1>5, Zenon DEF Return
  <2>2. Good(u', stack') /\ Keeps(k, u', stack)
    BY <1>1, <1>4, <2>1, GoodDestroyed
  <2>3. Keeps(u, u', stack)
    BY <1>4, <2>2, KeepsAfter
  <2> QED
    BY <1>1, <2>1, <2>2, <2>3 DEF IInv
<1>6. CASE ~ fails
  <2>1. u' = k /\ seen' \in {seen, seen \cup {k.wnd[w].hwnd}}
    BY <1>1, <1>6, Zenon DEF Return
  <2>2. Good(u', stack')
    BY <1>1, <1>4, <2>1, GoodPopped
  <2>3. Keeps(u, u', stack)
    BY <1>4, <2>1, KeepsSame
  <2>4. w \in Wnds
    <3>1. stack \in Seq(FrameT)
      BY <1>1, GoodFacts
    <3>2. stack[Len(stack)] \in FrameT
      BY <1>1, <3>1
    <3> QED
      BY <3>2 DEF Last, FrameT
  <2>5. k.wnd[w].hwnd \in AllHandles
    BY <1>4, <2>4, GoodFacts
  <2> QED
    BY <1>1, <2>1, <2>2, <2>3, <2>5 DEF IInv
<1> QED
  BY <1>5, <1>6

(***************************************************************************)
(* The invariant is inductive.                                             *)
(***************************************************************************)

LEMMA InitIInv ==
  ASSUME Init
  PROVE  IInv
<1>1. AtStart(u) /\ stack = <<>> /\ seen = {}
  BY DEF Init, AtStart, Globals, SystemNames
<1> DEFINE rank == [w \in Wnds |-> 0]
<1>2. Sound(u) /\ LiveIn(u.wnd) = {} /\ Tree(u, rank)
  BY <1>1, StartOK
<1> HIDE DEF rank
<1>3. u.created = 0
  BY <1>1 DEF AtStart, Globals
<1>4. Counts(u)
  <2>1. 0 <= MaxCreates + 1
    BY UserWindowsAssumption
  <2> QED
    BY <1>2, <1>3, <2>1, FS_EmptySet DEF Counts
<1>5. Frames(u, stack, rank)
  <2>1. MaxDepth \in Nat
    BY UserWindowsAssumption
  <2>2. stack \in Seq(FrameT) /\ Len(stack) = 0
    BY <1>1
  <2> QED
    BY <2>1, <2>2 DEF Frames
<1> QED
  BY <1>1, <1>2, <1>4, <1>5 DEF IInv, Good

LEMMA NextIInv ==
  ASSUME IInv, [Next]_vars
  PROVE  IInv' /\ Keeps(u, u', stack)
<1>1. CASE Next
  BY <1>1, RegisterStep, CreateStep, NcCreateReturnsStep, CreateReturnsStep DEF Next
<1>2. CASE UNCHANGED vars
  <2>1. u' = u /\ stack' = stack /\ seen' = seen
    BY <1>2 DEF vars
  <2>2. NamesKept(u, u')
    BY <2>1, Zenon DEF NamesKept
  <2>3. Keeps(u, u', stack)
    BY <2>1, <2>2, KeepsSame
  <2> QED
    BY <2>1, <2>3 DEF IInv
<1> QED
  BY <1>1, <1>2

LEMMA SpecIInv == Spec => []IInv
<1>1. IInv /\ [Next]_vars => IInv'
  BY NextIInv
<1> QED
  BY InitIInv, <1>1, PTL DEF Spec

(***************************************************************************)
(* What it implies.                                                        *)
(***************************************************************************)

LEMMA LeastOf ==
  ASSUME NEW S, S \subseteq Nat, S # {}
  PROVE  \E x \in S : \A y \in S : x <= y
<1> DEFINE R == OpToRel(<, Nat)
<1>1. IsWellFoundedOn(R, Nat)
  BY NatLessThanWellFounded
<1>2. PICK x \in S : \A y \in S : <<y, x>> \notin R
  <2> HIDE DEF R
  <2> QED
    BY <1>1, WFMin
<1>3. \A y \in S : ~ (y < x)
  BY <1>2 DEF OpToRel
<1>4. \A y \in S : x \in Nat /\ y \in Nat
  BY <1>2
<1>5. \A y \in S : x <= y
  BY <1>3, <1>4
<1> QED
  BY <1>5

LEMMA LiveIs ==
  Live(u) = LiveIn(u.wnd)
BY DEF Live, LiveIn

LEMMA TypesHold ==
  ASSUME IInv
  PROVE  TypeOK
<1>1. /\ Good(u, stack) /\ seen \subseteq AllHandles /\ Sound(u) /\ Shape(u)
      /\ u.created \in Nat /\ MaxCreates \in Nat /\ Counts(u)
  BY GoodFacts DEF IInv
<1>2. PICK rank : Tree(u, rank) /\ Frames(u, stack, rank)
  BY <1>1 DEF Good
<1>3. ASSUME NEW w \in Live(u)
      PROVE  /\ u.wnd[w].hwnd \in AllHandles \ {NoHandle}
             /\ u.wnd[w].cls \in 0 .. Len(u.classes)
             /\ u.wnd[w].va \in 0 .. Len(u.heap)
             /\ \A l \in Links : u.wnd[w][l] \in Live(u) \cup {Nothing}
  <2>1. w \in LiveIn(u.wnd)
    BY <1>3, LiveIs
  <2>2. u.wnd[w].hwnd \in AllHandles \ {NoHandle}
    BY <1>1, <2>1, HandlesFind DEF Sound
  <2>3. u.wnd[w].cls \in 0 .. Len(u.classes) /\ u.wnd[w].va \in 0 .. Len(u.heap)
    BY <1>1, <2>1 DEF Sound, RefsOK, CopiesOK
  <2>4. /\ u.wnd[w].parent \in Live(u) \cup {Nothing} /\ u.wnd[w].next \in Live(u) \cup {Nothing}
        /\ u.wnd[w].prev \in Live(u) \cup {Nothing} /\ u.wnd[w].child \in Live(u) \cup {Nothing}
    BY <1>2, <2>1, LiveIs DEF Tree, LinksIn
  <2>5. \A l \in Links : u.wnd[w][l] \in Live(u) \cup {Nothing}
    BY <2>4 DEF Links
  <2> QED
    BY <2>2, <2>3, <2>5
<1>4. ASSUME NEW i \in DOMAIN u.classes
      PROVE  u.classes[i].refs \in 0 .. (MaxCreates + 1) /\ u.classes[i].atom \in Atoms
  <2>1. u.classes \in Seq(ClsT) /\ i \in 1 .. Len(u.classes)
    BY <1>1, <1>4 DEF Shape
  <2>2. u.classes[i] \in ClsT
    BY <2>1
  <2>3. u.classes[i].refs = Cardinality(WindowsOf(u, i))
    BY <1>1, <2>1 DEF Sound, RefsOK
  <2>4. WindowsOf(u, i) \subseteq LiveIn(u.wnd)
    BY DEF WindowsOf
  <2>5. IsFiniteSet(LiveIn(u.wnd)) /\ Cardinality(LiveIn(u.wnd)) \in Nat
    BY WindowsFinite
  <2>6. Cardinality(WindowsOf(u, i)) <= Cardinality(LiveIn(u.wnd))
    BY <2>4, <2>5, FS_Subset
  <2>7. u.classes[i].refs \in Nat /\ u.classes[i].atom \in Atoms
    BY <2>2 DEF ClsT
  <2>8. Cardinality(LiveIn(u.wnd)) <= u.created /\ u.created <= MaxCreates + 1
    BY <1>1 DEF Counts
  <2> QED
    BY <1>1, <2>3, <2>5, <2>6, <2>7, <2>8
<1>5. Len(u.heap) <= HeapSize /\ Len(stack) <= MaxDepth
  BY <1>1, <1>2 DEF Shape, Frames
<1> QED
  BY <1>1, <1>3, <1>4, <1>5 DEF TypeOK

LEMMA TreeHolds ==
  ASSUME IInv
  PROVE  TreeSound
<1>1. PICK rank : Tree(u, rank)
  BY DEF IInv, Good
<1>2. LinksIn(u.wnd, Roots(u)) /\ Ranked(u.wnd, rank, u.created)
  BY <1>1 DEF Tree
<1>3. ASSUME NEW w \in Live(u)
      PROVE  Agrees(w)
  <2>1. w \in LiveIn(u.wnd) /\ w # Nothing
    BY <1>3, LiveIs, UserWindowsAssumption DEF LiveIn
  <2>2. w \in Roots(u) <=> w = u.desktop
    BY <2>1 DEF Roots
  <2> DEFINE me == u.wnd[w]
  <2>3. {me.parent, me.next, me.prev, me.child} \subseteq Live(u) \cup {Nothing}
    BY <1>2, <2>1, LiveIs DEF LinksIn
  <2>4. me.parent = Nothing <=> w = u.desktop
    BY <1>2, <2>1, <2>2, Zenon DEF LinksIn
  <2>5. /\ me.next # Nothing => u.wnd[me.next].prev = w /\ u.wnd[me.next].parent = me.parent
        /\ me.prev # Nothing => u.wnd[me.prev].next = w
        /\ me.child # Nothing => u.wnd[me.child].parent = w /\ u.wnd[me.child].prev = Nothing
    BY <1>2, <2>1, Zenon DEF LinksIn
  <2>6. me.prev = Nothing /\ me.parent # Nothing => u.wnd[me.parent].child = w
    BY <1>2, <2>1, Zenon DEF LinksIn
  <2> QED
    BY <2>3, <2>4, <2>5, <2>6, Zenon DEF Agrees
<1>4. ASSUME NEW ring \in SUBSET Live(u), ring # {}
      PROVE  \E w \in ring : u.wnd[w].parent \notin ring /\ u.wnd[w].next \notin ring
  <2> DEFINE S == {rank[w] : w \in ring}
  <2>1. \A w \in ring : w \in LiveIn(u.wnd) /\ w \in Wnds /\ w # Nothing
    BY <1>4, LiveIs, UserWindowsAssumption DEF LiveIn
  <2>2. rank \in [Wnds -> Nat]
    BY <1>2 DEF Ranked
  <2>3. S \subseteq Nat /\ S # {}
    BY <1>4, <2>1, <2>2
  <2>4. PICK n \in S : \A y \in S : n <= y
    BY <2>3, LeastOf
  <2>5. PICK w \in ring : rank[w] = n
    BY <2>4
  <2>6. \A x \in ring : rank[w] <= rank[x] /\ rank[x] \in Nat /\ rank[w] \in Nat
    BY <2>1, <2>2, <2>4, <2>5
  <2>7. \A x \in ring : ~ (rank[x] < rank[w])
    BY <2>6
  <2>8. /\ u.wnd[w].parent # Nothing => rank[u.wnd[w].parent] < rank[w]
        /\ u.wnd[w].next # Nothing => rank[u.wnd[w].next] < rank[w]
    BY <1>2, <2>1, <2>5 DEF Ranked
  <2> QED
    BY <2>1, <2>5, <2>7, <2>8, Zenon
<1> QED
  BY <1>3, <1>4 DEF TreeSound

LEMMA FramesHold ==
  ASSUME IInv
  PROVE  FramesAlive
<1>1. PICK rank : Tree(u, rank) /\ Frames(u, stack, rank)
  BY DEF IInv, Good
<1>2. /\ stack \in Seq(FrameT) /\ DOMAIN stack = 1 .. Len(stack) /\ Len(stack) \in Nat
      /\ \A i \in 1 .. Len(stack) : stack[i].wnd \in LiveIn(u.wnd)
      /\ \A i, j \in 1 .. Len(stack) : i < j => rank[stack[i].wnd] < rank[stack[j].wnd]
  BY <1>1 DEF Frames
<1>3. \A i \in 1 .. Len(stack) : rank[stack[i].wnd] \in Nat
  BY <1>1, <1>2 DEF Tree, Ranked, LiveIn
<1>4. ASSUME NEW i \in 1 .. Len(stack), NEW j \in 1 .. Len(stack), stack[i].wnd = stack[j].wnd
      PROVE  i = j
  <2>1. ~ (i < j) /\ ~ (j < i)
    BY <1>2, <1>3, <1>4
  <2> QED
    BY <1>2, <2>1
<1> QED
  BY <1>2, <1>4, LiveIs DEF FramesAlive

LEMMA RecordsHold ==
  ASSUME IInv
  PROVE  RecordsExact
<1>1. Sound(u) /\ TableOK(u.table, u.wnd) /\ seen \subseteq AllHandles /\ Good(u, stack)
  BY DEF IInv, Good, Sound
<1>2. /\ \A w \in LiveIn(u.wnd) : GetTyped(u.table, u.wnd[w].hwnd, "WINDOW") = w
      /\ \A h \in AllHandles : GetTyped(u.table, h, "WINDOW") \in LiveIn(u.wnd) \cup {Nothing}
  BY <1>1, HandlesFind
<1>3. u.table.count = Cardinality(LiveIn(u.wnd)) + 1
  BY <1>1 DEF TableOK, Holds
<1>4. u.desktop \in LiveIn(u.wnd) \cup {Nothing}
  BY <1>1, GoodFacts
<1>5. \A h \in seen : FromHwnd(u, h) \in LiveIn(u.wnd) \cup {Nothing}
  BY <1>1, <1>2, <1>4 DEF FromHwnd
<1>6. HandlesNameWindows
  BY <1>2, <1>3, <1>5, LiveIs DEF HandlesNameWindows
<1>7. RefsExact
  <2>1. DOMAIN u.classes = 1 .. Len(u.classes)
    BY <1>1 DEF Sound, Shape
  <2>2. \A c : WindowsOf(u, c) = {w \in Live(u) : u.wnd[w].cls = c}
    BY LiveIs DEF WindowsOf
  <2>3. \A c \in 1 .. Len(u.classes) : u.classes[c].refs = Cardinality(WindowsOf(u, c))
    BY <1>1 DEF Sound, RefsOK
  <2> QED
    BY <2>1, <2>2, <2>3 DEF RefsExact
<1>8. ClassesSound(u)
  BY <1>1 DEF Sound, ClassesOK
<1> QED
  BY <1>6, <1>7, <1>8 DEF RecordsExact

LEMMA MirrorHolds ==
  ASSUME IInv
  PROVE  MirrorSound
<1>1. Sound(u) /\ Shape(u) /\ CopiesOK(u) /\ LinksBut(u, {})
  BY DEF IInv, Good, Sound
<1>2. u.heap \in Seq(CellT) /\ DOMAIN u.heap = 1 .. Len(u.heap) /\ u.classes \in Seq(ClsT)
      /\ DOMAIN u.classes = 1 .. Len(u.classes) /\ Len(u.heap) \in Nat
  BY <1>1 DEF Shape
<1>3. ASSUME NEW w \in Live(u), u.wnd[w].va # 0
      PROVE  /\ u.heap[u.wnd[w].va] = WndCopy(w)
             /\ u.entry[u.wnd[w].hwnd.index] = [va |-> u.wnd[w].va, gen |-> u.wnd[w].hwnd.gen]
  <2> DEFINE me == u.wnd[w]
             cell == u.heap[me.va]
  <2>1. w \in LiveIn(u.wnd) /\ me.va \in 1 .. Len(u.heap)
    BY <1>1, <1>2, <1>3, LiveIs DEF CopiesOK
  <2>2. CopyOf(u, w, me.va) /\ LinksCopied(u, w)
    BY <1>1, <1>3, <2>1 DEF CopiesOK, LinksBut
  <2>3. cell \in CellT
    BY <1>2, <2>1
  <2>4. /\ cell.h = me.hwnd /\ cell.pcls = ClassVa(u, me.cls) /\ cell.atom = 0
        /\ cell.next = Va(u, me.next) /\ cell.prev = Va(u, me.prev)
        /\ cell.parent = Va(u, me.parent) /\ cell.child = Va(u, me.child)
    BY <2>2 DEF CopyOf, LinksCopied
  <2>5. cell = [h |-> cell.h, next |-> cell.next, prev |-> cell.prev, parent |-> cell.parent,
                child |-> cell.child, pcls |-> cell.pcls, atom |-> cell.atom]
    BY <2>3 DEF CellT
  <2>6. WndCopy(w) =
          [h |-> me.hwnd, next |-> Va(u, me.next), prev |-> Va(u, me.prev),
           parent |-> Va(u, me.parent), child |-> Va(u, me.child),
           pcls |-> ClassVa(u, me.cls), atom |-> 0]
    <3> DEFINE a == me.hwnd  b == Va(u, me.next)  c == Va(u, me.prev)
               d == Va(u, me.parent)  e == Va(u, me.child)  f == ClassVa(u, me.cls)
    <3>1. WndCopy(w) = [NoCell EXCEPT !.h = a, !.next = b, !.prev = c, !.parent = d,
                                      !.child = e, !.pcls = f]
      BY DEF WndCopy, ClassVa
    <3> HIDE DEF a, b, c, d, e, f
    <3>2. WndCopy(w) = [h |-> a, next |-> b, prev |-> c, parent |-> d, child |-> e,
                        pcls |-> f, atom |-> 0]
      BY <3>1 DEF NoCell
    <3> QED
      BY <3>2 DEF a, b, c, d, e, f
  <2>7. cell = WndCopy(w)
    BY <2>4, <2>5, <2>6
  <2>8. u.entry[me.hwnd.index] = [va |-> me.va, gen |-> me.hwnd.gen]
    BY <2>2 DEF CopyOf
  <2> QED
    BY <2>7, <2>8
<1>4. ASSUME NEW c \in DOMAIN u.classes, u.classes[c].va # 0
      PROVE  u.heap[u.classes[c].va] = ClsCopy(c)
  <2>1. u.heap[u.classes[c].va] = GuestClass(u.classes[c])
    BY <1>1, <1>2, <1>4 DEF CopiesOK
  <2> QED
    BY <2>1 DEF GuestClass, ClsCopy
<1>5. ASSUME NEW a \in DOMAIN u.heap, u.heap[a].h # NoHandle
      PROVE  \E w \in Live(u) : u.wnd[w].va = a
  BY <1>1, <1>2, <1>5, LiveIs DEF CopiesOK
<1> QED
  BY <1>3, <1>4, <1>5 DEF MirrorSound

---------------------------------------------------------------------------
(* The walks of WindowQueries over the windows there are.                  *)

ParentOf(w) == u.wnd[w].parent
ChildOf(w) == u.wnd[w].child
NextOf(w) == u.wnd[w].next
PrevOf(w) == u.wnd[w].prev
Nodes == Live(u) \cup {Nothing}

\* The windows are one finite tree.
Tidy ==
  /\ IsFiniteSet(Live(u)) /\ Nothing \notin Live(u) /\ u.desktop \in Nodes
  /\ \A w \in Live(u) :
       /\ ParentOf(w) \in Nodes /\ ChildOf(w) \in Nodes /\ NextOf(w) \in Nodes /\ PrevOf(w) \in Nodes
       /\ ParentOf(w) = Nothing <=> w = u.desktop
       /\ NextOf(w) # Nothing => PrevOf(NextOf(w)) = w /\ ParentOf(NextOf(w)) = ParentOf(w)
       /\ PrevOf(w) # Nothing => NextOf(PrevOf(w)) = w
       /\ PrevOf(w) = Nothing /\ ParentOf(w) # Nothing => ChildOf(ParentOf(w)) = w
       /\ ChildOf(w) # Nothing => ParentOf(ChildOf(w)) = w
  /\ \A ring \in SUBSET Live(u) : ring # {} =>
       \E w \in ring : ParentOf(w) \notin ring /\ NextOf(w) \notin ring

LEMMA TidyHolds ==
  ASSUME TreeSound, u.desktop \in Nodes
  PROVE  Tidy
<1>1. IsFiniteSet(Live(u)) /\ Nothing \notin Live(u)
  <2>1. IsFiniteSet(Wnds) /\ Nothing \notin Wnds
    BY UserWindowsAssumption
  <2>2. Live(u) \subseteq Wnds
    BY DEF Live
  <2> QED BY <2>1, <2>2, FS_Subset
<1>2. ASSUME NEW w \in Live(u)
      PROVE  /\ ParentOf(w) \in Nodes /\ ChildOf(w) \in Nodes /\ NextOf(w) \in Nodes /\ PrevOf(w) \in Nodes
             /\ ParentOf(w) = Nothing <=> w = u.desktop
             /\ NextOf(w) # Nothing => PrevOf(NextOf(w)) = w /\ ParentOf(NextOf(w)) = ParentOf(w)
             /\ PrevOf(w) # Nothing => NextOf(PrevOf(w)) = w
             /\ PrevOf(w) = Nothing /\ ParentOf(w) # Nothing => ChildOf(ParentOf(w)) = w
             /\ ChildOf(w) # Nothing => ParentOf(ChildOf(w)) = w
  <2>1. Agrees(w)
    BY <1>2 DEF TreeSound
  <2> HIDE DEF TreeSound
  <2> QED BY <2>1 DEF Agrees, ParentOf, ChildOf, NextOf, PrevOf, Nodes
<1>3. \A ring \in SUBSET Live(u) : ring # {} =>
        \E w \in ring : ParentOf(w) \notin ring /\ NextOf(w) \notin ring
  BY DEF TreeSound, ParentOf, NextOf
<1> QED BY <1>1, <1>2, <1>3 DEF Tidy

\* Every window, if what holds of the parent and of the next sibling of a
\* window holds of the window.
LEMMA TreeInduct ==
  ASSUME Tidy, NEW S,
         \A w \in Live(u) : ParentOf(w) \in S \cup {Nothing} /\ NextOf(w) \in S \cup {Nothing}
                              => w \in S
  PROVE  Live(u) \subseteq S
<1> DEFINE ring == Live(u) \ S
<1>1. SUFFICES ASSUME ring # {} PROVE FALSE
  OBVIOUS
<1>2. PICK w \in ring : ParentOf(w) \notin ring /\ NextOf(w) \notin ring
  BY <1>1 DEF Tidy
<1>3. w \in Live(u) /\ ParentOf(w) \in Nodes /\ NextOf(w) \in Nodes
  BY DEF Tidy
<1> QED BY <1>2, <1>3 DEF Nodes

\* The desktop has no siblings; siblings share a parent that is there.
LEMMA TreeFacts ==
  ASSUME Tidy
  PROVE  \A w \in Live(u) :
           /\ w # Nothing
           /\ w # u.desktop => ParentOf(w) \in Live(u)
           /\ w = u.desktop => NextOf(w) = Nothing /\ PrevOf(w) = Nothing /\ ParentOf(w) = Nothing
           /\ NextOf(w) # Nothing => NextOf(w) \in Live(u) \ {u.desktop}
           /\ ChildOf(w) # Nothing => ChildOf(w) \in Live(u) \ {u.desktop}
           /\ PrevOf(w) # Nothing => PrevOf(w) \in Live(u) /\ ParentOf(PrevOf(w)) = ParentOf(w)
<1> SUFFICES ASSUME NEW w \in Live(u)
             PROVE  /\ w # Nothing
                    /\ w # u.desktop => ParentOf(w) \in Live(u)
                    /\ w = u.desktop => NextOf(w) = Nothing /\ PrevOf(w) = Nothing /\ ParentOf(w) = Nothing
                    /\ NextOf(w) # Nothing => NextOf(w) \in Live(u) \ {u.desktop}
                    /\ ChildOf(w) # Nothing => ChildOf(w) \in Live(u) \ {u.desktop}
                    /\ PrevOf(w) # Nothing => PrevOf(w) \in Live(u) /\ ParentOf(PrevOf(w)) = ParentOf(w)
  OBVIOUS
<1>1. w # Nothing /\ (w # u.desktop => ParentOf(w) \in Live(u))
  BY DEF Tidy, Nodes
<1>2. \A x \in Live(u) : NextOf(x) # x
  <2>1. SUFFICES ASSUME NEW x \in Live(u), NextOf(x) = x PROVE FALSE
    OBVIOUS
  <2>2. {x} \in SUBSET Live(u) /\ {x} # {}
    OBVIOUS
  <2>3. \E y \in {x} : ParentOf(y) \notin {x} /\ NextOf(y) \notin {x}
    BY <2>2 DEF Tidy
  <2> QED BY <2>1, <2>3
<1>3. PrevOf(w) # Nothing => /\ PrevOf(w) \in Live(u) /\ NextOf(PrevOf(w)) = w
                           /\ ParentOf(PrevOf(w)) = ParentOf(w)
  BY <1>1 DEF Tidy, Nodes
<1>4. NextOf(w) # Nothing => NextOf(w) \in Live(u) /\ ParentOf(NextOf(w)) = ParentOf(w)
  BY DEF Tidy, Nodes
<1>5. ChildOf(w) # Nothing => ChildOf(w) \in Live(u) /\ ParentOf(ChildOf(w)) = w
  BY DEF Tidy, Nodes
<1>6. \A x \in Live(u) : ParentOf(x) = Nothing <=> x = u.desktop
  BY DEF Tidy
<1>7. w = u.desktop => NextOf(w) = Nothing /\ PrevOf(w) = Nothing /\ ParentOf(w) = Nothing
  BY <1>2, <1>3, <1>4, <1>6
<1>8. NextOf(w) # Nothing => NextOf(w) # u.desktop
  BY <1>2, <1>4, <1>6
<1>9. ChildOf(w) # Nothing => ChildOf(w) # u.desktop
  BY <1>1, <1>5, <1>6
<1> QED BY <1>1, <1>3, <1>4, <1>5, <1>7, <1>8, <1>9

\* E leads from v, but not on from T, to the elements of Reach.
Reach(D, E, T, v) ==
  {x \in D : \A C \in SUBSET D :
               v \in C /\ (\A y \in C \ T : E[y] \in C) => x \in C}

LEMMA ReachStep ==
  ASSUME NEW D, NEW T, NEW E \in [D -> D], NEW v \in D
  PROVE  Reach(D, E, T, v) = {v} \cup IF v \in T THEN {} ELSE Reach(D, E, T, E[v])
<1> DEFINE rest == IF v \in T THEN {} ELSE Reach(D, E, T, E[v])
           all == {v} \cup rest
<1>1. all \subseteq D
  BY DEF Reach
<1>2. Reach(D, E, T, v) \subseteq all
  <2>1. \A y \in all \ T : E[y] \in all
    <3>1. SUFFICES ASSUME NEW y \in all \ T PROVE E[y] \in all
      OBVIOUS
    <3>2. CASE y = v
      <4>1. E[v] \in D /\ E[v] \in Reach(D, E, T, E[v])
        BY DEF Reach
      <4> QED BY <3>1, <3>2, <4>1
    <3>3. CASE y # v
      <4>1. v \notin T /\ y \in Reach(D, E, T, E[v]) /\ y \in D
        BY <3>1, <3>3, <1>1
      <4>2. E[y] \in Reach(D, E, T, E[v])
        BY <3>1, <4>1 DEF Reach
      <4> QED BY <4>1, <4>2
    <3> QED BY <3>2, <3>3
  <2> HIDE DEF rest
  <2> QED BY <1>1, <2>1 DEF Reach
<1>3. v \in Reach(D, E, T, v)
  BY DEF Reach
<1>4. ASSUME v \notin T, NEW x \in Reach(D, E, T, E[v]) PROVE x \in Reach(D, E, T, v)
  <2>1. x \in D
    BY <1>4 DEF Reach
  <2>2. ASSUME NEW C \in SUBSET D, v \in C, \A y \in C \ T : E[y] \in C PROVE x \in C
    <3>1. E[v] \in C
      BY <1>4, <2>2
    <3> QED BY <1>4, <2>2, <3>1 DEF Reach
  <2> QED BY <2>1, <2>2 DEF Reach
<1> QED BY <1>2, <1>3, <1>4

(***************************************************************************)
(* The siblings that come later.                                           *)
(***************************************************************************)
LEMMA LaterIs ==
  ASSUME Tidy
  PROVE  \A w \in Live(u) : Later(u, w) = IF NextOf(w) = Nothing THEN {}
                                          ELSE {NextOf(w)} \cup Later(u, NextOf(w))
<1> DEFINE E == [x \in Nodes |-> IF x = Nothing THEN Nothing ELSE NextOf(x)]
           T == {Nothing}
           Is(f) == f = [x \in Live(u) \cup {Nothing} |->
                           IF x = Nothing THEN {} ELSE {x} \cup f[u.wnd[x].next]]
           later == CHOOSE f : Is(f)
           g == [x \in Nodes |-> Reach(Nodes, E, T, x) \ {Nothing}]
<1>1. \A w \in Live(u) : NextOf(w) \in Nodes /\ w # Nothing
  BY DEF Tidy, Nodes
<1>2. E \in [Nodes -> Nodes]
  BY <1>1 DEF Nodes
<1>3. Is(g)
  <2>1. ASSUME NEW x \in Nodes
        PROVE  g[x] = IF x = Nothing THEN {} ELSE {x} \cup g[NextOf(x)]
    <3>1. Reach(Nodes, E, T, x) = {x} \cup IF x \in T THEN {} ELSE Reach(Nodes, E, T, E[x])
      <4> HIDE DEF E, T
      <4> QED BY <1>2, <2>1, ReachStep
    <3>2. x # Nothing => E[x] = NextOf(x) /\ NextOf(x) \in Nodes
      BY <1>1, <2>1 DEF Nodes
    <3>3. \A y \in Nodes : g[y] = Reach(Nodes, E, T, y) \ {Nothing}
      OBVIOUS
    <3>4. x \in T <=> x = Nothing
      OBVIOUS
    <3> HIDE DEF E, T, g
    <3> QED BY <2>1, <3>1, <3>2, <3>3, <3>4
  <2>2. g = [x \in Nodes |-> g[x]]
    OBVIOUS
  <2> HIDE DEF g
  <2> QED BY <2>1, <2>2 DEF Nodes, NextOf
<1>4. Is(later)
  <2> HIDE DEF Is
  <2> QED BY <1>3
<1>5. \A w : Later(u, w) = later[NextOf(w)]
  BY Zenon DEF Later, NextOf
<1>6. \A x \in Nodes : later[x] = IF x = Nothing THEN {} ELSE {x} \cup later[NextOf(x)]
  <2> HIDE DEF later
  <2> QED BY <1>4 DEF Nodes, NextOf
<1> HIDE DEF later, Is
<1> QED BY <1>1, <1>5, <1>6 DEF Nodes

\* The list from w on.
ListOf(w) == IF w = Nothing THEN {} ELSE {w} \cup Later(u, w)

LEMMA ListIs ==
  ASSUME Tidy
  PROVE  \A w \in Live(u) : /\ Later(u, w) = ListOf(NextOf(w))
                            /\ ListOf(w) = {w} \cup ListOf(NextOf(w))
BY LaterIs, TreeFacts DEF ListOf

\* The later siblings of a window, and of those.
LEMMA LaterSiblings ==
  ASSUME Tidy
  PROVE  \A w \in Live(u) : \A y \in Later(u, w) :
           /\ y \in Live(u) \ {u.desktop} /\ ParentOf(y) = ParentOf(w)
           /\ ListOf(y) \subseteq Later(u, w)
<1> DEFINE OK(w) == \A y \in Later(u, w) :
                      /\ y \in Live(u) \ {u.desktop} /\ ParentOf(y) = ParentOf(w)
                      /\ ListOf(y) \subseteq Later(u, w)
           S == {w \in Live(u) : OK(w)}
<1>1. ASSUME NEW w \in Live(u), NextOf(w) \in S \cup {Nothing} PROVE w \in S
  <2>1. CASE NextOf(w) = Nothing
    BY <2>1, LaterIs
  <2>2. CASE NextOf(w) # Nothing
    <3> DEFINE v == NextOf(w)
    <3>1. v \in Live(u) \ {u.desktop} /\ ParentOf(v) = ParentOf(w)
      BY <2>2, TreeFacts DEF Tidy
    <3>2. OK(v)
      BY <1>1, <2>2
    <3>3. Later(u, w) = ListOf(v) /\ ListOf(v) = {v} \cup Later(u, v)
      BY <2>2, ListIs DEF ListOf
    <3> HIDE DEF v
    <3>4. OK(w)
      BY <3>1, <3>2, <3>3
    <3> QED BY <3>4
  <2> QED BY <2>1, <2>2
<1> HIDE DEF S
<1>2. Live(u) \subseteq S
  BY <1>1, TreeInduct
<1> QED BY <1>2 DEF S

LEMMA LaterApart ==
  ASSUME Tidy
  PROVE  \A w \in Live(u) : w \notin Later(u, w)
<1> DEFINE ring == {w \in Live(u) : w \in Later(u, w)}
<1>1. SUFFICES ASSUME ring # {} PROVE FALSE
  OBVIOUS
<1>2. PICK w \in ring : NextOf(w) \notin ring
  BY <1>1 DEF Tidy
<1>3. w \in Live(u) /\ w \in Later(u, w)
  OBVIOUS
<1>4. NextOf(w) # Nothing /\ Later(u, w) = ListOf(NextOf(w))
  BY <1>3, ListIs DEF ListOf
<1>5. NextOf(w) \in Live(u)
  BY <1>3, <1>4, TreeFacts
<1>6. w # NextOf(w)
  BY <1>2
<1>7. w \in Later(u, NextOf(w))
  BY <1>3, <1>4, <1>6 DEF ListOf
<1>8. ListOf(w) \subseteq Later(u, NextOf(w))
  BY <1>5, <1>7, LaterSiblings
<1>9. NextOf(w) \in Later(u, w)
  BY <1>4 DEF ListOf
<1>10. w # Nothing
  BY <1>3, TreeFacts
<1> QED BY <1>2, <1>5, <1>8, <1>9, <1>10 DEF ListOf

\* The list of a window's children holds every one of them: of those it does
\* not hold, the one with most windows after it has another before it.
LEMMA ListHolds ==
  ASSUME Tidy
  PROVE  \A w \in Live(u) \ {u.desktop} : w \in ListOf(ChildOf(ParentOf(w)))
<1> DEFINE Z == {w \in Live(u) \ {u.desktop} : w \notin ListOf(ChildOf(ParentOf(w)))}
           size(w) == Cardinality(Later(u, w))
           S == {size(w) : w \in Z}
<1>1. SUFFICES ASSUME Z # {} PROVE FALSE
  OBVIOUS
<1>2. Cardinality(Live(u)) \in Nat
  BY FS_CardinalityType DEF Tidy
<1>3. ASSUME NEW w \in Live(u)
      PROVE  /\ IsFiniteSet(Later(u, w)) /\ size(w) \in Nat
             /\ size(w) <= Cardinality(Live(u))
  <2>1. Later(u, w) \subseteq Live(u)
    BY LaterSiblings
  <2>2. IsFiniteSet(Live(u))
    BY DEF Tidy
  <2> QED BY <2>1, <2>2, FS_Subset, FS_CardinalityType
<1>4. PICK w \in Z : \A v \in Z : size(v) <= size(w)
  <2>1. S \subseteq 0 .. Cardinality(Live(u)) /\ S # {}
    <3> HIDE DEF size
    <3> QED BY <1>1, <1>2, <1>3
  <2>2. PICK n \in S : \A m \in S : m <= n
    <3> HIDE DEF S
    <3> QED BY <1>2, <2>1, GreatestIn
  <2> HIDE DEF size
  <2> QED BY <2>2
<1>5. w \in Live(u) /\ w # u.desktop /\ w \notin ListOf(ChildOf(ParentOf(w)))
  OBVIOUS
<1> DEFINE p == ParentOf(w)
           v == PrevOf(w)
<1>6. p \in Live(u) /\ p # Nothing
  BY <1>5, TreeFacts
<1>7. v # Nothing
  <2>1. ASSUME v = Nothing PROVE FALSE
    <3>1. ChildOf(p) = w
      BY <1>5, <1>6, <2>1 DEF Tidy
    <3>2. w # Nothing
      BY <1>5, TreeFacts
    <3> QED BY <1>5, <3>1, <3>2 DEF ListOf
  <2> QED BY <2>1
<1>8. v \in Live(u) /\ NextOf(v) = w /\ ParentOf(v) = p
  BY <1>5, <1>7, TreeFacts DEF Tidy
<1>9. Later(u, v) = {w} \cup Later(u, w) /\ w \notin Later(u, w)
  <2>1. w # Nothing
    BY <1>5, TreeFacts
  <2> QED BY <1>5, <1>8, <2>1, ListIs, LaterApart DEF ListOf
<1>10. v # u.desktop
  BY <1>8, <1>9, TreeFacts, <1>5
<1>11. v \notin ListOf(ChildOf(p))
  <2>1. ASSUME v \in ListOf(ChildOf(p)) PROVE FALSE
    <3> DEFINE c == ChildOf(p)
    <3>1. c # Nothing /\ c \in Live(u)
      BY <1>6, <2>1, TreeFacts DEF ListOf
    <3>2. ListOf(v) \subseteq ListOf(c)
      <4>1. CASE v = c
        BY <4>1
      <4>2. CASE v \in Later(u, c)
        BY <3>1, <4>2, LaterSiblings DEF ListOf
      <4> QED BY <2>1, <3>1, <4>1, <4>2 DEF ListOf
    <3>3. w \in ListOf(v)
      BY <1>7, <1>9 DEF ListOf
    <3> QED BY <1>5, <3>2, <3>3
  <2> QED BY <2>1
<1>12. v \in Z
  BY <1>8, <1>10, <1>11
<1>13. size(v) = size(w) + 1
  <2>1. Cardinality(Later(u, w) \cup {w}) = Cardinality(Later(u, w)) + 1
    BY <1>3, <1>5, <1>9, FS_AddElement
  <2>2. Later(u, v) = Later(u, w) \cup {w}
    BY <1>9
  <2> QED BY <2>1, <2>2
<1>14. size(w) \in Nat /\ size(v) \in Nat
  BY <1>3, <1>5, <1>8
<1> HIDE DEF size, Z
<1> QED BY <1>4, <1>12, <1>13, <1>14

\* It holds no others.
LEMMA ListIsChildren ==
  ASSUME Tidy
  PROVE  \A p \in Live(u) : ListOf(ChildOf(p)) = {w \in Live(u) : ParentOf(w) = p}
<1> SUFFICES ASSUME NEW p \in Live(u)
             PROVE  ListOf(ChildOf(p)) = {w \in Live(u) : ParentOf(w) = p}
  OBVIOUS
<1>1. ASSUME NEW w \in ListOf(ChildOf(p)) PROVE w \in Live(u) /\ ParentOf(w) = p
  <2>1. ChildOf(p) # Nothing /\ (w = ChildOf(p) \/ w \in Later(u, ChildOf(p)))
    BY <1>1 DEF ListOf
  <2>2. ChildOf(p) \in Live(u) /\ ParentOf(ChildOf(p)) = p
    BY <2>1, TreeFacts DEF Tidy
  <2> QED BY <2>1, <2>2, LaterSiblings
<1>2. ASSUME NEW w \in Live(u), ParentOf(w) = p PROVE w \in ListOf(ChildOf(p))
  <2>1. p # Nothing
    BY TreeFacts
  <2>2. w # u.desktop
    BY <1>2, <2>1, TreeFacts
  <2> QED BY <1>2, <2>2, ListHolds
<1> QED BY <1>1, <1>2

(***************************************************************************)
(* The first of some windows in a list.                                    *)
(***************************************************************************)
LEMMA FirstIs ==
  ASSUME Tidy, NEW W
  PROVE  /\ FirstFrom(u, Nothing, W) = Nothing
         /\ \A w \in Live(u) : FirstFrom(u, w, W) = IF w \in W THEN w
                                                    ELSE FirstFrom(u, NextOf(w), W)
<1> DEFINE T == {x \in Nodes : x = Nothing \/ x \in W}
           E == [x \in Nodes |-> IF x \in T THEN x ELSE NextOf(x)]
           Ends(x) == Reach(Nodes, E, T, x) \cap T
           End(x) == CHOOSE y \in Ends(x) : TRUE
           Is(f) == f = [x \in Live(u) \cup {Nothing} |->
                           IF x = Nothing \/ x \in W THEN x ELSE f[u.wnd[x].next]]
           go == CHOOSE f : Is(f)
           g == [x \in Nodes |-> End(x)]
<1>1. \A w \in Live(u) : NextOf(w) \in Nodes /\ w # Nothing /\ w \in Nodes
  BY DEF Tidy, Nodes
<1>2. E \in [Nodes -> Nodes]
  BY <1>1 DEF Nodes
<1>3. ASSUME NEW x \in T PROVE End(x) = x
  <2>1. x \in Nodes
    OBVIOUS
  <2>2. Reach(Nodes, E, T, x) = {x}
    <3> HIDE DEF E, T
    <3> QED BY <1>2, <1>3, <2>1, ReachStep
  <2>3. Ends(x) = {x}
    <3> HIDE DEF E, T
    <3> QED BY <1>3, <2>2
  <2> HIDE DEF Ends
  <2> QED BY <2>3
<1>4. ASSUME NEW x \in Nodes, x \notin T PROVE End(x) = End(NextOf(x))
  <2>1. E[x] = NextOf(x)
    BY <1>4
  <2>2. Ends(x) = Ends(NextOf(x))
    <3> HIDE DEF E, T
    <3>1. Reach(Nodes, E, T, x) = {x} \cup Reach(Nodes, E, T, E[x])
      BY <1>2, <1>4, ReachStep
    <3> QED BY <1>4, <2>1, <3>1
  <2> HIDE DEF Ends
  <2> QED BY <2>2
<1>5. Is(g)
  <2>1. ASSUME NEW x \in Nodes
        PROVE  g[x] = IF x = Nothing \/ x \in W THEN x ELSE g[NextOf(x)]
    <3>1. \A y \in Nodes : g[y] = End(y)
      OBVIOUS
    <3>2. CASE x \in T
      <4>1. x = Nothing \/ x \in W
        BY <3>2
      <4> HIDE DEF T, g, End
      <4> QED BY <1>3, <2>1, <3>1, <3>2, <4>1
    <3>3. CASE x \notin T
      <4>1. ~ (x = Nothing \/ x \in W) /\ x \in Live(u)
        BY <2>1, <3>3 DEF Nodes
      <4>2. NextOf(x) \in Nodes
        BY <1>1, <4>1
      <4> HIDE DEF T, g, End
      <4> QED BY <1>4, <2>1, <3>1, <3>3, <4>1, <4>2
    <3> QED BY <3>2, <3>3
  <2>2. g = [x \in Nodes |-> g[x]]
    OBVIOUS
  <2> HIDE DEF g
  <2> QED BY <2>1, <2>2 DEF Nodes, NextOf
<1>6. Is(go)
  <2> HIDE DEF Is
  <2> QED BY <1>5
<1>7. \A w : FirstFrom(u, w, W) = go[w]
  BY Zenon DEF FirstFrom
<1>8. \A x \in Nodes : go[x] = IF x = Nothing \/ x \in W THEN x ELSE go[NextOf(x)]
  <2> HIDE DEF go
  <2> QED BY <1>6 DEF Nodes, NextOf
<1> HIDE DEF go, Is
<1>9. Nothing \in Nodes
  BY DEF Nodes
<1>10. FirstFrom(u, Nothing, W) = Nothing
  BY <1>7, <1>8, <1>9
<1>11. ASSUME NEW w \in Live(u)
       PROVE  FirstFrom(u, w, W) = IF w \in W THEN w ELSE FirstFrom(u, NextOf(w), W)
  <2>1. w \in Nodes /\ w # Nothing /\ FirstFrom(u, w, W) = go[w]
        /\ FirstFrom(u, NextOf(w), W) = go[NextOf(w)]
    BY <1>1, <1>7
  <2>2. go[w] = IF w = Nothing \/ w \in W THEN w ELSE go[NextOf(w)]
    BY <1>8, <2>1
  <2> QED BY <2>1, <2>2
<1> QED BY <1>10, <1>11

\* r is the first of the windows W that are on the list from w on.
FirstOf(r, w, W) ==
  LET those == ListOf(w) \cap W
  IN IF those = {} THEN r = Nothing
     ELSE r \in those /\ Later(u, r) \cap W = those \ {r}

LEMMA FirstFinds ==
  ASSUME Tidy, NEW W
  PROVE  \A w \in Nodes : FirstOf(FirstFrom(u, w, W), w, W)
<1> DEFINE S == {w \in Live(u) : FirstOf(FirstFrom(u, w, W), w, W)}
<1>1. FirstOf(FirstFrom(u, Nothing, W), Nothing, W)
  BY FirstIs DEF FirstOf, ListOf
<1>2. ASSUME NEW w \in Live(u), NextOf(w) \in S \cup {Nothing} PROVE w \in S
  <2>1. FirstOf(FirstFrom(u, NextOf(w), W), NextOf(w), W)
    BY <1>1, <1>2
  <2>2. /\ Later(u, w) = ListOf(NextOf(w)) /\ ListOf(w) = {w} \cup ListOf(NextOf(w))
        /\ w \notin Later(u, w)
    BY ListIs, LaterApart
  <2>3. CASE w \in W
    <3>1. FirstFrom(u, w, W) = w
      BY <2>3, FirstIs
    <3>2. FirstOf(w, w, W)
      BY <2>2, <2>3 DEF FirstOf
    <3> QED BY <3>1, <3>2
  <2>4. CASE w \notin W
    <3>1. FirstFrom(u, w, W) = FirstFrom(u, NextOf(w), W)
      BY <2>4, FirstIs
    <3>2. ListOf(w) \cap W = ListOf(NextOf(w)) \cap W
      BY <2>2, <2>4
    <3>3. FirstOf(FirstFrom(u, w, W), w, W)
      BY <2>1, <3>1, <3>2 DEF FirstOf
    <3> QED BY <3>3
  <2> QED BY <2>3, <2>4
<1> HIDE DEF S
<1>3. Live(u) \subseteq S
  BY <1>2, TreeInduct
<1> QED BY <1>1, <1>3 DEF S, Nodes

\* NtUserFindWindowEx below a parent: the next of the children that fit.
LEMMA ChildrenFound ==
  ASSUME Tidy, NEW a, NEW p \in Live(u), NEW w \in Nodes,
         w # Nothing => w \in Hits(u, a) /\ ParentOf(w) = p
  PROVE  LET kids == {x \in Hits(u, a) : ParentOf(x) = p}
             rest(x) == IF x = Nothing THEN kids ELSE kids \cap Later(u, x)
             r == FindChild(u, p, w, a)
         IN IF rest(w) = {} THEN r = Nothing
            ELSE r \in rest(w) /\ rest(r) = rest(w) \ {r}
<1> DEFINE F == Hits(u, a)
           kids == {x \in F : ParentOf(x) = p}
           rest(x) == IF x = Nothing THEN kids ELSE kids \cap Later(u, x)
           first == ChildOf(p)
           r == FindChild(u, p, w, a)
<1>1. F \subseteq Live(u) /\ first \in Nodes
  BY DEF Hits, Tidy
<1>2. ListOf(first) = {x \in Live(u) : ParentOf(x) = p}
  BY ListIsChildren
<1>3. \A x \in kids : x \in Live(u) /\ x # Nothing
  BY <1>1, TreeFacts
<1>4. \A x \in kids : Later(u, x) \cap F = rest(x)
  <2> SUFFICES ASSUME NEW x \in kids, NEW y \in Later(u, x), y \in F PROVE ParentOf(y) = p
    BY <1>3
  <2> QED BY <1>3, LaterSiblings
<1> HIDE DEF F
<1>5. CASE w = Nothing
  <2>1. r = FirstFrom(u, first, F)
    BY <1>5 DEF FindChild, F, ChildOf
  <2>2. FirstOf(r, first, F)
    BY <1>1, <2>1, FirstFinds
  <2>3. ListOf(first) \cap F = kids
    BY <1>1, <1>2
  <2> HIDE DEF r
  <2>4. CASE kids = {}
    <3>1. r = Nothing /\ rest(w) = {}
      BY <1>5, <2>2, <2>3, <2>4 DEF FirstOf
    <3> HIDE DEF kids, rest
    <3>2. IF rest(w) = {} THEN r = Nothing ELSE r \in rest(w) /\ rest(r) = rest(w) \ {r}
      BY <3>1
    <3> QED BY <3>2 DEF kids, rest, r, F
  <2>5. CASE kids # {}
    <3>1. r \in kids /\ Later(u, r) \cap F = kids \ {r}
      BY <2>2, <2>3, <2>5 DEF FirstOf
    <3>2. rest(r) = kids \ {r} /\ rest(w) = kids
      BY <1>4, <1>5, <3>1
    <3> HIDE DEF kids, rest
    <3>3. IF rest(w) = {} THEN r = Nothing ELSE r \in rest(w) /\ rest(r) = rest(w) \ {r}
      BY <3>1, <3>2
    <3> QED BY <3>3 DEF kids, rest, r, F
  <2> QED BY <2>4, <2>5
<1>6. CASE w # Nothing
  <2> DEFINE past == FirstFrom(u, first, {w})
  <2>1. w \in kids /\ w \in Live(u)
    BY <1>3, <1>6 DEF F
  <2>2. past = w
    <3>1. FirstOf(past, first, {w})
      BY <1>1, FirstFinds
    <3>2. ListOf(first) \cap {w} = {w}
      BY <1>2, <2>1
    <3> HIDE DEF past
    <3> QED BY <3>1, <3>2 DEF FirstOf
  <2>3. r = FirstFrom(u, NextOf(w), F)
    BY <1>6, <2>2 DEF FindChild, F, ChildOf, NextOf
  <2>4. NextOf(w) \in Nodes
    BY <2>1 DEF Tidy
  <2>5. FirstOf(r, NextOf(w), F)
    BY <2>3, <2>4, FirstFinds
  <2>6. ListOf(NextOf(w)) \cap F = rest(w)
    BY <1>4, <2>1, ListIs
  <2>7. rest(w) \subseteq kids
    OBVIOUS
  <2> HIDE DEF r
  <2>8. CASE rest(w) = {}
    <3> HIDE DEF kids, rest
    <3>1. IF rest(w) = {} THEN r = Nothing ELSE r \in rest(w) /\ rest(r) = rest(w) \ {r}
      BY <2>5, <2>6, <2>8 DEF FirstOf
    <3> QED BY <3>1 DEF kids, rest, r, F
  <2>9. CASE rest(w) # {}
    <3> HIDE DEF kids, rest
    <3>1. r \in rest(w) /\ Later(u, r) \cap F = rest(w) \ {r}
      BY <2>5, <2>6, <2>9 DEF FirstOf
    <3>2. rest(r) = rest(w) \ {r}
      BY <1>4, <2>7, <3>1
    <3>3. IF rest(w) = {} THEN r = Nothing ELSE r \in rest(w) /\ rest(r) = rest(w) \ {r}
      BY <3>1, <3>2
    <3> QED BY <3>3 DEF kids, rest, r, F
  <2> QED BY <2>8, <2>9
<1> QED BY <1>5, <1>6

(***************************************************************************)
(* What is below a window, and the search of all of it.                    *)
(***************************************************************************)
Over == [x \in Nodes |-> IF x = Nothing THEN Nothing ELSE ParentOf(x)]

\* A window and those it is below.
AtOrAbove(w) == Reach(Nodes, Over, {Nothing}, w) \ {Nothing}

LEMMA AboveIs ==
  ASSUME Tidy
  PROVE  /\ AtOrAbove(Nothing) = {}
         /\ \A w \in Live(u) : AtOrAbove(w) = {w} \cup AtOrAbove(ParentOf(w))
<1>1. Over \in [Nodes -> Nodes]
  BY DEF Tidy, Nodes, Over
<1>2. Nothing \in Nodes /\ \A w \in Live(u) : w \in Nodes /\ w # Nothing /\ Over[w] = ParentOf(w)
  BY DEF Tidy, Nodes, Over
<1>3. Reach(Nodes, Over, {Nothing}, Nothing) = {Nothing}
  BY <1>1, <1>2, ReachStep
<1>4. ASSUME NEW w \in Live(u)
      PROVE  Reach(Nodes, Over, {Nothing}, w) = {w} \cup Reach(Nodes, Over, {Nothing}, ParentOf(w))
  <2>1. w \in Nodes /\ w \notin {Nothing} /\ Over[w] = ParentOf(w)
    BY <1>2
  <2>2. Reach(Nodes, Over, {Nothing}, w)
          = {w} \cup IF w \in {Nothing} THEN {} ELSE Reach(Nodes, Over, {Nothing}, Over[w])
    BY <1>1, <2>1, ReachStep
  <2> QED BY <2>1, <2>2
<1> QED BY <1>2, <1>3, <1>4 DEF AtOrAbove

LEMMA AboveTrans ==
  ASSUME Tidy
  PROVE  \A w \in Live(u) : /\ AtOrAbove(w) \subseteq Live(u)
                            /\ \A x \in AtOrAbove(w) : AtOrAbove(x) \subseteq AtOrAbove(w)
<1> DEFINE OK(w) == /\ AtOrAbove(w) \subseteq Live(u)
                    /\ \A x \in AtOrAbove(w) : AtOrAbove(x) \subseteq AtOrAbove(w)
           S == {w \in Live(u) : OK(w)}
<1>1. ASSUME NEW w \in Live(u), ParentOf(w) \in S \cup {Nothing} PROVE w \in S
  <2>1. AtOrAbove(w) = {w} \cup AtOrAbove(ParentOf(w))
    BY AboveIs
  <2>2. OK(ParentOf(w))
    BY <1>1, AboveIs
  <2>3. OK(w)
    BY <2>1, <2>2
  <2> QED BY <2>3
<1> HIDE DEF S
<1>2. Live(u) \subseteq S
  BY <1>1, TreeInduct
<1> QED BY <1>2 DEF S

LEMMA AboveApart ==
  ASSUME Tidy
  PROVE  \A w \in Live(u) : w \notin AtOrAbove(ParentOf(w))
<1> DEFINE ring == {w \in Live(u) : w \in AtOrAbove(ParentOf(w))}
<1>1. SUFFICES ASSUME ring # {} PROVE FALSE
  OBVIOUS
<1>2. PICK w \in ring : ParentOf(w) \notin ring
  BY <1>1 DEF Tidy
<1> DEFINE p == ParentOf(w)
<1>3. w \in Live(u) /\ w \in AtOrAbove(p)
  OBVIOUS
<1>4. p \in Live(u)
  BY <1>3, AboveIs DEF Tidy, Nodes
<1>5. /\ AtOrAbove(p) = {p} \cup AtOrAbove(ParentOf(p))
      /\ AtOrAbove(w) = {w} \cup AtOrAbove(p)
  BY <1>3, <1>4, AboveIs
<1>6. w \in AtOrAbove(ParentOf(p))
  BY <1>2, <1>3, <1>5
<1>7. ParentOf(p) \in Live(u)
  BY <1>4, <1>6, AboveIs DEF Tidy, Nodes
<1>8. AtOrAbove(w) \subseteq AtOrAbove(ParentOf(p))
  BY <1>6, <1>7, AboveTrans
<1> QED BY <1>2, <1>4, <1>5, <1>8

\* A window below w is at or below a child of w.
LEMMA ChildAbove ==
  ASSUME Tidy
  PROVE  \A y \in Live(u) : \A w \in AtOrAbove(y) \ {y} :
           \E z \in AtOrAbove(y) : ParentOf(z) = w
<1> DEFINE OK(y) == \A w \in AtOrAbove(y) \ {y} : \E z \in AtOrAbove(y) : ParentOf(z) = w
           S == {y \in Live(u) : OK(y)}
<1>1. ASSUME NEW y \in Live(u), ParentOf(y) \in S \cup {Nothing} PROVE y \in S
  <2>1. AtOrAbove(y) = {y} \cup AtOrAbove(ParentOf(y))
    BY AboveIs
  <2>2. OK(ParentOf(y))
    BY <1>1, AboveIs
  <2>3. OK(y)
    BY <2>1, <2>2
  <2> QED BY <2>3
<1> HIDE DEF S
<1>2. Live(u) \subseteq S
  BY <1>1, TreeInduct
<1> QED BY <1>2 DEF S

LEMMA DesktopAbove ==
  ASSUME Tidy
  PROVE  \A y \in Live(u) : u.desktop \in AtOrAbove(y)
<1> DEFINE S == {y \in Live(u) : u.desktop \in AtOrAbove(y)}
<1>1. ASSUME NEW y \in Live(u), ParentOf(y) \in S \cup {Nothing} PROVE y \in S
  <2>1. AtOrAbove(y) = {y} \cup AtOrAbove(ParentOf(y))
    BY AboveIs
  <2>2. y = u.desktop \/ ParentOf(y) \in S
    BY <1>1, TreeFacts
  <2> QED BY <2>1, <2>2
<1> HIDE DEF S
<1>2. Live(u) \subseteq S
  BY <1>1, TreeInduct
<1> QED BY <1>2 DEF S

\* What user_window_find_recursive looks at from w on: the windows of the list
\* and all below them.
Scope(w) == {y \in Live(u) : \E z \in ListOf(w) : z \in AtOrAbove(y)}

LEMMA ScopeIs ==
  ASSUME Tidy
  PROVE  /\ Scope(Nothing) = {}
         /\ \A w \in Live(u) :
              /\ Scope(w) = {w} \cup Scope(ChildOf(w)) \cup Scope(NextOf(w))
              /\ w \notin Scope(ChildOf(w)) /\ w \notin Scope(NextOf(w))
         /\ \A w \in Nodes : Scope(w) \subseteq Live(u)
         /\ u.desktop # Nothing => Scope(ChildOf(u.desktop)) = Live(u) \ {u.desktop}
<1>1. Scope(Nothing) = {} /\ \A w \in Nodes : Scope(w) \subseteq Live(u)
  BY DEF Scope, ListOf
<1>2. ASSUME NEW w \in Live(u)
      PROVE  Scope(ChildOf(w)) = {y \in Live(u) : w \in AtOrAbove(y) /\ y # w}
  <2>1. ListOf(ChildOf(w)) = {z \in Live(u) : ParentOf(z) = w}
    BY ListIsChildren
  <2>2. ASSUME NEW y \in Live(u), NEW z \in AtOrAbove(y), ParentOf(z) = w, z \in Live(u)
        PROVE  w \in AtOrAbove(y) /\ y # w
    <3>1. AtOrAbove(z) \subseteq AtOrAbove(y) /\ w \in AtOrAbove(z)
      BY <1>2, <2>2, AboveTrans, AboveIs
    <3>2. z \notin AtOrAbove(w)
      BY <2>2, AboveApart
    <3> QED BY <2>2, <3>1, <3>2
  <2>3. ASSUME NEW y \in Live(u), w \in AtOrAbove(y), y # w
        PROVE  \E z \in Live(u) : ParentOf(z) = w /\ z \in AtOrAbove(y)
    BY <2>3, ChildAbove, AboveTrans
  <2> QED BY <2>1, <2>2, <2>3 DEF Scope
<1>3. ASSUME NEW w \in Live(u)
      PROVE  /\ Scope(w) = {w} \cup Scope(ChildOf(w)) \cup Scope(NextOf(w))
             /\ w \notin Scope(ChildOf(w)) /\ w \notin Scope(NextOf(w))
  <2>1. w \in AtOrAbove(w)
    BY AboveIs
  <2>2. ListOf(w) = {w} \cup ListOf(NextOf(w)) /\ ListOf(NextOf(w)) = Later(u, w)
    BY ListIs
  <2>3. Scope(w) = {y \in Live(u) : w \in AtOrAbove(y)} \cup Scope(NextOf(w))
    BY <2>2 DEF Scope
  <2>4. Scope(w) = {w} \cup Scope(ChildOf(w)) \cup Scope(NextOf(w)) /\ w \notin Scope(ChildOf(w))
    BY <1>2, <2>1, <2>3
  <2>5. ASSUME w \in Scope(NextOf(w)) PROVE FALSE
    <3>1. PICK z \in Later(u, w) : z \in AtOrAbove(w)
      BY <2>2, <2>5 DEF Scope
    <3>2. z \in Live(u) /\ ParentOf(z) = ParentOf(w) /\ z # w
      BY <3>1, LaterSiblings, LaterApart
    <3>3. z \in AtOrAbove(ParentOf(z))
      BY <3>1, <3>2, AboveIs
    <3> QED BY <3>2, <3>3, AboveApart
  <2> QED BY <2>4, <2>5
<1>4. u.desktop # Nothing => Scope(ChildOf(u.desktop)) = Live(u) \ {u.desktop}
  <2>1. u.desktop # Nothing => u.desktop \in Live(u)
    BY DEF Tidy, Nodes
  <2> QED BY <1>2, <2>1, DesktopAbove
<1> QED BY <1>1, <1>3, <1>4

\* The search from w on, given its answers elsewhere.
Looks(f, F, w) == IF w = Nothing \/ w \in F THEN w
                  ELSE IF f[ChildOf(w)] # Nothing THEN f[ChildOf(w)] ELSE f[NextOf(w)]

Size(w) == Cardinality(Scope(w))

LEMMA SizeFalls ==
  ASSUME Tidy
  PROVE  /\ Cardinality(Live(u)) \in Nat
         /\ \A w \in Nodes : Size(w) \in Nat /\ Size(w) <= Cardinality(Live(u))
         /\ \A w \in Live(u) : Size(ChildOf(w)) < Size(w) /\ Size(NextOf(w)) < Size(w)
<1>1. IsFiniteSet(Live(u)) /\ Cardinality(Live(u)) \in Nat
  BY FS_CardinalityType DEF Tidy
<1>2. ASSUME NEW w \in Nodes
      PROVE  IsFiniteSet(Scope(w)) /\ Size(w) \in Nat /\ Size(w) <= Cardinality(Live(u))
  <2>1. Scope(w) \subseteq Live(u)
    BY ScopeIs
  <2> QED BY <1>1, <2>1, FS_Subset, FS_CardinalityType DEF Size
<1>3. ASSUME NEW w \in Live(u), NEW v \in {ChildOf(w), NextOf(w)} PROVE Size(v) < Size(w)
  <2>1. Scope(v) \cup {w} \subseteq Scope(w) /\ w \notin Scope(v)
    BY ScopeIs
  <2>2. w \in Nodes /\ v \in Nodes
    BY DEF Tidy, Nodes
  <2>3. IsFiniteSet(Scope(w)) /\ IsFiniteSet(Scope(v)) /\ Size(v) \in Nat /\ Size(w) \in Nat
    BY <1>2, <2>2
  <2>4. Cardinality(Scope(v) \cup {w}) = Size(v) + 1
    BY <2>1, <2>3, FS_AddElement DEF Size
  <2>5. Cardinality(Scope(v) \cup {w}) <= Size(w)
    BY <2>1, <2>3, FS_Subset DEF Size
  <2> QED BY <2>3, <2>4, <2>5
<1> QED BY <1>1, <1>2, <1>3

\* There is such a search: it is found for the windows with little after them
\* first.
LEMMA LookExists ==
  ASSUME Tidy, NEW F
  PROVE  \E f : f = [w \in Nodes |-> Looks(f, F, w)]
<1> DEFINE Solved(f, n) == /\ f = [w \in Nodes |-> f[w]]
                           /\ \A w \in Nodes : Size(w) <= n => f[w] = Looks(f, F, w)
           S == {n \in Nat : \E f : Solved(f, n)}
<1>1. 0 \in S
  <2> DEFINE f == [w \in Nodes |-> w]
  <2>1. ASSUME NEW w \in Nodes, Size(w) <= 0 PROVE w = Nothing
    <3>1. SUFFICES ASSUME w \in Live(u) PROVE FALSE
      BY DEF Nodes
    <3>2. ChildOf(w) \in Nodes
      BY <3>1 DEF Tidy
    <3> QED BY <2>1, <3>1, <3>2, SizeFalls
  <2>2. Solved(f, 0)
    <3>1. \A w \in Nodes : Size(w) <= 0 => f[w] = Looks(f, F, w)
      BY <2>1 DEF Looks
    <3> QED BY <3>1
  <2> QED BY <2>2
<1>2. ASSUME NEW n \in Nat, n \in S PROVE n + 1 \in S
  <2>1. PICK f : Solved(f, n)
    BY <1>2
  <2> DEFINE g == [w \in Nodes |-> IF Size(w) <= n THEN f[w] ELSE Looks(f, F, w)]
  <2>2. ASSUME NEW w \in Nodes, Size(w) <= n + 1 PROVE g[w] = Looks(g, F, w)
    <3>1. Looks(g, F, w) = Looks(f, F, w)
      <4>1. CASE w = Nothing
        BY <4>1 DEF Looks
      <4>2. CASE w \in Live(u)
        <5>1. ChildOf(w) \in Nodes /\ NextOf(w) \in Nodes
          BY <4>2 DEF Tidy
        <5>2. Size(ChildOf(w)) <= n /\ Size(NextOf(w)) <= n
          BY <2>2, <4>2, <5>1, SizeFalls
        <5>3. g[ChildOf(w)] = f[ChildOf(w)] /\ g[NextOf(w)] = f[NextOf(w)]
          BY <5>1, <5>2
        <5> QED BY <5>3 DEF Looks
      <4> QED BY <4>1, <4>2 DEF Nodes
    <3>2. g[w] = Looks(f, F, w)
      BY <2>1
    <3> QED BY <3>1, <3>2
  <2>3. g = [w \in Nodes |-> g[w]]
    OBVIOUS
  <2> HIDE DEF g
  <2>4. Solved(g, n + 1)
    BY <2>2, <2>3
  <2> HIDE DEF Solved
  <2> QED BY <2>4
<1> DEFINE n == Cardinality(Live(u))
<1>3. n \in S
  <2> HIDE DEF S, n
  <2>1. Nat \subseteq S
    BY <1>1, <1>2, Induct
  <2> QED BY <2>1, SizeFalls DEF n
<1>4. PICK f : Solved(f, n)
  BY <1>3
<1>5. \A w \in Nodes : f[w] = Looks(f, F, w)
  BY <1>4, SizeFalls
<1>6. f = [w \in Nodes |-> f[w]]
  BY <1>4
<1> QED BY <1>5, <1>6

\* The search finds a window that fits, if there is one where it looks.
LEMMA LookFinds ==
  ASSUME Tidy, NEW F, NEW f, f = [w \in Nodes |-> Looks(f, F, w)]
  PROVE  \A w \in Nodes : IF Scope(w) \cap F = {} THEN f[w] = Nothing
                          ELSE f[w] \in Scope(w) \cap F
<1> DEFINE OK(w) == IF Scope(w) \cap F = {} THEN f[w] = Nothing ELSE f[w] \in Scope(w) \cap F
           S == {n \in Nat : \A w \in Nodes : Size(w) < n => OK(w)}
<1>1. 0 \in S
  BY SizeFalls
<1>2. ASSUME NEW n \in Nat, n \in S PROVE n + 1 \in S
  <2>1. SUFFICES ASSUME NEW w \in Nodes, Size(w) < n + 1 PROVE OK(w)
    OBVIOUS
  <2>2. f[w] = Looks(f, F, w)
    OBVIOUS
  <2>3. CASE w = Nothing
    <3>1. Scope(w) = {} /\ f[w] = Nothing
      BY <2>2, <2>3, ScopeIs DEF Looks
    <3> QED BY <3>1
  <2>4. CASE w \in Live(u)
    <3> DEFINE c == ChildOf(w)
               v == NextOf(w)
    <3>1. c \in Nodes /\ v \in Nodes
      BY <2>4 DEF Tidy
    <3>2. Size(c) < n /\ Size(v) < n
      BY <2>1, <2>4, <3>1, SizeFalls
    <3>3. OK(c) /\ OK(v)
      BY <1>2, <3>1, <3>2
    <3>4. Scope(w) = {w} \cup Scope(c) \cup Scope(v) /\ Nothing \notin Scope(c)
          /\ w # Nothing
      BY <2>4, <3>1, ScopeIs, TreeFacts
    <3>5. f[w] = IF w \in F THEN w ELSE IF f[c] # Nothing THEN f[c] ELSE f[v]
      BY <2>2, <3>4 DEF Looks
    <3> HIDE DEF c, v
    <3> QED BY <3>3, <3>4, <3>5
  <2> QED BY <2>3, <2>4 DEF Nodes
<1> HIDE DEF S
<1>3. Nat \subseteq S
  BY <1>1, <1>2, Induct
<1>4. ASSUME NEW w \in Nodes PROVE OK(w)
  <2>1. Size(w) \in Nat
    BY SizeFalls
  <2>2. Size(w) + 1 \in S
    BY <1>3, <2>1
  <2> QED BY <2>1, <2>2 DEF S
<1> QED BY <1>4

LEMMA RecursiveFound ==
  ASSUME Tidy, u.desktop # Nothing, NEW a
  PROVE  LET hits == Hits(u, a) \ {u.desktop}
             r == FindRecursive(u, u.desktop, a)
         IN IF hits = {} THEN r = Nothing ELSE r \in hits
<1> DEFINE F == Hits(u, a)
           Is(f) == f = [x \in Live(u) \cup {Nothing} |->
                           IF x = Nothing \/ x \in Hits(u, a) THEN x
                           ELSE LET found == f[u.wnd[x].child]
                                IN IF found # Nothing THEN found ELSE f[u.wnd[x].next]]
           look == CHOOSE f : Is(f)
<1>1. \A f : Is(f) <=> f = [w \in Nodes |-> Looks(f, F, w)]
  BY DEF Looks, Nodes, ChildOf, NextOf
<1>2. Is(look)
  <2>1. \E f : f = [w \in Nodes |-> Looks(f, F, w)]
    <3> HIDE DEF F
    <3> QED BY LookExists
  <2> HIDE DEF Is
  <2> QED BY <1>1, <2>1
<1>3. FindRecursive(u, u.desktop, a) = look[ChildOf(u.desktop)]
  BY Zenon DEF FindRecursive, ChildOf
<1>4. look = [w \in Nodes |-> Looks(look, F, w)]
  <2> HIDE DEF look, Is
  <2> QED BY <1>1, <1>2
<1> HIDE DEF look, Is
<1>5. u.desktop \in Live(u) /\ ChildOf(u.desktop) \in Nodes
  BY DEF Tidy, Nodes
<1>6. Scope(ChildOf(u.desktop)) \cap F = F \ {u.desktop}
  <2>1. F \subseteq Live(u)
    BY DEF Hits
  <2>2. Scope(ChildOf(u.desktop)) = Live(u) \ {u.desktop}
    BY ScopeIs
  <2> QED BY <2>1, <2>2
<1> DEFINE r == look[ChildOf(u.desktop)]
<1>7. IF F \ {u.desktop} = {} THEN r = Nothing ELSE r \in F \ {u.desktop}
  <2> HIDE DEF F
  <2> QED BY <1>4, <1>5, <1>6, LookFinds
<1> HIDE DEF r
<1>8. r = FindRecursive(u, u.desktop, a)
  BY <1>3 DEF r
<1> QED BY <1>7, <1>8

\* The handle the guest has of a window leads back to it.
LEMMA HandlesLead ==
  ASSUME TypeOK, HandlesNameWindows
  PROVE  \A w \in Live(u) : u.wnd[w].hwnd # NoHandle /\ FromHwnd(u, u.wnd[w].hwnd) = w
<1> SUFFICES ASSUME NEW w \in Live(u)
             PROVE  u.wnd[w].hwnd # NoHandle /\ FromHwnd(u, u.wnd[w].hwnd) = w
  OBVIOUS
<1>1. u.wnd[w].hwnd # NoHandle
  BY DEF TypeOK
<1>2. GetTyped(u.table, u.wnd[w].hwnd, "WINDOW") = w
  BY DEF HandlesNameWindows
<1> QED BY <1>1, <1>2 DEF FromHwnd

LEMMA EnumerationHolds ==
  ASSUME TypeOK, TreeSound, HandlesNameWindows, u.desktop \in Nodes
  PROVE  EnumerationComplete
<1>1. Tidy
  BY TidyHolds
<1>2. \A w \in Live(u) : w # Nothing /\ u.wnd[w].hwnd # NoHandle /\ FromHwnd(u, u.wnd[w].hwnd) = w
  BY <1>1, HandlesLead, TreeFacts
<1>3. \A a : Hits(u, a) \subseteq Live(u)
  BY DEF Hits
<1>4. ASSUME NEW a PROVE SearchComplete(a)
  <2> DEFINE hits == Hits(u, a) \ {u.desktop}
             r == FindRecursive(u, u.desktop, a)
             answer == NtUserFindWindowEx(u, NoHandle, NoHandle, a)
  <2>1. SUFFICES ASSUME u.desktop # Nothing
                 PROVE  IF hits = {} THEN answer = NoHandle
                        ELSE \E w \in hits : answer = u.wnd[w].hwnd
    BY DEF SearchComplete
  <2>2. answer = HwndOf(u, r)
    BY <2>1 DEF NtUserFindWindowEx, FromHwnd
  <2>3. IF hits = {} THEN r = Nothing ELSE r \in hits
    BY <1>1, <2>1, RecursiveFound
  <2>4. \A w \in hits : w # Nothing
    BY <1>2, <1>3
  <2> HIDE DEF hits, answer, r
  <2> QED BY <2>2, <2>3, <2>4 DEF HwndOf
<1>5. ASSUME NEW a, NEW p \in Live(u) PROVE ChildrenComplete(p, a)
  <2> DEFINE kids == {w \in Hits(u, a) : u.wnd[w].parent = p}
             rest(w) == IF w = Nothing THEN kids ELSE kids \cap Later(u, w)
             answer(w) == NtUserFindWindowEx(u, u.wnd[p].hwnd, HwndOf(u, w), a)
  <2>1. SUFFICES ASSUME NEW w \in kids \cup (IF p = u.desktop THEN {} ELSE {Nothing})
                 PROVE  IF rest(w) = {} THEN answer(w) = NoHandle
                        ELSE \E x \in rest(w) : answer(w) = u.wnd[x].hwnd /\ rest(x) = rest(w) \ {x}
    BY DEF ChildrenComplete
  <2> DEFINE r == FindChild(u, p, w, a)
  <2>2. kids \subseteq Live(u)
    BY <1>3
  <2>3. w \in Nodes /\ (w # Nothing => w \in Hits(u, a) /\ ParentOf(w) = p)
    BY <2>1, <2>2 DEF Nodes, ParentOf
  <2>4. answer(w) = HwndOf(u, r)
    <3>1. FromHwnd(u, u.wnd[p].hwnd) = p /\ p # Nothing
      BY <1>2
    <3>2. CASE w = Nothing
      <4>1. p # u.desktop
        BY <1>2, <2>1, <2>2, <3>2
      <4> HIDE DEF r
      <4> QED BY <3>1, <3>2, <4>1 DEF HwndOf, NtUserFindWindowEx, r
    <3>3. CASE w # Nothing
      <4>1. w \in Live(u)
        BY <2>3, <3>3 DEF Nodes
      <4>2. HwndOf(u, w) = u.wnd[w].hwnd /\ u.wnd[w].hwnd # NoHandle
            /\ FromHwnd(u, u.wnd[w].hwnd) = w
        BY <1>2, <3>3, <4>1 DEF HwndOf
      <4> QED BY <3>1, <3>3, <4>2 DEF NtUserFindWindowEx
    <3> QED BY <3>2, <3>3
  <2>5. kids = {x \in Hits(u, a) : ParentOf(x) = p}
    BY DEF ParentOf
  <2>6. IF rest(w) = {} THEN r = Nothing ELSE r \in rest(w) /\ rest(r) = rest(w) \ {r}
    <3> HIDE DEF kids
    <3> QED BY <1>1, <2>3, <2>5, ChildrenFound
  <2>7. \A x \in rest(w) : x # Nothing
    BY <1>2, <2>2
  <2> HIDE DEF kids, rest, answer, r
  <2> QED BY <2>4, <2>6, <2>7 DEF HwndOf
<1> QED BY <1>4, <1>5 DEF EnumerationComplete

---------------------------------------------------------------------------
(* The theorems.                                                           *)

\* However the guest nests NtUserCreateWindowEx calls in each other's window
\* procedures, and whichever of them fail, user_window_link_child and
\* user_window_unlink leave one tree under the desktop, and no call under way
\* is left with a WBOX_WND that was freed.
THEOREM UserWindowsSound == Spec => []WindowsSound
<1>1. IInv => WindowsSound
  BY TypesHold, TreeHolds, FramesHold DEF WindowsSound
<1> QED
  BY <1>1, SpecIInv, PTL

\* What g_handle_table, cWndReferenceCount and g_atom_table say of the windows
\* and classes is exact after every call, those that failed half-way too: a
\* handle leads to its window or to none, and a class counts its windows.
THEOREM UserRecordsExact == Spec => []RecordsExact
<1>1. IInv => RecordsExact
  BY RecordsHold
<1> QED
  BY <1>1, SpecIInv, PTL

\* guest_wnd_update_hierarchy is called for every window whose links change,
\* so that the copies the guest's user32 reads in the desktop heap are those
\* of the windows and classes there are, also when the heap is full.
THEOREM UserMirrorSound == Spec => []MirrorSound
<1>1. IInv => MirrorSound
  BY MirrorHolds
<1> QED
  BY <1>1, SpecIInv, PTL

\* user_window_destroy, however deep in window procedures it is reached, takes
\* the window of the call that failed with what is below it, and no call of
\* user_class_register takes the class of a name away from another module.
THEOREM UserCallsKeep == Spec => CallsKeep
<1> DEFINE dead == Live(u) \ Live(u')
           Step == /\ dead # {} =>
                        /\ stack # <<>>
                        /\ Last(stack).wnd \in dead
                        /\ \A w \in Live(u) \ {Last(stack).wnd} :
                             w \in dead <=> u.wnd[w].parent \in dead
                   /\ \A w \in Live(u) \cap Live(u') : ChildrenKept(w, dead)
                   /\ \A name \in Names, inst \in Instances : ClassKept(name, inst)
<1>1. IInv /\ [Next]_vars => [Step]_vars
  BY NextIInv, KeepsMeans
<1> HIDE DEF Step
<1>2. Spec => [][Step]_vars
  BY <1>1, SpecIInv, PTL DEF Spec
<1> QED
  BY <1>2 DEF CallsKeep, Step

\* An enumeration with NtUserFindWindowEx, which starts user_window_find_child
\* again behind the child it found last, meets every child of the class once,
\* and user_window_find_recursive finds a window of the class at any depth.
THEOREM UserEnumerationComplete == Spec => []EnumerationComplete
<1>1. ASSUME IInv PROVE EnumerationComplete
  <2>1. TypeOK /\ TreeSound /\ HandlesNameWindows
    BY <1>1, TypesHold, TreeHolds, RecordsHold DEF RecordsExact
  <2>2. u.desktop \in Nodes
    <3>1. Good(u, stack)
      BY <1>1 DEF IInv
    <3> QED
      BY <3>1, GoodFacts, LiveIs DEF Nodes
  <2> QED
    BY <2>1, <2>2, EnumerationHolds
<1>2. IInv => EnumerationComplete
  BY <1>1
<1> QED
  BY <1>2, SpecIInv, PTL

=============================================================================
