---------------------------- MODULE LoaderProofs ----------------------------
(* What is proved of the module Loader and of the address space it maps into:
   that the page tables implement the abstract address map, that mapped pages
   stay where they are and that no guest page leads outside what was handed
   out; that every entry point is called once; and that every import is bound
   to the function its forwarders end at.                                   *)
EXTENDS Loader, FiniteSetTheorems, SequenceTheorems, WellFoundedInduction, TLAPS

---------------------------------------------------------------------------
(* Page numbers: the directory index and the table index of a page.         *)

LEMMA DivMod ==
  ASSUME NEW w \in Nat \ {0}, NEW a \in Nat
  PROVE  /\ a \div w \in Nat /\ a % w \in 0..(w - 1)
         /\ a = w * (a \div w) + (a % w)
  OBVIOUS

LEMMA DivBound ==
  ASSUME NEW w \in Nat \ {0}, NEW a \in 0..(w * w - 1)
  PROVE  a \div w \in 0..(w - 1)
<1>1. a \in Nat
  OBVIOUS
<1>2. a \div w \in Nat /\ a % w \in 0..(w - 1) /\ a = w * (a \div w) + (a % w)
  BY <1>1, DivMod
<1>3. SUFFICES ASSUME a \div w >= w PROVE FALSE
  BY <1>2
<1>4. w * (a \div w) >= w * w
  BY <1>2, <1>3
<1>5. QED BY <1>2, <1>4

LEMMA DivModInv ==
  ASSUME NEW w \in Nat \ {0}, NEW a \in Nat, NEW b \in Nat,
         a \div w = b \div w, a % w = b % w
  PROVE  a = b
  BY DivMod

LEMMA PageFacts ==
  /\ \A va \in Pages : va \in Nat /\ Pde(va) \in Index /\ Pte(va) \in Index
  /\ \A u, v \in Pages : Pde(u) = Pde(v) /\ Pte(u) = Pte(v) => u = v
<1>1. Words \in Nat \ {0} /\ \A va \in Pages : va \in Nat /\ va \in 0..(Words * Words - 1)
  BY AddressSpaceAssumption DEF Pages
<1>2. \A va \in Pages : Pde(va) \in Index
  BY <1>1, DivBound DEF Pde, Index
<1>3. \A va \in Pages : Pte(va) \in Index
  BY <1>1, DivMod DEF Pte, Index
<1>4. \A u, v \in Pages : Pde(u) = Pde(v) /\ Pte(u) = Pte(v) => u = v
  BY <1>1, DivModInv DEF Pde, Pte
<1>5. QED BY <1>1, <1>2, <1>3, <1>4

\* Pages up to a page are pages.
LEMMA PageIntervals ==
  ASSUME NEW a \in Nat, NEW b \in Pages
  PROVE  a..b \subseteq Pages
<1>1. Words * Words \in Nat
  BY AddressSpaceAssumption
<1> QED BY <1>1 DEF Pages

LEMMA IndexFinite ==
  ASSUME NEW S \in SUBSET Index
  PROVE  IsFiniteSet(S) /\ Cardinality(S) \in Nat
<1>1. IsFiniteSet(Index)
  BY FS_Interval, AddressSpaceAssumption DEF Index
<1>2. IsFiniteSet(S)
  BY <1>1, FS_Subset
<1>3. QED BY <1>2, FS_CardinalityType

---------------------------------------------------------------------------
(* Mapping.                                                                 *)

\* The directory entries that are present.
Present(m) == { d \in Index : m[Pd][d] # Absent }

(* The tables lie where the allocator of tables says, one for every directory
   entry that is present.                                                   *)
Tables(m, pt) ==
  /\ m \in [TableFrame -> [Index -> Entry \cup {Absent}]]
  /\ pt = Pd + 1 + Cardinality(Present(m))
  /\ \A d \in Present(m) : m[Pd][d].frame \in Pd + 1 .. pt - 1
  /\ \A c, d \in Present(m) : m[Pd][c].frame = m[Pd][d].frame => c = d

Below(F, d) == { c \in F : c < d }

(* The tables that an operation gives to the entries that lack one follow one
   another.                                                                 *)
LEMMA BelowCounts ==
  ASSUME NEW F \in SUBSET Index
  PROVE  /\ \A d \in F : Cardinality(Below(F, d)) \in 0..(Cardinality(F) - 1)
         /\ \A c, d \in F : Cardinality(Below(F, c)) = Cardinality(Below(F, d)) => c = d
<1>1. /\ IsFiniteSet(F) /\ Cardinality(F) \in Nat /\ Index \subseteq Nat
      /\ \A d \in F : IsFiniteSet(Below(F, d)) /\ Cardinality(Below(F, d)) \in Nat
  BY IndexFinite DEF Below, Index
<1>2. ASSUME NEW d \in F
      PROVE  Cardinality(Below(F, d)) < Cardinality(F)
  <2>1. Below(F, d) \in SUBSET F /\ d \notin Below(F, d)
    BY <1>1 DEF Below
  <2>2. Below(F, d) # F
    BY <2>1
  <2>3. /\ Cardinality(Below(F, d)) <= Cardinality(F)
        /\ Cardinality(F) = Cardinality(Below(F, d)) => F = Below(F, d)
    BY <1>1, <2>1, FS_Subset
  <2>4. QED BY <1>1, <2>2, <2>3
<1>3. ASSUME NEW c \in F, NEW d \in F, c < d
      PROVE  Cardinality(Below(F, c)) # Cardinality(Below(F, d))
  <2>1. Below(F, c) \in SUBSET Below(F, d)
    <3>1. SUFFICES ASSUME NEW b \in F, b < c PROVE b < d
      BY DEF Below
    <3>2. b \in Nat /\ c \in Nat /\ d \in Nat
      BY <1>1
    <3>3. QED BY <1>3, <3>1, <3>2
  <2>2. c \in Below(F, d) /\ c \notin Below(F, c)
    BY <1>1, <1>3 DEF Below
  <2>3. Cardinality(Below(F, d)) = Cardinality(Below(F, c)) => Below(F, d) = Below(F, c)
    BY <1>1, <2>1, FS_Subset
  <2>4. QED BY <2>2, <2>3
<1>4. ASSUME NEW c \in F, NEW d \in F, Cardinality(Below(F, c)) = Cardinality(Below(F, d))
      PROVE  c = d
  <2>1. c \in Nat /\ d \in Nat
    BY <1>1
  <2>2. ~(c < d) /\ ~(d < c)
    BY <1>3, <1>4
  <2>3. QED BY <2>1, <2>2
<1>5. QED BY <1>1, <1>2, <1>4

(* What mapping pages does: every directory entry that is needed has a table
   of its own, and of all pages exactly those named are mapped anew.        *)
Laid(m, pt, new) ==
  LET n == MapPages(m, pt, new)
      F == Missing(m, DOMAIN new)
  IN  /\ Tables(n, PtAfter(m, pt, DOMAIN new))
      /\ Present(n) = Present(m) \cup F
      /\ \A va \in Pages : Walk(n, va) = IF va \in DOMAIN new THEN new[va] ELSE Walk(m, va)

LEMMA MapPagesLays ==
  ASSUME NEW m, NEW pt, Tables(m, pt),
         NEW D \in SUBSET Pages, NEW new \in [D -> Entry],
         NEW A \in SUBSET Index, Cardinality(A) < Reserved,
         Present(m) \subseteq A, \A va \in D : Pde(va) \in A
  PROVE  Laid(m, pt, new)
<1> DEFINE n == MapPages(m, pt, new)
           P == Present(m)
           F == Missing(m, D)
           T(d) == TableOf(m, pt, D, d)
           np == pt + Cardinality(F)
<1>1. DOMAIN new = D /\ np = PtAfter(m, pt, D)
  BY DEF PtAfter
<1>2. /\ F \in SUBSET Index /\ F \subseteq A /\ P \subseteq Index /\ P \cap F = {}
      /\ \A va \in D : Pde(va) \in P \cup F
      /\ \A d \in F : m[Pd][d] = Absent
  BY PageFacts DEF Missing, Present
<1>3. /\ Cardinality(P) \in Nat /\ Cardinality(F) \in Nat
      /\ Cardinality(P \cup F) = Cardinality(P) + Cardinality(F)
      /\ Cardinality(P) + Cardinality(F) < Reserved
  <2>1. /\ IsFiniteSet(P) /\ IsFiniteSet(F) /\ IsFiniteSet(A)
        /\ Cardinality(P) \in Nat /\ Cardinality(F) \in Nat /\ Cardinality(A) \in Nat
    BY <1>2, IndexFinite
  <2>2. Cardinality(P \cup F) = Cardinality(P) + Cardinality(F) - Cardinality({})
    BY <1>2, <2>1, FS_Union
  <2>3. P \cup F \in SUBSET A
    BY <1>2
  <2>4. Cardinality(P \cup F) <= Cardinality(A)
    BY <2>1, <2>3, FS_Subset
  <2>5. Cardinality({}) = 0
    BY FS_EmptySet
  <2>6. Reserved \in Nat
    BY AddressSpaceAssumption
  <2> HIDE DEF P, F
  <2>7. QED BY <2>1, <2>2, <2>4, <2>5, <2>6
<1>4. /\ Pd \in Nat /\ Frames \in Nat /\ Reserved \in Nat \ {0}
      /\ AllocBase = Pd + Reserved /\ AllocBase <= Frames
      /\ TableFrame = Pd .. AllocBase - 1
  BY AddressSpaceAssumption DEF Pd, AllocBase, TableFrame
<1>5. /\ pt = Pd + 1 + Cardinality(P)
      /\ \A d \in P : m[Pd][d].frame \in Pd + 1 .. pt - 1
      /\ \A c, d \in P : m[Pd][c].frame = m[Pd][d].frame => c = d
      /\ m \in [TableFrame -> [Index -> Entry \cup {Absent}]]
  BY DEF Tables
<1>6. /\ \A d \in P : T(d) = m[Pd][d].frame
      /\ \A d \in F : T(d) = pt + Cardinality(Below(F, d))
  BY <1>2 DEF TableOf, Present, Below
<1> HIDE DEF P, F, T
<1>7. \A d \in P \cup F : T(d) \in Pd + 1 .. np - 1
  <2>1. ASSUME NEW d \in P PROVE T(d) \in Pd + 1 .. np - 1
    <3>1. T(d) \in Pd + 1 .. pt - 1
      BY <1>5, <1>6, <2>1
    <3>2. pt \in Nat /\ np \in Nat /\ pt <= np /\ Pd \in Nat
      BY <1>3, <1>4, <1>5
    <3>3. QED BY <3>1, <3>2
  <2>2. ASSUME NEW d \in F PROVE T(d) \in Pd + 1 .. np - 1
    <3>1. Cardinality(Below(F, d)) \in 0..(Cardinality(F) - 1)
      BY <1>2, BelowCounts
    <3>2. QED BY <1>3, <1>4, <1>5, <1>6, <3>1
  <2>3. QED BY <2>1, <2>2
<1>8. \A c, d \in P \cup F : T(c) = T(d) => c = d
  <2>1. ASSUME NEW c \in P, NEW d \in F PROVE T(c) # T(d)
    <3>1. Cardinality(Below(F, d)) \in 0..(Cardinality(F) - 1)
      BY <1>2, BelowCounts
    <3>2. T(c) \in Pd + 1 .. pt - 1 /\ T(d) = pt + Cardinality(Below(F, d))
      BY <1>5, <1>6
    <3>3. QED BY <1>3, <1>4, <1>5, <3>1, <3>2
  <2>2. ASSUME NEW c \in F, NEW d \in F, T(c) = T(d) PROVE c = d
    <3>1. /\ Cardinality(Below(F, c)) \in 0..(Cardinality(F) - 1)
          /\ Cardinality(Below(F, d)) \in 0..(Cardinality(F) - 1)
      BY <1>2, BelowCounts
    <3>2. Cardinality(Below(F, c)) = Cardinality(Below(F, d))
      BY <1>3, <1>4, <1>5, <1>6, <2>2, <3>1
    <3>3. QED BY <1>2, <3>2, BelowCounts
  <2>3. ASSUME NEW c \in P, NEW d \in P, T(c) = T(d) PROVE c = d
    BY <1>5, <1>6, <2>3
  <2>4. QED BY <2>1, <2>2, <2>3
<1>9. \A d \in P \cup F : T(d) \in TableFrame /\ T(d) # Pd /\ T(d) \in Frame
  <2>1. np \in Nat /\ np <= AllocBase /\ AllocBase \in Nat /\ Pd \in Nat /\ Frames \in Nat
    BY <1>3, <1>4, <1>5
  <2> HIDE DEF np
  <2>2. Pd + 1 .. np - 1 \subseteq TableFrame \ {Pd}
    BY <1>4, <2>1
  <2>3. TableFrame \subseteq Frame
    BY <1>4, <2>1 DEF Frame
  <2>4. QED BY <1>7, <2>2, <2>3
<1> DEFINE Holds(va, f, i) == T(Pde(va)) = f /\ Pte(va) = i
           Word(f, i) == IF f = Pd /\ i \in F
                         THEN [frame |-> T(i), user |-> TRUE, write |-> TRUE]
                         ELSE IF \E va \in D : Holds(va, f, i)
                         THEN new[CHOOSE va \in D : Holds(va, f, i)]
                         ELSE IF \E d \in F : T(d) = f THEN Absent
                         ELSE m[f][i]
<1>10. n = [f \in TableFrame |-> [i \in Index |-> Word(f, i)]]
  BY <1>1 DEF MapPages, F, T
<1>11. \A f \in TableFrame, i \in Index : n[f][i] = Word(f, i)
  BY <1>10
<1>12. Pd \in TableFrame
  BY <1>4
<1> HIDE DEF n
<1>13. ASSUME NEW i \in Index
       PROVE  n[Pd][i] = IF i \in F THEN [frame |-> T(i), user |-> TRUE, write |-> TRUE]
                         ELSE m[Pd][i]
  <2>1. ~(\E va \in D : Holds(va, Pd, i)) /\ ~(\E d \in F : T(d) = Pd)
    BY <1>2, <1>9
  <2>2. QED BY <1>11, <1>12, <2>1
<1>14. Present(n) = P \cup F /\ \A d \in P \cup F : n[Pd][d].frame = T(d)
  <2>1. \A d \in F : n[Pd][d].frame = T(d) /\ n[Pd][d] # Absent
    <3>1. TAKE d \in F
    <3>2. d \in Index /\ n[Pd][d] = [frame |-> T(d), user |-> TRUE, write |-> TRUE]
      BY <1>2, <1>13
    <3>3. [frame |-> T(d), user |-> TRUE, write |-> TRUE] \in Entry
      BY <1>9 DEF Entry
    <3>4. Absent \notin Entry
      BY AddressSpaceAssumption
    <3>5. n[Pd][d].frame = T(d)
      BY <3>2
    <3>6. n[Pd][d] # Absent
      BY <3>2, <3>3, <3>4
    <3>7. QED BY <3>5, <3>6
  <2>2. \A d \in Index \ F : n[Pd][d] = m[Pd][d]
    BY <1>13
  <2>3. QED BY <1>2, <1>6, <2>1, <2>2 DEF Present, P
<1>15. ASSUME NEW va \in Pages, Pde(va) \in P \cup F
       PROVE  Walk(n, va) = n[T(Pde(va))][Pte(va)]
  <2>1. Pde(va) \in Index
    BY PageFacts
  <2>2. n[Pd][Pde(va)] # Absent
    BY <1>14, <1>15, <2>1 DEF Present
  <2>3. QED BY <1>14, <1>15, <2>2 DEF Walk
<1>16. ASSUME NEW va \in D
       PROVE  Walk(n, va) = new[va]
  <2>1. va \in Pages /\ Pde(va) \in P \cup F /\ Pte(va) \in Index
    BY <1>2, PageFacts
  <2> DEFINE f == T(Pde(va))
             i == Pte(va)
  <2>2. f \in TableFrame /\ f # Pd
    BY <1>9, <2>1
  <2>3. ASSUME NEW u \in D, Holds(u, f, i)
        PROVE  u = va
    <3>1. Pde(u) = Pde(va)
      BY <1>2, <1>8, <2>1, <2>3
    <3>2. QED BY <2>1, <2>3, <3>1, PageFacts
  <2>4. Holds(va, f, i)
    OBVIOUS
  <2> HIDE DEF f, i, Holds
  <2>5. (CHOOSE u \in D : Holds(u, f, i)) = va
    BY <2>3, <2>4
  <2>6. Word(f, i) = new[va]
    BY <2>2, <2>4, <2>5
  <2> HIDE DEF Word
  <2>7. n[f][i] = new[va]
    BY <1>11, <2>1, <2>2, <2>6 DEF i
  <2>8. QED BY <1>15, <2>1, <2>7 DEF f, i
<1>17. ASSUME NEW va \in Pages \ D
       PROVE  Walk(n, va) = Walk(m, va)
  <2>1. Pde(va) \in Index /\ Pte(va) \in Index
    BY PageFacts
  <2>2. CASE Pde(va) \notin P \cup F
    BY <1>14, <2>1, <2>2 DEF Present, Walk, P
  <2>3. CASE Pde(va) \in P \cup F
    <3> DEFINE f == T(Pde(va))
               i == Pte(va)
    <3>1. f \in TableFrame /\ f # Pd
      BY <1>9, <2>3
    <3>2. ~(\E u \in D : Holds(u, f, i))
      <4>1. SUFFICES ASSUME NEW u \in D, T(Pde(u)) = T(Pde(va)), Pte(u) = Pte(va)
                     PROVE  FALSE
        OBVIOUS
      <4>2. Pde(u) = Pde(va)
        BY <1>2, <1>8, <2>3, <4>1
      <4>3. QED BY <4>1, <4>2, PageFacts
    <3>3. Walk(n, va) = IF \E d \in F : T(d) = f THEN Absent ELSE m[f][i]
      <4>1. Word(f, i) = IF \E d \in F : T(d) = f THEN Absent ELSE m[f][i]
        BY <3>1, <3>2
      <4>2. Walk(n, va) = n[f][i]
        BY <1>15, <2>3
      <4> HIDE DEF Word, f, i
      <4>3. n[f][i] = Word(f, i)
        BY <1>11, <2>1, <3>1 DEF i
      <4>4. QED BY <4>1, <4>2, <4>3
    <3>4. (\E d \in F : T(d) = f) <=> Pde(va) \in F
      BY <1>8, <2>3
    <3>5. CASE Pde(va) \in F
      BY <1>2, <3>3, <3>4, <3>5 DEF Walk
    <3>6. CASE Pde(va) \notin F
      BY <1>6, <2>3, <3>3, <3>4, <3>6 DEF Walk, P, Present
    <3>7. QED BY <3>5, <3>6
  <2>4. QED BY <2>2, <2>3
<1>18. ASSUME NEW f \in TableFrame, NEW i \in Index
       PROVE  Word(f, i) \in Entry \cup {Absent}
  <2>1. CASE f = Pd /\ i \in F
    BY <1>9, <2>1 DEF Entry
  <2>2. CASE ~(f = Pd /\ i \in F) /\ \E va \in D : Holds(va, f, i)
    BY <2>2
  <2>3. CASE ~(f = Pd /\ i \in F) /\ ~(\E va \in D : Holds(va, f, i))
    BY <1>5, <2>3
  <2>4. QED BY <2>1, <2>2, <2>3
<1>19. n \in [TableFrame -> [Index -> Entry \cup {Absent}]]
  BY <1>10, <1>18
<1>20. Tables(n, np)
  <2>1. np = Pd + 1 + Cardinality(Present(n))
    BY <1>3, <1>4, <1>5, <1>14
  <2>2. QED BY <1>7, <1>8, <1>14, <1>19, <2>1 DEF Tables
<1>21. QED BY <1>1, <1>14, <1>16, <1>17, <1>20 DEF Laid, n, F, P

---------------------------------------------------------------------------
(* The address space, whatever the pages are mapped for.                    *)

Tabled == { Pde(va) : va \in Reachable(program) }

Core ==
  /\ program \in Programs
  /\ Tables(mem, nextPt)
  /\ Present(mem) \subseteq Tabled
  /\ allocPtr \in AllocBase .. Frames
  /\ GuestKeptOut

\* Exactly the pages of new are mapped anew.
Walked(new) ==
  \A va \in Pages : Walk(mem', va) = IF va \in DOMAIN new THEN new[va] ELSE Walk(mem, va)

LEMMA ReachableFacts ==
  ASSUME NEW p \in Programs
  PROVE  /\ Reachable(p) \subseteq Pages
         /\ { Pde(va) : va \in Reachable(p) } \in SUBSET Index
         /\ Cardinality({ Pde(va) : va \in Reachable(p) }) < Reserved
<1>1. /\ Reachable(p) \subseteq Pages
      /\ Cardinality({ Pde(va) : va \in Reachable(p) }) < Reserved
  BY LoaderAssumption
<1>2. QED BY <1>1, PageFacts

LEMMA WalkTyped ==
  ASSUME Core, NEW va \in Pages
  PROVE  Walk(mem, va) \in Entry \cup {Absent}
<1>1. /\ mem \in [TableFrame -> [Index -> Entry \cup {Absent}]]
      /\ \A d \in Present(mem) : mem[Pd][d].frame \in TableFrame
  <2>1. /\ Cardinality(Present(mem)) < Reserved /\ Cardinality(Present(mem)) \in Nat
    <3>1. Tabled \in SUBSET Index /\ Cardinality(Tabled) < Reserved
      BY ReachableFacts DEF Core, Tabled
    <3>2. /\ IsFiniteSet(Tabled) /\ Cardinality(Tabled) \in Nat
          /\ Present(mem) \in SUBSET Tabled
      BY <3>1, IndexFinite DEF Core
    <3>3. Cardinality(Present(mem)) <= Cardinality(Tabled)
      BY <3>2, FS_Subset
    <3>4. Cardinality(Present(mem)) \in Nat /\ Reserved \in Nat
      BY IndexFinite, AddressSpaceAssumption DEF Present
    <3>5. QED BY <3>1, <3>2, <3>3, <3>4
  <2>2. Pd \in Nat /\ Reserved \in Nat /\ TableFrame = Pd .. Pd + Reserved - 1
    BY AddressSpaceAssumption DEF Pd, TableFrame, AllocBase
  <2>3. QED BY <2>1, <2>2 DEF Core, Tables
<1>2. Pde(va) \in Index /\ Pte(va) \in Index
  BY PageFacts
<1>3. CASE mem[Pd][Pde(va)] = Absent
  BY <1>3 DEF Walk
<1>4. CASE mem[Pd][Pde(va)] # Absent
  BY <1>1, <1>2, <1>4 DEF Walk, Present
<1>5. QED BY <1>3, <1>4

\* The tables that are present fit into the frames reserved.
LEMMA TablesFit ==
  ASSUME Core
  PROVE  nextPt \in Pd + 1 .. AllocBase
<1>1. Tabled \in SUBSET Index /\ Cardinality(Tabled) < Reserved
  BY ReachableFacts DEF Core, Tabled
<1>2. /\ IsFiniteSet(Tabled) /\ Cardinality(Tabled) \in Nat
      /\ Present(mem) \in SUBSET Tabled
  BY <1>1, IndexFinite DEF Core
<1>3. Cardinality(Present(mem)) <= Cardinality(Tabled)
  BY <1>2, FS_Subset
<1>4. Cardinality(Present(mem)) \in Nat /\ Reserved \in Nat /\ Pd \in Nat
  BY IndexFinite, AddressSpaceAssumption DEF Present, Pd
<1>5. nextPt = Pd + 1 + Cardinality(Present(mem))
  BY DEF Core, Tables
<1>6. QED BY <1>1, <1>2, <1>3, <1>4, <1>5 DEF AllocBase

LEMMA MapLaid ==
  ASSUME Core, NEW D \in SUBSET Reachable(program), NEW new \in [D -> Entry],
         mem' = MapPages(mem, nextPt, new),
         nextPt' = PtAfter(mem, nextPt, DOMAIN new),
         program' = program
  PROVE  /\ Tables(mem', nextPt')
         /\ Present(mem') \subseteq Tabled'
         /\ Walked(new)
<1>1. /\ D \in SUBSET Pages /\ Tabled \in SUBSET Index /\ Cardinality(Tabled) < Reserved
      /\ \A va \in D : Pde(va) \in Tabled
      /\ Tabled' = Tabled
  BY ReachableFacts DEF Core, Tabled
<1>2. Tables(mem, nextPt) /\ Present(mem) \subseteq Tabled
  BY DEF Core
<1> HIDE DEF Tabled
<1>3. Laid(mem, nextPt, new)
  BY <1>1, <1>2, MapPagesLays
<1>4. Missing(mem, D) \subseteq Tabled
  BY <1>1 DEF Missing
<1>5. QED BY <1>1, <1>2, <1>3, <1>4 DEF Laid, Walked

LEMMA MapFreshOK ==
  ASSUME Core, NEW D \in SUBSET Reachable(program), NEW new \in [D -> Entry], NEW n \in Nat,
         MapFresh(n, new), program' = program,
         \A va \in D : new[va].frame \in allocPtr .. allocPtr + n - 1,
         \A u, v \in D : new[u].frame = new[v].frame => u = v
  PROVE  Core' /\ Walked(new) /\ Abstract!Map
<1>1. /\ mem' = MapPages(mem, nextPt, new) /\ nextPt' = PtAfter(mem, nextPt, DOMAIN new)
      /\ n <= Frames - allocPtr /\ allocPtr' = allocPtr + n
  BY DEF MapFresh, Room
<1>2. Tables(mem', nextPt') /\ Present(mem') \subseteq Tabled' /\ Walked(new)
  BY <1>1, MapLaid
<1>3. /\ allocPtr \in Nat /\ AllocBase \in Nat /\ Frames \in Nat /\ AllocBase <= allocPtr
      /\ allocPtr' \in AllocBase .. Frames /\ Low \in Nat /\ Low <= AllocBase
  BY <1>1, AddressSpaceAssumption DEF Core, AllocBase, Pd
<1>4. /\ D \subseteq Pages /\ Absent \notin Entry
      /\ \A va \in Pages : Walk(mem, va) \in Entry \cup {Absent}
  BY ReachableFacts, WalkTyped, AddressSpaceAssumption DEF Core
<1>5. GuestKeptOut'
  <2>1. SUFFICES ASSUME NEW va \in Pages, Walk(mem', va) # Absent, Walk(mem', va).user
                 PROVE  Walk(mem', va).frame \in AllocBase .. allocPtr' - 1
    BY DEF GuestKeptOut, IsMapped, GetPhys
  <2>2. CASE va \in D
    <3>1. Walk(mem', va).frame \in allocPtr .. allocPtr + n - 1
      BY <1>2, <2>2 DEF Walked
    <3>2. QED BY <1>1, <1>3, <3>1
  <2>3. CASE va \notin D
    <3>1. Walk(mem', va) = Walk(mem, va)
      BY <1>2, <2>3 DEF Walked
    <3>2. Walk(mem, va).frame \in AllocBase .. allocPtr - 1
      BY <2>1, <3>1 DEF Core, GuestKeptOut, IsMapped, GetPhys
    <3>3. QED BY <1>1, <1>3, <3>1, <3>2
  <2>4. QED BY <2>2, <2>3
<1>6. Core'
  BY <1>2, <1>3, <1>5 DEF Core
<1>7. \A va \in Pages : /\ va \in D => Map'[va] = new[va].frame
                        /\ va \notin D => Map'[va] = Map[va]
  BY <1>2, <1>4 DEF Walked, Map, IsMapped, GetPhys
<1>8. Abstract!Changed \subseteq D
  BY <1>7 DEF Abstract!Changed
<1>9. Abstract!Map
  <2>1. AllocBase .. allocPtr - 1 \subseteq AllocBase .. allocPtr' - 1
    BY <1>1, <1>3
  <2>2. ASSUME NEW p \in Abstract!Changed
        PROVE  /\ Map'[p] \in (AllocBase .. allocPtr' - 1) \ (AllocBase .. allocPtr - 1)
               /\ Map'[p] >= Low
    <3>1. p \in D /\ p \in Pages
      BY <1>4, <1>8
    <3>2. Map'[p] \in allocPtr .. allocPtr + n - 1
      BY <1>7, <3>1
    <3>3. QED BY <1>1, <1>3, <3>2
  <2>3. ASSUME NEW p \in Abstract!Changed, NEW q \in Abstract!Changed, Map'[p] = Map'[q]
        PROVE  p = q
    BY <1>4, <1>7, <1>8, <2>3
  <2> HIDE DEF Map
  <2>4. QED BY <2>1, <2>2, <2>3 DEF Abstract!Map
<1>10. QED BY <1>2, <1>6, <1>9

\* All pages but those of D stay as they are.
Anew(D) == \A va \in Pages \ D : Walk(mem', va) = Walk(mem, va)

LEMMA RegionOK ==
  ASSUME Core, NEW at \in Pages, NEW n \in Nat, NEW write \in BOOLEAN,
         Span(at, n) \subseteq Reachable(program), MapRegion(at, n, write), program' = program
  PROVE  Core' /\ Anew(Span(at, n)) /\ Abstract!Map /\ allocPtr' = allocPtr + n
<1> DEFINE D == Span(at, n)
           new == ToFrames(at, n, allocPtr, write)
<1>1. /\ allocPtr \in Nat /\ n <= Frames - allocPtr /\ Frames \in Nat /\ at \in Nat
      /\ allocPtr' = allocPtr + n /\ MapFresh(n, new)
  BY AddressSpaceAssumption, PageFacts DEF Core, AllocBase, Pd, MapRegion, MapFresh, Room
<1>2. \A va \in D : va - at \in 0 .. n - 1
  BY <1>1 DEF Span
<1>3. new = [va \in D |-> [frame |-> allocPtr + (va - at), user |-> TRUE, write |-> write]]
  BY DEF ToFrames
<1> HIDE DEF D, new
<1>4. \A va \in D : /\ new[va].frame = allocPtr + (va - at)
                    /\ new[va] \in Entry
  <2>1. TAKE va \in D
  <2>2. allocPtr + (va - at) \in Frame
    BY <1>1, <1>2 DEF Frame
  <2>3. QED BY <1>3, <2>2 DEF Entry
<1>5. new \in [D -> Entry]
  BY <1>3, <1>4
<1>6. /\ \A va \in D : new[va].frame \in allocPtr .. allocPtr + n - 1
      /\ \A u, v \in D : new[u].frame = new[v].frame => u = v
  <2>1. \A va \in D : va \in Int
    BY DEF D, Span
  <2>2. QED BY <1>1, <1>2, <1>4, <2>1
<1>7. D \in SUBSET Reachable(program)
  BY DEF D
<1>8. Core' /\ Walked(new) /\ Abstract!Map
  BY <1>1, <1>5, <1>6, <1>7, MapFreshOK
<1>9. Anew(D)
  BY <1>5, <1>8 DEF Walked, Anew
<1>10. QED BY <1>1, <1>8, <1>9 DEF D

LEMMA LowOK ==
  ASSUME Core, MapLow, program' = program
  PROVE  Core' /\ Anew(LowPages) /\ Abstract!MapLow
<1> DEFINE D == LowPages
           new == [va \in 0 .. Low - 1 |-> [frame |-> va, user |-> FALSE, write |-> TRUE]]
<1>1. /\ mem' = MapPages(mem, nextPt, new) /\ nextPt' = PtAfter(mem, nextPt, DOMAIN new)
      /\ allocPtr' = allocPtr
  BY DEF MapLow
<1>2. /\ D \in SUBSET Reachable(program) /\ D \subseteq Pages
      /\ \A va \in D : va \in Frame
  <2>1. D \subseteq Reachable(program)
    BY DEF Reachable
  <2>2. D \subseteq Pages
    BY <2>1, ReachableFacts DEF Core
  <2>3. /\ Low \in Nat /\ Frames \in Nat /\ Reserved \in Nat /\ Low + Reserved <= Frames
    BY AddressSpaceAssumption DEF AllocBase, Pd
  <2>4. \A va \in D : va \in Frame
    BY <2>3 DEF LowPages, Frame
  <2>5. QED BY <2>1, <2>2, <2>4
<1>3. \A va \in D : new[va] = [frame |-> va, user |-> FALSE, write |-> TRUE]
  BY DEF LowPages
<1>4. new \in [D -> Entry]
  BY <1>2 DEF LowPages, Entry
<1> HIDE DEF new
<1>5. Tables(mem', nextPt') /\ Present(mem') \subseteq Tabled' /\ Walked(new)
  BY <1>1, <1>2, <1>4, MapLaid
<1>6. \A va \in Pages : Walk(mem', va) = IF va \in D THEN new[va] ELSE Walk(mem, va)
  BY <1>4, <1>5 DEF Walked
<1>7. GuestKeptOut'
  <2>1. SUFFICES ASSUME NEW va \in Pages, Walk(mem', va) # Absent, Walk(mem', va).user
                 PROVE  Walk(mem', va).frame \in AllocBase .. allocPtr' - 1
    BY DEF GuestKeptOut, IsMapped, GetPhys
  <2>2. va \notin D
    <3>1. SUFFICES ASSUME va \in D PROVE FALSE
      OBVIOUS
    <3>2. Walk(mem', va) = [frame |-> va, user |-> FALSE, write |-> TRUE]
      BY <1>3, <1>6, <3>1
    <3>3. [frame |-> va, user |-> FALSE, write |-> TRUE].user = FALSE
      OBVIOUS
    <3>4. QED BY <2>1, <3>2, <3>3, Zenon
  <2>3. Walk(mem', va) = Walk(mem, va)
    BY <1>6, <2>2
  <2>4. QED BY <1>1, <2>1, <2>3 DEF Core, GuestKeptOut, IsMapped, GetPhys
<1>8. Core' /\ Anew(D)
  BY <1>1, <1>5, <1>6, <1>7 DEF Core, Anew
<1>9. Absent \notin Entry
  BY AddressSpaceAssumption
<1>10. \A va \in Pages : /\ va \in D => Map'[va] = va
                         /\ va \notin D => Map'[va] = Map[va]
  BY <1>3, <1>4, <1>6, <1>9 DEF Map, IsMapped, GetPhys
<1>11. \A va \in Abstract!Changed : va \in D
  BY <1>10 DEF Abstract!Changed
<1>12. \A p \in Abstract!Changed : p < Low /\ Map'[p] = p
  BY <1>2, <1>10, <1>11, AddressSpaceAssumption DEF LowPages
<1> HIDE DEF D
<1>13. Abstract!MapLow
  BY <1>1, <1>12 DEF Abstract!MapLow
<1>14. QED BY <1>8, <1>13 DEF D

LEMMA ThreadPagesOK ==
  ASSUME Core, program' = program,
         nextTeb \in TebPages, nextStack \in Nat, nextStack <= StackTop,
         StackPages + StackBase < nextStack,
         NEW got \in 0 .. StackPages, MapFresh(got + 1, ThreadPages(got))
  PROVE  LET D == {nextTeb} \cup Span(StackLimit, got)
         IN  /\ Core' /\ Abstract!Map
             /\ \A va \in Pages :
                  IF va \in D THEN Walk(mem', va) # Absent /\ Walk(mem', va).user
                                   /\ Walk(mem', va).write
                              ELSE Walk(mem', va) = Walk(mem, va)
<1> DEFINE S == Span(StackLimit, got)
           D == {nextTeb} \cup S
           new == ThreadPages(got)
           Place(va) == IF va = nextTeb THEN 0 ELSE 1 + (va - StackLimit)
<1>1. /\ allocPtr \in Nat /\ got + 1 <= Frames - allocPtr /\ Frames \in Nat
      /\ StackLimit = nextStack - StackPages /\ StackPages \in Nat /\ StackBase \in Nat
      /\ StackLimit \in Nat /\ StackBase < StackLimit /\ got \in Nat
      /\ StackTop < TebFloor /\ TebFloor \in Nat /\ StackTop \in Nat
      /\ nextTeb \in Nat /\ TebFloor <= nextTeb
      /\ MainTeb \in Nat /\ TebStep \in Nat
  BY AddressSpaceAssumption, PageFacts
  DEF Core, AllocBase, Pd, MapFresh, Room, StackLimit, TebPages
<1>2. /\ \A va \in S : va \in Nat /\ va - StackLimit \in 0 .. got - 1 /\ va \in StackRegion
      /\ nextTeb \notin S
  BY <1>1 DEF Span, StackRegion
<1>3. \A va \in D : Place(va) \in 0 .. got
  BY <1>1, <1>2
<1>4. \A u, v \in D : Place(u) = Place(v) => u = v
  BY <1>1, <1>2
<1>5. D \in SUBSET Reachable(program) /\ D \subseteq Pages
  BY <1>2, ReachableFacts DEF Core, Reachable
<1>6. new = [va \in D |-> [frame |-> IF va = nextTeb THEN allocPtr
                                     ELSE allocPtr + 1 + (va - StackLimit),
                           user |-> TRUE, write |-> TRUE]]
  BY DEF ThreadPages
<1>7. \A va \in D : (IF va = nextTeb THEN allocPtr ELSE allocPtr + 1 + (va - StackLimit))
                      = allocPtr + Place(va)
  BY <1>1, <1>2
<1> HIDE DEF D, new, Place
<1>8. \A va \in D : /\ new[va].frame = allocPtr + Place(va)
                    /\ new[va] \in Entry /\ new[va].user /\ new[va].write
  <2>1. TAKE va \in D
  <2>2. allocPtr + Place(va) \in Frame
    BY <1>1, <1>3 DEF Frame
  <2>3. new[va] = [frame |-> allocPtr + Place(va), user |-> TRUE, write |-> TRUE]
    BY <1>6, <1>7
  <2>4. QED BY <2>2, <2>3 DEF Entry
<1>9. new \in [D -> Entry]
  BY <1>6, <1>8
<1>10. /\ \A va \in D : new[va].frame \in allocPtr .. allocPtr + (got + 1) - 1
       /\ \A u, v \in D : new[u].frame = new[v].frame => u = v
  BY <1>1, <1>3, <1>4, <1>8
<1>11. MapFresh(got + 1, new) /\ got + 1 \in Nat
  BY <1>1 DEF new
<1>12. Core' /\ Walked(new) /\ Abstract!Map
  BY <1>5, <1>9, <1>10, <1>11, MapFreshOK
<1>13. Absent \notin Entry
  BY AddressSpaceAssumption
<1>14. \A va \in Pages :
         IF va \in D THEN Walk(mem', va) # Absent /\ Walk(mem', va).user /\ Walk(mem', va).write
                     ELSE Walk(mem', va) = Walk(mem, va)
  BY <1>8, <1>9, <1>12, <1>13 DEF Walked
<1>15. QED BY <1>12, <1>14 DEF D

---------------------------------------------------------------------------
(* The inductive invariant. Of the regions that starting a program maps, in
   their order, those up to Placed are behind; the pages of all others, and
   whatever else is still to be mapped, are free.                           *)

Loading == phase \in {"before", "load"}
MainPart == Len(BeforeLoad) + Len(AfterLoad) + Len(AfterPaging)

Placed ==
  IF Loading THEN Len(BeforeLoad) - Len(regions)
  ELSE IF phase = "after" THEN Len(BeforeLoad) + Len(AfterLoad) - Len(regions)
  ELSE IF phase = "process" THEN MainPart - Len(regions)
  ELSE IF GuestRuns THEN MainPart + connected
  ELSE Len(Starting)

RegionsInv ==
  /\ phase \in {"before", "load", "after", "process", "dlls", "run", "stopped"}
  /\ regions \in Seq([at : Pages, pages : Nat, write : BOOLEAN, must : BOOLEAN])
  /\ Placed \in 0 .. Len(Starting)
  /\ \A i \in DOMAIN regions : /\ Placed + i \in DOMAIN Starting
                               /\ regions[i] = Starting[Placed + i]
  /\ phase \in {"load", "stopped"} => regions = <<>>
  /\ connected \in 0 .. Len(Shared)
  /\ ~GuestRuns => connected = 0
  /\ GuestRuns /\ regions # <<>> => Len(regions) = Len(Shared) - connected

Unmapped(S) == \A va \in S \ Contested(program) : Walk(mem, va) = Absent

\* Pages that are clear of D but for those that several parts claim.
Clear(S, D) == S \cap D \subseteq Contested(program)

Untouched ==
  /\ \A i \in DOMAIN Starting : i > Placed => Unmapped(RegionPages(Starting[i]))
  /\ Loading => \A m \in Fitting(program) \ Listed : Unmapped(ImagePages(program, m))
  /\ Loading \/ phase = "after" => Unmapped(LowPages)
  /\ Unmapped({ va \in TebPages : va <= nextTeb })

ThreadsInv ==
  /\ threads \in Seq([teb : Pages, base : Pages, limit : Pages])
  /\ nextTeb \in Nat /\ nextTeb <= MainTeb - TebStep
  /\ nextStack \in Nat /\ nextStack <= StackTop
  /\ threads # <<>> => GuestRuns
  /\ \A i \in DOMAIN threads :
       /\ threads[i].teb \in TebPages /\ nextTeb < threads[i].teb
       /\ StackBase <= threads[i].limit /\ nextStack < threads[i].limit
       /\ threads[i].base <= StackTop
  /\ ThreadsApart

ModulesInv ==
  /\ modules \in Seq(Images) /\ IsInjective(modules)
  /\ phase = "before" => modules = <<>>

IInv == Core /\ RegionsInv /\ Untouched /\ ThreadsInv /\ ModulesInv

Joins(s, t, u, S) ==
  /\ u \in Seq(S) /\ Len(u) = Len(s) + Len(t) /\ DOMAIN u = 1 .. Len(u)
  /\ \A i \in 1 .. Len(s) : u[i] = s[i]
  /\ \A i \in 1 .. Len(t) : u[Len(s) + i] = t[i]

LEMMA Joined ==
  ASSUME NEW S, NEW s \in Seq(S), NEW t \in Seq(S)
  PROVE  Joins(s, t, s \o t, S)
  BY DEF Joins

\* The regions of the four lists, one after the other.
LEMMA StartingFacts ==
  /\ Len(BeforeLoad) \in Nat /\ Len(AfterLoad) \in Nat
  /\ Len(AfterPaging) \in Nat /\ Len(Shared) \in Nat
  /\ Starting \in Seq([at : Pages, pages : Nat, write : BOOLEAN, must : BOOLEAN])
  /\ Len(Starting) = MainPart + Len(Shared)
  /\ DOMAIN Starting = 1 .. Len(Starting)
  /\ \A i \in 1 .. Len(BeforeLoad) : Starting[i] = BeforeLoad[i]
  /\ \A i \in 1 .. Len(AfterLoad) : Starting[Len(BeforeLoad) + i] = AfterLoad[i]
  /\ \A i \in 1 .. Len(AfterPaging) :
       Starting[Len(BeforeLoad) + Len(AfterLoad) + i] = AfterPaging[i]
  /\ \A i \in 1 .. Len(Shared) : Starting[MainPart + i] = Shared[i]
<1> DEFINE R == [at : Pages, pages : Nat, write : BOOLEAN, must : BOOLEAN]
           b == BeforeLoad \o AfterLoad
           c == b \o AfterPaging
<1>1. /\ BeforeLoad \in Seq(R) /\ AfterLoad \in Seq(R)
      /\ AfterPaging \in Seq(R) /\ Shared \in Seq(R)
  BY LoaderAssumption
<1> HIDE DEF R
<1>2. /\ b \in Seq(R) /\ Len(b) = Len(BeforeLoad) + Len(AfterLoad)
      /\ \A i \in 1 .. Len(BeforeLoad) : b[i] = BeforeLoad[i]
      /\ \A i \in 1 .. Len(AfterLoad) : b[Len(BeforeLoad) + i] = AfterLoad[i]
  <2>1. Joins(BeforeLoad, AfterLoad, b, R)
    BY <1>1, Joined
  <2> HIDE DEF b
  <2>2. QED BY <2>1 DEF Joins
<1> HIDE DEF b
<1>3. /\ c \in Seq(R) /\ Len(c) = Len(b) + Len(AfterPaging)
      /\ \A i \in 1 .. Len(b) : c[i] = b[i]
      /\ \A i \in 1 .. Len(AfterPaging) : c[Len(b) + i] = AfterPaging[i]
  <2>1. Joins(b, AfterPaging, c, R)
    BY <1>1, <1>2, Joined
  <2> HIDE DEF c
  <2>2. QED BY <2>1 DEF Joins
<1> HIDE DEF c
<1> DEFINE s == c \o Shared
<1>4. /\ s \in Seq(R) /\ Len(s) = Len(c) + Len(Shared)
      /\ \A i \in 1 .. Len(c) : s[i] = c[i]
      /\ \A i \in 1 .. Len(Shared) : s[Len(c) + i] = Shared[i]
      /\ DOMAIN s = 1 .. Len(s)
  <2>1. Joins(c, Shared, s, R)
    BY <1>1, <1>3, Joined
  <2> HIDE DEF s
  <2>2. QED BY <2>1 DEF Joins
<1>5. s = Starting
  BY DEF Starting, b, c
<1> HIDE DEF s
<1>6. /\ Len(BeforeLoad) \in Nat /\ Len(AfterLoad) \in Nat
      /\ Len(AfterPaging) \in Nat /\ Len(Shared) \in Nat
  BY <1>1
<1>7. /\ Len(c) = MainPart
      /\ \A i \in 1 .. Len(BeforeLoad) : s[i] = BeforeLoad[i]
      /\ \A i \in 1 .. Len(AfterLoad) : s[Len(BeforeLoad) + i] = AfterLoad[i]
      /\ \A i \in 1 .. Len(AfterPaging) :
           s[Len(BeforeLoad) + Len(AfterLoad) + i] = AfterPaging[i]
  <2>1. Len(b) \in Nat /\ Len(c) \in Nat /\ Len(c) = MainPart
    BY <1>2, <1>3, <1>6 DEF MainPart
  <2>2. ASSUME NEW i \in 1 .. Len(b)
        PROVE  s[i] = b[i]
    BY <1>3, <1>4, <1>6, <2>1
  <2>3. ASSUME NEW i \in 1 .. Len(BeforeLoad)
        PROVE  s[i] = BeforeLoad[i]
    <3>1. i \in 1 .. Len(b)
      BY <1>2, <1>6
    <3>2. QED BY <1>2, <2>2, <3>1
  <2>4. ASSUME NEW i \in 1 .. Len(AfterLoad)
        PROVE  s[Len(BeforeLoad) + i] = AfterLoad[i]
    <3>1. Len(BeforeLoad) + i \in 1 .. Len(b)
      BY <1>2, <1>6
    <3>2. QED BY <1>2, <2>2, <3>1
  <2>5. ASSUME NEW i \in 1 .. Len(AfterPaging)
        PROVE  s[Len(b) + i] = AfterPaging[i]
    <3>1. Len(b) + i \in 1 .. Len(c)
      BY <1>3, <1>6, <2>1
    <3>2. QED BY <1>3, <1>4, <3>1
  <2>6. QED BY <1>2, <2>1, <2>3, <2>4, <2>5
<1>8. QED BY <1>4, <1>5, <1>6, <1>7 DEF R

\* Where a region of the lists lies.
LEMMA RegionPlace ==
  ASSUME NEW i \in DOMAIN Starting, program \in Programs
  PROVE  /\ Starting[i].at \in Pages /\ Starting[i].pages \in Nat
         /\ Starting[i].write \in BOOLEAN
         /\ RegionPages(Starting[i]) = Span(Starting[i].at, Starting[i].pages)
         /\ RegionPages(Starting[i]) \subseteq Reachable(program)
         /\ Apart(RegionPages(Starting[i]), LowPages \cup TebPages)
         /\ \A j \in DOMAIN Starting : i # j =>
              Apart(RegionPages(Starting[i]), RegionPages(Starting[j]))
         /\ i > MainPart => Apart(RegionPages(Starting[i]), StackRegion)
         /\ \A m \in Fitting(program) :
              Clear(ImagePages(program, m), RegionPages(Starting[i]))
<1> DEFINE R == [at : Pages, pages : Nat, write : BOOLEAN, must : BOOLEAN]
<1>1. Starting[i] \in R
  <2>1. Starting \in Seq(R) /\ i \in 1 .. Len(Starting)
    BY StartingFacts
  <2> HIDE DEF R
  <2>2. QED BY <2>1
<1>2. RegionPages(Starting[i]) \subseteq Reachable(program)
  BY DEF Reachable
<1>3. /\ Apart(RegionPages(Starting[i]), LowPages \cup TebPages)
      /\ \A j \in DOMAIN Starting : i # j =>
           Apart(RegionPages(Starting[i]), RegionPages(Starting[j]))
      /\ \A m \in Fitting(program) :
           Clear(ImagePages(program, m), RegionPages(Starting[i]))
  BY LayoutAssumption DEF Clear, Contested, Fixed
<1>4. i > MainPart => Apart(RegionPages(Starting[i]), StackRegion)
  <2>1. SUFFICES ASSUME i > MainPart PROVE Apart(RegionPages(Starting[i]), StackRegion)
    OBVIOUS
  <2>2. /\ MainPart \in Nat /\ i - MainPart \in 1 .. Len(Shared)
        /\ i = MainPart + (i - MainPart)
    BY <2>1, StartingFacts DEF MainPart
  <2>3. Starting[i] = Shared[i - MainPart]
    BY <2>2, StartingFacts
  <2>4. DOMAIN Shared = 1 .. Len(Shared)
    BY LoaderAssumption
  <2>5. QED BY <2>2, <2>3, <2>4, LayoutAssumption
<1>5. QED BY <1>1, <1>2, <1>3, <1>4 DEF RegionPages

---------------------------------------------------------------------------
(* What mapping some pages does to the parts of the invariant.              *)

\* A page that is mapped outside the stacks stays where it is.
Stays == \A va \in Pages \ Contested(program) : IsMapped(mem, va) => Walk(mem', va) = Walk(mem, va)

LEMMA StaysAnew ==
  ASSUME NEW D, Anew(D), Unmapped(D)
  PROVE  Stays
  BY DEF Anew, Unmapped, Stays, IsMapped

LEMMA UnmappedAnew ==
  ASSUME NEW D, Anew(D), NEW S \in SUBSET Pages, Unmapped(S),
         S \cap D \subseteq Contested(program)
  PROVE  \A va \in S \ Contested(program) : Walk(mem', va) = Absent
  BY DEF Anew, Unmapped

LEMMA UntouchedLater ==
  ASSUME Core, Untouched, NEW D, Anew(D), program' = program,
         Placed \in Int, Placed' \in Int, Placed' >= Placed,
         Loading' => Loading, Loading' \/ phase' = "after" => Loading \/ phase = "after",
         nextTeb \in Nat, nextTeb' \in Nat, nextTeb' <= nextTeb,
         \A i \in DOMAIN Starting : i > Placed' => Clear(RegionPages(Starting[i]), D),
         Loading' => \A m \in Fitting(program) \ Listed' :
                       m \notin Listed /\ Clear(ImagePages(program, m), D),
         Loading' \/ phase' = "after" => Clear(LowPages, D),
         Clear({ va \in TebPages : va <= nextTeb' }, D)
  PROVE  Untouched'
<1>1. /\ \A i \in DOMAIN Starting : RegionPages(Starting[i]) \subseteq Pages
      /\ \A m \in Fitting(program) : ImagePages(program, m) \subseteq Pages
      /\ LowPages \subseteq Pages /\ TebPages \subseteq Pages /\ TebPages \subseteq Nat
      /\ DOMAIN Starting \subseteq Nat
  <2>1. Reachable(program) \subseteq Pages
    BY ReachableFacts DEF Core
  <2>2. Pages \subseteq Nat
    BY PageFacts
  <2>3. \A i \in DOMAIN Starting : RegionPages(Starting[i]) \subseteq Pages
    BY <2>1, RegionPlace DEF Core
  <2>4. \A m \in Fitting(program) : ImagePages(program, m) \subseteq Pages
    BY <2>1 DEF Reachable
  <2>5. LowPages \subseteq Pages /\ TebPages \subseteq Pages
    BY <2>1 DEF Reachable
  <2>6. DOMAIN Starting \subseteq Nat
    <3>1. DOMAIN Starting = 1 .. Len(Starting)
      BY StartingFacts
    <3>2. QED BY <3>1
  <2>7. QED BY <2>2, <2>3, <2>4, <2>5, <2>6
<1>2. ASSUME NEW i \in DOMAIN Starting, i > Placed'
      PROVE  \A va \in RegionPages(Starting[i]) \ Contested(program) : Walk(mem', va) = Absent
  <2>1. i > Placed
    BY <1>1, <1>2
  <2>2. QED BY <1>1, <1>2, <2>1, UnmappedAnew DEF Untouched, Clear
<1>3. ASSUME Loading', NEW m \in Fitting(program) \ Listed'
      PROVE  \A va \in ImagePages(program, m) \ Contested(program) : Walk(mem', va) = Absent
  BY <1>1, <1>3, UnmappedAnew DEF Untouched, Clear
<1>4. ASSUME Loading' \/ phase' = "after"
      PROVE  \A va \in LowPages \ Contested(program) : Walk(mem', va) = Absent
  BY <1>1, <1>4, UnmappedAnew DEF Untouched, Clear
<1>5. \A va \in { u \in TebPages : u <= nextTeb' } \ Contested(program) : Walk(mem', va) = Absent
  <2> DEFINE S == { u \in TebPages : u <= nextTeb' }
  <2>1. S \in SUBSET Pages /\ S \subseteq { u \in TebPages : u <= nextTeb }
    <3>1. SUFFICES ASSUME NEW u \in TebPages, u <= nextTeb'
                   PROVE  u \in Pages /\ u <= nextTeb
      OBVIOUS
    <3>2. u \in Nat /\ u \in Pages
      BY <1>1
    <3>3. QED BY <3>1, <3>2
  <2>2. Unmapped(S)
    BY <2>1 DEF Untouched, Unmapped
  <2> HIDE DEF S
  <2>3. Clear(S, D)
    BY DEF S
  <2>4. QED BY <2>1, <2>2, <2>3, UnmappedAnew DEF S, Clear
<1>6. QED BY <1>2, <1>3, <1>4, <1>5 DEF Untouched, Unmapped

PagesOf(t) == StackOf(t) \cup {t.teb}

LEMMA ThreadsPlace ==
  ASSUME Core, ThreadsInv, NEW i \in DOMAIN threads
  PROVE  PagesOf(threads[i]) \subseteq (TebPages \cup StackRegion) \cap Pages
<1>1. /\ threads[i].teb \in TebPages
      /\ threads[i].limit \in Nat /\ threads[i].base \in Nat
      /\ StackBase <= threads[i].limit /\ threads[i].base <= StackTop
  <2> DEFINE R == [teb : Pages, base : Pages, limit : Pages]
  <2>1. threads[i] \in R
    <3>1. threads \in Seq(R)
      BY DEF ThreadsInv
    <3> HIDE DEF R
    <3>2. QED BY <3>1
  <2>2. QED BY <2>1, PageFacts DEF ThreadsInv
<1>2. StackBase \in Nat /\ StackTop \in Nat
  BY AddressSpaceAssumption
<1>3. StackOf(threads[i]) \subseteq StackRegion
  BY <1>1, <1>2 DEF StackOf, StackRegion
<1>4. TebPages \cup StackRegion \subseteq Pages
  BY ReachableFacts DEF Core, Reachable
<1>5. QED BY <1>1, <1>3, <1>4 DEF PagesOf

LEMMA ThreadsKept ==
  ASSUME Core, ThreadsInv, UNCHANGED <<threads, nextTeb, nextStack>>, NEW D, Anew(D),
         GuestRuns => GuestRuns', GuestRuns => Apart(D, TebPages \cup StackRegion)
  PROVE  ThreadsInv'
<1>1. \A i \in DOMAIN threads : \A va \in PagesOf(threads[i]) : Walk(mem', va) = Walk(mem, va)
  <2>1. SUFFICES ASSUME NEW i \in DOMAIN threads, NEW va \in PagesOf(threads[i])
                 PROVE  va \in Pages \ D
    BY DEF Anew
  <2>2. GuestRuns
    <3>1. threads # <<>>
      BY DEF ThreadsInv
    <3>2. QED BY <3>1 DEF ThreadsInv
  <2>3. QED BY <2>2, ThreadsPlace DEF Apart
<1>2. ThreadsApart'
  <2>1. \A i \in DOMAIN threads : \A va \in PagesOf(threads[i]) :
          Walk(mem', va) # Absent /\ Walk(mem', va).user /\ Walk(mem', va).write
    BY <1>1 DEF ThreadsInv, ThreadsApart, PagesOf, IsMapped
  <2>2. \A i, j \in DOMAIN threads : i < j =>
          threads[j].base < threads[i].limit /\ threads[j].teb < threads[i].teb
    BY DEF ThreadsInv, ThreadsApart
  <2>3. QED BY <2>1, <2>2 DEF ThreadsApart, PagesOf, IsMapped
<1>3. QED BY <1>2 DEF ThreadsInv

Implements == Abstract!Next \/ UNCHANGED <<Map, AllocBase .. allocPtr - 1>>

\* What is shown of every step.
Good == IInv' /\ Stays /\ Implements

PhaseGoesOn ==
  /\ Placed' >= Placed
  /\ Loading' => Loading
  /\ Loading' \/ phase' = "after" => Loading \/ phase = "after"
  /\ GuestRuns => GuestRuns'

\* A step that maps the pages of D, which were free, for itself.
LEMMA MappingStep ==
  ASSUME IInv, program' = program, Core', NEW D, Anew(D), Unmapped(D),
         Abstract!Map \/ Abstract!MapLow,
         UNCHANGED <<threads, nextTeb, nextStack>>,
         GuestRuns => Apart(D, TebPages \cup StackRegion),
         RegionsInv', ModulesInv', PhaseGoesOn,
         \A i \in DOMAIN Starting : i > Placed' => Clear(RegionPages(Starting[i]), D),
         Loading' => \A m \in Fitting(program) \ Listed' :
                       m \notin Listed /\ Clear(ImagePages(program, m), D),
         Loading' \/ phase' = "after" => Clear(LowPages, D),
         Clear(TebPages, D)
  PROVE  Good
<1>1. Stays /\ Implements
  BY StaysAnew DEF Implements, Abstract!Next
<1>2. ThreadsInv'
  BY ThreadsKept DEF IInv, PhaseGoesOn
<1>3. Untouched'
  <2>1. Placed \in Int /\ Placed' \in Int /\ nextTeb \in Nat /\ nextTeb' <= nextTeb
    BY DEF IInv, RegionsInv, ThreadsInv
  <2>2. Clear({ va \in TebPages : va <= nextTeb' }, D)
    BY DEF Clear
  <2>3. QED BY <2>1, <2>2, UntouchedLater DEF IInv, PhaseGoesOn
<1>4. QED BY <1>1, <1>2, <1>3 DEF Good, IInv

\* A step that maps nothing.
LEMMA QuietStep ==
  ASSUME IInv, UNCHANGED <<spaceVars, program>>, RegionsInv', ModulesInv', PhaseGoesOn,
         Listed' = Listed
  PROVE  Good
<1>1. /\ mem' = mem /\ nextPt' = nextPt /\ allocPtr' = allocPtr
      /\ UNCHANGED <<threads, nextTeb, nextStack>>
  BY DEF spaceVars
<1>2. Core'
  BY <1>1 DEF IInv, Core, Tables, Present, Tabled, GuestKeptOut, IsMapped, GetPhys, Walk
<1>3. Map' = Map /\ Anew({})
  BY <1>1 DEF Map, IsMapped, GetPhys, Walk, Anew
<1>4. Stays /\ Implements
  BY <1>1, <1>3, StaysAnew DEF Implements, Unmapped
<1>5. ThreadsInv'
  BY <1>1, <1>3, ThreadsKept DEF IInv, PhaseGoesOn, Apart
<1>6. Untouched'
  <2>1. Placed \in Int /\ Placed' \in Int /\ nextTeb \in Nat /\ nextTeb' <= nextTeb
    BY <1>1 DEF IInv, RegionsInv, ThreadsInv
  <2>2. \A S : Clear(S, {})
    BY DEF Clear
  <2>3. \A m \in Fitting(program) \ Listed' : m \notin Listed
    OBVIOUS
  <2>4. QED BY <1>1, <1>3, <2>1, <2>2, <2>3, UntouchedLater DEF IInv, PhaseGoesOn
<1>7. QED BY <1>2, <1>4, <1>5, <1>6 DEF Good, IInv

---------------------------------------------------------------------------
(* The steps of the loader.                                                 *)

LEMMA InitOK ==
  ASSUME Init
  PROVE  IInv /\ Abstract!Init
<1>1. /\ mem = [f \in TableFrame |-> [i \in Index |-> Absent]]
      /\ nextPt = Pd + 1 /\ allocPtr = AllocBase
      /\ nextTeb = MainTeb - TebStep /\ nextStack = StackTop /\ threads = <<>>
      /\ program \in Programs /\ phase = "before" /\ regions = BeforeLoad
      /\ modules = <<>> /\ connected = 0
  BY DEF Init, SpaceInit
<1>2. /\ Pd \in Nat /\ Reserved \in Nat \ {0} /\ Frames \in Nat /\ AllocBase <= Frames
      /\ AllocBase = Pd + Reserved /\ TableFrame = Pd .. Pd + Reserved - 1
      /\ MainTeb \in Nat /\ TebStep \in 1 .. MainTeb /\ StackTop \in Nat
  BY AddressSpaceAssumption, PageFacts DEF Pd, AllocBase, TableFrame
<1>3. Pd \in TableFrame /\ \A d \in Index : mem[Pd][d] = Absent
  BY <1>1, <1>2
<1>4. Present(mem) = {} /\ \A va \in Pages : Walk(mem, va) = Absent
  BY <1>3, PageFacts DEF Present, Walk
<1>5. Core
  <2>1. mem \in [TableFrame -> [Index -> Entry \cup {Absent}]]
    BY <1>1
  <2>2. Tables(mem, nextPt)
    BY <1>1, <1>2, <1>4, <2>1, FS_EmptySet DEF Tables
  <2>3. GuestKeptOut
    BY <1>4 DEF GuestKeptOut, IsMapped
  <2>4. QED BY <1>1, <1>2, <1>4, <2>2, <2>3 DEF Core
<1>6. RegionsInv
  <2>1. Placed = 0
    BY <1>1, StartingFacts DEF Placed, Loading
  <2>2. regions \in Seq([at : Pages, pages : Nat, write : BOOLEAN, must : BOOLEAN])
    BY <1>1, LoaderAssumption
  <2>3. DOMAIN regions = 1 .. Len(BeforeLoad)
    BY <1>1, LoaderAssumption
  <2>4. Len(Starting) \in Nat /\ Len(BeforeLoad) <= Len(Starting) /\ Len(Shared) \in Nat
    BY StartingFacts DEF MainPart
  <2>5. \A i \in DOMAIN regions : Placed + i \in DOMAIN Starting /\ regions[i] = Starting[Placed + i]
    BY <1>1, <2>1, <2>3, <2>4, StartingFacts
  <2>6. QED BY <1>1, <2>1, <2>2, <2>4, <2>5 DEF RegionsInv, GuestRuns
<1>7. Untouched
  <2>1. \A S \in SUBSET Pages : Unmapped(S)
    BY <1>4 DEF Unmapped
  <2>2. Reachable(program) \subseteq Pages
    BY <1>1, ReachableFacts
  <2>3. /\ \A i \in DOMAIN Starting : RegionPages(Starting[i]) \subseteq Pages
        /\ \A m \in Fitting(program) : ImagePages(program, m) \subseteq Pages
        /\ LowPages \subseteq Pages /\ { va \in TebPages : va <= nextTeb } \subseteq Pages
    BY <2>2 DEF Reachable
  <2>4. QED BY <2>1, <2>3 DEF Untouched
<1>8. ThreadsInv
  BY <1>1, <1>2 DEF ThreadsInv, ThreadsApart
<1>9. ModulesInv
  BY <1>1 DEF ModulesInv, IsInjective
<1>10. Abstract!Init
  <2>1. Map = [va \in Pages |-> Absent]
    BY <1>4 DEF Map, IsMapped
  <2>2. AllocBase .. allocPtr - 1 = {}
    BY <1>1, <1>2
  <2>3. QED BY <2>1, <2>2 DEF Abstract!Init
<1>11. QED BY <1>5, <1>6, <1>7, <1>8, <1>9, <1>10 DEF IInv

\* The pages of the region at hand.
LEMMA RegionMappedOK ==
  ASSUME IInv, RegionMapped
  PROVE  Good
<1> DEFINE r == Head(regions)
           n == Placed + 1
           D == RegionPages(r)
<1>1. /\ regions # <<>> /\ MapRegion(r.at, r.pages, r.write) /\ regions' = Tail(regions)
      /\ connected' = IF GuestRuns THEN connected + 1 ELSE connected
      /\ UNCHANGED <<nextTeb, nextStack, threads, program, phase, modules>>
  BY DEF RegionMapped
<1>2. /\ Len(regions) \in Nat /\ Len(regions) >= 1 /\ DOMAIN regions = 1 .. Len(regions)
      /\ r = regions[1] /\ Len(regions') = Len(regions) - 1
      /\ DOMAIN regions' = 1 .. Len(regions) - 1
      /\ \A i \in DOMAIN regions' : regions'[i] = regions[i + 1]
      /\ regions' \in Seq([at : Pages, pages : Nat, write : BOOLEAN, must : BOOLEAN])
  <2> DEFINE R == [at : Pages, pages : Nat, write : BOOLEAN, must : BOOLEAN]
  <2>1. regions \in Seq(R) /\ regions # <<>> /\ regions' = Tail(regions)
    BY <1>1 DEF IInv, RegionsInv
  <2> HIDE DEF R
  <2>2. /\ Len(regions) \in Nat /\ Len(regions) >= 1 /\ DOMAIN regions = 1 .. Len(regions)
        /\ Head(regions) = regions[1]
    BY <2>1
  <2>3. regions' \in Seq(R) /\ Len(regions') = Len(regions) - 1
    BY <2>1
  <2>4. DOMAIN regions' = 1 .. Len(regions) - 1
    BY <2>2, <2>3
  <2>5. \A i \in 1 .. Len(regions) - 1 : regions'[i] = regions[i + 1]
    BY <2>1, <2>2
  <2>6. QED BY <2>2, <2>3, <2>4, <2>5 DEF R
<1>3. /\ Placed \in 0 .. Len(Starting) /\ n \in DOMAIN Starting /\ r = Starting[n]
      /\ connected \in Nat /\ Placed \in Nat
  <2>1. /\ Placed \in 0 .. Len(Starting) /\ connected \in Nat
        /\ \A i \in DOMAIN regions : /\ Placed + i \in DOMAIN Starting
                                     /\ regions[i] = Starting[Placed + i]
    BY DEF IInv, RegionsInv
  <2>2. 1 \in DOMAIN regions
    BY <1>2
  <2>3. Placed \in Nat
    BY <2>1, StartingFacts
  <2>4. QED BY <1>2, <2>1, <2>2, <2>3
<1>4. Placed' = Placed + 1
  <2>1. phase \in {"before", "load", "after", "process", "dlls", "run", "stopped"}
        /\ phase # "stopped"
    BY <1>1 DEF IInv, RegionsInv
  <2>2. Placed \in Int /\ Len(regions') = Len(regions) - 1 /\ Len(regions) \in Nat
    BY <1>2, <1>3
  <2>3. /\ Len(BeforeLoad) \in Nat /\ Len(AfterLoad) \in Nat /\ Len(AfterPaging) \in Nat
    BY StartingFacts
  <2>4. QED BY <1>1, <1>3, <2>1, <2>2, <2>3 DEF Placed, Loading, GuestRuns, MainPart
<1> HIDE DEF r
<1>5. /\ program \in Programs /\ r.at \in Pages /\ r.pages \in Nat /\ r.write \in BOOLEAN
      /\ D = Span(r.at, r.pages) /\ D \subseteq Reachable(program)
      /\ Apart(D, LowPages \cup TebPages)
      /\ \A j \in DOMAIN Starting : n # j => Apart(D, RegionPages(Starting[j]))
      /\ n > MainPart => Apart(D, StackRegion)
      /\ \A m \in Fitting(program) : Clear(ImagePages(program, m), D)
  BY <1>3, RegionPlace DEF IInv, Core
<1>6. Core' /\ Anew(D) /\ Abstract!Map
  BY <1>1, <1>5, RegionOK DEF IInv
<1>7. Unmapped(D)
  BY <1>3 DEF IInv, Untouched
<1>8. GuestRuns => Apart(D, TebPages \cup StackRegion)
  <2>1. GuestRuns => n > MainPart
    BY <1>3, StartingFacts DEF GuestRuns, Placed, Loading, MainPart
  <2>2. QED BY <1>5, <2>1 DEF Apart
<1>9. RegionsInv'
  <2>1. \A i \in DOMAIN regions' : /\ Placed' + i \in DOMAIN Starting
                                   /\ regions'[i] = Starting[Placed' + i]
    <3>1. SUFFICES ASSUME NEW i \in DOMAIN regions'
                   PROVE  /\ Placed' + i \in DOMAIN Starting
                          /\ regions'[i] = Starting[Placed' + i]
      OBVIOUS
    <3>2. i \in 1 .. Len(regions) - 1 /\ Len(regions) \in Nat /\ Placed \in Nat
      BY <1>2, <1>3
    <3> DEFINE k == Len(regions)
               q == Placed'
               p == Placed
    <3> HIDE DEF k, q, p
    <3>3. i + 1 \in 1 .. k /\ q + i = p + (i + 1)
      BY <1>4, <3>2 DEF k, q, p
    <3>4. i + 1 \in DOMAIN regions /\ Placed' + i = Placed + (i + 1)
      BY <1>2, <3>3 DEF k, q, p
    <3>5. QED BY <1>2, <3>3, <3>4 DEF IInv, RegionsInv
  <2>2. phase \notin {"load", "stopped"}
    BY <1>1 DEF IInv, RegionsInv
  <2>3. Len(Shared) \in Nat /\ DOMAIN Starting = 1 .. Len(Starting)
    BY StartingFacts
  <2>4. Placed' \in 0 .. Len(Starting)
    BY <1>3, <1>4, <2>3
  <2>5. /\ connected' \in 0 .. Len(Shared)
        /\ GuestRuns /\ regions' # <<>> => Len(regions') = Len(Shared) - connected'
    <3>1. GuestRuns => Len(regions) = Len(Shared) - connected
      BY <1>1 DEF IInv, RegionsInv
    <3>2. connected \in 0 .. Len(Shared)
      BY DEF IInv, RegionsInv
    <3>3. QED BY <1>1, <1>2, <2>3, <3>1, <3>2
  <2>6. GuestRuns' <=> GuestRuns
    BY <1>1 DEF GuestRuns
  <2>7. /\ phase' \in {"before", "load", "after", "process", "dlls", "run", "stopped"}
        /\ ~GuestRuns' => connected' = 0
        /\ phase' \in {"load", "stopped"} => regions' = <<>>
    BY <1>1, <2>2, <2>6 DEF IInv, RegionsInv
  <2>8. QED BY <1>2, <2>1, <2>4, <2>5, <2>6, <2>7 DEF RegionsInv
<1>10. PhaseGoesOn /\ ModulesInv' /\ Listed' = Listed
  BY <1>1, <1>3, <1>4 DEF PhaseGoesOn, Loading, GuestRuns, IInv, ModulesInv, Listed
<1>11. /\ \A i \in DOMAIN Starting : i > Placed' => Clear(RegionPages(Starting[i]), D)
       /\ Clear(LowPages, D) /\ Clear(TebPages, D)
       /\ \A m \in Fitting(program) \ Listed' : m \notin Listed /\ Clear(ImagePages(program, m), D)
  <2>1. ASSUME NEW i \in DOMAIN Starting, i > Placed'
        PROVE  Clear(RegionPages(Starting[i]), D)
    <3>1. n # i
      BY <1>3, <1>4, <2>1, StartingFacts
    <3>2. QED BY <1>5, <3>1 DEF Apart, Clear
  <2>2. QED BY <1>5, <1>10, <2>1 DEF Apart, Clear
<1> HIDE DEF D
<1>12. QED BY <1>1, <1>6, <1>7, <1>8, <1>9, <1>10, <1>11, MappingStep

\* An image at the head of the module list.
LEMMA ImageOK ==
  ASSUME IInv, Loading, regions = <<>>, NEW m \in Images, m \notin Listed, LoadImage(m),
         phase' = "load", UNCHANGED <<program, regions, connected>>
  PROVE  Good
<1> DEFINE D == ImagePages(program, m)
<1>1. /\ m \in Known /\ program.size[m] <= Frames - allocPtr
      /\ MapRegion(program.base[m], program.size[m], TRUE)
      /\ modules' = <<m>> \o modules
      /\ UNCHANGED <<nextTeb, nextStack, threads>>
  BY DEF LoadImage, CanLoad, Room
<1>2. program \in Programs /\ program.size[m] \in Nat /\ program.base[m] \in Pages
  BY <1>1, LoaderAssumption DEF Known, IInv, Core
<1>3. m \in Fitting(program)
  <2>1. /\ allocPtr \in Nat /\ AllocBase <= allocPtr /\ AllocBase \in Nat /\ Frames \in Nat
    BY AddressSpaceAssumption DEF IInv, Core, AllocBase, Pd
  <2>2. program.size[m] <= Frames - AllocBase
    BY <1>1, <1>2, <2>1
  <2>3. QED BY <1>1, <2>2 DEF Fitting, Known
<1>4. D = Span(program.base[m], program.size[m]) /\ D \subseteq Reachable(program)
  BY <1>3 DEF ImagePages, Reachable
<1>5. Core' /\ Anew(D) /\ Abstract!Map
  BY <1>1, <1>2, <1>4, RegionOK DEF IInv
<1>6. Unmapped(D)
  BY <1>3 DEF IInv, Untouched
<1>7. /\ modules' \in Seq(Images) /\ IsInjective(modules')
      /\ Listed' = Listed \cup {m}
  <2>1. /\ modules \in Seq(Images) /\ IsInjective(modules)
        /\ Len(modules) \in Nat /\ DOMAIN modules = 1 .. Len(modules)
    BY DEF IInv, ModulesInv
  <2>2. <<m>> \in Seq(Images) /\ Len(<<m>>) = 1 /\ <<m>>[1] = m
    OBVIOUS
  <2>3. Joins(<<m>>, modules, modules', Images)
    BY <1>1, <2>1, <2>2, Joined
  <2> DEFINE k == Len(modules)
  <2>4. /\ modules' \in Seq(Images) /\ DOMAIN modules' = 1 .. k + 1
        /\ modules'[1] = m /\ \A i \in 1 .. k : modules'[1 + i] = modules[i]
    BY <2>1, <2>2, <2>3 DEF Joins
  <2>5. \A i \in 2 .. k + 1 : i - 1 \in 1 .. k /\ modules'[i] = modules[i - 1]
    <3>1. TAKE i \in 2 .. k + 1
    <3>2. i - 1 \in 1 .. k /\ 1 + (i - 1) = i
      BY <2>1
    <3>3. QED BY <2>4, <3>2
  <2>6. \A i \in 1 .. k : modules[i] # m
    BY <2>1 DEF Listed
  <2> HIDE DEF k
  <2>7. IsInjective(modules')
    <3>1. SUFFICES ASSUME NEW a \in 1 .. k + 1, NEW b \in 1 .. k + 1, modules'[a] = modules'[b]
                   PROVE  a = b
      BY <2>4 DEF IsInjective
    <3>2. /\ a = 1 \/ a \in 2 .. k + 1
          /\ b = 1 \/ b \in 2 .. k + 1
      OBVIOUS
    <3>3. CASE a = 1 /\ b \in 2 .. k + 1
      BY <2>4, <2>5, <2>6, <3>1, <3>3
    <3>4. CASE b = 1 /\ a \in 2 .. k + 1
      BY <2>4, <2>5, <2>6, <3>1, <3>4
    <3>5. CASE a \in 2 .. k + 1 /\ b \in 2 .. k + 1
      <4>1. modules[a - 1] = modules[b - 1] /\ a - 1 \in 1 .. k /\ b - 1 \in 1 .. k
        BY <2>5, <3>1, <3>5
      <4>2. a - 1 = b - 1
        BY <2>1, <4>1 DEF IsInjective, k
      <4>3. QED BY <4>2
    <3>6. QED BY <3>2, <3>3, <3>4, <3>5
  <2>8. Listed' = Listed \cup {m}
    <3>1. Listed = { modules[i] : i \in 1 .. k } /\ Listed' = { modules'[i] : i \in 1 .. k + 1 }
      BY <2>1, <2>4 DEF Listed, k
    <3>2. k \in Nat
      BY <2>1 DEF k
    <3>3. 1 \in 1 .. k + 1 /\ \A i \in 1 .. k : 1 + i \in 1 .. k + 1
      BY <3>2
    <3>4. m \in Listed' /\ Listed \subseteq Listed'
      BY <2>4, <3>1, <3>3
    <3>5. \A i \in 1 .. k + 1 : i = 1 \/ i \in 2 .. k + 1
      BY <3>2
    <3>6. Listed' \subseteq Listed \cup {m}
      BY <2>4, <2>5, <3>1, <3>5
    <3>7. QED BY <3>4, <3>6
  <2>9. QED BY <2>4, <2>7, <2>8
<1>8. Placed' = Placed
  BY DEF Placed, Loading
<1>9. RegionsInv'
  <2>1. ~GuestRuns /\ ~GuestRuns'
    BY DEF Loading, GuestRuns
  <2>2. QED BY <1>8, <2>1 DEF IInv, RegionsInv
<1>10. PhaseGoesOn /\ ModulesInv' /\ ~GuestRuns
  BY <1>7, <1>8, StartingFacts DEF PhaseGoesOn, Loading, GuestRuns, ModulesInv, IInv, RegionsInv
<1>11. /\ \A i \in DOMAIN Starting : Clear(RegionPages(Starting[i]), D)
       /\ Clear(LowPages, D) /\ Clear(TebPages, D)
       /\ \A n \in Fitting(program) \ Listed' : n \notin Listed /\ Clear(ImagePages(program, n), D)
  <2>1. D \cap Fixed \subseteq Contested(program)
    BY <1>3 DEF Contested
  <2>2. ASSUME NEW n \in Fitting(program) \ {m}
        PROVE  Clear(ImagePages(program, n), D)
    BY <1>3 DEF Contested, Clear
  <2> HIDE DEF D
  <2>3. /\ \A i \in DOMAIN Starting : RegionPages(Starting[i]) \subseteq Fixed
        /\ LowPages \subseteq Fixed /\ TebPages \subseteq Fixed
    BY DEF Fixed
  <2>4. QED BY <1>7, <2>1, <2>2, <2>3 DEF Clear
<1> HIDE DEF D
<1>12. QED BY <1>1, <1>5, <1>6, <1>9, <1>10, <1>11, MappingStep

LEMMA LoadExeOK ==
  ASSUME IInv, LoadExe
  PROVE  Good
<1>1. /\ phase = "before" /\ regions = <<>> /\ LoadImage(Exe) /\ phase' = "load"
      /\ UNCHANGED <<program, regions, connected>>
  BY DEF LoadExe
<1>2. Exe \in Images /\ Exe \notin Listed /\ Loading
  BY <1>1, LoaderAssumption DEF IInv, ModulesInv, Listed, Loading
<1>3. QED BY <1>1, <1>2, ImageOK

LEMMA LoadTargetOK ==
  ASSUME IInv, LoadTarget
  PROVE  Good
<1>1. /\ phase = "load" /\ phase' = "load" /\ LoadImage(target[1])
      /\ target[1] \notin Listed /\ UNCHANGED <<program, regions, connected>>
  BY DEF LoadTarget, Resolving
<1>2. regions = <<>> /\ Loading
  BY <1>1 DEF IInv, RegionsInv, Loading
<1>3. target[1] \in Images
  <2>1. target[1] \in DOMAIN program.size
    BY <1>1 DEF LoadImage, CanLoad, Known
  <2>2. QED BY <2>1, LoaderAssumption DEF IInv, Core
<1>4. QED BY <1>1, <1>2, <1>3, ImageOK

\* The identity mapping of the low memory.
LEMMA SetupPagingOK ==
  ASSUME IInv, SetupPaging
  PROVE  Good
<1>1. /\ phase = "after" /\ regions = <<>> /\ MapLow
      /\ phase' = "process" /\ regions' = AfterPaging
      /\ UNCHANGED <<nextTeb, nextStack, threads, program, modules, connected>>
  BY DEF SetupPaging
<1>2. Core' /\ Anew(LowPages) /\ Abstract!MapLow
  BY <1>1, LowOK DEF IInv
<1>3. Unmapped(LowPages)
  BY <1>1 DEF IInv, Untouched
<1>4. ~GuestRuns /\ ~GuestRuns' /\ ~Loading /\ ~Loading'
  BY <1>1 DEF GuestRuns, Loading
<1>5. Placed = Len(BeforeLoad) + Len(AfterLoad) /\ Placed' = Placed
  BY <1>1, <1>4, StartingFacts DEF Placed, MainPart
<1>6. RegionsInv'
  <2>1. /\ regions' \in Seq([at : Pages, pages : Nat, write : BOOLEAN, must : BOOLEAN])
        /\ DOMAIN regions' = 1 .. Len(AfterPaging)
    BY <1>1, LoaderAssumption
  <2>2. ASSUME NEW i \in 1 .. Len(AfterPaging)
        PROVE  Placed' + i \in DOMAIN Starting /\ AfterPaging[i] = Starting[Placed' + i]
    <3>1. /\ Len(BeforeLoad) \in Nat /\ Len(AfterLoad) \in Nat
          /\ Len(AfterPaging) \in Nat /\ Len(Shared) \in Nat
          /\ DOMAIN Starting = 1 .. MainPart + Len(Shared)
          /\ Starting[Len(BeforeLoad) + Len(AfterLoad) + i] = AfterPaging[i]
      BY StartingFacts
    <3>2. Len(BeforeLoad) + Len(AfterLoad) + i \in 1 .. MainPart + Len(Shared)
      BY <3>1 DEF MainPart
    <3>3. QED BY <1>5, <3>1, <3>2
  <2>3. QED BY <1>1, <1>4, <1>5, <2>1, <2>2 DEF IInv, RegionsInv
<1>7. PhaseGoesOn /\ ModulesInv'
  BY <1>1, <1>4, <1>5, StartingFacts DEF PhaseGoesOn, ModulesInv, IInv
<1>8. /\ \A i \in DOMAIN Starting : Clear(RegionPages(Starting[i]), LowPages)
      /\ Clear(TebPages, LowPages)
  BY LayoutAssumption DEF Apart, Clear
<1>9. ~(Loading' \/ phase' = "after")
  BY <1>1, <1>4
<1>10. QED BY <1>1, <1>2, <1>3, <1>4, <1>6, <1>7, <1>8, <1>9, MappingStep

---------------------------------------------------------------------------
(* The steps that map nothing.                                              *)

LEMMA PlacedNat ==
  ASSUME IInv
  PROVE  /\ Placed \in Nat /\ Placed <= Len(Starting) /\ Len(Starting) \in Nat
         /\ Len(Shared) \in Nat /\ MainPart \in Nat /\ Len(Starting) = MainPart + Len(Shared)
         /\ connected \in Nat /\ connected <= Len(Shared)
<1>1. Placed \in 0 .. Len(Starting) /\ connected \in 0 .. Len(Shared)
  BY DEF IInv, RegionsInv
<1>2. /\ Len(Starting) \in Nat /\ Len(Shared) \in Nat /\ MainPart \in Nat
      /\ Len(Starting) = MainPart + Len(Shared)
  BY StartingFacts DEF MainPart
<1>3. QED BY <1>1, <1>2

LEMMA SameRegionsOK ==
  ASSUME IInv, UNCHANGED <<spaceVars, program, phase, regions, connected, modules>>
  PROVE  Good
<1>1. Placed' = Placed /\ (Loading' <=> Loading) /\ (GuestRuns' <=> GuestRuns)
      /\ Listed' = Listed
  BY DEF Placed, Loading, GuestRuns, Listed
<1>2. RegionsInv' /\ ModulesInv'
  BY <1>1 DEF IInv, RegionsInv, ModulesInv
<1>3. PhaseGoesOn
  BY <1>1, PlacedNat DEF PhaseGoesOn
<1>4. QED BY <1>1, <1>2, <1>3, QuietStep

LEMMA RegionRefusedOK ==
  ASSUME IInv, RegionRefused
  PROVE  Good
<1>1. /\ regions # <<>> /\ (StartRefused \/ ConnectRefused)
      /\ UNCHANGED <<spaceVars, program, modules>>
  BY DEF RegionRefused
<1>2. Listed' = Listed
  BY <1>1 DEF Listed
<1>3. phase \notin {"load", "stopped"}
  BY <1>1 DEF IInv, RegionsInv
<1>4. /\ Len(regions) \in Nat /\ DOMAIN regions = 1 .. Len(regions) /\ Len(regions) >= 1
      /\ Tail(regions) \in Seq([at : Pages, pages : Nat, write : BOOLEAN, must : BOOLEAN])
      /\ Len(Tail(regions)) = Len(regions) - 1
      /\ DOMAIN Tail(regions) = 1 .. Len(regions) - 1
      /\ \A i \in 1 .. Len(regions) - 1 : Tail(regions)[i] = regions[i + 1]
  <2> DEFINE R == [at : Pages, pages : Nat, write : BOOLEAN, must : BOOLEAN]
  <2>1. regions \in Seq(R) /\ regions # <<>>
    BY <1>1 DEF IInv, RegionsInv
  <2> HIDE DEF R
  <2>2. Len(regions) \in Nat /\ DOMAIN regions = 1 .. Len(regions) /\ Len(regions) >= 1
    BY <2>1
  <2>3. Tail(regions) \in Seq(R) /\ Len(Tail(regions)) = Len(regions) - 1
    BY <2>1
  <2>4. DOMAIN Tail(regions) = 1 .. Len(regions) - 1
    BY <2>2, <2>3
  <2>5. \A i \in 1 .. Len(regions) - 1 : Tail(regions)[i] = regions[i + 1]
    BY <2>1, <2>2
  <2>6. QED BY <2>2, <2>3, <2>4, <2>5 DEF R
<1>5. CASE StartRefused
  <2>1. /\ ~GuestRuns /\ connected' = connected /\ connected = 0
    BY <1>5 DEF StartRefused, IInv, RegionsInv
  <2>2. CASE phase' = "stopped" /\ regions' = <<>>
    <3>1. Placed' = Len(Starting) /\ ~Loading' /\ ~GuestRuns'
      BY <2>2 DEF Placed, Loading, GuestRuns
    <3>2. RegionsInv'
      BY <2>1, <2>2, <3>1, PlacedNat DEF RegionsInv
    <3>3. PhaseGoesOn /\ ModulesInv'
      BY <1>1, <2>1, <2>2, <3>1, PlacedNat DEF PhaseGoesOn, ModulesInv, IInv
    <3>4. QED BY <1>1, <1>2, <3>2, <3>3, QuietStep
  <2>3. CASE phase' = phase /\ regions' = Tail(regions)
    <3>1. (Loading' <=> Loading) /\ (GuestRuns' <=> GuestRuns)
      BY <2>3 DEF Loading, GuestRuns
    <3>2. Placed' = Placed + 1
      <4>1. phase \in {"before", "load", "after", "process", "dlls", "run", "stopped"}
        BY DEF IInv, RegionsInv
      <4>2. Len(regions) \in Nat /\ Len(regions') = Len(regions) - 1
        BY <1>4, <2>3
      <4>3. Len(BeforeLoad) \in Nat /\ Len(AfterLoad) \in Nat /\ Len(AfterPaging) \in Nat
        BY StartingFacts
      <4>4. /\ phase' = phase /\ phase \in {"before", "after", "process"}
            /\ MainPart \in Nat
        BY <1>3, <2>1, <2>3, <4>1, <4>3 DEF GuestRuns, MainPart
      <4>5. QED BY <4>2, <4>3, <4>4 DEF Placed, Loading
    <3>3. \A i \in DOMAIN regions' : /\ Placed' + i \in DOMAIN Starting
                                     /\ regions'[i] = Starting[Placed' + i]
      <4>1. SUFFICES ASSUME NEW i \in 1 .. Len(regions) - 1
                     PROVE  /\ Placed' + i \in DOMAIN Starting
                            /\ Tail(regions)[i] = Starting[Placed' + i]
        BY <1>4, <2>3
      <4> DEFINE k == Len(regions)
                 q == Placed'
                 p == Placed
      <4>2. k \in Nat /\ p \in Nat /\ q = p + 1
        BY <1>4, <3>2, PlacedNat
      <4> HIDE DEF k, q, p
      <4>3. i \in 1 .. k - 1
        BY DEF k
      <4>4. i + 1 \in 1 .. k /\ q + i = p + (i + 1)
        BY <4>2, <4>3
      <4>5. i + 1 \in DOMAIN regions /\ Placed' + i = Placed + (i + 1)
        BY <1>4, <4>4 DEF k, q, p
      <4>6. QED BY <1>4, <4>5 DEF IInv, RegionsInv
    <3>4. Placed' \in 0 .. Len(Starting)
      <4>1. 1 \in DOMAIN regions
        BY <1>4
      <4>2. Placed + 1 \in DOMAIN Starting /\ DOMAIN Starting = 1 .. Len(Starting)
        BY <4>1, StartingFacts DEF IInv, RegionsInv
      <4>3. QED BY <3>2, <4>2, PlacedNat
    <3>5. RegionsInv'
      BY <1>3, <1>4, <2>1, <2>3, <3>1, <3>3, <3>4 DEF IInv, RegionsInv
    <3>6. PhaseGoesOn /\ ModulesInv'
      BY <1>1, <2>3, <3>1, <3>2, PlacedNat DEF PhaseGoesOn, ModulesInv, IInv
    <3>7. QED BY <1>1, <1>2, <3>5, <3>6, QuietStep
  <2>4. QED BY <1>5, <2>2, <2>3 DEF StartRefused
<1>6. CASE ConnectRefused
  <2>1. /\ GuestRuns /\ regions' = <<>> /\ phase' = phase
        /\ connected' = CASE connected = 0 -> 0
                          [] connected = 1 -> 2
                          [] OTHER -> Len(Shared)
    BY <1>6 DEF ConnectRefused
  <2>2. (GuestRuns' <=> GuestRuns) /\ (Loading' <=> Loading) /\ ~Loading
    BY <2>1 DEF GuestRuns, Loading
  <2>3. Len(regions) = Len(Shared) - connected
    BY <1>1, <2>1 DEF IInv, RegionsInv
  <2>4. connected' \in 0 .. Len(Shared) /\ connected' >= connected
    <3>1. CASE connected = 0
      BY <2>1, <3>1, PlacedNat
    <3>2. CASE connected = 1
      BY <1>4, <2>1, <2>3, <3>2, PlacedNat
    <3>3. CASE connected # 0 /\ connected # 1
      BY <2>1, <3>3, PlacedNat
    <3>4. QED BY <3>1, <3>2, <3>3
  <2>5. Placed = MainPart + connected /\ Placed' = MainPart + connected'
    BY <2>1, <2>2 DEF Placed, GuestRuns, Loading
  <2>6. Placed' \in 0 .. Len(Starting) /\ Placed' >= Placed
    BY <2>4, <2>5, PlacedNat
  <2>7. RegionsInv'
    BY <2>1, <2>2, <2>4, <2>6 DEF IInv, RegionsInv
  <2>8. PhaseGoesOn /\ ModulesInv'
    BY <1>1, <2>1, <2>2, <2>6 DEF PhaseGoesOn, ModulesInv, IInv
  <2>9. QED BY <1>1, <1>2, <2>7, <2>8, QuietStep
<1>7. QED BY <1>1, <1>5, <1>6

LEMMA LoadExeFailsOK ==
  ASSUME IInv, LoadExeFails
  PROVE  Good
<1>1. /\ phase = "before" /\ regions = <<>> /\ phase' = "stopped"
      /\ UNCHANGED <<spaceVars, program, regions, modules, connected>>
  BY DEF LoadExeFails
<1>2. Placed' = Len(Starting) /\ ~Loading' /\ ~GuestRuns' /\ ~GuestRuns /\ Listed' = Listed
  BY <1>1 DEF Placed, Loading, GuestRuns, Listed
<1>3. RegionsInv'
  BY <1>1, <1>2, PlacedNat DEF IInv, RegionsInv
<1>4. PhaseGoesOn /\ ModulesInv'
  BY <1>1, <1>2, PlacedNat DEF PhaseGoesOn, ModulesInv, IInv
<1>5. QED BY <1>1, <1>2, <1>3, <1>4, QuietStep

LEMMA CreateLdrEntriesOK ==
  ASSUME IInv, CreateLdrEntries
  PROVE  Good
<1>1. /\ phase = "load" /\ phase' = "after" /\ regions' = AfterLoad
      /\ UNCHANGED <<spaceVars, program, modules, connected>>
  BY DEF CreateLdrEntries, BetweenModules
<1>2. regions = <<>>
  BY <1>1 DEF IInv, RegionsInv
<1>3. ~GuestRuns /\ ~GuestRuns' /\ Loading /\ ~Loading' /\ Listed' = Listed
  BY <1>1 DEF GuestRuns, Loading, Listed
<1>4. Placed = Len(BeforeLoad) /\ Placed' = Placed
  BY <1>1, <1>2, <1>3, StartingFacts DEF Placed
<1>5. RegionsInv'
  <2>1. /\ regions' \in Seq([at : Pages, pages : Nat, write : BOOLEAN, must : BOOLEAN])
        /\ DOMAIN regions' = 1 .. Len(AfterLoad)
    BY <1>1, LoaderAssumption
  <2>2. ASSUME NEW i \in 1 .. Len(AfterLoad)
        PROVE  Placed' + i \in DOMAIN Starting /\ AfterLoad[i] = Starting[Placed' + i]
    <3>1. /\ Len(BeforeLoad) \in Nat /\ Len(AfterLoad) \in Nat
          /\ Len(AfterPaging) \in Nat /\ Len(Shared) \in Nat
          /\ DOMAIN Starting = 1 .. MainPart + Len(Shared)
          /\ Starting[Len(BeforeLoad) + i] = AfterLoad[i]
      BY StartingFacts
    <3>2. Len(BeforeLoad) + i \in 1 .. MainPart + Len(Shared)
      BY <3>1 DEF MainPart
    <3>3. QED BY <1>4, <3>1, <3>2
  <2>3. QED BY <1>1, <1>3, <1>4, <2>1, <2>2 DEF IInv, RegionsInv
<1>6. PhaseGoesOn /\ ModulesInv'
  BY <1>1, <1>3, <1>4, PlacedNat DEF PhaseGoesOn, ModulesInv, IInv
<1>7. QED BY <1>1, <1>3, <1>5, <1>6, QuietStep

LEMMA StartDllsOK ==
  ASSUME IInv, StartDlls
  PROVE  Good
<1>1. /\ phase = "process" /\ regions = <<>> /\ phase' = "dlls"
      /\ UNCHANGED <<spaceVars, program, regions, modules, connected>>
  BY DEF StartDlls
<1>2. ~GuestRuns /\ GuestRuns' /\ ~Loading /\ ~Loading' /\ Listed' = Listed
  BY <1>1 DEF GuestRuns, Loading, Listed
<1>3. connected = 0 /\ Placed = MainPart /\ Placed' = MainPart
  BY <1>1, <1>2, PlacedNat DEF Placed, IInv, RegionsInv
<1>4. RegionsInv'
  BY <1>1, <1>2, <1>3 DEF IInv, RegionsInv
<1>5. PhaseGoesOn /\ ModulesInv'
  BY <1>1, <1>2, <1>3, PlacedNat DEF PhaseGoesOn, ModulesInv, IInv
<1>6. QED BY <1>1, <1>2, <1>4, <1>5, QuietStep

LEMMA StartProgramOK ==
  ASSUME IInv, StartProgram
  PROVE  Good
<1>1. /\ phase = "dlls" /\ phase' = "run"
      /\ UNCHANGED <<spaceVars, program, regions, modules, connected>>
  BY DEF StartProgram
<1>2. GuestRuns /\ GuestRuns' /\ ~Loading /\ ~Loading' /\ Listed' = Listed
  BY <1>1 DEF GuestRuns, Loading, Listed
<1>3. Placed = Placed'
  BY <1>1, <1>2 DEF Placed
<1>4. RegionsInv'
  BY <1>1, <1>2, <1>3 DEF IInv, RegionsInv
<1>5. PhaseGoesOn /\ ModulesInv'
  BY <1>1, <1>2, <1>3, PlacedNat DEF PhaseGoesOn, ModulesInv, IInv
<1>6. QED BY <1>1, <1>2, <1>4, <1>5, QuietStep

LEMMA ProcessConnectOK ==
  ASSUME IInv, ProcessConnect
  PROVE  Good
<1> DEFINE k == Len(Shared)
           c == connected
<1>1. /\ GuestRuns /\ regions = <<>> /\ c < k
      /\ regions' = SubSeq(Shared, c + 1, k)
      /\ UNCHANGED <<spaceVars, program, phase, modules, connected>>
  BY DEF ProcessConnect, Idle
<1>2. GuestRuns' /\ ~Loading /\ ~Loading' /\ Listed' = Listed
  BY <1>1 DEF GuestRuns, Loading, Listed
<1>3. Placed = MainPart + c /\ Placed' = Placed
  <2>1. phase' = phase /\ phase \in {"dlls", "run"} /\ connected' = connected
    BY <1>1 DEF GuestRuns
  <2>2. Placed = MainPart + c
    BY <2>1 DEF Placed, GuestRuns, Loading
  <2>3. Placed' = MainPart + c
    BY <2>1 DEF Placed, GuestRuns, Loading
  <2>4. QED BY <2>2, <2>3
<1>4. k \in Nat /\ c \in Nat /\ c <= k /\ MainPart \in Nat
  BY PlacedNat
<1>5. /\ regions' \in Seq([at : Pages, pages : Nat, write : BOOLEAN, must : BOOLEAN])
      /\ Len(regions') = k - c /\ DOMAIN regions' = 1 .. k - c
      /\ \A i \in 1 .. k - c : regions'[i] = Shared[c + i]
  <2> DEFINE R == [at : Pages, pages : Nat, write : BOOLEAN, must : BOOLEAN]
  <2>1. Shared \in Seq(R)
    BY LoaderAssumption
  <2> HIDE DEF R, c
  <2>2. regions' \in Seq(R) /\ Len(regions') = k - c
    BY <1>1, <1>4, <2>1
  <2>3. \A i \in 1 .. k - c : regions'[i] = Shared[c + i]
    <3>1. TAKE i \in 1 .. k - c
    <3>2. regions'[i] = Shared[(c + 1) + i - 1]
      BY <1>1, <1>4, <2>1
    <3>3. (c + 1) + i - 1 = c + i
      BY <1>4
    <3>4. QED BY <3>2, <3>3
  <2>4. DOMAIN regions' = 1 .. k - c
    BY <2>2
  <2>5. QED BY <2>2, <2>3, <2>4 DEF R
<1>6. \A i \in 1 .. k - c : /\ Placed' + i \in DOMAIN Starting
                            /\ Shared[c + i] = Starting[Placed' + i]
  <2>1. TAKE i \in 1 .. k - c
  <2>2. /\ c + i \in 1 .. k /\ MainPart + (c + i) = (MainPart + c) + i
        /\ MainPart + (c + i) \in 1 .. MainPart + k
    BY <1>4
  <2>3. Starting[MainPart + (c + i)] = Shared[c + i]
    BY <2>2, StartingFacts
  <2>4. DOMAIN Starting = 1 .. MainPart + k
    BY StartingFacts
  <2>5. QED BY <1>3, <2>2, <2>3, <2>4
<1>7. RegionsInv'
  <2>1. \A i \in DOMAIN regions' : /\ Placed' + i \in DOMAIN Starting
                                   /\ regions'[i] = Starting[Placed' + i]
    BY <1>5, <1>6
  <2>2. /\ phase' \in {"dlls", "run"} /\ phase' = phase /\ connected' = connected
        /\ Len(regions') = Len(Shared) - connected'
    BY <1>1, <1>5 DEF GuestRuns
  <2>3. Placed' \in 0 .. Len(Starting) /\ connected' \in 0 .. Len(Shared)
    BY <1>3, <2>2 DEF IInv, RegionsInv
  <2>4. QED BY <1>2, <1>5, <2>1, <2>2, <2>3 DEF RegionsInv
<1>8. PhaseGoesOn /\ ModulesInv'
  BY <1>1, <1>2, <1>3, PlacedNat DEF PhaseGoesOn, ModulesInv, IInv
<1>9. QED BY <1>1, <1>2, <1>7, <1>8, QuietStep

---------------------------------------------------------------------------
(* Creating a thread, whichever way the call ends.                          *)

LEMMA OldThreadsKept ==
  ASSUME Core, ThreadsInv, NEW D, Anew(D), D \subseteq {nextTeb} \cup (0 .. nextStack - 1),
         nextTeb \in TebPages
  PROVE  \A i \in DOMAIN threads : \A va \in PagesOf(threads[i]) :
           Walk(mem', va) = Walk(mem, va)
<1>1. SUFFICES ASSUME NEW i \in DOMAIN threads, NEW va \in PagesOf(threads[i])
               PROVE  va \in Pages /\ va \notin D
  BY DEF Anew
<1>2. va \in (TebPages \cup StackRegion) \cap Pages
  BY ThreadsPlace
<1>3. /\ threads[i].teb \in Pages /\ nextTeb < threads[i].teb
      /\ threads[i].limit \in Pages /\ nextStack < threads[i].limit
      /\ threads[i].base <= StackTop /\ threads[i].base \in Pages
  <2> DEFINE R == [teb : Pages, base : Pages, limit : Pages]
  <2>1. threads \in Seq(R)
    BY DEF ThreadsInv
  <2> HIDE DEF R
  <2>2. threads[i] \in R
    BY <2>1
  <2>3. QED BY <2>2 DEF R, ThreadsInv
<1>4. /\ StackTop \in Nat /\ TebFloor \in Nat /\ StackTop < TebFloor /\ Pages \subseteq Nat
      /\ nextStack \in Nat /\ nextStack <= StackTop
      /\ nextTeb \in Nat /\ TebFloor <= nextTeb
  <2>1. MainTeb \in Nat /\ TebStep \in Nat /\ TebFloor \in Nat
    BY AddressSpaceAssumption, PageFacts
  <2>2. QED BY <2>1, AddressSpaceAssumption, PageFacts DEF ThreadsInv, TebPages
<1>5. CASE va = threads[i].teb
  <2>1. va \in Nat /\ nextTeb < va
    <3>1. va \in Pages /\ nextTeb < va
      BY <1>3, <1>5
    <3>2. QED BY <1>4, <3>1
  <2>2. nextTeb \in Nat /\ nextStack \in Nat /\ nextStack < nextTeb
    BY <1>4
  <2>3. va # nextTeb /\ va \notin 0 .. nextStack - 1
    <3> DEFINE t == nextTeb
               n == nextStack
    <3> HIDE DEF t, n
    <3>1. va \in Nat /\ t \in Nat /\ n \in Nat /\ t < va /\ n < t
      BY <2>1, <2>2 DEF t, n
    <3>2. va # t /\ va \notin 0 .. n - 1
      BY <3>1
    <3>3. QED BY <3>2 DEF t, n
  <2>4. QED BY <1>2, <2>3
<1>6. CASE va \in StackOf(threads[i])
  <2>1. /\ threads[i].limit \in Nat /\ threads[i].base \in Nat
        /\ va \in threads[i].limit .. threads[i].base - 1
    BY <1>3, <1>4, <1>6 DEF StackOf
  <2>2. va \in Nat /\ nextStack < va /\ va < nextTeb
    BY <1>3, <1>4, <2>1
  <2>3. QED BY <1>2, <1>4, <2>2
<1>7. QED BY <1>2, <1>5, <1>6 DEF PagesOf

\* A call that begins no thread.
LEMMA ThreadsAsBefore ==
  ASSUME Core, ThreadsInv, NEW D, Anew(D), D \subseteq {nextTeb} \cup (0 .. nextStack - 1),
         D = {} \/ nextTeb \in TebPages,
         UNCHANGED threads, nextTeb' = nextTeb - TebStep, nextTeb >= TebStep,
         nextStack' \in Nat, nextStack' <= nextStack, GuestRuns'
  PROVE  ThreadsInv'
<1>1. \A i \in DOMAIN threads : \A va \in PagesOf(threads[i]) : Walk(mem', va) = Walk(mem, va)
  <2>1. CASE D = {}
    BY <2>1, ThreadsPlace DEF Anew
  <2>2. QED BY <2>1, OldThreadsKept
<1>2. ThreadsApart'
  <2>1. \A i \in DOMAIN threads : \A va \in PagesOf(threads[i]) :
          Walk(mem', va) # Absent /\ Walk(mem', va).user /\ Walk(mem', va).write
    BY <1>1 DEF ThreadsInv, ThreadsApart, PagesOf, IsMapped
  <2>2. \A i, j \in DOMAIN threads : i < j =>
          threads[j].base < threads[i].limit /\ threads[j].teb < threads[i].teb
    BY DEF ThreadsInv, ThreadsApart
  <2>3. QED BY <2>1, <2>2 DEF ThreadsApart, PagesOf, IsMapped
<1>3. /\ nextTeb' \in Nat /\ nextTeb' <= MainTeb - TebStep /\ nextTeb' <= nextTeb
      /\ nextTeb \in Nat /\ nextStack \in Nat
  <2>1. MainTeb \in Nat /\ TebStep \in Nat /\ nextTeb \in Nat /\ nextTeb <= MainTeb - TebStep
    BY AddressSpaceAssumption, PageFacts DEF ThreadsInv
  <2>2. QED BY <2>1 DEF ThreadsInv
<1>4. \A i \in DOMAIN threads : nextTeb' < threads[i].teb /\ nextStack' < threads[i].limit
  <2>1. TAKE i \in DOMAIN threads
  <2> DEFINE R == [teb : Pages, base : Pages, limit : Pages]
  <2>2. threads \in Seq(R)
    BY DEF ThreadsInv
  <2> HIDE DEF R
  <2>3. threads[i] \in R
    BY <2>2
  <2>4. /\ threads[i].teb \in Nat /\ nextTeb < threads[i].teb
        /\ threads[i].limit \in Nat /\ nextStack < threads[i].limit
    BY <2>3, PageFacts DEF R, ThreadsInv
  <2>5. QED BY <1>3, <2>4
<1>5. nextStack' <= StackTop
  BY <1>3, AddressSpaceAssumption DEF ThreadsInv
<1>6. QED BY <1>2, <1>3, <1>4, <1>5 DEF ThreadsInv

\* A call that begins a thread below the others.
LEMMA ThreadsOneMore ==
  ASSUME Core, ThreadsInv, NEW D, Anew(D), D \subseteq {nextTeb} \cup (0 .. nextStack - 1),
         nextTeb \in TebPages, nextStack \in Pages,
         StackBase < StackLimit, StackLimit \in Pages,
         nextTeb' = nextTeb - TebStep, nextTeb >= TebStep, nextStack' = StackLimit - 1, GuestRuns',
         threads' = Append(threads, [teb |-> nextTeb, base |-> nextStack, limit |-> StackLimit]),
         \A va \in {nextTeb} \cup (StackLimit .. nextStack - 1) :
           Walk(mem', va) # Absent /\ Walk(mem', va).user /\ Walk(mem', va).write
  PROVE  ThreadsInv'
<1> DEFINE R == [teb : Pages, base : Pages, limit : Pages]
           t == [teb |-> nextTeb, base |-> nextStack, limit |-> StackLimit]
           n == Len(threads)
<1>1. /\ nextTeb \in Nat /\ TebStep \in Nat /\ TebStep > 0 /\ MainTeb \in Nat
      /\ nextTeb <= MainTeb - TebStep /\ nextStack \in Nat /\ nextStack <= StackTop
      /\ StackTop \in Nat /\ StackBase \in Nat /\ StackPages \in Nat
      /\ StackLimit = nextStack - StackPages /\ StackLimit \in Nat /\ nextTeb \in Pages
  <2>1. TebPages \subseteq Pages
    BY ReachableFacts DEF Core, Reachable
  <2>2. QED BY <2>1, AddressSpaceAssumption, PageFacts DEF ThreadsInv, StackLimit
<1>2. t \in R /\ t.teb = nextTeb /\ t.base = nextStack /\ t.limit = StackLimit
  BY <1>1
<1>3. threads \in Seq(R) /\ threads' = Append(threads, t)
  BY DEF ThreadsInv
<1> HIDE DEF R, t
<1>4. /\ n \in Nat /\ DOMAIN threads = 1 .. n /\ threads' \in Seq(R)
      /\ DOMAIN threads' = 1 .. n + 1 /\ threads'[n + 1] = t
      /\ \A i \in 1 .. n : threads'[i] = threads[i] /\ threads[i] \in R
  BY <1>2, <1>3
<1>5. \A i \in 1 .. n :
        /\ threads[i].teb \in TebPages /\ nextTeb < threads[i].teb
        /\ threads[i].teb \in Nat /\ threads[i].limit \in Nat
        /\ StackBase <= threads[i].limit /\ nextStack < threads[i].limit
        /\ threads[i].base <= StackTop
  BY <1>4, PageFacts DEF R, ThreadsInv
<1>6. \A i \in 1 .. n : \A va \in PagesOf(threads[i]) :
        Walk(mem', va) # Absent /\ Walk(mem', va).user /\ Walk(mem', va).write
  <2>1. \A i \in 1 .. n : \A va \in PagesOf(threads[i]) : Walk(mem', va) = Walk(mem, va)
    BY <1>4, OldThreadsKept
  <2>2. QED BY <1>4, <2>1 DEF ThreadsInv, ThreadsApart, PagesOf, IsMapped
<1>7. \A va \in PagesOf(t) :
        Walk(mem', va) # Absent /\ Walk(mem', va).user /\ Walk(mem', va).write
  BY <1>2 DEF PagesOf, StackOf
<1>8. \A i \in 1 .. n + 1 : i \in 1 .. n \/ i = n + 1
  BY <1>4
<1>9. ThreadsApart'
  <2>1. \A i \in DOMAIN threads' : \A va \in PagesOf(threads'[i]) :
          Walk(mem', va) # Absent /\ Walk(mem', va).user /\ Walk(mem', va).write
    BY <1>4, <1>6, <1>7, <1>8
  <2>2. ASSUME NEW i \in DOMAIN threads', NEW j \in DOMAIN threads', i < j
        PROVE  threads'[j].base < threads'[i].limit /\ threads'[j].teb < threads'[i].teb
    <3>1. i \in 1 .. n
      BY <1>4, <2>2
    <3>2. CASE j = n + 1
      BY <1>2, <1>4, <1>5, <3>1, <3>2
    <3>3. CASE j \in 1 .. n
      BY <1>4, <2>2, <3>1, <3>3 DEF ThreadsInv, ThreadsApart
    <3>4. QED BY <1>4, <1>8, <3>2, <3>3
  <2>3. QED BY <2>1, <2>2 DEF ThreadsApart, PagesOf, StackOf, IsMapped
<1>10. \A i \in DOMAIN threads' :
         /\ threads'[i].teb \in TebPages /\ nextTeb' < threads'[i].teb
         /\ StackBase <= threads'[i].limit /\ nextStack' < threads'[i].limit
         /\ threads'[i].base <= StackTop
  <2>1. SUFFICES ASSUME NEW i \in 1 .. n + 1
                 PROVE  /\ threads'[i].teb \in TebPages /\ nextTeb' < threads'[i].teb
                        /\ StackBase <= threads'[i].limit /\ nextStack' < threads'[i].limit
                        /\ threads'[i].base <= StackTop
    BY <1>4
  <2>2. CASE i \in 1 .. n
    <3>1. threads'[i] = threads[i]
      BY <1>4, <2>2
    <3>2. QED BY <1>1, <1>5, <2>2, <3>1
  <2>3. CASE i = n + 1
    BY <1>1, <1>2, <1>4, <2>3
  <2>4. QED BY <1>8, <2>2, <2>3
<1>11. /\ nextTeb' \in Nat /\ nextTeb' <= MainTeb - TebStep
       /\ nextStack' \in Nat /\ nextStack' <= StackTop
  BY <1>1
<1>12. QED BY <1>4, <1>9, <1>10, <1>11 DEF ThreadsInv, R

LEMMA ThreadStep ==
  ASSUME IInv, GuestRuns, UNCHANGED <<program, phase, regions, modules, connected>>,
         NEW D, Anew(D), D \subseteq {nextTeb} \cup StackRegion,
         D = {} \/ nextTeb \in TebPages,
         Core', ThreadsInv', Implements, nextTeb' = nextTeb - TebStep
  PROVE  Good
<1>1. Placed' = Placed /\ ~Loading /\ ~Loading' /\ GuestRuns' /\ Listed' = Listed
      /\ phase # "after" /\ phase' # "after"
  BY DEF Placed, Loading, GuestRuns, Listed
<1>2. RegionsInv' /\ ModulesInv'
  BY <1>1 DEF IInv, RegionsInv, ModulesInv
<1>3. /\ nextTeb \in Nat /\ TebStep \in Nat /\ TebStep > 0 /\ nextTeb' \in Nat
  BY AddressSpaceAssumption, PageFacts DEF IInv, ThreadsInv
<1>4. Unmapped(D)
  BY <1>3 DEF IInv, Untouched, Unmapped, Contested
<1>5. Stays
  BY <1>4, StaysAnew
<1>6. Placed \in Int /\ Placed' >= Placed
  BY <1>1, PlacedNat
<1>7. \A i \in DOMAIN Starting : i > Placed' => Clear(RegionPages(Starting[i]), D)
  <2>1. \A i \in DOMAIN Starting : Apart(RegionPages(Starting[i]), LowPages \cup TebPages)
    BY LayoutAssumption
  <2>2. QED BY <2>1 DEF Apart, Clear, Contested
<1>8. Clear({ va \in TebPages : va <= nextTeb' }, D)
  <2>1. ~(nextTeb <= nextTeb')
    BY <1>3
  <2>2. QED BY <2>1 DEF Clear, Contested
<1>9. Untouched'
  <2>1. nextTeb' <= nextTeb
    BY <1>3
  <2>2. QED BY <1>1, <1>3, <1>6, <1>7, <1>8, <2>1, UntouchedLater DEF IInv
<1>10. QED BY <1>2, <1>5, <1>9 DEF Good, IInv

\* NtCreateThread, in each of its four outcomes.
LEMMA CreateThreadOK ==
  ASSUME IInv, CreateThread
  PROVE  Good
<1>1. /\ GuestRuns /\ GuestRuns' /\ nextTeb >= TebStep /\ nextTeb' = nextTeb - TebStep
      /\ UNCHANGED <<program, phase, regions, modules, connected>>
      /\ NoTeb \/ NoStackAddress \/ NoStackMemory \/ ThreadCreated
  BY DEF CreateThread, Idle, GuestRuns, NtCreateThread, TebAddressLeft
<1>2. /\ Core /\ ThreadsInv /\ Pages \subseteq Nat
      /\ nextTeb \in Nat /\ nextStack \in Nat /\ nextStack <= StackTop
      /\ MainTeb \in Nat /\ TebStep \in Nat /\ TebFloor \in Nat
      /\ StackTop \in Nat /\ StackBase \in Nat /\ StackPages \in Nat /\ StackTop < TebFloor
      /\ nextTeb <= MainTeb - TebStep /\ StackLimit = nextStack - StackPages
      /\ allocPtr \in Nat /\ Frames \in Nat /\ allocPtr <= Frames
  BY AddressSpaceAssumption, PageFacts DEF IInv, ThreadsInv, StackLimit, Core, AllocBase, Pd
<1>3. TebPages \cup StackRegion \subseteq Pages /\ TebPages \subseteq Reachable(program)
  BY <1>2, ReachableFacts DEF Core, Reachable
<1>4. CASE NoTeb
  <2>1. mem' = mem /\ nextPt' = nextPt /\ allocPtr' = allocPtr /\ UNCHANGED <<nextStack, threads>>
    BY <1>4 DEF NoTeb, memory
  <2>2. Core' /\ Anew({}) /\ Map' = Map
    BY <1>1, <1>2, <2>1 DEF Core, Tables, Present, Tabled, GuestKeptOut, IsMapped, GetPhys,
                            Walk, Anew, Map
  <2>3. Implements
    BY <2>1, <2>2 DEF Implements
  <2>4. ThreadsInv'
    BY <1>1, <1>2, <2>1, <2>2, ThreadsAsBefore
  <2>5. QED BY <1>1, <2>2, <2>3, <2>4, ThreadStep
<1>5. ASSUME ~TebRefused
      PROVE  nextTeb \in TebPages /\ allocPtr < Frames
  BY <1>2, <1>5 DEF TebRefused, TebPages, Room
<1>6. CASE NoStackAddress
  <2> DEFINE D == Span(nextTeb, 1)
  <2>1. /\ nextTeb \in TebPages /\ MapRegion(nextTeb, 1, TRUE) /\ UNCHANGED <<nextStack, threads>>
    BY <1>5, <1>6 DEF NoStackAddress
  <2>2. D = {nextTeb}
    BY <1>2 DEF Span
  <2>3. D \subseteq Reachable(program) /\ nextTeb \in Pages
    BY <1>3, <2>1, <2>2
  <2>4. Core' /\ Anew(D) /\ Abstract!Map
    BY <1>1, <1>2, <2>1, <2>3, RegionOK
  <2>5. Implements
    BY <2>4 DEF Implements, Abstract!Next
  <2> HIDE DEF D
  <2>6. ThreadsInv'
    BY <1>1, <1>2, <2>1, <2>2, <2>4, ThreadsAsBefore
  <2>7. QED BY <1>1, <2>1, <2>2, <2>4, <2>5, <2>6, ThreadStep
<1>7. ASSUME ~TebRefused, ~StackRefused, NEW got \in 0 .. StackPages,
             MapFresh(got + 1, ThreadPages(got)), nextStack' = StackLimit - 1,
             \/ UNCHANGED threads
             \/ /\ got = StackPages
                /\ threads' = Append(threads, [teb |-> nextTeb, base |-> nextStack,
                                               limit |-> StackLimit])
      PROVE  Good
  <2> DEFINE S == Span(StackLimit, got)
             D == {nextTeb} \cup S
  <2>1. /\ nextTeb \in TebPages /\ StackPages + StackBase < nextStack /\ got \in Nat
        /\ got <= StackPages
    BY <1>2, <1>5, <1>7 DEF StackRefused
  <2>2. /\ StackLimit \in Nat /\ StackBase < StackLimit /\ nextStack' \in Nat
        /\ nextStack' <= nextStack
    BY <1>2, <1>7, <2>1
  <2>3. \A va \in S : va \in StackRegion /\ va \in 0 .. nextStack - 1
    BY <1>2, <2>1, <2>2 DEF Span, StackRegion
  <2>4. /\ Core' /\ Abstract!Map
        /\ \A va \in Pages :
             IF va \in D THEN Walk(mem', va) # Absent /\ Walk(mem', va).user
                              /\ Walk(mem', va).write
                         ELSE Walk(mem', va) = Walk(mem, va)
    BY <1>1, <1>2, <1>7, <2>1, ThreadPagesOK
  <2>5. Implements
    BY <2>4 DEF Implements, Abstract!Next
  <2>6. StackLimit \in StackRegion /\ nextStack \in StackRegion
    BY <1>2, <2>1, <2>2 DEF StackRegion
  <2>7. StackLimit \in Pages /\ nextStack \in Pages /\ nextTeb \in Pages
    BY <1>3, <2>1, <2>6
  <2>8. S = StackLimit .. nextStack - 1 \/ got # StackPages
    BY <1>2, <2>1, <2>2 DEF Span
  <2> HIDE DEF S
  <2>9. Anew(D) /\ D \subseteq {nextTeb} \cup (0 .. nextStack - 1)
        /\ D \subseteq {nextTeb} \cup StackRegion /\ D \subseteq Pages
    BY <1>3, <2>3, <2>4, <2>7 DEF Anew
  <2>10. \A va \in D : Walk(mem', va) # Absent /\ Walk(mem', va).user /\ Walk(mem', va).write
    BY <2>4, <2>9
  <2>11. D = {nextTeb} \cup (StackLimit .. nextStack - 1) \/ UNCHANGED threads
    BY <1>7, <2>8
  <2> HIDE DEF D
  <2>12. CASE UNCHANGED threads
    <3>1. ThreadsInv'
      BY <1>1, <1>2, <2>1, <2>2, <2>9, <2>12, ThreadsAsBefore
    <3>2. QED BY <1>1, <2>1, <2>4, <2>5, <2>9, <3>1, ThreadStep
  <2>13. CASE ~UNCHANGED threads
    <3>1. threads' = Append(threads, [teb |-> nextTeb, base |-> nextStack, limit |-> StackLimit])
      BY <1>7, <2>13
    <3>2. \A va \in {nextTeb} \cup (StackLimit .. nextStack - 1) :
            Walk(mem', va) # Absent /\ Walk(mem', va).user /\ Walk(mem', va).write
      BY <2>10, <2>11, <2>13
    <3>3. ThreadsInv'
      BY <1>1, <1>2, <1>7, <2>1, <2>2, <2>7, <2>9, <3>1, <3>2, ThreadsOneMore
    <3>4. QED BY <1>1, <2>1, <2>4, <2>5, <2>9, <3>3, ThreadStep
  <2>14. QED BY <2>12, <2>13
<1>8. CASE NoStackMemory
  <2> DEFINE got == Room - 1
  <2>1. /\ ~TebRefused /\ ~StackRefused /\ got < StackPages
        /\ MapFresh(Room, ThreadPages(got)) /\ nextStack' = StackLimit - 1 /\ UNCHANGED threads
    BY <1>8 DEF NoStackMemory
  <2>2. got \in 0 .. StackPages /\ Room = got + 1
    BY <1>2, <1>5, <2>1 DEF Room
  <2> HIDE DEF got
  <2>3. QED BY <1>7, <2>1, <2>2
<1>9. CASE ThreadCreated
  <2>1. StackPages \in 0 .. StackPages
    BY <1>2
  <2>2. /\ ~TebRefused /\ ~StackRefused
        /\ MapFresh(StackPages + 1, ThreadPages(StackPages)) /\ nextStack' = StackLimit - 1
        /\ threads' = Append(threads, [teb |-> nextTeb, base |-> nextStack,
                                       limit |-> StackLimit])
    BY <1>9 DEF ThreadCreated
  <2>3. QED BY <1>7, <2>1, <2>2
<1>10. QED BY <1>1, <1>4, <1>6, <1>8, <1>9

---------------------------------------------------------------------------
(* Every step, and the theorems.                                            *)

LEMMA StepOK ==
  ASSUME IInv, [Next]_vars
  PROVE  Good
<1>1. CASE RegionMapped
  BY <1>1, RegionMappedOK
<1>2. CASE RegionRefused
  BY <1>2, RegionRefusedOK
<1>3. CASE LoadExe
  BY <1>3, LoadExeOK
<1>4. CASE LoadExeFails
  BY <1>4, LoadExeFailsOK
<1>5. CASE LoadTarget
  BY <1>5, LoadTargetOK
<1>6. CASE ResolveFunction
  BY <1>6, SameRegionsOK DEF ResolveFunction
<1>7. CASE StartPass
  BY <1>7, SameRegionsOK DEF StartPass
<1>8. CASE VisitModule
  BY <1>8, SameRegionsOK DEF VisitModule
<1>9. CASE CreateLdrEntries
  BY <1>9, CreateLdrEntriesOK
<1>10. CASE SetupPaging
  BY <1>10, SetupPagingOK
<1>11. CASE StartDlls
  BY <1>11, StartDllsOK
<1>12. CASE InitDll
  BY <1>12, SameRegionsOK DEF InitDll
<1>13. CASE StartProgram
  BY <1>13, StartProgramOK
<1>14. CASE CreateThread
  BY <1>14, CreateThreadOK
<1>15. CASE ProcessConnect
  BY <1>15, ProcessConnectOK
<1>16. CASE UNCHANGED vars
  BY <1>16, SameRegionsOK DEF vars
<1>17. QED
  BY <1>1, <1>2, <1>3, <1>4, <1>5, <1>6, <1>7, <1>8, <1>9, <1>10, <1>11, <1>12, <1>13,
     <1>14, <1>15, <1>16 DEF Next, HostStep, GuestStep

LEMMA IInvSound ==
  ASSUME IInv
  PROVE  SpaceSound
<1>1. SpaceTypeOK
  <2>1. mem \in [TableFrame -> [Index -> Entry \cup {Absent}]]
    BY DEF IInv, Core, Tables
  <2>2. /\ nextTeb \in Nat /\ nextStack \in Nat
        /\ threads \in Seq([teb : Pages, base : Pages, limit : Pages])
    BY DEF IInv, ThreadsInv
  <2>3. nextPt \in Nat /\ allocPtr \in Nat
    BY TablesFit, AddressSpaceAssumption DEF IInv, Core, AllocBase, Pd
  <2>4. QED BY <2>1, <2>2, <2>3 DEF SpaceTypeOK
<1>2. TablesOwn
  <2>1. nextPt \in Pd + 1 .. AllocBase
    BY TablesFit DEF IInv
  <2>2. QED BY <2>1 DEF TablesOwn, IInv, Core, Tables, Present
<1>3. QED BY <1>1, <1>2 DEF SpaceSound, IInv, Core, ThreadsInv

\* The page tables that paging_map_range builds are sound whatever is mapped:
\* the directory leads to tables of its own within the frames reserved, the
\* guest reaches only frames that paging_alloc_phys has handed out, and the
\* threads of thread_create share neither stack nor TEB.
THEOREM SpaceAlwaysSound == Spec => []SpaceSound
<1>1. Init => IInv
  BY InitOK
<1>2. IInv /\ [Next]_vars => IInv'
  BY StepOK DEF Good
<1>3. IInv => SpaceSound
  BY IInvSound
<1>4. QED BY <1>1, <1>2, <1>3, PTL DEF Spec

\* paging_map_page overwrites an entry that is present without a look, and
\* still no caller ever maps a page a second time, except where the stack of
\* the main thread and those of created threads meet, and where an image claims
\* a page that a region, a TEB or another image claims too (load_pe_internal
\* maps at the address the image asks for, whatever is there).
THEOREM MappedAlwaysStays == Spec => MappedStays
<1>1. Init => IInv
  BY InitOK
<1>2. IInv /\ [Next]_vars => IInv'
  BY StepOK DEF Good
<1>3. IInv /\ [Next]_vars =>
        [\A va \in Pages \ Contested(program) :
           IsMapped(mem, va) => Walk(mem', va) = Walk(mem, va)]_mem
  BY StepOK DEF Good, Stays
<1>4. QED BY <1>1, <1>2, <1>3, PTL DEF Spec, MappedStays

\* The tables in memory, as paging.c writes them and the processor walks them,
\* implement the abstract map: pages get frames that were never handed out
\* before, one each, or the low page that is the frame.
THEOREM SpaceImplements == Spec => ImplementsAddressMap
<1>1. Init => IInv /\ Abstract!Init
  BY InitOK
<1>2. IInv /\ [Next]_vars => IInv'
  BY StepOK DEF Good
<1>3. IInv /\ [Next]_vars => [Abstract!Next]_<<Map, AllocBase .. allocPtr - 1>>
  BY StepOK DEF Good, Implements
<1>4. QED BY <1>1, <1>2, <1>3, PTL DEF Spec, ImplementsAddressMap, Abstract!Spec

---------------------------------------------------------------------------
(* The entry points. What vm_init_dlls has still to look at is what comes
   after some place p in its two lists, one after the other; what comes up to
   that place has been called if it has an entry point.                     *)

Places == Len(Priority) + Len(modules)
At(k) == IF k <= Len(Priority) THEN Priority[k] ELSE modules[Places + 1 - k]

Callable(m) == m \in Listed /\ HasEntry(m)

EntriesFrom(p) ==
  /\ entries \in Seq(Images) /\ Len(entries) = Places - p
  /\ \A i \in 1 .. Places - p : entries[i] = At(p + i)
  /\ \A i \in 1 .. p : Callable(At(i)) => Contains(inited, At(i))
  /\ p <= Len(Priority) => \A i \in DOMAIN inited : Rank(inited[i]) <= p

Called ==
  /\ inited \in Seq(Images) /\ IsInjective(inited)
  /\ \A i \in DOMAIN inited : Callable(inited[i])
  /\ \A i, j \in DOMAIN inited : i < j => Rank(inited[i]) <= Rank(inited[j])

EntriesInv ==
  /\ ~GuestRuns => inited = <<>>
  /\ Called
  /\ phase = "dlls" => \E p \in 0 .. Places : EntriesFrom(p)
  /\ phase = "run" => \A m \in Listed : HasEntry(m) => Contains(inited, m)

LEMMA PriorityFacts ==
  /\ Priority \in Seq(Images) /\ Len(Priority) \in Nat /\ DOMAIN Priority = 1 .. Len(Priority)
  /\ \A i, j \in 1 .. Len(Priority) : Priority[i] = Priority[j] => i = j
  BY LoaderAssumption DEF IsInjective

LEMMA RankFacts ==
  /\ \A i \in 1 .. Len(Priority) : Rank(Priority[i]) = i
  /\ \A m : Rank(m) \in 1 .. Len(Priority) + 1
  /\ \A m : (\A i \in 1 .. Len(Priority) : Priority[i] # m) => Rank(m) = Len(Priority) + 1
<1>1. ASSUME NEW m, NEW i \in 1 .. Len(Priority), Priority[i] = m
      PROVE  Rank(m) = i
  <2>1. Contains(Priority, m)
    BY <1>1, PriorityFacts DEF Contains
  <2> DEFINE c == CHOOSE j \in DOMAIN Priority : Priority[j] = m
  <2>2. c \in DOMAIN Priority /\ Priority[c] = m
    BY <1>1, PriorityFacts
  <2>3. c = i
    BY <1>1, <2>2, PriorityFacts
  <2>4. QED BY <2>1, <2>3 DEF Rank
<1>2. ASSUME NEW m, \A i \in 1 .. Len(Priority) : Priority[i] # m
      PROVE  Rank(m) = Len(Priority) + 1
  BY <1>2, PriorityFacts DEF Rank, Contains
<1>3. Len(Priority) \in Nat
  BY PriorityFacts
<1>4. \A m : Rank(m) \in 1 .. Len(Priority) + 1
  <2>1. TAKE m
  <2>2. CASE \E i \in 1 .. Len(Priority) : Priority[i] = m
    BY <1>1, <1>3, <2>2
  <2>3. CASE \A i \in 1 .. Len(Priority) : Priority[i] # m
    BY <1>2, <1>3, <2>3
  <2>4. QED BY <2>2, <2>3
<1>5. QED BY <1>1, <1>2, <1>4

LEMMA PlaceFacts ==
  ASSUME ModulesInv
  PROVE  /\ Len(modules) \in Nat /\ Places \in Nat /\ Len(Priority) <= Places
         /\ DOMAIN modules = 1 .. Len(modules)
         /\ \A k \in 1 .. Places : At(k) \in Images
         /\ \A m \in Listed : \E k \in 1 .. Places : At(k) = m
<1>1. /\ Len(modules) \in Nat /\ modules \in Seq(Images) /\ DOMAIN modules = 1 .. Len(modules)
      /\ Len(Priority) \in Nat /\ Places = Len(Priority) + Len(modules)
  BY PriorityFacts DEF ModulesInv, Places
<1>2. \A k \in 1 .. Places : At(k) \in Images
  <2>1. TAKE k \in 1 .. Places
  <2>2. CASE k <= Len(Priority)
    <3>1. k \in 1 .. Len(Priority)
      BY <1>1, <2>2
    <3>2. QED BY <2>2, <3>1, PriorityFacts DEF At
  <2>3. CASE ~(k <= Len(Priority))
    <3>1. Places + 1 - k \in 1 .. Len(modules)
      BY <1>1, <2>3
    <3>2. modules[Places + 1 - k] \in Images
      BY <1>1, <3>1
    <3>3. QED BY <2>3, <3>2 DEF At
  <2>4. QED BY <2>2, <2>3
<1>3. \A m \in Listed : \E k \in 1 .. Places : At(k) = m
  <2>1. TAKE m \in Listed
  <2>2. PICK i \in 1 .. Len(modules) : modules[i] = m
    BY <1>1 DEF Listed
  <2> DEFINE k == Places + 1 - i
  <2>3. k \in 1 .. Places /\ ~(k <= Len(Priority)) /\ Places + 1 - k = i
    BY <1>1
  <2>4. At(k) = m
    BY <2>2, <2>3 DEF At
  <2>5. QED BY <2>3, <2>4
<1>4. QED BY <1>1, <1>2, <1>3

\* What the two loops of vm_init_dlls go through.
LEMMA EntriesAtFirst ==
  ASSUME ModulesInv
  PROVE  /\ Priority \o Reverse(modules) \in Seq(Images)
         /\ Len(Priority \o Reverse(modules)) = Places
         /\ \A k \in 1 .. Places : (Priority \o Reverse(modules))[k] = At(k)
<1> DEFINE r == Reverse(modules)
           n == Len(modules)
<1>1. n \in Nat /\ modules \in Seq(Images) /\ Len(Priority) \in Nat /\ Priority \in Seq(Images)
      /\ Places = Len(Priority) + n
  BY PriorityFacts DEF ModulesInv, Places
<1>2. r = [i \in 1 .. n |-> modules[n - i + 1]]
  BY DEF Reverse
<1>3. \A i \in 1 .. n : modules[n - i + 1] \in Images
  <2>1. TAKE i \in 1 .. n
  <2>2. n - i + 1 \in 1 .. n
    BY <1>1
  <2>3. QED BY <1>1, <2>2
<1>4. r \in Seq(Images) /\ Len(r) = n
  BY <1>1, <1>2, <1>3
<1> HIDE DEF r
<1>5. Joins(Priority, r, Priority \o r, Images)
  BY <1>1, <1>4, Joined
<1>6. ASSUME NEW k \in 1 .. Places
      PROVE  (Priority \o r)[k] = At(k)
  <2>1. CASE k <= Len(Priority)
    <3>1. k \in 1 .. Len(Priority)
      BY <1>1, <2>1
    <3>2. QED BY <1>5, <2>1, <3>1 DEF Joins, At
  <2>2. CASE ~(k <= Len(Priority))
    <3>1. k - Len(Priority) \in 1 .. n /\ Len(Priority) + (k - Len(Priority)) = k
          /\ n - (k - Len(Priority)) + 1 = Places + 1 - k
      BY <1>1, <2>2
    <3>2. (Priority \o r)[k] = r[k - Len(Priority)]
      BY <1>4, <1>5, <3>1 DEF Joins
    <3>3. r[k - Len(Priority)] = modules[Places + 1 - k]
      BY <1>2, <3>1
    <3>4. QED BY <2>2, <3>2, <3>3 DEF At
  <2>3. QED BY <2>1, <2>2
<1>7. Len(Priority \o r) = Places /\ Priority \o r \in Seq(Images)
  BY <1>1, <1>4, <1>5 DEF Joins
<1>8. QED BY <1>6, <1>7 DEF r

\* The next entry point comes after every one that has been called.
LEMMA RankGrows ==
  ASSUME ModulesInv, NEW p \in 0 .. Places, EntriesFrom(p),
         NEW q \in p + 1 .. Places, Due(At(q)), \A k \in p + 1 .. q - 1 : ~Due(At(k)),
         NEW j \in DOMAIN inited
  PROVE  /\ Rank(inited[j]) <= Rank(At(q))
         /\ q <= Len(Priority) => Rank(At(q)) = q
<1>1. /\ Len(Priority) \in Nat /\ Places \in Nat /\ p \in Nat /\ q \in Nat /\ p < q
      /\ Rank(inited[j]) \in 1 .. Len(Priority) + 1
  BY PlaceFacts, PriorityFacts, RankFacts
<1>2. ASSUME q <= Len(Priority)
      PROVE  Rank(inited[j]) <= Rank(At(q)) /\ Rank(At(q)) = q
  <2>1. Rank(At(q)) = q
    BY <1>1, <1>2, RankFacts DEF At
  <2>2. Rank(inited[j]) <= p
    BY <1>1, <1>2 DEF EntriesFrom
  <2>3. QED BY <1>1, <2>1, <2>2
<1>3. ASSUME ~(q <= Len(Priority))
      PROVE  Rank(inited[j]) <= Rank(At(q))
  <2>1. ASSUME NEW i \in 1 .. Len(Priority), Priority[i] = At(q)
        PROVE  FALSE
    <3>1. At(i) = At(q) /\ i < q
      BY <1>1, <1>3, <2>1 DEF At
    <3>2. Callable(At(i)) /\ ~Contains(inited, At(i))
      BY <3>1 DEF Due, Callable
    <3>3. ~(i <= p)
      BY <1>1, <3>2 DEF EntriesFrom
    <3>4. i \in p + 1 .. q - 1
      BY <1>1, <3>1, <3>3
    <3>5. QED BY <3>1, <3>4
  <2>2. Rank(At(q)) = Len(Priority) + 1
    BY <2>1, RankFacts
  <2>3. QED BY <1>1, <2>2
<1>4. QED BY <1>2, <1>3

\* What is left of a sequence after its ith element.
LEMMA RestOf ==
  ASSUME NEW S, NEW s \in Seq(S), NEW i \in 0 .. Len(s)
  PROVE  /\ SubSeq(s, i + 1, Len(s)) \in Seq(S)
         /\ Len(SubSeq(s, i + 1, Len(s))) = Len(s) - i
         /\ \A k \in 1 .. Len(s) - i : SubSeq(s, i + 1, Len(s))[k] = s[i + k]
<1> DEFINE n == Len(s)
           t == SubSeq(s, i + 1, n)
<1>1. n \in Nat /\ i \in Nat /\ i <= n
  OBVIOUS
<1>2. t \in Seq(S) /\ Len(t) = n - i
  BY <1>1
<1>3. ASSUME NEW k \in 1 .. n - i
      PROVE  t[k] = s[i + k]
  <2>1. t[k] = s[(i + 1) + k - 1]
    BY <1>1
  <2>2. (i + 1) + k - 1 = i + k
    BY <1>1
  <2>3. QED BY <2>1, <2>2
<1>4. QED BY <1>2, <1>3

LEMMA InitDllCalls ==
  ASSUME ModulesInv, EntriesInv, InitDll
  PROVE  EntriesInv'
<1>1. PICK i \in DOMAIN entries :
        /\ Due(entries[i]) /\ \A j \in 1 .. i - 1 : ~Due(entries[j])
        /\ inited' = Append(inited, entries[i])
        /\ entries' = SubSeq(entries, i + 1, Len(entries))
  BY DEF InitDll
<1>2. phase = "dlls" /\ UNCHANGED <<program, phase, modules>> /\ GuestRuns' /\ GuestRuns
  BY DEF InitDll, GuestRuns
<1>3. PICK p \in 0 .. Places : EntriesFrom(p)
  BY <1>2 DEF EntriesInv
<1> DEFINE e == entries[i]
           n == Len(inited)
           q == p + i
           L == Len(entries)
<1>4. /\ Places \in Nat /\ Len(Priority) \in Nat /\ p \in Nat /\ p <= Places
      /\ entries \in Seq(Images) /\ L = Places - p /\ L \in Nat /\ DOMAIN entries = 1 .. L
      /\ i \in 1 .. L /\ \A k \in 1 .. L : entries[k] = At(p + k)
      /\ q \in p + 1 .. Places /\ q \in 0 .. Places /\ Places - q = L - i
  <2>1. /\ entries \in Seq(Images) /\ L = Places - p
        /\ \A k \in 1 .. Places - p : entries[k] = At(p + k)
    BY <1>3 DEF EntriesFrom
  <2>2. DOMAIN entries = 1 .. L /\ L \in Nat
    BY <2>1
  <2>3. Places \in Nat /\ Len(Priority) \in Nat
    BY PlaceFacts, PriorityFacts
  <2> HIDE DEF L
  <2>4. i \in 1 .. L /\ p \in Nat /\ p <= Places
    BY <1>1, <2>2, <2>3
  <2>5. q \in p + 1 .. Places /\ q \in 0 .. Places /\ Places - q = L - i
    BY <2>1, <2>2, <2>3, <2>4
  <2>6. QED BY <2>1, <2>2, <2>3, <2>4, <2>5
<1>5. e = At(q) /\ Due(At(q)) /\ e \in Images
  BY <1>1, <1>4
<1>6. \A k \in p + 1 .. q - 1 : ~Due(At(k))
  <2>1. TAKE k \in p + 1 .. q - 1
  <2>2. k - p \in 1 .. i - 1 /\ p + (k - p) = k /\ k - p \in 1 .. L
    BY <1>4
  <2>3. QED BY <1>1, <1>4, <2>2
<1>7. Called
  BY DEF EntriesInv
<1>8. /\ n \in Nat /\ DOMAIN inited = 1 .. n /\ inited \in Seq(Images)
      /\ inited' \in Seq(Images) /\ Len(inited') = n + 1
      /\ DOMAIN inited' = 1 .. n + 1 /\ inited'[n + 1] = e
      /\ \A k \in 1 .. n : inited'[k] = inited[k]
  <2>1. inited \in Seq(Images) /\ inited' = Append(inited, e) /\ e \in Images
    BY <1>1, <1>5, <1>7 DEF Called
  <2> HIDE DEF e
  <2>2. QED BY <2>1
<1> HIDE DEF e
<1>9. Callable(e) /\ \A k \in 1 .. n : inited[k] # e
  <2>1. n = Len(inited)
    OBVIOUS
  <2> HIDE DEF n
  <2>2. QED BY <1>5, <2>1 DEF Due, Callable, Contains
<1>10. \A k \in 1 .. n : Rank(inited[k]) <= Rank(e)
  BY <1>3, <1>4, <1>5, <1>6, <1>8, RankGrows
<1>11. \A k \in 1 .. n + 1 : k \in 1 .. n \/ k = n + 1
  BY <1>8
<1>12. \A m : Contains(inited, m) \/ m = e => Contains(inited', m)
  <2>1. TAKE m
  <2>2. CASE m = e
    BY <1>8, <2>2 DEF Contains
  <2>3. CASE Contains(inited, m)
    BY <1>8, <2>3 DEF Contains
  <2>4. QED BY <2>2, <2>3
<1>13. \A m : Callable(m)' <=> Callable(m)
  BY <1>2 DEF Callable, HasEntry, Listed
<1>14. \A m : (Rank(m))' = Rank(m)
  BY DEF Rank
<1>15. Called'
  <2>1. IsInjective(inited')
    <3>1. SUFFICES ASSUME NEW a \in 1 .. n + 1, NEW b \in 1 .. n + 1, inited'[a] = inited'[b]
                   PROVE  a = b
      BY <1>8 DEF IsInjective
    <3>2. \A x, y \in 1 .. n : inited[x] = inited[y] => x = y
      BY <1>7, <1>8 DEF Called, IsInjective
    <3>3. QED BY <1>8, <1>9, <1>11, <3>1, <3>2
  <2>2. \A k \in DOMAIN inited' : Callable(inited'[k])
    BY <1>7, <1>8, <1>9, <1>11 DEF Called
  <2>3. ASSUME NEW a \in DOMAIN inited', NEW b \in DOMAIN inited', a < b
        PROVE  Rank(inited'[a]) <= Rank(inited'[b])
    <3>1. a \in 1 .. n
      BY <1>8, <2>3
    <3>2. CASE b = n + 1
      BY <1>8, <1>10, <3>1, <3>2
    <3>3. CASE b \in 1 .. n
      BY <1>7, <1>8, <2>3, <3>1, <3>3 DEF Called
    <3>4. QED BY <1>8, <1>11, <3>2, <3>3
  <2>4. QED BY <1>8, <1>13, <2>1, <2>2, <2>3 DEF Called, Rank
<1>16. Places' = Places /\ \A k : At(k)' = At(k)
  BY <1>2 DEF Places, At
<1>17. EntriesFrom(q)'
  <2>1. /\ entries' \in Seq(Images) /\ Len(entries') = L - i
        /\ \A k \in 1 .. L - i : entries'[k] = entries[i + k]
    <3>1. entries' = SubSeq(entries, i + 1, L) /\ i \in 0 .. Len(entries) /\ L = Len(entries)
      BY <1>1, <1>4
    <3>2. entries \in Seq(Images)
      BY <1>4
    <3> HIDE DEF L
    <3>3. QED BY <3>1, <3>2, RestOf, Zenon
  <2>2. \A k \in 1 .. Places - q : entries'[k] = At(q + k)
    <3>1. TAKE k \in 1 .. Places - q
    <3>2. i \in 1 .. L /\ L \in Nat /\ p \in Nat /\ Places - q = L - i
      BY <1>4
    <3> HIDE DEF L
    <3>3. k \in 1 .. L - i
      BY <3>2
    <3>4. i + k \in 1 .. L /\ p + (i + k) = q + k
      BY <3>2, <3>3
    <3>5. QED BY <1>4, <2>1, <3>3, <3>4
  <2>3. ASSUME NEW k \in 1 .. q, Callable(At(k))
        PROVE  Contains(inited', At(k))
    <3>1. CASE k \in 1 .. p
      BY <1>3, <1>12, <2>3, <3>1 DEF EntriesFrom
    <3>2. CASE k \in p + 1 .. q - 1
      BY <1>6, <1>12, <2>3, <3>2 DEF Due, Callable
    <3>3. CASE k = q
      BY <1>5, <1>12, <3>3
    <3>4. k \in 1 .. p \/ k \in p + 1 .. q - 1 \/ k = q
      BY <1>4
    <3>5. QED BY <3>1, <3>2, <3>3, <3>4
  <2>4. ASSUME q <= Len(Priority), NEW k \in 1 .. n + 1
        PROVE  Rank(inited'[k]) <= q
    <3>1. Rank(e) = q
      BY <1>4, <1>5, <2>4, RankFacts DEF At
    <3>2. CASE k \in 1 .. n
      BY <1>8, <1>10, <3>1, <3>2
    <3>3. CASE k = n + 1
      BY <1>4, <1>8, <3>1, <3>3
    <3>4. QED BY <1>11, <3>2, <3>3
  <2>5. Len(entries') = Places - q
    BY <1>4, <2>1
  <2> HIDE DEF q
  <2>6. QED BY <1>8, <1>13, <1>16, <2>1, <2>2, <2>3, <2>4, <2>5 DEF EntriesFrom, Rank
<1>18. phase' = "dlls"
  BY <1>2
<1>19. \E r \in 0 .. Places : EntriesFrom(r)'
  BY <1>4, <1>17
<1>20. QED BY <1>2, <1>15, <1>16, <1>18, <1>19 DEF EntriesInv

LEMMA EntriesAsBefore ==
  ASSUME EntriesInv, UNCHANGED <<program, phase, modules, entries, inited>>
  PROVE  EntriesInv'
<1>1. /\ Places' = Places /\ \A k : At(k)' = At(k)
      /\ \A m : Callable(m)' <=> Callable(m)
      /\ Listed' = Listed /\ \A m : HasEntry(m)' <=> HasEntry(m)
      /\ GuestRuns' <=> GuestRuns
  BY DEF Places, At, Callable, HasEntry, Listed, GuestRuns
<1>2. Called'
  BY <1>1 DEF EntriesInv, Called, Rank
<1>3. \A p : EntriesFrom(p) => EntriesFrom(p)'
  BY <1>1 DEF EntriesFrom, Rank
<1>4. QED BY <1>1, <1>2, <1>3 DEF EntriesInv

LEMMA NoEntryYet ==
  ASSUME EntriesInv, inited' = inited, ~GuestRuns, ~GuestRuns'
  PROVE  EntriesInv'
<1>1. inited = <<>> /\ inited' = <<>>
  BY DEF EntriesInv
<1>2. Called'
  BY <1>1 DEF Called, IsInjective
<1>3. QED BY <1>1, <1>2 DEF EntriesInv, GuestRuns

LEMMA StartDllsEntries ==
  ASSUME ModulesInv, EntriesInv, StartDlls
  PROVE  EntriesInv'
<1>1. /\ phase = "process" /\ phase' = "dlls" /\ entries' = Priority \o Reverse(modules)
      /\ inited' = inited /\ UNCHANGED <<program, modules>>
  BY DEF StartDlls
<1>2. inited = <<>>
  BY <1>1 DEF EntriesInv, GuestRuns
<1>3. /\ entries' \in Seq(Images) /\ Len(entries') = Places
      /\ \A k \in 1 .. Places : entries'[k] = At(k)
      /\ Places \in Nat
  BY <1>1, EntriesAtFirst, PlaceFacts
<1>4. Places' = Places /\ \A k : At(k)' = At(k)
  BY <1>1 DEF Places, At
<1>5. EntriesFrom(0)'
  <2>1. Len(entries') = Places - 0 /\ \A k \in 1 .. Places - 0 : entries'[k] = At(0 + k)
    <3>1. Places - 0 = Places /\ \A k \in 1 .. Places : 0 + k = k
      BY <1>3
    <3>2. QED BY <1>3, <3>1
  <2>2. \A k \in 1 .. 0 : FALSE
    OBVIOUS
  <2>3. \A k \in DOMAIN inited' : FALSE
    BY <1>1, <1>2
  <2>4. QED BY <1>3, <1>4, <2>1, <2>2, <2>3 DEF EntriesFrom
<1>6. Called'
  BY <1>1, <1>2 DEF Called, IsInjective
<1>7. 0 \in 0 .. Places'
  BY <1>3, <1>4
<1>8. QED BY <1>1, <1>2, <1>5, <1>6, <1>7 DEF EntriesInv, GuestRuns

LEMMA StartProgramEntries ==
  ASSUME ModulesInv, EntriesInv, StartProgram
  PROVE  EntriesInv'
<1>1. /\ phase = "dlls" /\ phase' = "run" /\ \A i \in DOMAIN entries : ~Due(entries[i])
      /\ UNCHANGED <<program, modules, entries, inited>>
  BY DEF StartProgram, starting
<1>2. PICK p \in 0 .. Places : EntriesFrom(p)
  BY <1>1 DEF EntriesInv
<1>3. /\ \A m : Callable(m)' <=> Callable(m)
      /\ Listed' = Listed /\ \A m : HasEntry(m)' <=> HasEntry(m)
  BY <1>1 DEF Callable, HasEntry, Listed
<1>4. Called'
  BY <1>1, <1>3 DEF EntriesInv, Called, Rank
<1>5. ASSUME NEW m \in Listed, HasEntry(m)
      PROVE  Contains(inited, m)
  <2>1. PICK k \in 1 .. Places : At(k) = m
    BY PlaceFacts
  <2>2. Places \in Nat /\ p \in Nat /\ p <= Places /\ k \in Nat
    BY PlaceFacts
  <2>3. CASE k <= p
    <3>1. k \in 1 .. p
      BY <2>2, <2>3
    <3>2. QED BY <1>2, <1>5, <2>1, <3>1 DEF EntriesFrom, Callable
  <2>4. CASE ~(k <= p)
    <3>1. k - p \in 1 .. Places - p /\ p + (k - p) = k
      BY <2>2, <2>4
    <3>2. entries[k - p] = m /\ k - p \in DOMAIN entries
      <4>1. entries \in Seq(Images) /\ Len(entries) = Places - p
            /\ entries[k - p] = At(k)
        BY <1>2, <3>1 DEF EntriesFrom
      <4>2. DOMAIN entries = 1 .. Places - p
        BY <4>1
      <4>3. QED BY <2>1, <3>1, <4>1, <4>2
    <3>3. QED BY <1>1, <1>5, <3>2 DEF Due
  <2>5. QED BY <2>3, <2>4
<1>6. QED BY <1>1, <1>3, <1>4, <1>5 DEF EntriesInv, GuestRuns

LEMMA EntriesStep ==
  ASSUME ModulesInv, RegionsInv, EntriesInv, [Next]_vars
  PROVE  EntriesInv'
<1>1. CASE StartDlls
  BY <1>1, StartDllsEntries
<1>2. CASE InitDll
  BY <1>2, InitDllCalls
<1>3. CASE StartProgram
  BY <1>3, StartProgramEntries
<1>4. CASE RegionMapped \/ CreateThread \/ ProcessConnect \/ UNCHANGED vars
  <2>1. UNCHANGED <<program, phase, modules, entries, inited>>
    BY <1>4 DEF RegionMapped, CreateThread, ProcessConnect, vars, starting
  <2>2. QED BY <2>1, EntriesAsBefore
<1>5. CASE RegionRefused
  <2>1. UNCHANGED <<program, modules, entries, inited>> /\ (StartRefused \/ ConnectRefused)
    BY <1>5 DEF RegionRefused, starting
  <2>2. CASE StartRefused
    BY <2>1, <2>2, NoEntryYet DEF StartRefused, GuestRuns
  <2>3. CASE ConnectRefused
    BY <2>1, <2>3, EntriesAsBefore DEF ConnectRefused
  <2>4. QED BY <2>1, <2>2, <2>3
<1>6. CASE LoadExe \/ LoadExeFails \/ LoadTarget \/ ResolveFunction \/ StartPass \/ VisitModule
           \/ CreateLdrEntries \/ SetupPaging
  <2>1. inited' = inited
    BY <1>6 DEF LoadExe, LoadExeFails, LoadTarget, ResolveFunction, StartPass, VisitModule,
                CreateLdrEntries, SetupPaging, starting
  <2>2. ~GuestRuns /\ ~GuestRuns'
    BY <1>6 DEF LoadExe, LoadExeFails, LoadTarget, ResolveFunction, StartPass, VisitModule,
                CreateLdrEntries, SetupPaging, Resolving, BetweenModules, GuestRuns
  <2>3. QED BY <2>1, <2>2, NoEntryYet
<1>7. QED BY <1>1, <1>2, <1>3, <1>4, <1>5, <1>6 DEF Next, HostStep, GuestStep

\* vm_init_dlls calls every entry point once, whichever of its two loops comes
\* to the module first, the priority DLLs before all others and in their order,
\* and all of them before the program starts, although the guest may create
\* threads and connect to the USER subsystem from within an entry point.
THEOREM EntriesAlwaysOnce == Spec => []EntriesOnce
<1>1. Init => IInv /\ EntriesInv
  <2>1. Init => inited = <<>> /\ ~GuestRuns
    BY DEF Init, GuestRuns
  <2>2. inited = <<>> /\ ~GuestRuns => EntriesInv
    BY DEF EntriesInv, Called, IsInjective, GuestRuns
  <2>3. QED BY <2>1, <2>2, InitOK
<1>2. IInv /\ EntriesInv /\ [Next]_vars => IInv' /\ EntriesInv'
  BY StepOK, EntriesStep DEF Good, IInv
<1>3. EntriesInv => EntriesOnce
  <2>1. SUFFICES ASSUME EntriesInv PROVE EntriesOnce
    OBVIOUS
  <2>2. ToSet(inited) \subseteq { m \in Listed : HasEntry(m) }
    BY <2>1 DEF EntriesInv, Called, Callable, ToSet
  <2>3. phase = "run" => { m \in Listed : HasEntry(m) } \subseteq ToSet(inited)
    <3>1. inited \in Seq(Images) /\ DOMAIN inited = 1 .. Len(inited)
      BY <2>1 DEF EntriesInv, Called
    <3>2. QED BY <2>1, <3>1 DEF EntriesInv, Contains, ToSet
  <2>4. QED BY <2>1, <2>2, <2>3 DEF EntriesInv, Called, EntriesOnce
<1>4. QED BY <1>1, <1>2, <1>3, PTL DEF Spec

---------------------------------------------------------------------------
(* The imports. An import has been dealt with when forwarders lead from it to
   a target that nothing leads on from, now or later.                       *)

LEMMA Smallest ==
  ASSUME NEW S \in SUBSET Nat, S # {}
  PROVE  \E x \in S : \A y \in S : x <= y
<1> DEFINE R == OpToRel(<, Nat)
<1>1. IsWellFoundedOn(R, Nat)
  BY NatLessThanWellFounded
<1>2. PICK x \in S : \A y \in S : <<y, x>> \notin R
  <2> HIDE DEF R
  <2> QED BY <1>1, WFMin
<1>3. \A y \in S : x <= y
  <2>1. TAKE y \in S
  <2>2. <<y, x>> \notin R /\ <<y, x>> \in Nat \X Nat
    BY <1>2
  <2>3. ~(y < x)
    BY <2>2 DEF OpToRel
  <2>4. QED BY <2>3
<1>4. QED BY <1>3

\* UsesStub and FollowForwarder, for any target.
MayStub(t) ==
  /\ t[1] = Ntdll /\ t[2] \in StubNames
  /\ Registered(t[2]) \/ Len(stubs) < StubRoom
CanHop(t) ==
  /\ t[1] \in Listed /\ ~MayStub(t)
  /\ t[2] \in DOMAIN program.exports[t[1]] /\ ForwardedTo(t) # "code"

Hops(n, c, t, u) ==
  /\ c[0] = t /\ c[n] = u
  /\ \A i \in 0 .. n - 1 : CanHop(c[i]) /\ c[i + 1] = ForwardedTo(c[i])
Leads(t, u) == \E n \in Nat : \E c : Hops(n, c, t, u)

Settled(t) ==
  \/ Stubbed(t)
  \/ /\ t[1] \in Listed /\ ~MayStub(t)
     /\ t[2] \in DOMAIN program.exports[t[1]] => ForwardedTo(t) = "code"
  \/ t[1] \notin Listed /\ ~CanLoad(t[1])

StubsOK == stubs \in Seq(StubNames) /\ IsInjective(stubs)

LEMMA LeadsHere == ASSUME NEW t PROVE Leads(t, t)
<1> DEFINE c == [i \in {0} |-> t]
<1>1. c[0] = t /\ \A i \in 0 .. 0 - 1 : FALSE
  OBVIOUS
<1> HIDE DEF c
<1>2. Hops(0, c, t, t)
  BY <1>1 DEF Hops
<1>3. QED BY <1>2 DEF Leads

LEMMA LeadsOn ==
  ASSUME NEW t, NEW u, Leads(t, u), CanHop(u)
  PROVE  Leads(t, ForwardedTo(u))
<1>1. PICK n \in Nat : \E c : Hops(n, c, t, u)
  BY DEF Leads
<1>2. PICK c : Hops(n, c, t, u)
  BY <1>1
<1> DEFINE v == ForwardedTo(u)
           d == [i \in 0 .. n + 1 |-> IF i <= n THEN c[i] ELSE v]
<1>3. /\ \A i \in 0 .. n : d[i] = c[i]
      /\ d[n + 1] = v
  OBVIOUS
<1> HIDE DEF d, v
<1>4. ASSUME NEW i \in 0 .. n PROVE CanHop(d[i]) /\ d[i + 1] = ForwardedTo(d[i])
  <2>1. CASE i = n
    BY <1>2, <1>3, <2>1 DEF Hops, v
  <2>2. CASE i # n
    <3>1. i \in 0 .. n - 1 /\ i + 1 \in 0 .. n
      BY <2>2
    <3>2. QED BY <1>2, <1>3, <3>1 DEF Hops
  <2>3. QED BY <2>1, <2>2
<1>5. d[0] = t /\ (n + 1) - 1 = n /\ n + 1 \in Nat
  BY <1>2, <1>3 DEF Hops
<1>6. Hops(n + 1, d, t, v)
  BY <1>3, <1>4, <1>5 DEF Hops
<1>7. QED BY <1>5, <1>6 DEF Leads, v

\* A shortest way comes by no forwarder twice.
LEMMA ShortWay ==
  ASSUME program \in Programs, Listed \subseteq Known, NEW t, NEW u, Leads(t, u)
  PROVE  \E n \in 0 .. Cardinality(Forwarders(program)) : \E c : Hops(n, c, t, u)
<1> DEFINE S == { n \in Nat : \E c : Hops(n, c, t, u) }
           F == Forwarders(program)
<1>1. S \in SUBSET Nat /\ S # {}
  BY DEF Leads
<1>2. PICK n \in S : \A m \in S : n <= m
  <2> HIDE DEF S
  <2> QED BY <1>1, Smallest
<1>3. PICK c : Hops(n, c, t, u)
  OBVIOUS
<1>4. n \in Nat
  OBVIOUS
<1> DEFINE name == [i \in 0 .. n - 1 |-> <<c[i][1], c[i][2]>>]
<1>5. name \in [0 .. n - 1 -> F]
  <2>1. SUFFICES ASSUME NEW i \in 0 .. n - 1 PROVE <<c[i][1], c[i][2]>> \in F
    OBVIOUS
  <2> DEFINE x == c[i]
  <2>2. CanHop(x)
    BY <1>3 DEF Hops
  <2> HIDE DEF x
  <2>3. /\ x[1] \in DOMAIN program.size /\ x[2] \in DOMAIN program.exports[x[1]]
        /\ program.exports[x[1]][x[2]] # "code"
    BY <2>2 DEF CanHop, ForwardedTo, Known
  <2>4. <<x[1], x[2]>> \in F
    BY <2>3 DEF Forwarders
  <2>5. QED BY <2>4 DEF x
<1>6. ASSUME NEW i \in 0 .. n - 1, NEW j \in 0 .. n - 1, i < j, name[i] = name[j] PROVE FALSE
  <2>1. ForwardedTo(c[i]) = ForwardedTo(c[j])
    BY <1>6 DEF ForwardedTo
  <2>2. c[i + 1] = c[j + 1]
    BY <1>3, <2>1 DEF Hops
  <2> DEFINE e == j - i
             d == [l \in 0 .. n - e |-> IF l <= i THEN c[l] ELSE c[l + e]]
  <2>3. e \in Nat /\ e > 0 /\ n - e \in Nat /\ i + 1 <= n - e
    BY <1>4, <1>6
  <2>4. /\ \A l \in 0 .. i : d[l] = c[l]
        /\ \A l \in i + 1 .. n - e : d[l] = c[l + e]
    BY <1>4, <2>3
  <2>5. (i + 1) + e = j + 1
    BY <1>4
  <2> HIDE DEF d
  <2>6. ASSUME NEW l \in 0 .. (n - e) - 1 PROVE CanHop(d[l]) /\ d[l + 1] = ForwardedTo(d[l])
    <3>1. CASE l < i
      <4>1. l \in 0 .. i /\ l + 1 \in 0 .. i /\ l \in 0 .. n - 1
        BY <1>4, <3>1
      <4>2. QED BY <1>3, <2>4, <4>1 DEF Hops
    <3>2. CASE l = i
      <4>1. l \in 0 .. i /\ l + 1 \in i + 1 .. n - e /\ (l + 1) + e = j + 1
        BY <1>4, <2>3, <2>5, <3>2
      <4>2. d[l] = c[l] /\ d[l + 1] = c[l + 1]
        BY <2>2, <2>4, <3>2, <4>1
      <4>3. QED BY <1>3, <3>2, <4>2 DEF Hops
    <3>3. CASE l > i
      <4>1. /\ l \in i + 1 .. n - e /\ l + 1 \in i + 1 .. n - e
            /\ l + e \in 0 .. n - 1 /\ (l + e) + 1 = (l + 1) + e
        BY <1>4, <2>3, <3>3
      <4>2. d[l] = c[l + e] /\ d[l + 1] = c[(l + e) + 1]
        BY <2>4, <4>1
      <4>3. QED BY <1>3, <4>1, <4>2 DEF Hops
    <3>4. QED BY <3>1, <3>2, <3>3
  <2>7. d[0] = t /\ d[n - e] = u
    <3>1. 0 \in 0 .. i /\ n - e \in i + 1 .. n - e /\ (n - e) + e = n
      BY <1>4, <2>3
    <3>2. QED BY <1>3, <2>4, <3>1 DEF Hops
  <2>8. Hops(n - e, d, t, u)
    BY <2>6, <2>7 DEF Hops
  <2>9. n - e \in S
    BY <2>3, <2>8
  <2> HIDE DEF S, e
  <2>10. n <= n - e
    BY <1>2, <2>9
  <2>11. QED BY <1>4, <2>3, <2>10
<1> HIDE DEF name
<1>7. \A i, j \in 0 .. n - 1 : name[i] = name[j] => i = j
  BY <1>4, <1>6
<1>8. IsFiniteSet(F) /\ Cardinality(F) \in Nat
  BY LoaderAssumption, FS_CardinalityType
<1>9. IsFiniteSet(0 .. n - 1) /\ Cardinality(0 .. n - 1) = n
  <2> DEFINE top == n - 1
  <2>1. top \in Int
    BY <1>4
  <2>2. /\ IsFiniteSet(0 .. top)
        /\ Cardinality(0 .. top) = IF 0 > top THEN 0 ELSE top - 0 + 1
    <3> HIDE DEF top
    <3> QED BY <2>1, FS_Interval
  <2>3. QED BY <1>4, <2>2
<1> HIDE DEF F
<1>10. ~(Cardinality(F) < n)
  <2>1. SUFFICES ASSUME Cardinality(F) < n PROVE FALSE
    OBVIOUS
  <2>2. \E i, j \in 0 .. n - 1 : i # j /\ name[i] = name[j]
    BY <1>5, <1>8, <1>9, <2>1, FS_PigeonHole
  <2>3. QED BY <1>7, <2>2
<1>11. n \in 0 .. Cardinality(F)
  BY <1>4, <1>8, <1>10
<1>12. QED BY <1>3, <1>11 DEF F


LEMMA StubbedMay ==
  ASSUME StubsOK, NEW t, Stubbed(t)
  PROVE  MayStub(t)
<1>1. PICK i \in DOMAIN stubs : stubs[i] = t[2]
  BY DEF Stubbed, Registered
<1>2. t[2] \in StubNames
  BY <1>1 DEF StubsOK
<1>3. QED BY <1>2 DEF Stubbed, MayStub

LEMMA HopsForward ==
  ASSUME StubsOK, NEW t, CanHop(t)
  PROVE  Hop(t) = ForwardedTo(t)
<1>1. ~Stubbed(t)
  BY StubbedMay DEF CanHop
<1>2. Forwards(t)
  BY <1>1 DEF CanHop, Forwards, Exported
<1>3. QED BY <1>2 DEF Hop

LEMMA SettledEnds ==
  ASSUME StubsOK, NEW t, Settled(t)
  PROVE  ~Forwards(t)
  BY DEF Settled, Forwards, Exported

\* Final follows a way of forwarders to its end.
LEMMA FinalIs ==
  ASSUME program \in Programs, Listed \subseteq Known, StubsOK,
         NEW t, NEW u, Leads(t, u), ~Forwards(u)
  PROVE  Final(t) = u
<1> DEFINE hops == Cardinality(Forwarders(program))
           Is(z) == z = [n \in 0 .. Cardinality(Forwarders(program)) |->
                           IF n = 0 THEN t ELSE Hop(z[n - 1])]
           a == CHOOSE z : Is(z)
<1>1. hops \in Nat
  BY LoaderAssumption, FS_CardinalityType
<1>2. PICK n \in 0 .. hops : \E c : Hops(n, c, t, u)
  BY ShortWay
<1>3. PICK c : Hops(n, c, t, u)
  BY <1>2
<1>4. Final(t) = a[hops]
  BY Zenon DEF Final
<1> DEFINE f == [i \in 0 .. hops |-> IF i <= n THEN c[i] ELSE u]
<1> HIDE DEF hops
<1>5. ASSUME NEW i \in 0 .. hops, i # 0 PROVE f[i] = Hop(f[i - 1])
  <2>1. i - 1 \in 0 .. hops /\ (i - 1) + 1 = i
    BY <1>1, <1>5
  <2>2. CASE i <= n
    <3>1. i - 1 \in 0 .. n - 1 /\ i - 1 <= n
      BY <1>1, <1>5, <2>2
    <3>2. CanHop(c[i - 1]) /\ c[i] = ForwardedTo(c[i - 1])
      BY <1>3, <2>1, <3>1 DEF Hops
    <3>3. f[i] = c[i] /\ f[i - 1] = c[i - 1]
      BY <2>1, <2>2, <3>1
    <3>4. QED BY <3>2, <3>3, HopsForward
  <2>3. CASE ~(i <= n)
    <3>1. f[i] = u
      BY <2>3
    <3>2. f[i - 1] = u
      <4>1. CASE i - 1 = n
        BY <1>3, <2>1, <4>1 DEF Hops
      <4>2. CASE i - 1 # n
        <5>1. ~(i - 1 <= n)
          BY <1>1, <1>5, <2>3, <4>2
        <5>2. QED BY <2>1, <5>1
      <4>3. QED BY <4>1, <4>2
    <3>3. Hop(u) = u
      BY DEF Hop
    <3>4. QED BY <3>1, <3>2, <3>3
  <2>4. QED BY <2>2, <2>3
<1>6. f[0] = t /\ f[hops] = u
  <2>1. 0 \in 0 .. hops /\ hops \in 0 .. hops /\ 0 <= n
    BY <1>1
  <2>2. f[0] = t
    BY <1>3, <2>1 DEF Hops
  <2>3. CASE n = hops
    BY <1>3, <2>1, <2>2, <2>3 DEF Hops
  <2>4. CASE n # hops
    <3>1. ~(hops <= n)
      BY <1>1, <2>4
    <3>2. QED BY <2>1, <2>2, <3>1
  <2>5. QED BY <2>3, <2>4
<1>7. f = [i \in 0 .. hops |-> f[i]]
  OBVIOUS
<1> HIDE DEF f
<1>8. Is(f)
  <2>1. \A i \in 0 .. hops : f[i] = IF i = 0 THEN t ELSE Hop(f[i - 1])
    BY <1>5, <1>6
  <2>2. QED BY <1>7, <2>1 DEF hops
<1>9. Is(a)
  <2> HIDE DEF Is
  <2> QED BY <1>8
<1>10. a = [i \in 0 .. hops |-> IF i = 0 THEN t ELSE Hop(a[i - 1])]
  <2> HIDE DEF a
  <2> QED BY <1>9 DEF hops
<1> HIDE DEF a, Is
<1>11. \A i \in 0 .. hops : a[i] = IF i = 0 THEN t ELSE Hop(a[i - 1])
  BY <1>10
<1> DEFINE S == { i \in 0 .. hops : a[i] # f[i] }
<1>12. S = {}
  <2>1. SUFFICES ASSUME S # {} PROVE FALSE
    OBVIOUS
  <2>2. PICK i \in S : \A j \in S : i <= j
    <3>1. S \in SUBSET Nat
      OBVIOUS
    <3> HIDE DEF S
    <3>2. QED BY <2>1, <3>1, Smallest
  <2>3. i \in 0 .. hops /\ a[i] # f[i]
    OBVIOUS
  <2>4. i # 0
    BY <1>6, <1>11, <2>3
  <2>5. i - 1 \in 0 .. hops /\ ~(i <= i - 1)
    BY <1>1, <2>3, <2>4
  <2>6. a[i - 1] = f[i - 1]
    BY <2>2, <2>5
  <2>7. QED BY <1>5, <1>11, <2>3, <2>4, <2>6
<1>13. hops \in 0 .. hops
  BY <1>1
<1>14. QED BY <1>4, <1>6, <1>12, <1>13

---------------------------------------------------------------------------
(* While images are loaded and stubs registered: what has been settled stays
   so, and is bound to the same value.                                      *)

Later ==
  /\ program' = program /\ Listed \subseteq Listed'
  /\ \A m \in Listed' \ Listed : CanLoad(m)
  /\ \A m : CanLoad(m)' => CanLoad(m)
  /\ \/ stubs' = stubs
     \/ \E x \in StubNames : /\ ~Registered(x) /\ Len(stubs) < StubRoom
                             /\ stubs' = Append(stubs, x)

LEMMA StubsLater ==
  ASSUME StubsOK, Later
  PROVE  /\ StubsOK' /\ Len(stubs') >= Len(stubs)
         /\ \A x : Registered(x) => Registered(x)' /\ StubOf(stubs', x) = StubOf(stubs, x)
         /\ Len(stubs) >= StubRoom => stubs' = stubs
<1>0. stubs \in Seq(StubNames) /\ Len(stubs) \in Nat /\ DOMAIN stubs = 1 .. Len(stubs)
      /\ IsInjective(stubs) /\ StubRoom \in Nat
  BY LoaderAssumption DEF StubsOK
<1>1. CASE stubs' = stubs
  BY <1>0, <1>1 DEF StubsOK, Registered
<1>2. CASE stubs' # stubs
  <2>1. PICK x \in StubNames : ~Registered(x) /\ Len(stubs) < StubRoom
                               /\ stubs' = Append(stubs, x)
    BY <1>2 DEF Later
  <2>2. /\ stubs' \in Seq(StubNames) /\ Len(stubs') = Len(stubs) + 1
        /\ DOMAIN stubs' = 1 .. Len(stubs) + 1
        /\ \A i \in 1 .. Len(stubs) : stubs'[i] = stubs[i]
        /\ stubs'[Len(stubs) + 1] = x
    BY <1>0, <2>1
  <2>3. \A i \in 1 .. Len(stubs) : stubs[i] # x
    BY <1>0, <2>1 DEF Registered
  <2>4. \A i \in 1 .. Len(stubs) + 1 : i \in 1 .. Len(stubs) \/ i = Len(stubs) + 1
    BY <1>0
  <2>5. IsInjective(stubs')
    <3>1. SUFFICES ASSUME NEW i \in DOMAIN stubs', NEW j \in DOMAIN stubs',
                          stubs'[i] = stubs'[j]
                   PROVE  i = j
      BY DEF IsInjective
    <3>2. CASE i \in 1 .. Len(stubs) /\ j \in 1 .. Len(stubs)
      BY <1>0, <2>2, <3>1, <3>2 DEF IsInjective
    <3>3. CASE ~(i \in 1 .. Len(stubs) /\ j \in 1 .. Len(stubs))
      BY <2>2, <2>3, <2>4, <3>1, <3>3
    <3>4. QED BY <3>2, <3>3
  <2>6. ASSUME NEW y, Registered(y)
        PROVE  Registered(y)' /\ StubOf(stubs', y) = StubOf(stubs, y)
    <3>1. PICK i \in 1 .. Len(stubs) : stubs[i] = y
      BY <1>0, <2>6 DEF Registered
    <3>2. i \in DOMAIN stubs' /\ stubs'[i] = y
      BY <1>0, <2>2, <3>1
    <3>3. StubOf(stubs', y) = i
      BY <2>5, <3>2 DEF StubOf, IsInjective
    <3>4. StubOf(stubs, y) = i
      BY <1>0, <3>1 DEF StubOf, IsInjective
    <3>5. QED BY <3>2, <3>3, <3>4 DEF Registered
  <2>7. Len(stubs') >= Len(stubs) /\ ~(Len(stubs) >= StubRoom)
    BY <1>0, <2>1, <2>2
  <2>8. QED BY <2>2, <2>5, <2>6, <2>7 DEF StubsOK
<1>3. QED BY <1>1, <1>2

LEMMA NoStubLater ==
  ASSUME StubsOK, Later, NEW t, ~MayStub(t)
  PROVE  ~MayStub(t)'
<1>1. SUFFICES ASSUME t[1] = Ntdll, t[2] \in StubNames PROVE ~MayStub(t)'
  BY DEF MayStub
<1>2. Len(stubs) \in Nat /\ StubRoom \in Nat
  BY LoaderAssumption DEF StubsOK
<1>3. ~Registered(t[2]) /\ Len(stubs) >= StubRoom
  BY <1>1, <1>2 DEF MayStub
<1>4. stubs' = stubs
  BY <1>3, StubsLater
<1>5. ~(Len(stubs') < StubRoom)
  BY <1>2, <1>3, <1>4
<1>6. ~Registered(t[2])'
  BY <1>3, <1>4 DEF Registered
<1>7. QED BY <1>5, <1>6 DEF MayStub

LEMMA HopLater ==
  ASSUME StubsOK, Later, NEW t, CanHop(t)
  PROVE  CanHop(t)' /\ ForwardedTo(t)' = ForwardedTo(t)
<1>1. ~MayStub(t)'
  BY NoStubLater DEF CanHop
<1>2. QED BY <1>1 DEF CanHop, ForwardedTo, Later

LEMMA LeadsLater ==
  ASSUME StubsOK, Later, NEW t, NEW u, Leads(t, u)
  PROVE  Leads(t, u)'
<1>1. PICK n \in Nat : \E c : Hops(n, c, t, u)
  BY DEF Leads
<1>2. PICK c : Hops(n, c, t, u)
  BY <1>1
<1>3. \A i \in 0 .. n - 1 : CanHop(c[i])' /\ c[i + 1] = ForwardedTo(c[i])'
  BY <1>2, HopLater DEF Hops
<1>4. Hops(n, c, t, u)'
  BY <1>2, <1>3 DEF Hops
<1>5. QED BY <1>4 DEF Leads

LEMMA SettledLater ==
  ASSUME StubsOK, Later, NEW t, Settled(t)
  PROVE  Settled(t)' /\ \A value : BoundTo(t, value) => BoundTo(t, value)'
<1>1. /\ StubsOK' /\ program' = program /\ Listed \subseteq Listed'
      /\ Exported(t) => Exported(t)'
  BY StubsLater DEF Later, Exported
<1>2. CASE Stubbed(t)
  <2>1. Registered(t[2])' /\ StubOf(stubs', t[2]) = StubOf(stubs, t[2])
    BY <1>2, StubsLater DEF Stubbed
  <2>2. Stubbed(t)'
    BY <1>1, <1>2, <2>1 DEF Stubbed
  <2>3. QED BY <1>2, <2>1, <2>2 DEF Settled, BoundTo
<1>3. CASE /\ t[1] \in Listed /\ ~MayStub(t)
           /\ t[2] \in DOMAIN program.exports[t[1]] => ForwardedTo(t) = "code"
  <2>1. ~MayStub(t)'
    BY <1>3, NoStubLater
  <2>2. ~Stubbed(t) /\ ~Stubbed(t)'
    <3>1. ~Stubbed(t)
      BY <1>3, StubbedMay
    <3>2. ~Stubbed(t)'
      <4>1. SUFFICES ASSUME Stubbed(t)' PROVE FALSE
        OBVIOUS
      <4>2. PICK i \in DOMAIN stubs' : stubs'[i] = t[2]
        BY <4>1 DEF Stubbed, Registered
      <4>3. t[2] \in StubNames
        BY <1>1, <4>2 DEF StubsOK
      <4>4. QED BY <2>1, <4>1, <4>3 DEF Stubbed, MayStub
    <3>3. QED BY <3>1, <3>2
  <2>3. Exported(t)' <=> Exported(t)
    BY <1>1, <1>3 DEF Exported
  <2>4. Settled(t)'
    BY <1>1, <1>3, <2>1 DEF Settled, ForwardedTo
  <2>5. QED BY <2>2, <2>3, <2>4 DEF BoundTo
<1>4. CASE t[1] \notin Listed /\ ~CanLoad(t[1])
  <2>1. t[1] \notin Listed' /\ ~CanLoad(t[1])'
    BY <1>4 DEF Later
  <2>2. ~Stubbed(t) /\ ~Exported(t) /\ ~Stubbed(t)' /\ ~Exported(t)'
    BY <1>4, <2>1 DEF Stubbed, Exported
  <2>3. QED BY <2>1, <2>2 DEF Settled, BoundTo
<1>5. QED BY <1>2, <1>3, <1>4 DEF Settled

---------------------------------------------------------------------------
(* The inductive invariant. While the loader runs, every module that has been
   taken has its imports resolved, but for the one that is busy, and of that
   the imports before the one at hand; nothing else has been written. The
   places of the list that the last pass has left behind without resolving
   anything have nothing to resolve.                                        *)

ImportOK(m, i) ==
  \E u : Leads(Imports(m)[i], u) /\ Settled(u) /\ BoundTo(u, iat[m][i])

Taken(m) == m = Exe \/ m \in resolved

Underway ==
  /\ busy \in Listed /\ Taken(busy) /\ again
  /\ import \in DOMAIN Imports(busy) /\ Leads(Imports(busy)[import], target)
  /\ \A i \in DOMAIN Imports(busy) : i < import => ImportOK(busy, i)
  /\ \A i \in DOMAIN Imports(busy) : i >= import => iat[busy][i] = Absent

Unwritten(m) == \A i \in DOMAIN Imports(m) : iat[m][i] = Absent
Finished(m) == \A i \in DOMAIN Imports(m) : ImportOK(m, i)

LoadInv ==
  /\ ldr = <<Exe>> /\ modules # <<>> /\ modules[Len(modules)] = Exe
  /\ cursor \in 0 .. Len(modules) /\ resolved \subseteq Listed \ {Exe}
  /\ busy # Absent => Underway
  /\ \A m \in Listed : Taken(m) /\ m # busy => Finished(m)
  /\ \A m \in Images : ~Taken(m) => Unwritten(m)
  /\ ~again => \A p \in 1 .. Len(modules) :
                 p > cursor => ~NeedsResolving(modules[Len(modules) + 1 - p])

\* What stays of it when loading is over.
Bound(m, i) ==
  \E u : Leads(Imports(m)[i], u) /\ ~Forwards(u) /\ BoundTo(u, iat[m][i])

LoadedInv ==
  /\ \A m \in Listed : \A i \in DOMAIN Imports(m) : Bound(m, i)
  /\ IsInjective(ldr) /\ ldr[1] = Exe
  /\ ToSet(ldr) \subseteq Listed
  /\ Len(modules) <= LdrRoom => ToSet(ldr) = Listed

IatOK(f) == f = [m \in Images |-> [i \in DOMAIN Imports(m) |-> f[m][i]]]

BindInv ==
  /\ StubsOK /\ Listed \subseteq Known
  /\ IatOK(iat)
  /\ phase = "before" => /\ resolved = {} /\ busy = Absent /\ cursor = 0
                         /\ \A m \in Images : Unwritten(m)
  /\ phase = "load" => LoadInv
  /\ Loaded => LoadedInv

LEMMA ImportLater ==
  ASSUME StubsOK, Later, NEW m, NEW i, iat'[m][i] = iat[m][i], ImportOK(m, i)
  PROVE  ImportOK(m, i)'
<1>1. PICK u : Leads(Imports(m)[i], u) /\ Settled(u) /\ BoundTo(u, iat[m][i])
  BY DEF ImportOK
<1>2. Settled(u)' /\ BoundTo(u, iat[m][i])'
  BY <1>1, SettledLater
<1>3. Imports(m)' = Imports(m)
  BY DEF Imports, Later
<1>4. Leads(Imports(m)[i], u)'
  <2> DEFINE t == Imports(m)[i]
  <2>1. Leads(t, u)
    BY <1>1
  <2>2. t' = t
    BY <1>3
  <2> HIDE DEF t
  <2>3. Leads(t, u)'
    BY <2>1, <2>2, LeadsLater
  <2>4. QED BY <2>3 DEF t
<1>5. BoundTo(u, iat[m][i])'
  BY <1>2
<1>6. QED BY <1>2, <1>4, <1>5 DEF ImportOK

LEMMA ProgramFacts ==
  ASSUME program \in Programs, NEW m \in Known
  PROVE  /\ m \in Images /\ Len(Imports(m)) \in Nat /\ DOMAIN Imports(m) = 1 .. Len(Imports(m))
         /\ program.size[m] \in Nat
  BY LoaderAssumption DEF Known, Imports

LEMMA BeginIs ==
  ASSUME program \in Programs, NEW m \in Known, NEW n \in Nat \ {0}, Begin(m, n)
  PROVE  \/ busy' = Absent /\ \A i \in DOMAIN Imports(m) : i < n
         \/ busy' = m /\ import' = n /\ n \in DOMAIN Imports(m) /\ target' = Imports(m)[n]
<1>1. Len(Imports(m)) \in Nat /\ DOMAIN Imports(m) = 1 .. Len(Imports(m))
  BY ProgramFacts
<1>2. CASE n > Len(Imports(m))
  BY <1>1, <1>2 DEF Begin
<1>3. CASE ~(n > Len(Imports(m)))
  BY <1>1, <1>3 DEF Begin
<1>4. QED BY <1>2, <1>3

\* A step that leaves the module list and the memory as they are.
LEMMA SameLater ==
  ASSUME UNCHANGED <<program, modules, allocPtr>>,
         \/ stubs' = stubs
         \/ \E x \in StubNames : /\ ~Registered(x) /\ Len(stubs) < StubRoom
                                 /\ stubs' = Append(stubs, x)
  PROVE  Later
<1>1. Listed' = Listed /\ \A m : CanLoad(m)' => CanLoad(m)
  BY DEF Listed, CanLoad, Known, Room
<1>2. QED BY <1>1 DEF Later

OnlyAt(b, n) ==
  \A m \in Images : \A i \in DOMAIN Imports(m) :
    ~(m = b /\ i = n) => iat'[m][i] = iat[m][i]

\* The import n of module b has come to its end x.
Ended(b, n, x) ==
  /\ b = busy /\ n = import /\ Leads(Imports(b)[n], x)
  /\ Settled(x)' /\ BoundTo(x, iat[b][n])'
  /\ OnlyAt(b, n)

LEMMA ImportDone ==
  ASSUME IInv, BindInv, Resolving, Later, NEW b, NEW n, NEW x, Ended(b, n, x), Begin(b, n + 1),
         IatOK(iat'),
         UNCHANGED <<program, phase, modules, resolved, cursor, again, ldr>>
  PROVE  BindInv'
<1>1. program \in Programs /\ Known' = Known /\ Listed' = Listed
      /\ \A m : Imports(m)' = Imports(m)
  BY DEF IInv, Core, Known, Listed, Imports
<1>2. LoadInv /\ Underway /\ phase = "load" /\ b # Absent
  BY DEF BindInv, LoadInv, Resolving, Ended
<1>3. b \in Listed /\ Taken(b) /\ again /\ n \in DOMAIN Imports(b) /\ b \in Known
      /\ (\A i \in DOMAIN Imports(b) : i < n => ImportOK(b, i))
      /\ (\A i \in DOMAIN Imports(b) : i >= n => iat[b][i] = Absent)
  BY <1>2 DEF Underway, Ended, BindInv
<1>4. /\ b \in Images /\ DOMAIN Imports(b) = 1 .. Len(Imports(b)) /\ Len(Imports(b)) \in Nat
      /\ n \in Nat \ {0} /\ n + 1 \in Nat \ {0}
  BY <1>1, <1>3, ProgramFacts
<1>5. \A m : Taken(m)' <=> Taken(m)
  BY DEF Taken
<1>6. ASSUME NEW m \in Images, NEW i \in DOMAIN Imports(m), ~(m = b /\ i = n), ImportOK(m, i)
      PROVE  ImportOK(m, i)'
  <2>1. iat'[m][i] = iat[m][i]
    BY <1>6 DEF Ended, OnlyAt
  <2>2. QED BY <1>6, <2>1, ImportLater DEF BindInv
<1>7. ImportOK(b, n)'
  <2> DEFINE t == Imports(b)[n]
  <2>1. Leads(t, x) /\ t' = t /\ StubsOK
    BY <1>1 DEF Ended, BindInv
  <2> HIDE DEF t
  <2>2. Leads(t, x)'
    BY <2>1, LeadsLater
  <2>3. Leads(Imports(b)[n], x)'
    BY <2>2 DEF t
  <2>4. Settled(x)' /\ BoundTo(x, iat[b][n])'
    BY DEF Ended
  <2>5. QED BY <2>3, <2>4 DEF ImportOK
<1>8. \A i \in DOMAIN Imports(b) : i < n + 1 => ImportOK(b, i)'
  <2>1. SUFFICES ASSUME NEW i \in DOMAIN Imports(b), i < n + 1 PROVE ImportOK(b, i)'
    OBVIOUS
  <2>2. i = n \/ i < n
    BY <1>4, <2>1
  <2>3. QED BY <1>3, <1>4, <1>6, <1>7, <2>2
<1>9. \A i \in DOMAIN Imports(b) : i >= n + 1 => iat'[b][i] = Absent
  <2>1. SUFFICES ASSUME NEW i \in DOMAIN Imports(b), i >= n + 1 PROVE iat'[b][i] = Absent
    OBVIOUS
  <2>2. i >= n /\ i # n
    BY <1>4, <2>1
  <2>3. iat[b][i] = Absent
    BY <1>3, <2>2
  <2>4. QED BY <1>4, <2>2, <2>3 DEF Ended, OnlyAt
<1>10. \/ busy' = Absent /\ \A i \in DOMAIN Imports(b) : i < n + 1
       \/ busy' = b /\ import' = n + 1 /\ n + 1 \in DOMAIN Imports(b) /\ target' = Imports(b)[n + 1]
  BY <1>1, <1>3, <1>4, BeginIs
<1>11. busy' # Absent => Underway'
  <2>1. SUFFICES ASSUME busy' # Absent PROVE Underway'
    OBVIOUS
  <2>2. busy' = b /\ import' = n + 1 /\ n + 1 \in DOMAIN Imports(b) /\ target' = Imports(b)[n + 1]
    BY <1>10, <2>1
  <2> DEFINE t == Imports(b)[n + 1]
  <2>3. Leads(t, t) /\ t' = t /\ StubsOK
    BY <1>1, LeadsHere DEF BindInv
  <2> HIDE DEF t
  <2>4. Leads(t, t)'
    BY <2>3, LeadsLater
  <2>5. Leads(Imports(busy)[import], target)'
    BY <1>1, <2>2, <2>3, <2>4 DEF t
  <2>6. (busy \in Listed /\ Taken(busy) /\ again /\ import \in DOMAIN Imports(busy))'
    BY <1>1, <1>3, <1>5, <2>2
  <2>7. (\A i \in DOMAIN Imports(busy) : i < import => ImportOK(busy, i))'
    BY <1>1, <1>8, <2>2
  <2>8. (\A i \in DOMAIN Imports(busy) : i >= import => iat[busy][i] = Absent)'
    BY <1>1, <1>9, <2>2
  <2>9. QED BY <2>5, <2>6, <2>7, <2>8 DEF Underway
<1>12. ASSUME NEW m \in Listed', Taken(m)', m # busy' PROVE Finished(m)'
  <2>1. SUFFICES ASSUME NEW i \in DOMAIN Imports(m) PROVE ImportOK(m, i)'
    BY <1>1 DEF Finished
  <2>2. m \in Images /\ m \in Listed
    BY <1>1, ProgramFacts DEF BindInv
  <2>3. CASE m = b
    BY <1>8, <1>10, <1>12, <2>3
  <2>4. CASE m # b
    <3>1. ImportOK(m, i)
      BY <1>2, <1>5, <1>12, <2>2, <2>4 DEF LoadInv, Finished, Ended
    <3>2. QED BY <1>6, <2>2, <2>4, <3>1
  <2>5. QED BY <2>3, <2>4
<1>13. ASSUME NEW m \in Images, ~Taken(m)' PROVE Unwritten(m)'
  <2>1. Unwritten(m) /\ m # b
    BY <1>2, <1>3, <1>5, <1>13 DEF LoadInv
  <2>2. QED BY <1>1, <2>1 DEF Unwritten, Ended, OnlyAt
<1>14. LoadInv'
  <2>1. /\ ldr' = <<Exe>> /\ modules' # <<>> /\ modules'[Len(modules')] = Exe
        /\ cursor' \in 0 .. Len(modules') /\ resolved' \subseteq Listed' \ {Exe} /\ again'
    BY <1>1, <1>2, <1>3 DEF LoadInv
  <2>2. QED BY <1>11, <1>12, <1>13, <2>1 DEF LoadInv
<1>15. StubsOK' /\ Listed' \subseteq Known'
  BY <1>1, StubsLater DEF BindInv
<1>16. IatOK(iat)'
  BY <1>1 DEF IatOK
<1>17. phase' = "load"
  BY <1>2
<1>18. QED BY <1>14, <1>15, <1>16, <1>17 DEF BindInv, Loaded

Writes(b, n, w) == iat' = [iat EXCEPT ![b][n] = w]

LEMMA Written ==
  ASSUME NEW b \in Images, NEW n \in DOMAIN Imports(b), NEW w,
         IatOK(iat),
         Writes(b, n, w)
  PROVE  /\ IatOK(iat')
         /\ iat'[b][n] = w
         /\ OnlyAt(b, n)
  BY DEF Writes, IatOK, OnlyAt

LEMMA AtHand ==
  ASSUME IInv, BindInv, Resolving
  PROVE  /\ Underway /\ busy \in Known /\ busy \in Images /\ import \in DOMAIN Imports(busy)
         /\ Leads(Imports(busy)[import], target)
         /\ IatOK(iat)
         /\ iat[busy][import] = Absent
<1>1. Underway /\ busy \in Known
  BY DEF BindInv, LoadInv, Underway, Resolving
<1>2. busy \in Images /\ DOMAIN Imports(busy) = 1 .. Len(Imports(busy))
      /\ Len(Imports(busy)) \in Nat
  BY <1>1, ProgramFacts DEF IInv, Core
<1>3. import >= import
  BY <1>1, <1>2 DEF Underway
<1>4. QED BY <1>1, <1>2, <1>3 DEF Underway, BindInv

LEMMA BindStubBinds ==
  ASSUME IInv, BindInv, ResolveFunction, target[1] \in Listed, BindStub
  PROVE  BindInv'
<1>1. PICK b, n, x : b = busy /\ n = import /\ x = target
  OBVIOUS
<1> DEFINE w == <<"stub", StubOf(stubs', x[2])>>
<1>2. /\ Resolving /\ UNCHANGED <<allocPtr, program, phase, modules, resolved, cursor, again, ldr>>
      /\ Writes(b, n, w) /\ Begin(b, n + 1)
  BY <1>1 DEF ResolveFunction, BindStub, Bind, Writes, spaceVars, passing, starting
<1>3. UsesStub /\ stubs' = IF Registered(x[2]) THEN stubs ELSE Append(stubs, x[2])
  BY <1>1 DEF BindStub
<1>4. Later
  BY <1>1, <1>2, <1>3, SameLater DEF UsesStub
<1>5. x[1] \in Listed' /\ x[1] = Ntdll
  BY <1>1, <1>2, <1>3 DEF UsesStub, Listed
<1>6. \E i \in DOMAIN stubs' : stubs'[i] = x[2]
  <2>1. CASE Registered(x[2])
    BY <1>3, <2>1 DEF Registered
  <2>2. CASE ~Registered(x[2])
    <3>1. stubs \in Seq(StubNames) /\ stubs' = Append(stubs, x[2]) /\ x[2] \in StubNames
      BY <1>1, <1>3, <2>2 DEF BindInv, StubsOK, UsesStub
    <3>2. Len(stubs') \in DOMAIN stubs' /\ stubs'[Len(stubs')] = x[2]
      BY <3>1
    <3>3. QED BY <3>2
  <2>3. QED BY <2>1, <2>2
<1>7. Stubbed(x)'
  BY <1>5, <1>6 DEF Stubbed, Registered
<1> HIDE DEF w
<1>8. b \in Images /\ n \in DOMAIN Imports(b) /\ Leads(Imports(b)[n], x)
      /\ IatOK(iat)
  BY <1>1, <1>2, AtHand
<1>9. /\ IatOK(iat')
      /\ iat'[b][n] = w
      /\ OnlyAt(b, n)
  BY <1>2, <1>8, Written
<1>10. BoundTo(x, iat[b][n])'
  BY <1>7, <1>9 DEF BoundTo, w
<1>11. Ended(b, n, x)
  BY <1>1, <1>7, <1>8, <1>9, <1>10 DEF Ended, Settled
<1>12. QED BY <1>2, <1>4, <1>9, <1>11, ImportDone

LEMMA BindCodeBinds ==
  ASSUME IInv, BindInv, ResolveFunction, target[1] \in Listed, BindCode
  PROVE  BindInv'
<1>1. PICK b, n, x : b = busy /\ n = import /\ x = target
  OBVIOUS
<1>2. /\ Resolving /\ UNCHANGED <<allocPtr, program, phase, modules, resolved, cursor, again, ldr>>
      /\ Writes(b, n, x) /\ Begin(b, n + 1) /\ stubs' = stubs
  BY <1>1 DEF ResolveFunction, BindCode, Bind, Writes, spaceVars, passing, starting
<1>3. Later
  BY <1>2, SameLater
<1>4. Settled(x) /\ Exported(x) /\ ~MayStub(x)
  BY <1>1 DEF BindCode, UsesStub, MayStub, Exports, Settled, ForwardedTo, Exported
<1>5. BoundTo(x, x) /\ StubsOK
  BY <1>4, StubbedMay DEF BoundTo, BindInv
<1>6. Settled(x)' /\ BoundTo(x, x)'
  BY <1>3, <1>4, <1>5, SettledLater
<1>7. b \in Images /\ n \in DOMAIN Imports(b) /\ Leads(Imports(b)[n], x)
      /\ IatOK(iat)
  BY <1>1, <1>2, AtHand
<1>8. /\ IatOK(iat')
      /\ iat'[b][n] = x
      /\ OnlyAt(b, n)
  BY <1>2, <1>7, Written
<1>9. BoundTo(x, iat[b][n])'
  BY <1>6, <1>8
<1>10. Ended(b, n, x)
  BY <1>1, <1>6, <1>7, <1>8, <1>9 DEF Ended
<1>11. QED BY <1>2, <1>3, <1>8, <1>10, ImportDone

\* NotExported and NotLoaded: the import leads nowhere.
LEMMA SkipBinds ==
  ASSUME IInv, BindInv, ResolveFunction,
         \/ target[1] \in Listed /\ NotExported
         \/ target[1] \notin Listed /\ NotLoaded
  PROVE  BindInv'
<1>1. PICK b, n, x : b = busy /\ n = import /\ x = target
  OBVIOUS
<1>2. /\ Resolving /\ UNCHANGED <<allocPtr, program, phase, modules, resolved, cursor, again, ldr>>
      /\ iat' = iat /\ Begin(b, n + 1) /\ stubs' = stubs
  BY <1>1 DEF ResolveFunction, NotExported, NotLoaded, SkipImport, spaceVars, passing, starting
<1>3. Later
  BY <1>2, SameLater
<1>4. Settled(x) /\ ~Exported(x) /\ ~Stubbed(x)
  <2>1. CASE x[1] \in Listed
    <3>1. ~MayStub(x) /\ x[2] \notin DOMAIN program.exports[x[1]]
      BY <1>1, <2>1 DEF NotExported, UsesStub, MayStub, Exports
    <3>2. QED BY <2>1, <3>1, StubbedMay DEF Settled, Exported, BindInv
  <2>2. CASE x[1] \notin Listed
    BY <1>1, <2>2 DEF NotLoaded, Settled, Exported, Stubbed
  <2>3. QED BY <2>1, <2>2
<1>5. BoundTo(x, Absent) /\ StubsOK
  BY <1>4 DEF BoundTo, BindInv
<1>6. Settled(x)' /\ BoundTo(x, Absent)'
  BY <1>3, <1>4, <1>5, SettledLater
<1>7. b \in Images /\ n \in DOMAIN Imports(b) /\ Leads(Imports(b)[n], x)
      /\ IatOK(iat)
      /\ iat'[b][n] = Absent
  BY <1>1, <1>2, AtHand
<1>8. BoundTo(x, iat[b][n])'
  BY <1>6, <1>7
<1>9. Ended(b, n, x)
  BY <1>1, <1>2, <1>6, <1>7, <1>8 DEF Ended, OnlyAt
<1>10. IatOK(iat')
  BY <1>2, <1>7
<1>11. QED BY <1>2, <1>3, <1>9, <1>10, ImportDone

\* What a step keeps that binds no import.
LEMMA NothingWritten ==
  ASSUME BindInv, Later, iat' = iat
  PROVE  /\ StubsOK' /\ IatOK(iat)' /\ Known' = Known
         /\ \A m : Imports(m)' = Imports(m) /\ (Unwritten(m)' <=> Unwritten(m))
         /\ \A m : Finished(m) => Finished(m)'
         /\ \A m, i : ImportOK(m, i) => ImportOK(m, i)'
<1>1. StubsOK' /\ program' = program /\ StubsOK
  BY StubsLater DEF BindInv, Later
<1>2. Known' = Known /\ \A m : Imports(m)' = Imports(m)
  BY <1>1 DEF Known, Imports
<1>3. \A m, i : ImportOK(m, i) => ImportOK(m, i)'
  BY <1>1, ImportLater
<1>4. \A m : Finished(m) => Finished(m)'
  BY <1>2, <1>3 DEF Finished
<1>5. IatOK(iat)' /\ \A m : Unwritten(m)' <=> Unwritten(m)
  BY <1>2 DEF IatOK, BindInv, Unwritten
<1>6. QED BY <1>1, <1>2, <1>3, <1>4, <1>5

LEMMA FollowForwarderBinds ==
  ASSUME IInv, BindInv, ResolveFunction, target[1] \in Listed, FollowForwarder
  PROVE  BindInv'
<1>1. /\ Resolving /\ target' = ForwardedTo(target)
      /\ UNCHANGED <<allocPtr, program, phase, modules, resolved, cursor, again, ldr,
                     iat, stubs, busy, import>>
  BY DEF ResolveFunction, FollowForwarder, Exports, ForwardedTo, spaceVars, passing, starting
<1>2. Later
  BY <1>1, SameLater
<1>3. Underway /\ LoadInv /\ phase = "load"
  BY <1>1 DEF BindInv, LoadInv, Resolving
<1>4. CanHop(target)
  BY DEF FollowForwarder, CanHop, UsesStub, MayStub, Exports, ForwardedTo
<1>5. PICK t, v : t = Imports(busy)[import] /\ v = ForwardedTo(target)
  OBVIOUS
<1>6. Leads(t, v)
  BY <1>3, <1>4, <1>5, LeadsOn DEF Underway
<1>7. Leads(t, v)'
  BY <1>2, <1>6, LeadsLater DEF BindInv
<1>8. /\ StubsOK' /\ IatOK(iat)' /\ Known' = Known
      /\ \A m : Imports(m)' = Imports(m) /\ (Unwritten(m)' <=> Unwritten(m))
      /\ \A m : Finished(m) => Finished(m)'
      /\ \A m, i : ImportOK(m, i) => ImportOK(m, i)'
  BY <1>1, <1>2, NothingWritten
<1>9. Listed' = Listed /\ \A m : Taken(m)' <=> Taken(m)
  BY <1>1 DEF Listed, Taken
<1>10. Underway'
  <2>1. Leads(Imports(busy)[import], target)'
    BY <1>1, <1>5, <1>7, <1>8
  <2>2. QED BY <1>1, <1>3, <1>8, <1>9, <2>1 DEF Underway
<1>11. \A p \in 1 .. Len(modules) : modules'[Len(modules') + 1 - p] = modules[Len(modules) + 1 - p]
  BY <1>1
<1>12. again'
  BY <1>1, <1>3 DEF Underway
<1>13. LoadInv'
  BY <1>1, <1>3, <1>8, <1>9, <1>10, <1>12 DEF LoadInv
<1>14. QED BY <1>1, <1>3, <1>8, <1>9, <1>13 DEF BindInv, Loaded

\* A step that puts image l at the head of the module list.
LEMMA ImageLater ==
  ASSUME IInv, NEW l, LoadImage(l), UNCHANGED <<program, stubs>>
  PROVE  /\ Later /\ Listed' = Listed \cup {l} /\ l \in Known
         /\ modules' \in Seq(Images) /\ Len(modules') = Len(modules) + 1
         /\ Len(modules) \in Nat /\ modules' # <<>> /\ modules'[1] = l
         /\ \A i \in 1 .. Len(modules) : modules'[i + 1] = modules[i]
<1>1. /\ CanLoad(l) /\ modules' = <<l>> \o modules /\ l \in Known
      /\ allocPtr' = allocPtr + program.size[l]
  BY DEF LoadImage, CanLoad, MapRegion, MapFresh
<1>2. l \in Images /\ program.size[l] \in Nat
  BY <1>1, ProgramFacts DEF IInv, Core
<1>3. modules \in Seq(Images) /\ Len(modules) \in Nat /\ DOMAIN modules = 1 .. Len(modules)
  BY DEF IInv, ModulesInv
<1>4. /\ modules' \in Seq(Images) /\ Len(modules') = Len(modules) + 1
      /\ modules' # <<>> /\ modules'[1] = l /\ DOMAIN modules' = 1 .. Len(modules) + 1
      /\ \A i \in 1 .. Len(modules) : modules'[i + 1] = modules[i]
  BY <1>1, <1>2, <1>3
<1>5. Listed' = Listed \cup {l}
  <2>1. ASSUME NEW i \in DOMAIN modules' PROVE modules'[i] \in Listed \cup {l}
    <3>1. i = 1 \/ (i - 1 \in 1 .. Len(modules) /\ (i - 1) + 1 = i)
      BY <1>3, <1>4
    <3>2. QED BY <1>3, <1>4, <3>1 DEF Listed
  <2>2. ASSUME NEW i \in DOMAIN modules PROVE \E j \in DOMAIN modules' : modules'[j] = modules[i]
    <3>1. i + 1 \in DOMAIN modules'
      BY <1>3, <1>4
    <3>2. QED BY <1>3, <1>4, <3>1
  <2>3. 1 \in DOMAIN modules'
    BY <1>3, <1>4
  <2>4. Listed' \subseteq Listed \cup {l}
    BY <2>1 DEF Listed
  <2>5. Listed \subseteq Listed'
    BY <2>2 DEF Listed
  <2>6. l \in Listed'
    BY <1>4, <2>3 DEF Listed
  <2>7. QED BY <2>4, <2>5, <2>6
<1>6. \A m : CanLoad(m)' => CanLoad(m)
  <2>1. allocPtr \in Int /\ Frames \in Int
    BY AddressSpaceAssumption DEF IInv, Core, AllocBase, Pd
  <2>2. Room' <= Room /\ Room \in Int /\ Room' \in Int
    BY <1>1, <1>2, <2>1 DEF Room
  <2>3. SUFFICES ASSUME NEW m, CanLoad(m)' PROVE CanLoad(m)
    OBVIOUS
  <2>4. m \in Known /\ program.size[m] <= Room'
    BY <2>3 DEF CanLoad, Known
  <2>5. program.size[m] \in Nat
    BY <2>4, ProgramFacts DEF IInv, Core
  <2>6. program.size[m] <= Room
    BY <2>2, <2>4, <2>5
  <2>7. QED BY <2>4, <2>6 DEF CanLoad
<1>7. QED BY <1>1, <1>3, <1>4, <1>5, <1>6 DEF Later

LEMMA LoadTargetBinds ==
  ASSUME IInv, BindInv, LoadTarget
  PROVE  BindInv'
<1>1. PICK l : l = target[1]
  OBVIOUS
<1>2. /\ Resolving /\ l \notin Listed /\ LoadImage(l)
      /\ UNCHANGED <<program, phase, resolved, cursor, again, ldr,
                     iat, stubs, busy, import, target>>
  BY <1>1 DEF LoadTarget, importing, passing, starting
<1>3. /\ Later /\ Listed' = Listed \cup {l} /\ l \in Known
      /\ modules' \in Seq(Images) /\ Len(modules') = Len(modules) + 1
      /\ Len(modules) \in Nat /\ modules' # <<>>
      /\ \A i \in 1 .. Len(modules) : modules'[i + 1] = modules[i]
  BY <1>2, ImageLater
<1>4. Underway /\ LoadInv /\ phase = "load" /\ busy \in Known /\ busy \in Images
  BY <1>2, AtHand DEF BindInv, LoadInv, Resolving
<1>5. /\ StubsOK' /\ IatOK(iat)' /\ Known' = Known
      /\ \A m : Imports(m)' = Imports(m) /\ (Unwritten(m)' <=> Unwritten(m))
      /\ \A m : Finished(m) => Finished(m)'
      /\ \A m, i : ImportOK(m, i) => ImportOK(m, i)'
  BY <1>2, <1>3, NothingWritten
<1>6. \A m : Taken(m)' <=> Taken(m)
  BY <1>2 DEF Taken
<1>7. ~Taken(l)
  <2>1. Exe \in Listed
    <3>1. Len(modules) \in DOMAIN modules
      BY <1>4 DEF IInv, ModulesInv, LoadInv
    <3>2. QED BY <1>4, <3>1 DEF LoadInv, Listed
  <2>2. QED BY <1>2, <1>4, <2>1 DEF Taken, LoadInv
<1>8. Leads(Imports(busy)[import], target)'
  <2>1. PICK t, u : t = Imports(busy)[import] /\ u = target
    OBVIOUS
  <2>2. Leads(t, u)
    BY <1>4, <2>1 DEF Underway
  <2>3. Leads(t, u)'
    BY <1>3, <2>2, LeadsLater DEF BindInv
  <2>4. QED BY <1>2, <1>5, <2>1, <2>3
<1>9. Underway'
  BY <1>2, <1>3, <1>4, <1>5, <1>6, <1>8 DEF Underway
<1>10. modules'[Len(modules')] = Exe
  <2>1. Len(modules) \in 1 .. Len(modules)
    BY <1>3, <1>4 DEF LoadInv, IInv, ModulesInv
  <2>2. QED BY <1>3, <1>4, <2>1 DEF LoadInv
<1>11. cursor' \in 0 .. Len(modules') /\ resolved' \subseteq Listed' \ {Exe}
       /\ again' /\ ldr' = <<Exe>>
  BY <1>2, <1>3, <1>4 DEF LoadInv, Underway
<1>12. \A m \in Listed' : Taken(m)' /\ m # busy' => Finished(m)'
  BY <1>2, <1>3, <1>4, <1>5, <1>6, <1>7 DEF LoadInv
<1>13. \A m \in Images : ~Taken(m)' => Unwritten(m)'
  BY <1>4, <1>5, <1>6 DEF LoadInv
<1>14. LoadInv'
  BY <1>3, <1>9, <1>10, <1>11, <1>12, <1>13 DEF LoadInv
<1>15. Listed' \subseteq Known' /\ phase' = "load"
  BY <1>2, <1>3, <1>4, <1>5 DEF BindInv
<1>16. QED BY <1>5, <1>14, <1>15 DEF BindInv, Loaded

LEMMA LoadExeBinds ==
  ASSUME IInv, BindInv, LoadExe
  PROVE  BindInv'
<1>1. /\ phase = "before" /\ LoadImage(Exe) /\ phase' = "load" /\ ldr' = <<Exe>> /\ again'
      /\ Begin(Exe, 1) /\ UNCHANGED <<program, iat, stubs, resolved, cursor>>
  BY DEF LoadExe
<1>2. /\ Later /\ Listed' = Listed \cup {Exe} /\ Exe \in Known
      /\ modules' \in Seq(Images) /\ Len(modules') = Len(modules) + 1
      /\ Len(modules) \in Nat /\ modules' # <<>> /\ modules'[1] = Exe
  BY <1>1, ImageLater
<1>3. modules = <<>> /\ Len(modules) = 0 /\ Listed' = {Exe}
  BY <1>1, <1>2 DEF IInv, ModulesInv, Listed
<1>4. resolved = {} /\ busy = Absent /\ cursor = 0 /\ \A m \in Images : Unwritten(m)
  BY <1>1 DEF BindInv
<1>5. /\ StubsOK' /\ IatOK(iat)' /\ Known' = Known
      /\ \A m : Imports(m)' = Imports(m) /\ (Unwritten(m)' <=> Unwritten(m))
  BY <1>1, <1>2, NothingWritten
<1>6. \/ busy' = Absent /\ \A i \in DOMAIN Imports(Exe) : i < 1
      \/ busy' = Exe /\ import' = 1 /\ 1 \in DOMAIN Imports(Exe) /\ target' = Imports(Exe)[1]
  BY <1>1, <1>2, BeginIs DEF IInv, Core
<1>7. DOMAIN Imports(Exe) = 1 .. Len(Imports(Exe)) /\ Len(Imports(Exe)) \in Nat /\ Exe \in Images
  BY <1>2, ProgramFacts DEF IInv, Core
<1>8. busy' # Absent => Underway'
  <2>1. SUFFICES ASSUME busy' # Absent PROVE Underway'
    OBVIOUS
  <2>2. busy' = Exe /\ import' = 1 /\ 1 \in DOMAIN Imports(Exe) /\ target' = Imports(Exe)[1]
    BY <1>6, <2>1
  <2>3. PICK t : t = Imports(Exe)[1]
    OBVIOUS
  <2>4. Leads(t, t)'
    BY <1>2, LeadsHere, LeadsLater DEF BindInv
  <2>5. Leads(Imports(busy)[import], target)'
    BY <1>5, <2>2, <2>3, <2>4
  <2>6. (busy \in Listed /\ Taken(busy) /\ again /\ import \in DOMAIN Imports(busy))'
    BY <1>1, <1>3, <1>5, <2>2 DEF Taken
  <2>7. \A i \in DOMAIN Imports(Exe) : ~(i < 1) /\ iat'[Exe][i] = Absent
    BY <1>1, <1>4, <1>7 DEF Unwritten
  <2>8. QED BY <1>5, <2>2, <2>5, <2>6, <2>7 DEF Underway
<1>9. ASSUME NEW m \in Listed', m # busy' PROVE Finished(m)'
  <2>1. m = Exe /\ \A i \in DOMAIN Imports(Exe) : i < 1
    BY <1>3, <1>6, <1>9
  <2>2. \A i \in DOMAIN Imports(Exe) : FALSE
    BY <1>7, <2>1
  <2>3. QED BY <1>5, <2>1, <2>2 DEF Finished
<1>10. modules'[Len(modules')] = Exe /\ cursor' \in 0 .. Len(modules') /\ resolved' = {}
  BY <1>1, <1>2, <1>3, <1>4
<1>11. LoadInv'
  BY <1>1, <1>2, <1>4, <1>5, <1>8, <1>9, <1>10 DEF LoadInv
<1>12. QED BY <1>1, <1>2, <1>3, <1>5, <1>11 DEF BindInv, Loaded

LEMMA StartPassBinds ==
  ASSUME IInv, BindInv, StartPass
  PROVE  BindInv'
<1>1. /\ phase = "load" /\ busy = Absent /\ cursor' = Len(modules) /\ ~again'
      /\ UNCHANGED <<allocPtr, program, phase, modules, resolved, ldr, iat, stubs, busy>>
  BY DEF StartPass, BetweenModules, spaceVars, importing, starting
<1>2. Later /\ LoadInv
  BY <1>1, SameLater DEF BindInv
<1>3. /\ StubsOK' /\ IatOK(iat)' /\ Known' = Known
      /\ \A m : Unwritten(m)' <=> Unwritten(m)
      /\ \A m : Finished(m) => Finished(m)'
  BY <1>1, <1>2, NothingWritten
<1>4. Listed' = Listed /\ \A m : Taken(m)' <=> Taken(m)
  BY <1>1 DEF Listed, Taken
<1>5. Len(modules) \in Nat
  BY DEF IInv, ModulesInv
<1>6. cursor' \in 0 .. Len(modules') /\ \A p \in 1 .. Len(modules') : ~(p > cursor')
  BY <1>1, <1>5
<1>7. LoadInv'
  BY <1>1, <1>2, <1>3, <1>4, <1>6 DEF LoadInv
<1>8. QED BY <1>1, <1>3, <1>4, <1>7 DEF BindInv, Loaded

LEMMA VisitModuleBinds ==
  ASSUME IInv, BindInv, VisitModule
  PROVE  BindInv'
<1>1. PICK m : m = AtCursor
  OBVIOUS
<1>2. /\ phase = "load" /\ busy = Absent /\ cursor > 0 /\ cursor' = cursor - 1
      /\ UNCHANGED <<allocPtr, program, phase, modules, ldr, iat, stubs>>
  BY DEF VisitModule, BetweenModules, spaceVars, starting
<1>3. Later /\ LoadInv
  BY <1>2, SameLater DEF BindInv
<1>4. /\ StubsOK' /\ IatOK(iat)' /\ Known' = Known
      /\ \A n : Imports(n)' = Imports(n) /\ (Unwritten(n)' <=> Unwritten(n))
      /\ \A n : Finished(n) => Finished(n)'
  BY <1>2, <1>3, NothingWritten
<1>5. Listed' = Listed
  BY <1>2 DEF Listed
<1>6. Len(modules) \in Nat /\ DOMAIN modules = 1 .. Len(modules) /\ cursor \in Nat
      /\ cursor <= Len(modules)
  BY <1>3 DEF IInv, ModulesInv, LoadInv
<1>7. cursor' \in 0 .. Len(modules') /\ Len(modules) + 1 - cursor \in DOMAIN modules
  BY <1>2, <1>6
<1>8. m \in Listed /\ m \in Known
  BY <1>1, <1>7 DEF AtCursor, Listed, BindInv
<1>9. m \in Images /\ DOMAIN Imports(m) = 1 .. Len(Imports(m)) /\ Len(Imports(m)) \in Nat
  BY <1>8, ProgramFacts DEF IInv, Core
<1>10. ldr' = <<Exe>> /\ modules' # <<>> /\ modules'[Len(modules')] = Exe
  BY <1>2, <1>3 DEF LoadInv
<1>11. SUFFICES LoadInv'
  BY <1>2, <1>4, <1>5 DEF BindInv, Loaded
<1>12. CASE NeedsResolving(m)
  <2>1. resolved' = resolved \cup {m} /\ again' /\ Begin(m, 1) /\ m # Exe /\ m \notin resolved
    BY <1>1, <1>12 DEF VisitModule, NeedsResolving
  <2>2. \A n : Taken(n)' <=> Taken(n) \/ n = m
    BY <2>1 DEF Taken
  <2>3. \/ busy' = Absent /\ \A i \in DOMAIN Imports(m) : i < 1
        \/ busy' = m /\ import' = 1 /\ 1 \in DOMAIN Imports(m) /\ target' = Imports(m)[1]
    BY <1>8, <2>1, BeginIs DEF IInv, Core
  <2>4. Unwritten(m)
    BY <1>3, <1>9, <2>1 DEF LoadInv, Taken
  <2>5. busy' # Absent => Underway'
    <3>1. SUFFICES ASSUME busy' # Absent PROVE Underway'
      OBVIOUS
    <3>2. busy' = m /\ import' = 1 /\ 1 \in DOMAIN Imports(m) /\ target' = Imports(m)[1]
      BY <2>3, <3>1
    <3>3. PICK t : t = Imports(m)[1]
      OBVIOUS
    <3>4. Leads(t, t)'
      BY <1>3, LeadsHere, LeadsLater DEF BindInv
    <3>5. Leads(Imports(busy)[import], target)'
      BY <1>4, <3>2, <3>3, <3>4
    <3>6. (busy \in Listed /\ Taken(busy) /\ again /\ import \in DOMAIN Imports(busy))'
      BY <1>4, <1>5, <1>8, <2>1, <2>2, <3>2
    <3>7. \A i \in DOMAIN Imports(m) : ~(i < 1) /\ iat'[m][i] = Absent
      BY <1>2, <1>9, <2>4 DEF Unwritten
    <3>8. QED BY <1>4, <3>2, <3>5, <3>6, <3>7 DEF Underway
  <2>6. ASSUME NEW n \in Listed', Taken(n)', n # busy' PROVE Finished(n)'
    <3>1. CASE n = m
      <4>1. \A i \in DOMAIN Imports(m) : i < 1
        BY <2>3, <2>6, <3>1
      <4>2. \A i \in DOMAIN Imports(m) : FALSE
        BY <1>9, <4>1
      <4>3. QED BY <1>4, <3>1, <4>2 DEF Finished
    <3>2. CASE n # m
      <4>1. n \in Images /\ n # Absent
        BY <1>5, ProgramFacts, LoaderAssumption DEF BindInv, IInv, Core
      <4>2. QED BY <1>2, <1>3, <1>4, <1>5, <2>2, <2>6, <3>2, <4>1 DEF LoadInv
    <3>3. QED BY <3>1, <3>2
  <2>7. \A n \in Images : ~Taken(n)' => Unwritten(n)'
    BY <1>3, <1>4, <2>2 DEF LoadInv
  <2>8. resolved' \subseteq Listed' \ {Exe}
    BY <1>3, <1>5, <1>8, <2>1 DEF LoadInv
  <2>9. QED BY <1>7, <1>10, <2>1, <2>5, <2>6, <2>7, <2>8 DEF LoadInv
<1>13. CASE ~NeedsResolving(m)
  <2>1. resolved' = resolved /\ again' = again /\ busy' = Absent
    BY <1>1, <1>2, <1>13 DEF VisitModule
  <2>2. \A n : Taken(n)' <=> Taken(n)
    BY <2>1 DEF Taken
  <2>3. \A n : NeedsResolving(n)' <=> NeedsResolving(n)
    BY <1>4, <2>1 DEF NeedsResolving
  <2>4. ASSUME ~again', NEW p \in 1 .. Len(modules'), p > cursor'
        PROVE  ~NeedsResolving(modules'[Len(modules') + 1 - p])
    <3>1. CASE p > cursor
      BY <1>2, <1>3, <2>1, <2>4, <3>1 DEF LoadInv
    <3>2. CASE ~(p > cursor)
      <4>1. p = cursor
        BY <1>2, <1>6, <2>4, <3>2
      <4>2. QED BY <1>1, <1>2, <1>13, <4>1 DEF AtCursor
    <3>3. QED BY <3>1, <3>2
  <2>5. \A n \in Listed' : Taken(n)' /\ n # busy' => Finished(n)'
    BY <1>2, <1>3, <1>4, <1>5, <2>1, <2>2 DEF LoadInv
  <2>6. \A n \in Images : ~Taken(n)' => Unwritten(n)'
    BY <1>3, <1>4, <2>2 DEF LoadInv
  <2>7. resolved' \subseteq Listed' \ {Exe}
    BY <1>3, <1>5, <2>1 DEF LoadInv
  <2>8. ~again' => \A p \in 1 .. Len(modules') :
                     p > cursor' => ~NeedsResolving(modules[Len(modules) + 1 - p])'
    BY <1>2, <2>3, <2>4
  <2>9. QED BY <1>7, <1>10, <2>1, <2>5, <2>6, <2>7, <2>8 DEF LoadInv
<1>14. QED BY <1>12, <1>13

---------------------------------------------------------------------------
(* The end of loading: every module has been taken or has nothing to resolve,
   and the loader entries are those of the list, the main executable first.  *)

LEMMA AllBound ==
  ASSUME IInv, BindInv, BetweenModules, cursor = 0, ~again
  PROVE  \A m \in Listed : \A i \in DOMAIN Imports(m) : Bound(m, i)
<1>1. LoadInv /\ StubsOK /\ busy = Absent
  BY DEF BindInv, BetweenModules
<1>2. modules \in Seq(Images) /\ Len(modules) \in Nat /\ DOMAIN modules = 1 .. Len(modules)
  BY DEF IInv, ModulesInv
<1>3. SUFFICES ASSUME NEW m \in Listed, NEW i \in DOMAIN Imports(m) PROVE Bound(m, i)
  OBVIOUS
<1>4. PICK j \in DOMAIN modules : modules[j] = m
  BY DEF Listed
<1>5. ~NeedsResolving(m)
  <2> DEFINE p == Len(modules) + 1 - j
  <2>1. p \in 1 .. Len(modules) /\ p > 0 /\ Len(modules) + 1 - p = j
    BY <1>2
  <2> HIDE DEF p
  <2>2. QED BY <1>1, <1>4, <2>1 DEF LoadInv
<1>6. m \in Images /\ DOMAIN Imports(m) = 1 .. Len(Imports(m)) /\ m # Absent
  BY ProgramFacts, LoaderAssumption DEF BindInv, IInv, Core
<1>7. Imports(m) # <<>>
  BY <1>6
<1>8. Finished(m)
  BY <1>1, <1>5, <1>6, <1>7 DEF NeedsResolving, Taken, LoadInv
<1>9. PICK u : Leads(Imports(m)[i], u) /\ Settled(u) /\ BoundTo(u, iat[m][i])
  BY <1>8 DEF Finished, ImportOK
<1>10. QED BY <1>1, <1>9, SettledEnds DEF Bound

LEMMA DllsAre ==
  ASSUME IInv, LoadInv
  PROVE  /\ Dlls \in Seq(Images) /\ Len(Dlls) = Len(modules) - 1
         /\ \A i \in 1 .. Len(modules) - 1 : Dlls[i] = modules[i]
<1> DEFINE n == Len(modules)
<1>1. modules \in Seq(Images) /\ n \in Nat /\ DOMAIN modules = 1 .. n /\ IsInjective(modules)
  BY DEF IInv, ModulesInv
<1>2. n \in DOMAIN modules /\ modules[n] = Exe
  BY <1>1 DEF LoadInv
<1>3. (CHOOSE i \in DOMAIN modules : modules[i] = Exe) = n
  BY <1>1, <1>2 DEF IsInjective
<1>4. Dlls = SubSeq(modules, 1, n - 1) \o SubSeq(modules, n + 1, n)
  BY <1>3 DEF Dlls, RemoveAt
<1> HIDE DEF n
<1>5. n \in Nat \ {0}
  BY <1>1, <1>2
<1>6. /\ SubSeq(modules, 1, n - 1) \in Seq(Images) /\ Len(SubSeq(modules, 1, n - 1)) = n - 1
      /\ \A i \in 1 .. n - 1 : SubSeq(modules, 1, n - 1)[i] = modules[i]
  BY <1>1, <1>5 DEF n
<1>7. SubSeq(modules, n + 1, n) = <<>>
  BY <1>1, <1>5 DEF n
<1>8. QED BY <1>4, <1>6, <1>7 DEF n

\* Nothing of it changes once loading is over.
LEMMA BoundStays ==
  ASSUME UNCHANGED <<program, modules, stubs, iat>>, NEW m, NEW i, Bound(m, i)
  PROVE  Bound(m, i)'
<1>1. PICK u : Leads(Imports(m)[i], u) /\ ~Forwards(u) /\ BoundTo(u, iat[m][i])
  BY DEF Bound
<1>2. \A t : CanHop(t)' <=> CanHop(t)
  BY DEF CanHop, MayStub, Registered, ForwardedTo, Listed
<1>3. Imports(m)' = Imports(m) /\ \A t : ForwardedTo(t)' = ForwardedTo(t)
  BY DEF Imports, ForwardedTo
<1>4. ASSUME NEW t, Leads(t, u) PROVE Leads(t, u)'
  <2>1. PICK n \in Nat : \E c : Hops(n, c, t, u)
    BY <1>4 DEF Leads
  <2>2. PICK c : Hops(n, c, t, u)
    BY <2>1
  <2>3. Hops(n, c, t, u)'
    BY <1>2, <1>3, <2>2 DEF Hops
  <2>4. QED BY <2>3 DEF Leads
<1>5. Leads(Imports(m)[i], u)'
  <2>1. PICK t : t = Imports(m)[i]
    OBVIOUS
  <2>2. Leads(t, u)'
    BY <1>1, <1>4, <2>1
  <2>3. QED BY <1>3, <2>1, <2>2
<1>6. (Exported(u)' <=> Exported(u)) /\ (Stubbed(u)' <=> Stubbed(u))
  BY DEF Exported, Stubbed, Registered, Listed
<1>7. ~Forwards(u)'
  BY <1>1, <1>3, <1>6 DEF Forwards
<1>8. BoundTo(u, iat[m][i])'
  BY <1>1, <1>6 DEF BoundTo
<1>9. QED BY <1>5, <1>7, <1>8 DEF Bound

LEMMA CreateLdrEntriesBinds ==
  ASSUME IInv, BindInv, CreateLdrEntries
  PROVE  BindInv'
<1> DEFINE n == Len(modules)
           k == IF Len(Dlls) < LdrRoom THEN Len(Dlls) ELSE LdrRoom - 1
           d == SubSeq(Dlls, 1, k)
<1>1. /\ BetweenModules /\ cursor = 0 /\ ~again /\ ldr' = ldr \o d /\ phase' = "after"
      /\ UNCHANGED <<program, modules, iat, stubs>>
  BY DEF CreateLdrEntries, importing
<1>2. LoadInv /\ StubsOK /\ Listed \subseteq Known /\ IatOK(iat)
  BY <1>1 DEF BindInv, BetweenModules
<1>3. modules \in Seq(Images) /\ n \in Nat \ {0} /\ DOMAIN modules = 1 .. n
      /\ IsInjective(modules) /\ modules[n] = Exe /\ Exe \in Images
  BY <1>2, LoaderAssumption DEF IInv, ModulesInv, LoadInv
<1>4. /\ Dlls \in Seq(Images) /\ Len(Dlls) = n - 1
      /\ \A i \in 1 .. n - 1 : Dlls[i] = modules[i]
  BY <1>2, DllsAre
<1>5. k \in 0 .. n - 1 /\ (n <= LdrRoom => k = n - 1)
  <2> HIDE DEF n
  <2>1. LdrRoom \in Nat \ {0}
    BY LoaderAssumption
  <2>2. QED BY <1>3, <1>4, <2>1
<1> HIDE DEF n, k
<1>6. /\ d \in Seq(Images) /\ Len(d) = k /\ \A i \in 1 .. k : d[i] = modules[i]
  BY <1>3, <1>4, <1>5
<1> HIDE DEF d
<1>7. /\ ldr' \in Seq(Images) /\ Len(ldr') = 1 + k /\ DOMAIN ldr' = 1 .. 1 + k
      /\ ldr'[1] = Exe /\ \A i \in 2 .. 1 + k : ldr'[i] = modules[i - 1]
  <2>1. ldr = <<Exe>>
    BY <1>2 DEF LoadInv
  <2>2. ldr' \in Seq(Images) /\ Len(ldr') = 1 + k /\ DOMAIN ldr' = 1 .. 1 + k
        /\ ldr'[1] = Exe
    BY <1>1, <1>3, <1>5, <1>6, <2>1
  <2>3. ASSUME NEW i \in 2 .. 1 + k PROVE ldr'[i] = modules[i - 1]
    <3>1. i - 1 \in 1 .. k /\ i > 1 /\ i <= 1 + k /\ i \in Nat
      BY <1>5
    <3>2. ldr'[i] = d[i - 1]
      BY <1>1, <1>3, <1>6, <2>1, <3>1
    <3>3. QED BY <1>6, <3>1, <3>2
  <2>4. QED BY <2>2, <2>3
\* The entry i of ldr is the place Place(i) of the list.
<1> DEFINE Place(i) == IF i = 1 THEN n ELSE i - 1
<1>8. \A i \in 1 .. 1 + k : Place(i) \in 1 .. n /\ ldr'[i] = modules[Place(i)]
  <2>1. TAKE i \in 1 .. 1 + k
  <2>2. CASE i = 1
    BY <1>3, <1>7, <2>2
  <2>3. CASE i # 1
    <3>1. i \in 2 .. 1 + k /\ i - 1 \in 1 .. n
      BY <1>3, <1>5, <2>3
    <3>2. QED BY <1>7, <2>3, <3>1
  <2>4. QED BY <2>2, <2>3
<1>9. \A i, j \in 1 .. 1 + k : Place(i) = Place(j) => i = j
  <2>1. \A i \in 1 .. 1 + k : i # 1 => i - 1 # n /\ i \in Nat
    BY <1>3, <1>5
  <2>2. QED BY <1>3, <2>1
<1> HIDE DEF Place
<1>10. IsInjective(ldr')
  BY <1>3, <1>7, <1>8, <1>9 DEF IsInjective
<1>11. ToSet(ldr') \subseteq Listed
  <2>1. SUFFICES ASSUME NEW i \in DOMAIN ldr' PROVE ldr'[i] \in Listed
    BY DEF ToSet
  <2>2. QED BY <1>3, <1>7, <1>8 DEF Listed
<1>12. n <= LdrRoom => Listed \subseteq ToSet(ldr')
  <2>1. SUFFICES ASSUME n <= LdrRoom, NEW i \in 1 .. n
                 PROVE  \E j \in 1 .. 1 + k : ldr'[j] = modules[i]
    BY <1>3, <1>7 DEF ToSet, Listed
  <2>2. k = n - 1
    BY <1>5, <2>1
  <2>3. CASE i = n
    BY <1>3, <1>5, <1>7, <2>3
  <2>4. CASE i # n
    <3>1. i + 1 \in 2 .. 1 + k /\ (i + 1) - 1 = i /\ i + 1 \in 1 .. 1 + k
      BY <1>3, <2>2, <2>4
    <3>2. ldr'[i + 1] = modules[i]
      BY <1>7, <3>1
    <3>3. QED BY <3>1, <3>2
  <2>5. QED BY <2>3, <2>4
<1>13. /\ Known' = Known /\ Listed' = Listed /\ StubsOK' /\ IatOK(iat)'
       /\ \A m : Imports(m)' = Imports(m)
  BY <1>1, <1>2 DEF Known, Listed, StubsOK, IatOK, Imports
<1>14. \A m, i : Bound(m, i) => Bound(m, i)'
  BY <1>1, BoundStays
<1>15. \A m \in Listed' : \A i \in DOMAIN Imports(m)' : Bound(m, i)'
  BY <1>1, <1>13, <1>14, AllBound
<1>16. LoadedInv'
  BY <1>1, <1>7, <1>10, <1>11, <1>12, <1>13, <1>15 DEF LoadedInv, n
<1>17. QED BY <1>1, <1>2, <1>13, <1>16 DEF BindInv

\* The other steps leave the modules and their imports alone.
LEMMA QuietBinds ==
  ASSUME BindInv, UNCHANGED <<program, modules, importing, passing, ldr>>,
         phase # "load", phase' # "load",
         phase' = "before" => phase = "before", Loaded' => Loaded
  PROVE  BindInv'
<1>1. UNCHANGED <<program, modules, stubs, iat, ldr, resolved, busy, cursor>>
  BY DEF importing, passing
<1>2. /\ Known' = Known /\ Listed' = Listed /\ StubsOK' /\ IatOK(iat)'
      /\ \A m : Imports(m)' = Imports(m) /\ (Unwritten(m)' <=> Unwritten(m))
  BY <1>1 DEF Known, Listed, StubsOK, IatOK, Imports, Unwritten, BindInv
<1>3. Loaded' => LoadedInv'
  <2>1. SUFFICES ASSUME Loaded' PROVE LoadedInv'
    OBVIOUS
  <2>2. LoadedInv
    BY <2>1 DEF BindInv
  <2>3. \A m, i : Bound(m, i) => Bound(m, i)'
    BY <1>1, BoundStays
  <2>4. \A m \in Listed' : \A i \in DOMAIN Imports(m)' : Bound(m, i)'
    BY <1>2, <2>2, <2>3 DEF LoadedInv
  <2>5. QED BY <1>1, <1>2, <2>2, <2>4 DEF LoadedInv
<1>4. QED BY <1>1, <1>2, <1>3 DEF BindInv

LEMMA StutterBinds ==
  ASSUME BindInv, UNCHANGED vars
  PROVE  BindInv'
<1>1. UNCHANGED <<allocPtr, program, phase, modules, importing, passing, ldr>>
  BY DEF vars, spaceVars, starting
<1>2. UNCHANGED <<resolved, cursor, again, busy, import, target, iat, stubs>>
  BY <1>1 DEF importing, passing
<1>3. CASE phase = "load"
  <2>1. Later /\ LoadInv
    BY <1>1, <1>2, <1>3, SameLater DEF BindInv
  <2>2. /\ StubsOK' /\ IatOK(iat)' /\ Known' = Known
        /\ \A m : Imports(m)' = Imports(m) /\ (Unwritten(m)' <=> Unwritten(m))
        /\ \A m : Finished(m) => Finished(m)'
        /\ \A m, i : ImportOK(m, i) => ImportOK(m, i)'
    BY <1>2, <2>1, NothingWritten
  <2>3. Listed' = Listed /\ (\A m : Taken(m)' <=> Taken(m))
        /\ (\A m : NeedsResolving(m)' <=> NeedsResolving(m))
    BY <1>1, <1>2, <2>2 DEF Listed, Taken, NeedsResolving
  <2>4. Underway => Underway'
    <3>1. SUFFICES ASSUME Underway PROVE Underway'
      OBVIOUS
    <3>2. PICK t, u : t = Imports(busy)[import] /\ u = target
      OBVIOUS
    <3>3. Leads(t, u)'
      BY <2>1, <3>1, <3>2, LeadsLater DEF Underway, BindInv
    <3>4. Leads(Imports(busy)[import], target)'
      BY <1>2, <2>2, <3>2, <3>3
    <3>5. QED BY <1>2, <2>2, <2>3, <3>1, <3>4 DEF Underway
  <2>5. LoadInv'
    <3>1. \A p \in 1 .. Len(modules) :
            NeedsResolving(modules[Len(modules) + 1 - p])' <=>
              NeedsResolving(modules[Len(modules) + 1 - p])
      BY <1>1, <2>3
    <3>2. QED BY <1>1, <1>2, <2>1, <2>2, <2>3, <2>4, <3>1 DEF LoadInv
  <2>6. QED BY <1>1, <1>3, <2>2, <2>3, <2>5 DEF BindInv, Loaded
<1>4. CASE phase # "load"
  BY <1>1, <1>4, QuietBinds DEF Loaded
<1>5. QED BY <1>3, <1>4

LEMMA BindStep ==
  ASSUME IInv, BindInv, [Next]_vars
  PROVE  BindInv'
<1>1. CASE LoadExe
  BY <1>1, LoadExeBinds
<1>2. CASE LoadTarget
  BY <1>2, LoadTargetBinds
<1>3. CASE ResolveFunction
  <2>1. CASE target[1] \in Listed
    BY <1>3, <2>1, BindStubBinds, BindCodeBinds, FollowForwarderBinds, SkipBinds
    DEF ResolveFunction
  <2>2. CASE target[1] \notin Listed
    BY <1>3, <2>2, SkipBinds DEF ResolveFunction
  <2>3. QED BY <2>1, <2>2
<1>4. CASE StartPass
  BY <1>4, StartPassBinds
<1>5. CASE VisitModule
  BY <1>5, VisitModuleBinds
<1>6. CASE CreateLdrEntries
  BY <1>6, CreateLdrEntriesBinds
<1>7. CASE RegionMapped \/ RegionRefused
  <2>1. regions # <<>> /\ phase # "load"
    BY <1>7 DEF RegionMapped, RegionRefused, IInv, RegionsInv
  <2>2. UNCHANGED <<program, modules, importing, passing, ldr>>
        /\ (phase' = phase \/ phase' = "stopped")
    BY <1>7 DEF RegionMapped, RegionRefused, StartRefused, ConnectRefused, starting
  <2>3. QED BY <2>1, <2>2, QuietBinds DEF Loaded
<1>8. CASE LoadExeFails
  BY <1>8, QuietBinds DEF LoadExeFails, starting, Loaded
<1>9. CASE SetupPaging
  BY <1>9, QuietBinds DEF SetupPaging, starting, Loaded
<1>10. CASE StartDlls
  BY <1>10, QuietBinds DEF StartDlls, Loaded
<1>11. CASE InitDll
  BY <1>11, QuietBinds DEF InitDll, Loaded
<1>12. CASE StartProgram
  BY <1>12, QuietBinds DEF StartProgram, starting, Loaded
<1>13. CASE CreateThread \/ ProcessConnect
  BY <1>13, QuietBinds DEF CreateThread, ProcessConnect, Idle, GuestRuns, starting, Loaded
<1>14. CASE UNCHANGED vars
  BY <1>14, StutterBinds
<1>15. QED
  BY <1>1, <1>2, <1>3, <1>4, <1>5, <1>6, <1>7, <1>8, <1>9, <1>10, <1>11, <1>12, <1>13, <1>14
  DEF Next, HostStep, GuestStep

LEMMA BindInit ==
  ASSUME Init
  PROVE  BindInv
<1>1. /\ phase = "before" /\ modules = <<>> /\ resolved = {} /\ cursor = 0 /\ busy = Absent
      /\ stubs = <<>>
      /\ iat = [m \in Images |-> [i \in DOMAIN Imports(m) |-> Absent]]
  BY DEF Init
<1>2. StubsOK /\ Listed = {}
  BY <1>1 DEF StubsOK, IsInjective, Listed
<1>3. \A m \in Images : Unwritten(m)
  BY <1>1 DEF Unwritten
<1>4. IatOK(iat)
  BY <1>1 DEF IatOK
<1>5. QED BY <1>1, <1>2, <1>3, <1>4 DEF BindInv, Loaded

\* When loader_load_executable is done, every import of every module in the
\* list is bound to the function that its chain of forwarders ends at, or to
\* the one stub of that function, whatever was loaded in between and whichever
\* pass came to the module, and the loader entries are those of the list.
THEOREM LoaderAlwaysSound == Spec => []LoaderSound
<1>1. Init => IInv /\ BindInv
  BY InitOK, BindInit
<1>2. IInv /\ BindInv /\ [Next]_vars => IInv' /\ BindInv'
  BY StepOK, BindStep DEF Good
<1>3. IInv /\ BindInv => LoaderSound
  <2>1. SUFFICES ASSUME IInv, BindInv PROVE LoaderSound
    OBVIOUS
  <2>2. IsInjective(modules) /\ IsInjective(stubs)
    BY <2>1 DEF IInv, ModulesInv, BindInv, StubsOK
  <2>3. ASSUME Loaded, NEW m \in Listed, NEW i \in DOMAIN Imports(m)
        PROVE  BoundTo(Final(Imports(m)[i]), iat[m][i])
    <3>1. PICK t : t = Imports(m)[i]
      OBVIOUS
    <3>2. PICK u : Leads(t, u) /\ ~Forwards(u) /\ BoundTo(u, iat[m][i])
      BY <2>1, <2>3, <3>1 DEF BindInv, LoadedInv, Bound
    <3>3. Final(t) = u
      BY <2>1, <3>2, FinalIs DEF BindInv, IInv, Core
    <3>4. QED BY <3>1, <3>2, <3>3
  <2>4. QED BY <2>1, <2>2, <2>3 DEF LoaderSound, BindInv, LoadedInv
<1>4. QED BY <1>1, <1>2, <1>3, PTL DEF Spec
=============================================================================
