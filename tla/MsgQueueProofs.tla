--------------------------- MODULE MsgQueueProofs ---------------------------
(* Proofs about the USER message queue (MsgQueue): the ring is well formed,
   the waiting messages are the queue of MessageQueue, and the walk for
   WM_PAINT goes through the windows in order, for every size of the ring,
   every window tree and every set of filters.                              *)
EXTENDS MsgQueue, SequenceTheorems, FiniteSetTheorems, WellFoundedInduction, TLAPS

Rings ==
  [slots : [0..(Cap - 1) -> Messages \cup {NoMsg}], head : 0..(Cap - 1),
   tail : 0..(Cap - 1), count : 0..Cap, refused : BOOLEAN]

\* A ring as the code leaves it, and the messages in it, oldest first.
Sound(r)    == r \in Rings /\ r.tail = (r.head + r.count) % Cap
Waiting(r)  == [k \in 1..r.count |-> r.slots[At(r, k)]]

-----------------------------------------------------------------------------
(* The arithmetic of the ring.                                              *)

LEMMA Stays == ASSUME NEW x \in 0..(Cap - 1) PROVE x % Cap = x
BY MsgQueueAssumption, SMT

LEMMA Wraps == ASSUME NEW x \in Cap..(2 * Cap - 1) PROVE x % Cap = x - Cap
BY MsgQueueAssumption, SMT

LEMMA AtPlace ==
  ASSUME NEW r \in Rings, NEW k \in 1..Cap
  PROVE  /\ At(r, k) \in 0..(Cap - 1)
         /\ At(r, k) = IF r.head + k - 1 < Cap THEN r.head + k - 1 ELSE r.head + k - 1 - Cap
<1> DEFINE x == r.head + k - 1
<1>1. r.head \in 0..(Cap - 1) /\ Cap \in Nat \ {0}
  BY MsgQueueAssumption DEF Rings
<1>2. x \in 0..(Cap - 1) \/ x \in Cap..(2 * Cap - 1)
  BY <1>1
<1>3. CASE x \in 0..(Cap - 1)
  <2>1. x % Cap = x
    BY <1>3, Stays
  <2>2. QED BY <1>1, <1>3, <2>1 DEF At
<1>4. CASE x \in Cap..(2 * Cap - 1)
  <2>1. x % Cap = x - Cap
    BY <1>4, Wraps
  <2>2. QED BY <1>1, <1>4, <2>1 DEF At
<1>5. QED BY <1>2, <1>3, <1>4

LEMMA Modulo ==
  ASSUME NEW x \in 0..(2 * Cap - 1)
  PROVE  x % Cap = IF x < Cap THEN x ELSE x - Cap
<1>1. Cap \in Nat \ {0}
  BY MsgQueueAssumption
<1>2. CASE x < Cap
  BY <1>1, <1>2, Stays
<1>3. CASE ~(x < Cap)
  BY <1>1, <1>3, Wraps
<1>4. QED BY <1>2, <1>3

LEMMA TailPlace ==
  ASSUME NEW r, Sound(r)
  PROVE  r.tail = IF r.head + r.count < Cap THEN r.head + r.count ELSE r.head + r.count - Cap
<1>1. PICK x : x = r.head + r.count
  OBVIOUS
<1>2. x \in 0..(2 * Cap - 1)
  BY <1>1, MsgQueueAssumption DEF Sound, Rings
<1>3. r.tail = x % Cap
  BY <1>1 DEF Sound
<1>4. r.tail = IF x < Cap THEN x ELSE x - Cap
  BY <1>2, <1>3, Modulo
<1>5. r.head \in Int /\ r.count \in Int /\ Cap \in Int
  BY MsgQueueAssumption DEF Sound, Rings
<1>6. QED BY <1>1, <1>4, <1>5

\* The place after a place, and the one before.
LEMMA NextPlace ==
  ASSUME NEW x \in 0..(Cap - 1)
  PROVE  /\ (x + 1) % Cap = IF x = Cap - 1 THEN 0 ELSE x + 1
         /\ (x - 1 + Cap) % Cap = IF x = 0 THEN Cap - 1 ELSE x - 1
<1>1. Cap \in Nat \ {0}
  BY MsgQueueAssumption
<1> DEFINE y == x + 1
           z == x - 1 + Cap
<1>2. y \in 0..(2 * Cap - 1) /\ z \in 0..(2 * Cap - 1)
  BY <1>1
<1>3. /\ y % Cap = IF y < Cap THEN y ELSE y - Cap
      /\ z % Cap = IF z < Cap THEN z ELSE z - Cap
  <2> HIDE DEF y, z
  <2> QED BY <1>2, Modulo
<1> DEFINE yy == y % Cap
           zz == z % Cap
<1> HIDE DEF yy, zz
<1>4. yy = (IF x = Cap - 1 THEN 0 ELSE x + 1) /\ zz = (IF x = 0 THEN Cap - 1 ELSE x - 1)
  BY <1>1, <1>3 DEF yy, zz
<1>5. QED BY <1>4 DEF yy, zz

\* A run of slots that grows or shrinks by one at its end.
LEMMA EndMoves ==
  ASSUME NEW h \in 0..(Cap - 1), NEW c \in 0..Cap, NEW t, t = (h + c) % Cap
  PROVE  /\ c < Cap => (t + 1) % Cap = (h + (c + 1)) % Cap
         /\ 0 < c => (t - 1 + Cap) % Cap = (h + (c - 1)) % Cap
<1>1. Cap \in Nat \ {0}
  BY MsgQueueAssumption
<1>2. h + c \in 0..(2 * Cap - 1)
  BY <1>1
<1>3. t = (IF h + c < Cap THEN h + c ELSE h + c - Cap) /\ t \in 0..(Cap - 1)
  BY <1>1, <1>2, Modulo
<1> DEFINE up   == (t + 1) % Cap
           down == (t - 1 + Cap) % Cap
<1>4. /\ up = IF t = Cap - 1 THEN 0 ELSE t + 1
      /\ down = IF t = 0 THEN Cap - 1 ELSE t - 1
  BY <1>3, NextPlace
<1> HIDE DEF up, down
<1>5. ASSUME c < Cap PROVE up = (h + (c + 1)) % Cap
  <2> DEFINE s == h + (c + 1)
  <2>1. s \in 0..(2 * Cap - 1)
    BY <1>1, <1>5
  <2>2. up = IF s < Cap THEN s ELSE s - Cap
    BY <1>1, <1>3, <1>4, <1>5
  <2> HIDE DEF s
  <2>3. up = s % Cap
    BY <2>1, <2>2, Modulo
  <2>4. QED BY <2>3 DEF s
<1>6. ASSUME 0 < c PROVE down = (h + (c - 1)) % Cap
  <2> DEFINE s == h + (c - 1)
  <2>1. s \in 0..(2 * Cap - 1)
    BY <1>1, <1>6
  <2>2. down = IF s < Cap THEN s ELSE s - Cap
    BY <1>1, <1>3, <1>4, <1>6
  <2> HIDE DEF s
  <2>3. down = s % Cap
    BY <2>1, <2>2, Modulo
  <2>4. QED BY <2>3 DEF s
<1>7. QED BY <1>5, <1>6 DEF up, down

-----------------------------------------------------------------------------
(* The operations on a ring, against those on a queue.                      *)

LEMMA WaitingSeq ==
  ASSUME NEW r, Sound(r)
  PROVE  /\ Waiting(r) \in Seq(Messages \cup {NoMsg})
         /\ Len(Waiting(r)) = r.count
         /\ r.count \in 0..Cap /\ Cap \in Nat
         /\ \A k \in 1..r.count : Waiting(r)[k] = r.slots[At(r, k)]
<1>1. r.count \in 0..Cap /\ Cap \in Nat
  BY MsgQueueAssumption DEF Sound, Rings
<1>2. \A k \in 1..r.count : r.slots[At(r, k)] \in Messages \cup {NoMsg}
  <2> SUFFICES ASSUME NEW k \in 1..r.count PROVE r.slots[At(r, k)] \in Messages \cup {NoMsg}
    OBVIOUS
  <2>1. At(r, k) \in 0..(Cap - 1)
    BY <1>1, AtPlace DEF Sound
  <2>2. QED BY <2>1 DEF Sound, Rings
<1>3. Waiting(r) \in [1..r.count -> Messages \cup {NoMsg}]
  BY <1>2 DEF Waiting
<1>4. Waiting(r) \in Seq(Messages \cup {NoMsg}) /\ Len(Waiting(r)) = r.count
  <2> HIDE DEF Waiting
  <2>1. r.count \in Nat
    BY <1>1
  <2>2. QED BY <1>3, <2>1
<1>5. QED BY <1>1, <1>4 DEF Waiting

\* A post puts the message behind the others, or loses it when the ring is full.
LEMMA PostSound ==
  ASSUME NEW r, Sound(r), NEW m \in Messages
  PROVE  /\ Sound(PostTo(r, m))
         /\ Waiting(PostTo(r, m)) = Abstract!PostOne(Waiting(r), m)
<1> DEFINE p == PostTo(r, m)
<1>1. /\ r.head \in 0..(Cap - 1) /\ r.tail \in 0..(Cap - 1) /\ r.count \in 0..Cap
      /\ r.slots \in [0..(Cap - 1) -> Messages \cup {NoMsg}]
      /\ Cap \in Nat \ {0} /\ r \in Rings
  BY MsgQueueAssumption DEF Sound, Rings
<1>2. Len(Waiting(r)) = r.count
  BY WaitingSeq
<1>3. CASE r.count >= Cap
  <2>1. p = [r EXCEPT !.refused = TRUE]
    BY <1>3 DEF PostTo
  <2>2. p \in Rings /\ p.slots = r.slots /\ p.head = r.head /\ p.count = r.count /\ p.tail = r.tail
    BY <1>1, <2>1 DEF Rings
  <2>3. Waiting(p) = Waiting(r)
    <3> HIDE DEF p
    <3> QED BY <2>2 DEF Waiting, At
  <2>4. Abstract!PostOne(Waiting(r), m) = Waiting(r)
    BY <1>1, <1>2, <1>3 DEF Abstract!PostOne
  <2>5. Sound(p)
    <3> HIDE DEF p
    <3> QED BY <2>2 DEF Sound
  <2>6. QED BY <2>3, <2>4, <2>5
<1>4. CASE r.count < Cap
  <2>1. p = [r EXCEPT !.slots[r.tail] = m, !.tail = (@ + 1) % Cap, !.count = @ + 1]
    BY <1>1, <1>4 DEF PostTo
  <2> DEFINE t == (r.tail + 1) % Cap
  <2>2. t = IF r.tail = Cap - 1 THEN 0 ELSE r.tail + 1
    BY <1>1, NextPlace
  <2>3. t = (r.head + (r.count + 1)) % Cap
    BY <1>1, <1>4, EndMoves DEF Sound
  <2> HIDE DEF t
  <2>4. /\ p \in Rings
        /\ p.slots = [r.slots EXCEPT ![r.tail] = m] /\ p.head = r.head
        /\ p.count = r.count + 1 /\ p.tail = t
    <3>1. p = [r EXCEPT !.slots[r.tail] = m, !.tail = t, !.count = @ + 1]
      BY <2>1 DEF t
    <3>2. t \in 0..(Cap - 1) /\ r.count + 1 \in 0..Cap
      BY <1>1, <1>4, <2>2
    <3>3. [r.slots EXCEPT ![r.tail] = m] \in [0..(Cap - 1) -> Messages \cup {NoMsg}]
      BY <1>1
    <3> HIDE DEF p
    <3>4. QED BY <1>1, <3>1, <3>2, <3>3 DEF Rings
  <2> HIDE DEF p
  <2>5. r.tail = IF r.head + r.count < Cap THEN r.head + r.count ELSE r.head + r.count - Cap
    BY TailPlace
  <2>6. At(r, r.count + 1) = r.tail
    <3>1. r.count + 1 \in 1..Cap
      BY <1>1, <1>4
    <3>2. At(r, r.count + 1) = IF r.head + (r.count + 1) - 1 < Cap THEN r.head + (r.count + 1) - 1
                               ELSE r.head + (r.count + 1) - 1 - Cap
      BY <1>1, <3>1, AtPlace
    <3>3. QED BY <1>1, <2>5, <3>2
  <2>7. Sound(p)
    BY <2>3, <2>4 DEF Sound
  <2>8. \A k \in 1..r.count : At(p, k) = At(r, k) /\ At(r, k) # r.tail /\ At(r, k) \in 0..(Cap - 1)
    <3> SUFFICES ASSUME NEW k \in 1..r.count
                 PROVE  At(p, k) = At(r, k) /\ At(r, k) # r.tail /\ At(r, k) \in 0..(Cap - 1)
      OBVIOUS
    <3>1. k \in 1..Cap
      BY <1>1
    <3>2. At(r, k) = IF r.head + k - 1 < Cap THEN r.head + k - 1 ELSE r.head + k - 1 - Cap
      BY <1>1, <3>1, AtPlace
    <3>3. At(r, k) # r.tail
      BY <1>1, <1>4, <2>5, <3>2
    <3>4. At(p, k) = At(r, k)
      BY <2>4 DEF At
    <3>5. QED BY <1>1, <3>1, <3>3, <3>4, AtPlace
  <2>9. At(p, r.count + 1) = r.tail
    BY <2>4, <2>6 DEF At
  <2>10. Waiting(p) = Append(Waiting(r), m)
    <3> DEFINE q == Waiting(r)
    <3>1. q \in Seq(Messages \cup {NoMsg}) /\ Len(q) = r.count
          /\ \A k \in 1..r.count : q[k] = r.slots[At(r, k)]
      BY WaitingSeq
    <3> HIDE DEF q
    <3>2. \A k \in 1..r.count : p.slots[At(p, k)] = q[k]
      BY <1>1, <2>4, <2>8, <3>1
    <3>3. p.slots[At(p, r.count + 1)] = m
      BY <1>1, <2>4, <2>9
    <3>4. Append(q, m) = [k \in 1..(r.count + 1) |-> IF k = r.count + 1 THEN m ELSE q[k]]
      <4>1. /\ Append(q, m) \in Seq(Messages \cup {NoMsg}) /\ Len(Append(q, m)) = r.count + 1
            /\ \A k \in 1..r.count : Append(q, m)[k] = q[k]
            /\ Append(q, m)[r.count + 1] = m
        BY <1>1, <3>1, AppendProperties
      <4>2. Append(q, m) = [k \in 1..(r.count + 1) |-> Append(q, m)[k]]
        BY <4>1, LenProperties
      <4>3. \A k \in 1..(r.count + 1) :
              Append(q, m)[k] = IF k = r.count + 1 THEN m ELSE q[k]
        BY <1>1, <4>1
      <4>4. QED BY <4>2, <4>3
    <3>5. \A k \in 1..(r.count + 1) : p.slots[At(p, k)] = IF k = r.count + 1 THEN m ELSE q[k]
      BY <1>1, <3>2, <3>3
    <3>6. Waiting(p) = [k \in 1..(r.count + 1) |-> IF k = r.count + 1 THEN m ELSE q[k]]
      BY <2>4, <3>5 DEF Waiting
    <3>7. QED BY <3>4, <3>6 DEF q
  <2>11. Abstract!PostOne(Waiting(r), m) = Append(Waiting(r), m)
    BY <1>1, <1>2, <1>4 DEF Abstract!PostOne
  <2>12. QED BY <2>7, <2>10, <2>11 DEF p
<1>5. QED BY <1>1, <1>3, <1>4

\* The messages after the one that is taken move down one place each.
LEMMA ShiftPlace ==
  ASSUME NEW r \in Rings, NEW k \in 1..r.count, NEW j \in 1..(r.count - 1)
  PROVE  /\ (\E i \in k..(r.count - 1) : At(r, j) = At(r, i)) <=> k <= j
         /\ (At(r, j) + 1) % Cap = At(r, j + 1)
         /\ At(r, j) \in 0..(Cap - 1) /\ At(r, j + 1) \in 0..(Cap - 1)
<1>1. /\ r.head \in 0..(Cap - 1) /\ r.count \in 0..Cap /\ Cap \in Nat \ {0}
      /\ j \in 1..Cap /\ j + 1 \in 1..Cap
  BY MsgQueueAssumption DEF Rings
<1>2. /\ At(r, j) \in 0..(Cap - 1) /\ At(r, j + 1) \in 0..(Cap - 1)
      /\ At(r, j) = IF r.head + j - 1 < Cap THEN r.head + j - 1 ELSE r.head + j - 1 - Cap
  BY <1>1, AtPlace
<1>3. At(r, j + 1) = IF r.head + (j + 1) - 1 < Cap THEN r.head + (j + 1) - 1
                     ELSE r.head + (j + 1) - 1 - Cap
  BY <1>1, AtPlace
<1>4. (At(r, j) + 1) % Cap = At(r, j + 1)
  <2> DEFINE x == At(r, j)
             y == (x + 1) % Cap
  <2>1. y = IF x = Cap - 1 THEN 0 ELSE x + 1
    BY <1>2, NextPlace
  <2> HIDE DEF y
  <2>2. y = At(r, j + 1)
    BY <1>1, <1>2, <1>3, <2>1
  <2>3. QED BY <2>2 DEF y
<1>5. ASSUME NEW i \in k..(r.count - 1), At(r, j) = At(r, i) PROVE k <= j
  <2>1. i \in 1..Cap
    BY <1>1
  <2>2. At(r, i) = IF r.head + i - 1 < Cap THEN r.head + i - 1 ELSE r.head + i - 1 - Cap
    BY <2>1, AtPlace
  <2>3. i = j
    BY <1>1, <1>2, <1>5, <2>1, <2>2
  <2>4. QED BY <1>1, <2>3
<1>6. ASSUME k <= j PROVE j \in k..(r.count - 1)
  BY <1>1, <1>6
<1>7. QED BY <1>2, <1>4, <1>5, <1>6

\* Taking the k-th message out leaves the others, in their order.
LEMMA RemoveFields ==
  ASSUME NEW r, Sound(r), NEW k \in 1..r.count
  PROVE  /\ Sound(Remove(r, k))
         /\ Remove(r, k).count = r.count - 1
         /\ \A j \in 1..(r.count - 1) :
              Remove(r, k).slots[At(Remove(r, k), j)]
                = IF j < k THEN r.slots[At(r, j)] ELSE r.slots[At(r, j + 1)]
<1> DEFINE p == Remove(r, k)
<1>1. /\ r.head \in 0..(Cap - 1) /\ r.tail \in 0..(Cap - 1) /\ r.count \in 1..Cap
      /\ r.slots \in [0..(Cap - 1) -> Messages \cup {NoMsg}]
      /\ Cap \in Nat \ {0} /\ r \in Rings /\ r.refused \in BOOLEAN
  BY MsgQueueAssumption DEF Sound, Rings
<1>2. CASE k = 1
  <2> DEFINE h == (r.head + 1) % Cap
  <2>1. h = (IF r.head = Cap - 1 THEN 0 ELSE r.head + 1)
    BY <1>1, NextPlace
  <2>2. p = [r EXCEPT !.head = h, !.count = @ - 1]
    BY <1>2 DEF Remove
  <2> HIDE DEF h, p
  <2>3. h \in 0..(Cap - 1) /\ r.count - 1 \in 0..Cap
    BY <1>1, <2>1
  <2>4. p \in Rings /\ p.slots = r.slots /\ p.head = h /\ p.tail = r.tail /\ p.count = r.count - 1
    BY <1>1, <2>2, <2>3 DEF Rings
  <2>5. Sound(p)
    <3> DEFINE x == h + (r.count - 1)
    <3>1. x \in 0..(2 * Cap - 1)
      BY <1>1, <2>3
    <3>2. r.tail = IF r.head + r.count < Cap THEN r.head + r.count ELSE r.head + r.count - Cap
      BY TailPlace
    <3>3. r.tail = IF x < Cap THEN x ELSE x - Cap
      BY <1>1, <2>1, <3>2, SMTT(30)
    <3> HIDE DEF x
    <3>4. r.tail = x % Cap
      BY <3>1, <3>3, Modulo
    <3>5. QED BY <2>4, <3>4 DEF x, Sound
  <2>6. ASSUME NEW j \in 1..(r.count - 1) PROVE At(p, j) = At(r, j + 1)
    <3>1. j \in 1..Cap /\ j + 1 \in 1..Cap
      BY <1>1
    <3>2. At(p, j) = IF h + j - 1 < Cap THEN h + j - 1 ELSE h + j - 1 - Cap
      BY <2>4, <3>1, AtPlace
    <3>3. At(r, j + 1) = IF r.head + (j + 1) - 1 < Cap THEN r.head + (j + 1) - 1
                         ELSE r.head + (j + 1) - 1 - Cap
      BY <1>1, <3>1, AtPlace
    <3>4. QED BY <1>1, <2>1, <3>1, <3>2, <3>3, SMTT(30)
  <2>7. \A j \in 1..(r.count - 1) : ~(j < k) /\ p.slots[At(p, j)] = r.slots[At(r, j + 1)]
    BY <1>1, <1>2, <2>4, <2>6
  <2>8. QED BY <2>4, <2>5, <2>7 DEF p
<1>3. CASE k # 1
  <2> DEFINE t == (r.tail - 1 + Cap) % Cap
             moved == [i \in 0..(Cap - 1) |->
                        IF \E j \in k..(r.count - 1) : i = At(r, j)
                        THEN r.slots[(i + 1) % Cap] ELSE r.slots[i]]
  <2>1. t = (IF r.tail = 0 THEN Cap - 1 ELSE r.tail - 1)
    BY <1>1, NextPlace
  <2>2. t = (r.head + (r.count - 1)) % Cap
    <3>1. r.count \in 0..Cap /\ 0 < r.count /\ r.tail = (r.head + r.count) % Cap
      BY <1>1 DEF Sound
    <3>2. QED BY <1>1, <3>1, EndMoves
  <2>3. p = [r EXCEPT !.slots = moved, !.tail = t, !.count = @ - 1]
    BY <1>3 DEF Remove
  <2>4. moved \in [0..(Cap - 1) -> Messages \cup {NoMsg}]
    <3> SUFFICES ASSUME NEW i \in 0..(Cap - 1) PROVE r.slots[(i + 1) % Cap] \in Messages \cup {NoMsg}
      BY <1>1
    <3> DEFINE y == (i + 1) % Cap
    <3>1. y = IF i = Cap - 1 THEN 0 ELSE i + 1
      BY NextPlace
    <3> HIDE DEF y
    <3>2. y \in 0..(Cap - 1)
      BY <1>1, <3>1
    <3>3. r.slots[y] \in Messages \cup {NoMsg}
      BY <1>1, <3>2
    <3>4. QED BY <3>3 DEF y
  <2> HIDE DEF t, moved, p
  <2>5. t \in 0..(Cap - 1) /\ r.count - 1 \in 0..Cap
    BY <1>1, <2>1
  <2>6. p \in Rings /\ p.slots = moved /\ p.head = r.head /\ p.tail = t /\ p.count = r.count - 1
    BY <1>1, <2>3, <2>4, <2>5 DEF Rings
  <2>7. Sound(p)
    BY <2>2, <2>6 DEF Sound
  <2>8. ASSUME NEW j \in 1..(r.count - 1)
        PROVE  p.slots[At(p, j)] = IF j < k THEN r.slots[At(r, j)] ELSE r.slots[At(r, j + 1)]
    <3>1. /\ (\E i \in k..(r.count - 1) : At(r, j) = At(r, i)) <=> k <= j
          /\ (At(r, j) + 1) % Cap = At(r, j + 1)
          /\ At(r, j) \in 0..(Cap - 1)
      BY <1>1, ShiftPlace
    <3>2. At(p, j) = At(r, j)
      BY <2>6 DEF At
    <3> DEFINE a == At(r, j)
    <3>3. moved[a] = IF \E i \in k..(r.count - 1) : a = At(r, i)
                     THEN r.slots[(a + 1) % Cap] ELSE r.slots[a]
      BY <3>1 DEF moved
    <3>4. moved[a] = IF k <= j THEN r.slots[At(r, j + 1)] ELSE r.slots[a]
      BY <3>1, <3>3
    <3>5. (j < k) <=> ~(k <= j)
      OBVIOUS
    <3>6. QED BY <2>6, <3>2, <3>4, <3>5
  <2>9. QED BY <2>6, <2>7, <2>8 DEF p
<1>4. QED BY <1>2, <1>3

LEMMA RemoveSound ==
  ASSUME NEW r, Sound(r), NEW k \in 1..r.count
  PROVE  /\ Sound(Remove(r, k))
         /\ Waiting(Remove(r, k)) = Abstract!Without(Waiting(r), k)
<1> DEFINE p == Remove(r, k)
           q == Waiting(r)
           n == r.count
<1>1. /\ Sound(p) /\ p.count = n - 1
      /\ \A j \in 1..(n - 1) :
           p.slots[At(p, j)] = IF j < k THEN r.slots[At(r, j)] ELSE r.slots[At(r, j + 1)]
  BY RemoveFields
<1>2. /\ q \in Seq(Messages \cup {NoMsg}) /\ Len(q) = n /\ n \in Nat
      /\ \A j \in 1..n : q[j] = r.slots[At(r, j)]
  BY WaitingSeq
<1>3. Waiting(p) = [j \in 1..(n - 1) |-> p.slots[At(p, j)]]
  <2> HIDE DEF p, n
  <2> QED BY <1>1 DEF Waiting
<1> HIDE DEF p, q
<1>4. \A j \in 1..(n - 1) : p.slots[At(p, j)] = IF j < k THEN q[j] ELSE q[j + 1]
  <2> HIDE DEF n
  <2>1. k \in 1..n
    BY DEF n
  <2>2. \A j \in 1..(n - 1) : j \in 1..n /\ j + 1 \in 1..n
    BY <1>2
  <2>3. QED BY <1>1, <1>2, <2>2
<1>5. Waiting(p) = [j \in 1..(n - 1) |-> IF j < k THEN q[j] ELSE q[j + 1]]
  BY <1>3, <1>4
<1>6. Abstract!Without(q, k) = [j \in 1..(n - 1) |-> IF j < k THEN q[j] ELSE q[j + 1]]
  <2> HIDE DEF n
  <2>1. k \in 1..n
    BY DEF n
  <2> DEFINE a == SubSeq(q, 1, k - 1)
             b == SubSeq(q, k + 1, n)
             c == a \o b
             M == Messages \cup {NoMsg}
  <2>2. /\ a \in Seq(M) /\ Len(a) = k - 1
        /\ \A j \in 1..(k - 1) : a[j] = q[j]
    BY <1>2, <2>1, SubSeqProperties
  <2>3. /\ b \in Seq(M) /\ Len(b) = n - k
        /\ \A j \in 1..(n - k) : b[j] = q[k + j]
    BY <1>2, <2>1, SubSeqProperties
  <2> HIDE DEF a, b, M
  <2>4. /\ c \in Seq(M) /\ Len(c) = n - 1
        /\ \A j \in 1..(n - 1) : c[j] = IF j <= k - 1 THEN a[j] ELSE b[j - (k - 1)]
    <3>1. Len(a) + Len(b) = n - 1
      BY <1>2, <2>1, <2>2, <2>3
    <3>2. /\ c \in Seq(M) /\ Len(c) = Len(a) + Len(b)
          /\ \A j \in 1..(Len(a) + Len(b)) : c[j] = IF j <= Len(a) THEN a[j] ELSE b[j - Len(a)]
      BY <2>2, <2>3, ConcatProperties
    <3>3. QED BY <2>2, <3>1, <3>2
  <2> HIDE DEF c
  <2>5. ASSUME NEW j \in 1..(n - 1) PROVE c[j] = IF j < k THEN q[j] ELSE q[j + 1]
    <3>1. CASE j < k
      <4>1. j \in 1..(k - 1) /\ j <= k - 1
        BY <1>2, <2>1, <3>1
      <4>2. QED BY <2>2, <2>4, <3>1, <4>1
    <3>2. CASE ~(j < k)
      <4>1. j - (k - 1) \in 1..(n - k) /\ ~(j <= k - 1) /\ k + (j - (k - 1)) = j + 1
        BY <1>2, <2>1, <3>2
      <4>2. b[j - (k - 1)] = q[j + 1]
        BY <2>3, <4>1
      <4>3. QED BY <2>4, <3>2, <4>1, <4>2
    <3>3. QED BY <3>1, <3>2
  <2>6. c = [j \in 1..(n - 1) |-> c[j]]
    BY <2>4, LenProperties
  <2>7. c = [j \in 1..(n - 1) |-> IF j < k THEN q[j] ELSE q[j + 1]]
    BY <2>5, <2>6
  <2>8. Abstract!Without(q, k) = c
    BY <1>2 DEF Abstract!Without, a, b, c
  <2>9. QED BY <2>7, <2>8
<1>7. QED BY <1>1, <1>5, <1>6 DEF p, q

\* The search through the ring is the one through the queue.
LEMMA FirstOldest ==
  ASSUME NEW r, Sound(r), NEW f
  PROVE  /\ FirstMatch(r, f) = Abstract!Oldest(Waiting(r), f)
         /\ \A k \in FirstMatch(r, f) : k \in 1..r.count /\ Waiting(r)[k] = r.slots[At(r, k)]
<1> DEFINE q == Waiting(r)
<1>1. /\ Len(q) = r.count /\ r.count \in Nat
      /\ \A j \in 1..r.count : q[j] = r.slots[At(r, j)]
  BY WaitingSeq
<1> HIDE DEF q
<1>2. Hits(r, f) = {k \in 1..r.count : Matches(q[k], f)}
  BY <1>1 DEF Hits
<1>3. Abstract!Oldest(q, f)
        = {k \in 1..r.count : Matches(q[k], f) /\ \A j \in 1..(k - 1) : ~Matches(q[j], f)}
  BY <1>1 DEF Abstract!Oldest
<1>4. ASSUME NEW k \in 1..r.count
      PROVE  (\A j \in Hits(r, f) : k <= j) <=> (\A j \in 1..(k - 1) : ~Matches(q[j], f))
  <2>1. \A j \in 1..(k - 1) : j \in 1..r.count /\ ~(k <= j)
    BY <1>1
  <2>2. \A j \in 1..r.count : k <= j \/ j \in 1..(k - 1)
    BY <1>1
  <2>3. QED BY <1>2, <2>1, <2>2
<1>5. FirstMatch(r, f) = Abstract!Oldest(q, f)
  BY <1>2, <1>3, <1>4 DEF FirstMatch
<1>6. \A k \in FirstMatch(r, f) : k \in 1..r.count
  BY <1>2 DEF FirstMatch
<1>7. QED BY <1>1, <1>5, <1>6 DEF q

-----------------------------------------------------------------------------
(* The state: its ring, and the rest of its type.                           *)
RestOK ==
  /\ focus \in FocusArgs \cup {Desktop} /\ active \in ActiveArgs \cup {Desktop}
  /\ visible \subseteq Tree /\ needPaint \subseteq Tree
  /\ display \in {"none", "on", "quit", "stopped"}
  /\ waiting \in Filters \cup {NoFilter} /\ asked \in Filters \cup {NoFilter}
  /\ answer \in Messages \cup {NoMsg} \cup {Msg(w, WM_PAINT) : w \in Windows}

LEMMA RingIs ==
  /\ QueueSound <=> RestOK /\ Sound(Ring)
  /\ Contents = Waiting(Ring)
<1>1. /\ Ring.slots = slots /\ Ring.head = head /\ Ring.tail = tail /\ Ring.count = count
  BY DEF Ring
<1>2. Contents = Waiting(Ring)
  BY <1>1 DEF Contents, Waiting
<1>3. Ring \in Rings <=> /\ slots \in [0..(Cap - 1) -> Messages \cup {NoMsg}]
                        /\ head \in 0..(Cap - 1) /\ tail \in 0..(Cap - 1)
                        /\ count \in 0..Cap /\ refused \in BOOLEAN
  BY DEF Ring, Rings
<1>4. QueueSound <=> RestOK /\ Sound(Ring)
  BY <1>1, <1>3 DEF QueueSound, TypeOK, RingSound, RestOK, Sound
<1>5. QED BY <1>2, <1>4

LEMMA SetIs ==
  ASSUME NEW R, Sound(R), SetRing(R), RestOK'
  PROVE  QueueSound' /\ Contents' = Waiting(R)
<1>1. /\ slots' = R.slots /\ head' = R.head /\ tail' = R.tail /\ count' = R.count
      /\ refused' = R.refused
  BY DEF SetRing
<1>2. Contents' = Waiting(R)
  BY <1>1 DEF Contents, Waiting, Ring, At
<1>3. TypeOK' /\ RingSound'
  BY <1>1 DEF Sound, Rings, TypeOK, RingSound, RestOK
<1>4. QED BY <1>2, <1>3 DEF QueueSound

LEMMA InitSound == Init => QueueSound /\ Abstract!Init
<1> SUFFICES ASSUME Init PROVE QueueSound /\ Abstract!Init
  OBVIOUS
<1>1. Cap \in Nat \ {0}
  BY MsgQueueAssumption
<1>2. (head + count) % Cap = 0
  <2>1. head + count = 0 /\ 0 \in 0..(Cap - 1)
    BY <1>1 DEF Init
  <2>2. 0 % Cap = 0
    BY <2>1, Stays
  <2>3. QED BY <2>1, <2>2
<1>3. RingSound
  BY <1>2 DEF Init, RingSound
<1>4. TypeOK
  <2>1. slots \in [0..(Cap - 1) -> Messages \cup {NoMsg}]
    BY DEF Init
  <2>2. head \in 0..(Cap - 1) /\ tail \in 0..(Cap - 1) /\ count \in 0..Cap
    BY <1>1 DEF Init
  <2>3. visible \subseteq Tree /\ needPaint \subseteq Tree
    BY MsgQueueAssumption DEF Init
  <2>4. /\ focus = Desktop /\ active = Desktop /\ display \in {"none", "on"}
        /\ waiting = NoFilter /\ asked = NoFilter /\ answer = NoMsg /\ refused = FALSE
    BY DEF Init
  <2>5. QED BY <2>1, <2>2, <2>3, <2>4 DEF TypeOK
<1>5. Contents = << >>
  BY DEF Init, Contents
<1>6. QED BY <1>3, <1>4, <1>5 DEF QueueSound, Abstract!Init, Init

-----------------------------------------------------------------------------
(* Calls that put messages in: none, one or two.                            *)
PostsSome(R) ==
  \/ R = Ring
  \/ \E m \in Messages : R = PostTo(Ring, m)
  \/ \E m, n \in Messages : R = PostTo(PostTo(Ring, m), n)

LEMMA PostsMap ==
  ASSUME QueueSound, NEW R, PostsSome(R), SetRing(R), asked' = NoFilter, answer' = NoMsg, RestOK'
  PROVE  QueueSound' /\ Abstract!Next
<1>1. Sound(Ring) /\ Contents = Waiting(Ring)
  BY RingIs
<1>2. CASE R = Ring
  <2>1. QueueSound' /\ Contents' = Contents
    BY <1>1, <1>2, SetIs
  <2>2. QED BY <2>1 DEF Abstract!Next, Abstract!Post
<1>3. CASE \E m \in Messages : R = PostTo(Ring, m)
  <2>1. PICK m \in Messages : R = PostTo(Ring, m)
    BY <1>3
  <2>2. Sound(R) /\ Waiting(R) = Abstract!PostOne(Contents, m)
    BY <1>1, <2>1, PostSound
  <2>3. QueueSound' /\ Contents' = Abstract!PostOne(Contents, m)
    BY <2>2, SetIs
  <2>4. Abstract!Post
    BY <2>3 DEF Abstract!Post
  <2>5. QED BY <2>3, <2>4 DEF Abstract!Next
<1>4. CASE \E m, n \in Messages : R = PostTo(PostTo(Ring, m), n)
  <2>1. PICK m \in Messages, n \in Messages : R = PostTo(PostTo(Ring, m), n)
    BY <1>4
  <2> DEFINE one == PostTo(Ring, m)
  <2>2. Sound(one) /\ Waiting(one) = Abstract!PostOne(Contents, m)
    BY <1>1, PostSound
  <2> HIDE DEF one
  <2>3. Sound(PostTo(one, n)) /\ Waiting(PostTo(one, n)) = Abstract!PostOne(Waiting(one), n)
    BY <2>2, PostSound
  <2>4. R = PostTo(one, n)
    BY <2>1 DEF one
  <2>5. Sound(R) /\ Waiting(R) = Abstract!PostOne(Abstract!PostOne(Contents, m), n)
    BY <2>2, <2>3, <2>4
  <2>6. QueueSound' /\ Contents' = Abstract!PostOne(Abstract!PostOne(Contents, m), n)
    BY <2>5, SetIs
  <2>7. Abstract!Post
    BY <2>6 DEF Abstract!Post
  <2>8. QED BY <2>6, <2>7 DEF Abstract!Next
<1>5. QED BY <1>2, <1>3, <1>4 DEF PostsSome

\* Calls that leave the ring alone.
LEMMA SameRing ==
  ASSUME UNCHANGED <<slots, head, tail, count, refused>>
  PROVE  SetRing(Ring) /\ PostsSome(Ring)
BY DEF SetRing, Ring, PostsSome

\* A change of focus or of activation tells two windows at most.
LEMMA ToldPosts ==
  ASSUME NEW old, NEW new, NEW lose, NEW gain,
         old # Desktop => Msg(old, lose) \in Messages,
         new # Desktop => Msg(new, gain) \in Messages
  PROVE  PostsSome(Told(Ring, old, new, lose, gain))
BY DEF Told, PostsSome

LEMMA MessageKinds ==
  /\ Msg(Desktop, WM_QUIT) \in Messages
  /\ \A h \in ShowArgs : Msg(h, WM_SHOWWINDOW) \in Messages /\ Msg(h, WM_SIZE) \in Messages
  /\ \A h \in FocusArgs : Msg(h, WM_SETFOCUS) \in Messages /\ Msg(h, WM_KILLFOCUS) \in Messages
  /\ \A h \in KeyArgs : Msg(h, WM_CHAR) \in Messages
  /\ \A h \in ActiveArgs : Msg(h, WM_ACTIVATE) \in Messages
  /\ \A h \in CloseArgs : Msg(h, WM_DESTROY) \in Messages
  /\ Posts \subseteq Messages
BY DEF Messages

\* What a call that only posts leaves of the rest of the state.
LEMMA ReturnsRest ==
  ASSUME RestOK, Returns,
         focus' \in FocusArgs \cup {Desktop}, active' \in ActiveArgs \cup {Desktop},
         visible' \subseteq Tree, needPaint' \subseteq Tree
  PROVE  RestOK' /\ asked' = NoFilter /\ answer' = NoMsg
BY DEF RestOK, Returns

LEMMA PostingMaps ==
  ASSUME QueueSound, NEW R, PostsSome(R), SetRing(R), Returns,
         focus' \in FocusArgs \cup {Desktop}, active' \in ActiveArgs \cup {Desktop},
         visible' \subseteq Tree, needPaint' \subseteq Tree
  PROVE  QueueSound' /\ Abstract!Next
<1>1. RestOK
  BY RingIs
<1>2. RestOK' /\ asked' = NoFilter /\ answer' = NoMsg
  BY <1>1, ReturnsRest
<1>3. QED BY <1>2, PostsMap

\* One message, the rest unchanged.
LEMMA OnePosted ==
  ASSUME QueueSound, NEW m \in Messages, SetRing(PostTo(Ring, m)), Returns,
         UNCHANGED <<focus, active, visible, needPaint>>
  PROVE  QueueSound' /\ Abstract!Next
<1>1. PostsSome(PostTo(Ring, m))
  BY DEF PostsSome
<1>2. RestOK
  BY RingIs
<1>3. /\ focus' \in FocusArgs \cup {Desktop} /\ active' \in ActiveArgs \cup {Desktop}
      /\ visible' \subseteq Tree /\ needPaint' \subseteq Tree
  BY <1>2 DEF RestOK
<1>4. QED BY <1>1, <1>3, PostingMaps

LEMMA CloseMaps ==
  ASSUME QueueSound, NEW h \in CloseArgs, DefWndProcClose(h)
  PROVE  QueueSound' /\ Abstract!Next
<1> DEFINE R == IF WndOf(h) = NoWnd THEN Ring ELSE PostTo(Ring, Msg(h, WM_DESTROY))
<1>1. SetRing(R) /\ Returns /\ UNCHANGED <<focus, active, visible, needPaint>>
  BY DEF DefWndProcClose
<1>2. PostsSome(R)
  BY MessageKinds DEF PostsSome
<1>3. RestOK
  BY RingIs
<1> HIDE DEF R
<1>4. /\ focus' \in FocusArgs \cup {Desktop} /\ active' \in ActiveArgs \cup {Desktop}
      /\ visible' \subseteq Tree /\ needPaint' \subseteq Tree
  BY <1>1, <1>3 DEF RestOK
<1>5. QED BY <1>1, <1>2, <1>4, PostingMaps

LEMMA ShowMaps ==
  ASSUME QueueSound, NEW h \in ShowArgs, ShowWindow(h)
  PROVE  QueueSound' /\ Abstract!Next
<1> DEFINE w == WndOf(h)
           fresh == w # NoWnd /\ w \notin visible
           R == IF fresh THEN PostTo(PostTo(Ring, Msg(h, WM_SHOWWINDOW)), Msg(h, WM_SIZE))
                         ELSE Ring
<1>1. /\ SetRing(R) /\ Returns /\ UNCHANGED <<focus, active>>
      /\ visible' = visible \/ (w # NoWnd /\ visible' = visible \cup {w})
      /\ needPaint' = needPaint \/ (w # NoWnd /\ needPaint' = needPaint \cup {w})
  BY DEF ShowWindow
<1>2. PostsSome(R)
  BY MessageKinds DEF PostsSome
<1>3. RestOK
  BY RingIs
<1>4. w # NoWnd => w \in Tree
  BY DEF WndOf
<1> HIDE DEF R, w
<1>5. /\ focus' \in FocusArgs \cup {Desktop} /\ active' \in ActiveArgs \cup {Desktop}
      /\ visible' \subseteq Tree /\ needPaint' \subseteq Tree
  BY <1>1, <1>3, <1>4 DEF RestOK
<1>6. QED BY <1>1, <1>2, <1>5, PostingMaps

LEMMA HideMaps ==
  ASSUME QueueSound, NEW h \in ShowArgs, HideWindow(h)
  PROVE  QueueSound' /\ Abstract!Next
<1>1. SetRing(Ring) /\ PostsSome(Ring) /\ Returns
  BY SameRing DEF HideWindow
<1>2. RestOK
  BY RingIs
<1>3. /\ focus' \in FocusArgs \cup {Desktop} /\ active' \in ActiveArgs \cup {Desktop}
      /\ visible' \subseteq Tree /\ needPaint' \subseteq Tree
  BY <1>2 DEF RestOK, HideWindow
<1>4. QED BY <1>1, <1>3, PostingMaps

LEMMA FocusMaps ==
  ASSUME QueueSound, NEW h \in FocusArgs, SetFocus(h)
  PROVE  QueueSound' /\ Abstract!Next
<1> DEFINE R == IF focus = h THEN Ring ELSE Told(Ring, focus, h, WM_KILLFOCUS, WM_SETFOCUS)
<1>1. RestOK
  BY RingIs
<1>2. SetRing(R) /\ Returns /\ focus' = h /\ UNCHANGED <<active, visible, needPaint>>
  BY DEF SetFocus
<1>3. PostsSome(R)
  <2>1. PostsSome(Ring)
    BY DEF PostsSome
  <2>2. focus # Desktop => Msg(focus, WM_KILLFOCUS) \in Messages
    BY <1>1, MessageKinds DEF RestOK
  <2>3. h # Desktop => Msg(h, WM_SETFOCUS) \in Messages
    BY MessageKinds
  <2>4. PostsSome(Told(Ring, focus, h, WM_KILLFOCUS, WM_SETFOCUS))
    BY <2>2, <2>3, ToldPosts
  <2>5. QED BY <2>1, <2>4
<1> HIDE DEF R
<1>4. /\ focus' \in FocusArgs \cup {Desktop} /\ active' \in ActiveArgs \cup {Desktop}
      /\ visible' \subseteq Tree /\ needPaint' \subseteq Tree
  BY <1>1, <1>2 DEF RestOK
<1>5. QED BY <1>2, <1>3, <1>4, PostingMaps

LEMMA ActiveMaps ==
  ASSUME QueueSound, NEW h \in ActiveArgs, SetActiveWindow(h)
  PROVE  QueueSound' /\ Abstract!Next
<1> DEFINE R == IF active = h THEN Ring ELSE Told(Ring, active, h, WM_ACTIVATE, WM_ACTIVATE)
<1>1. RestOK
  BY RingIs
<1>2. SetRing(R) /\ Returns /\ active' = h /\ UNCHANGED <<focus, visible, needPaint>>
  BY DEF SetActiveWindow
<1>3. PostsSome(R)
  <2>1. PostsSome(Ring)
    BY DEF PostsSome
  <2>2. active # Desktop => Msg(active, WM_ACTIVATE) \in Messages
    BY <1>1, MessageKinds DEF RestOK
  <2>3. h # Desktop => Msg(h, WM_ACTIVATE) \in Messages
    BY MessageKinds
  <2>4. PostsSome(Told(Ring, active, h, WM_ACTIVATE, WM_ACTIVATE))
    BY <2>2, <2>3, ToldPosts
  <2>5. QED BY <2>1, <2>4
<1> HIDE DEF R
<1>4. /\ focus' \in FocusArgs \cup {Desktop} /\ active' \in ActiveArgs \cup {Desktop}
      /\ visible' \subseteq Tree /\ needPaint' \subseteq Tree
  BY <1>1, <1>2 DEF RestOK
<1>5. QED BY <1>2, <1>3, <1>4, PostingMaps

LEMMA StopMaps ==
  ASSUME QueueSound, VmStops
  PROVE  QueueSound' /\ Abstract!Next
<1>1. SetRing(Ring) /\ PostsSome(Ring) /\ asked' = NoFilter /\ answer' = NoMsg
  BY SameRing DEF VmStops
<1>2. RestOK'
  BY RingIs DEF RestOK, VmStops
<1>3. QED BY <1>1, <1>2, PostsMap

-----------------------------------------------------------------------------
(* Calls that take messages out.                                            *)

\* A message made up on demand passes the filter it was made up for.
LEMMA PaintFits ==
  ASSUME NEW f
  PROVE  /\ PaintFor(f) \in {Msg(w, WM_PAINT) : w \in Windows} \cup {NoMsg}
         /\ PaintFor(f) # NoMsg => Matches(PaintFor(f), f)
<1> DEFINE w == FindWindowNeedingPaint
           made == /\ (f.min = 0 /\ f.max = 0) \/ WM_PAINT \in f.min..f.max
                   /\ w \in Windows
                   /\ f.hwnd \in {Desktop, w}
<1>1. PaintFor(f) = IF made THEN Msg(w, WM_PAINT) ELSE NoMsg
  BY DEF PaintFor
<1> HIDE DEF w
<1>2. CASE ~made
  BY <1>1, <1>2
<1>3. CASE made
  <2>1. Msg(w, WM_PAINT).hwnd = w /\ Msg(w, WM_PAINT).message = WM_PAINT
    BY DEF Msg
  <2>2. Matches(Msg(w, WM_PAINT), f)
    BY <1>3, <2>1 DEF Matches
  <2>3. QED BY <1>1, <1>3, <2>2
<1>4. QED BY <1>2, <1>3

LEMMA PolledIs ==
  ASSUME QueueSound
  PROVE  LET r == Polled(Ring)
         IN  /\ Sound(r)
             /\ \/ Waiting(r) = Contents
                \/ Waiting(r) = Abstract!PostOne(Contents, Msg(Desktop, WM_QUIT))
<1>1. Sound(Ring) /\ Contents = Waiting(Ring)
  BY RingIs
<1>2. CASE display' = "quit"
  BY <1>1, <1>2, PostSound, MessageKinds DEF Polled
<1>3. CASE display' # "quit"
  BY <1>1, <1>3 DEF Polled
<1>4. QED BY <1>2, <1>3

LEMMA PeekMaps ==
  ASSUME QueueSound, NEW f \in Filters, NEW remove \in BOOLEAN, Poll,
         Peek(Polled(Ring), f, remove),
         UNCHANGED <<focus, active, visible, needPaint>>,
         waiting' \in Filters \cup {NoFilter}
  PROVE  QueueSound' /\ Abstract!Next
<1> DEFINE r == Polled(Ring)
           q == Waiting(r)
           quit == Msg(Desktop, WM_QUIT)
<1>1. Sound(r) /\ (q = Contents \/ q = Abstract!PostOne(Contents, quit))
  BY PolledIs
<1>2. /\ FirstMatch(r, f) = Abstract!Oldest(q, f)
      /\ \A k \in FirstMatch(r, f) : k \in 1..r.count /\ q[k] = r.slots[At(r, k)]
  BY <1>1, FirstOldest
<1>3. \A k \in 1..r.count : r.slots[At(r, k)] \in Messages \cup {NoMsg}
  <2> HIDE DEF r
  <2> SUFFICES ASSUME NEW k \in 1..r.count PROVE r.slots[At(r, k)] \in Messages \cup {NoMsg}
    OBVIOUS
  <2>1. k \in 1..Cap /\ r \in Rings
    BY <1>1, MsgQueueAssumption DEF Sound, Rings
  <2>2. QED BY <2>1, AtPlace DEF Rings
<1>4. ASSUME answer' \in Messages \cup {NoMsg} \cup {Msg(w, WM_PAINT) : w \in Windows}
      PROVE  RestOK'
  <2>1. RestOK
    BY RingIs
  <2>2. display' \in {"none", "on", "quit", "stopped"}
    BY <2>1 DEF RestOK, Poll
  <2>3. asked' \in Filters \cup {NoFilter}
    BY DEF Peek
  <2>4. QED BY <1>4, <2>1, <2>2, <2>3 DEF RestOK
<1>5. asked' = f
  BY DEF Peek
<1> HIDE DEF r
<1>6. ASSUME NEW k \in FirstMatch(r, f), answer' = r.slots[At(r, k)],
             SetRing(IF remove THEN Remove(r, k) ELSE r)
      PROVE  QueueSound' /\ Abstract!Answer(q, f, remove)
  <2>1. k \in 1..r.count /\ q[k] = r.slots[At(r, k)] /\ k \in Abstract!Oldest(q, f)
    BY <1>2
  <2>2. RestOK'
    BY <1>3, <1>4, <1>6, <2>1
  <2>3. Sound(Remove(r, k)) /\ Waiting(Remove(r, k)) = Abstract!Without(q, k)
    BY <1>1, <2>1, RemoveSound
  <2>4. QueueSound' /\ Contents' = IF remove THEN Abstract!Without(q, k) ELSE q
    <3>1. CASE remove
      BY <1>6, <2>2, <2>3, <3>1, SetIs
    <3>2. CASE ~remove
      BY <1>1, <1>6, <2>2, <3>2, SetIs
    <3>3. QED BY <3>1, <3>2
  <2>5. answer' = q[k]
    BY <1>6, <2>1
  <2> HIDE DEF q
  <2>6. QED BY <2>1, <2>4, <2>5 DEF Abstract!Answer
<1>7. ASSUME FirstMatch(r, f) = {}, answer' = PaintFor(f), SetRing(r)
      PROVE  QueueSound' /\ Abstract!Answer(q, f, remove)
  <2>1. /\ answer' \in {Msg(w, WM_PAINT) : w \in Windows} \cup {NoMsg}
        /\ answer' # NoMsg => Matches(answer', f)
    BY <1>7, PaintFits
  <2>2. RestOK'
    BY <1>4, <2>1
  <2>3. QueueSound' /\ Contents' = q
    BY <1>1, <1>7, <2>2, SetIs
  <2>4. Abstract!Oldest(q, f) = {}
    BY <1>2, <1>7
  <2> HIDE DEF q
  <2>5. QED BY <2>1, <2>3, <2>4 DEF Abstract!Answer
<1>8. QueueSound' /\ Abstract!Answer(q, f, remove)
  BY <1>6, <1>7 DEF Peek, r
<1> HIDE DEF q
<1>9. Abstract!Ask(f, remove)
  BY <1>1, <1>5, <1>8 DEF Abstract!Ask
<1>10. QED BY <1>8, <1>9 DEF Abstract!Next

LEMMA RoundMaps ==
  ASSUME QueueSound, NEW f \in Filters, Round(f)
  PROVE  QueueSound' /\ Abstract!Next
<1>1. /\ Poll /\ Peek(Polled(Ring), f, TRUE) /\ waiting' \in Filters \cup {NoFilter}
      /\ UNCHANGED <<focus, active, visible, needPaint>>
  BY DEF Round
<1>2. QED BY <1>1, PeekMaps

LEMMA StepMaps ==
  QueueSound /\ [Next]_vars => QueueSound' /\ [Abstract!Next]_(Abstract!vars)
<1> SUFFICES ASSUME QueueSound, [Next]_vars
             PROVE  QueueSound' /\ [Abstract!Next]_(Abstract!vars)
  OBVIOUS
<1>1. RestOK
  BY RingIs
<1>2. ASSUME NEW m \in Posts, PostMessage(m) PROVE QueueSound' /\ Abstract!Next
  BY <1>2, OnePosted, MessageKinds DEF PostMessage
<1>3. ASSUME NEW h \in KeyArgs, TranslateMessage(h) PROVE QueueSound' /\ Abstract!Next
  BY <1>3, OnePosted, MessageKinds DEF TranslateMessage
<1>4. CASE PostQuitMessage
  BY <1>4, OnePosted, MessageKinds DEF PostQuitMessage
<1>5. CASE \E h \in CloseArgs : DefWndProcClose(h)
  BY <1>5, CloseMaps
<1>6. CASE \E h \in ShowArgs : ShowWindow(h) \/ HideWindow(h)
  BY <1>6, ShowMaps, HideMaps
<1>7. CASE \E h \in FocusArgs : SetFocus(h)
  BY <1>7, FocusMaps
<1>8. CASE \E h \in ActiveArgs : SetActiveWindow(h)
  BY <1>8, ActiveMaps
<1>9. ASSUME NEW f \in Filters, NEW remove \in BOOLEAN, PeekMessage(f, remove)
      PROVE  QueueSound' /\ Abstract!Next
  <2>1. waiting' \in Filters \cup {NoFilter}
    BY <1>1, <1>9 DEF PeekMessage, RestOK
  <2>2. QED BY <1>9, <2>1, PeekMaps DEF PeekMessage
<1>10. ASSUME NEW f \in Filters, GetMessage(f) PROVE QueueSound' /\ Abstract!Next
  BY <1>10, RoundMaps DEF GetMessage
<1>11. CASE GetMessageLoops
  BY <1>1, <1>11, RoundMaps DEF GetMessageLoops, RestOK
<1>12. CASE VmStops
  BY <1>12, StopMaps
<1>13. CASE UNCHANGED vars
  <2>1. SetRing(Ring) /\ RestOK' /\ Sound(Ring) /\ Contents = Waiting(Ring)
    BY <1>1, <1>13, RingIs DEF vars, SetRing, Ring, RestOK
  <2>2. QueueSound' /\ Contents' = Contents
    BY <2>1, SetIs
  <2>3. QED BY <1>13, <2>2 DEF vars, Abstract!vars
<1>14. QED BY <1>2, <1>3, <1>4, <1>5, <1>6, <1>7, <1>8, <1>9, <1>10, <1>11, <1>12, <1>13 DEF Next

-----------------------------------------------------------------------------
(* What the waiting messages say about the focus.                           *)

\* The guest posts no focus messages of its own, and no filter of its calls
\* lets one of the two numbers through and not the other.
FocusUnparted ==
  /\ \A m \in Posts : m.message \notin {WM_SETFOCUS, WM_KILLFOCUS}
  /\ \A f \in Filters : f.min # 0 \/ f.max # 0 =>
       (WM_SETFOCUS \in f.min..f.max <=> WM_KILLFOCUS \in f.min..f.max)

Nth(r, k) == r.slots[At(r, k)]

\* The last message for h says whether h has the focus, which is with foc.
Right(r, h, foc) ==
  \A k \in 1..r.count :
    TellsFocus(Nth(r, k), h) /\ (\A j \in (k + 1)..r.count : ~TellsFocus(Nth(r, j), h))
      => (Nth(r, k).message = WM_SETFOCUS <=> foc = h)

AllRight(r, foc) == ~r.refused => \A h \in FocusArgs \ {Desktop} : Right(r, h, foc)

LEMMA PostFields ==
  ASSUME NEW r, Sound(r), NEW m \in Messages, ~PostTo(r, m).refused
  PROVE  /\ ~r.refused /\ Sound(PostTo(r, m))
         /\ r.count \in Nat /\ PostTo(r, m).count = r.count + 1
         /\ \A k \in 1..r.count : Nth(PostTo(r, m), k) = Nth(r, k)
         /\ Nth(PostTo(r, m), r.count + 1) = m
<1> DEFINE p == PostTo(r, m)
           q == Waiting(r)
<1>1. ~(r.count >= Cap)
  <2>1. SUFFICES ASSUME r.count >= Cap PROVE p.refused
    OBVIOUS
  <2>2. p = [r EXCEPT !.refused = TRUE] /\ r \in Rings
    BY <2>1 DEF PostTo, Sound
  <2> HIDE DEF p
  <2>3. QED BY <2>2 DEF Rings
<1>2. p = [r EXCEPT !.slots[r.tail] = m, !.tail = (@ + 1) % Cap, !.count = @ + 1]
  BY <1>1 DEF PostTo
<1>3. p.refused = r.refused /\ p.count = r.count + 1
  <2>1. r \in Rings
    BY DEF Sound
  <2> HIDE DEF p
  <2>2. QED BY <1>2, <2>1 DEF Rings
<1>4. /\ q \in Seq(Messages \cup {NoMsg}) /\ Len(q) = r.count
      /\ r.count \in 0..Cap /\ Cap \in Nat
      /\ \A k \in 1..r.count : q[k] = Nth(r, k)
  BY WaitingSeq DEF Nth
<1>5. Sound(p) /\ Waiting(p) = Abstract!PostOne(q, m)
  BY PostSound
<1>6. \A k \in 1..p.count : Waiting(p)[k] = Nth(p, k)
  <2> HIDE DEF p
  <2> QED BY <1>5, WaitingSeq DEF Nth
<1> HIDE DEF p, q
<1>7. Waiting(p) = Append(q, m)
  BY <1>1, <1>4, <1>5 DEF Abstract!PostOne
<1>8. /\ \A k \in 1..r.count : Append(q, m)[k] = q[k]
      /\ Append(q, m)[r.count + 1] = m
  BY <1>4, AppendProperties
<1>9. ~r.refused /\ r.count \in Nat
  BY <1>3, <1>4 DEF p
<1>10. ASSUME NEW k \in 1..r.count PROVE Nth(p, k) = Nth(r, k)
  <2>1. k \in 1..p.count
    BY <1>3, <1>9
  <2>2. QED BY <1>4, <1>6, <1>7, <1>8, <2>1
<1>11. Nth(p, r.count + 1) = m
  <2>1. r.count + 1 \in 1..p.count
    BY <1>3, <1>9
  <2>2. QED BY <1>6, <1>7, <1>8, <2>1
<1>12. QED BY <1>3, <1>5, <1>9, <1>10, <1>11 DEF p

\* A post that tells h nothing, and one that tells it how things are.
LEMMA PostRight ==
  ASSUME NEW r, Sound(r), NEW m \in Messages, ~PostTo(r, m).refused, NEW h, NEW foc,
         \/ ~TellsFocus(m, h) /\ Right(r, h, foc)
         \/ TellsFocus(m, h) /\ (m.message = WM_SETFOCUS <=> foc = h)
  PROVE  Right(PostTo(r, m), h, foc)
<1> DEFINE p == PostTo(r, m)
           n == r.count
<1>1. /\ n \in Nat /\ p.count = n + 1
      /\ \A k \in 1..n : Nth(p, k) = Nth(r, k)
      /\ Nth(p, n + 1) = m
  BY PostFields
<1> HIDE DEF p, n
<1>2. SUFFICES ASSUME NEW k \in 1..(n + 1), TellsFocus(Nth(p, k), h),
                      \A j \in (k + 1)..(n + 1) : ~TellsFocus(Nth(p, j), h)
               PROVE  Nth(p, k).message = WM_SETFOCUS <=> foc = h
  BY <1>1 DEF Right, p
<1>3. CASE k = n + 1
  <2>1. TellsFocus(m, h) /\ Nth(p, k) = m
    BY <1>1, <1>2, <1>3
  <2>2. QED BY <2>1
<1>4. CASE k # n + 1
  <2>1. k \in 1..n /\ n + 1 \in (k + 1)..(n + 1)
    BY <1>1, <1>4
  <2>2. ~TellsFocus(m, h) /\ Nth(p, k) = Nth(r, k)
    BY <1>1, <1>2, <2>1
  <2>3. \A j \in (k + 1)..n : j \in (k + 1)..(n + 1) /\ j \in 1..n
    BY <1>1, <2>1
  <2>4. \A j \in (k + 1)..n : ~TellsFocus(Nth(r, j), h)
    BY <1>1, <1>2, <2>3
  <2>5. Right(r, h, foc)
    BY <2>2
  <2>6. QED BY <1>2, <2>1, <2>2, <2>4, <2>5 DEF Right, n
<1>5. QED BY <1>3, <1>4

LEMMA PostAllRight ==
  ASSUME NEW r, Sound(r), NEW foc, AllRight(r, foc), NEW m \in Messages,
         m.message \notin {WM_SETFOCUS, WM_KILLFOCUS}
  PROVE  Sound(PostTo(r, m)) /\ AllRight(PostTo(r, m), foc)
<1>1. Sound(PostTo(r, m))
  BY PostSound
<1>2. ASSUME ~PostTo(r, m).refused, NEW h \in FocusArgs \ {Desktop}
      PROVE  Right(PostTo(r, m), h, foc)
  <2>1. ~r.refused
    BY <1>2, PostFields
  <2>2. Right(r, h, foc) /\ ~TellsFocus(m, h)
    BY <2>1 DEF AllRight, TellsFocus
  <2>3. QED BY <1>2, <2>2, PostRight
<1>3. QED BY <1>1, <1>2 DEF AllRight

\* The first message that fits is taken: when it was the last one for h, then
\* it was the only one, as all messages about the focus of h fit or none does.
LEMMA RemoveAllRight ==
  ASSUME FocusUnparted, NEW r, Sound(r), NEW foc, AllRight(r, foc),
         NEW f \in Filters, NEW k \in FirstMatch(r, f)
  PROVE  Sound(Remove(r, k)) /\ AllRight(Remove(r, k), foc)
<1> DEFINE p == Remove(r, k)
           n == r.count
<1>1. k \in 1..n /\ n \in Nat /\ Matches(Nth(r, k), f) /\ \A j \in 1..(k - 1) : ~Matches(Nth(r, j), f)
  <2>1. n \in Nat
    BY WaitingSeq
  <2>2. k \in Hits(r, f) /\ \A j \in Hits(r, f) : k <= j
    BY DEF FirstMatch
  <2>3. k \in 1..n /\ Matches(Nth(r, k), f)
    BY <2>2 DEF Hits, Nth
  <2>4. ASSUME NEW j \in 1..(k - 1) PROVE ~Matches(Nth(r, j), f)
    <3>1. j \in 1..r.count /\ ~(k <= j)
      BY <2>1, <2>3
    <3>2. j \notin Hits(r, f)
      BY <2>2, <3>1
    <3>3. QED BY <3>1, <3>2 DEF Hits, Nth
  <2>5. QED BY <2>1, <2>3, <2>4
<1>2. /\ Sound(p) /\ p.count = n - 1
      /\ \A j \in 1..(n - 1) : Nth(p, j) = IF j < k THEN Nth(r, j) ELSE Nth(r, j + 1)
  BY <1>1, RemoveFields DEF Nth
<1>3. p.refused = r.refused
  <2>1. r \in Rings
    BY DEF Sound
  <2>2. CASE k = 1
    BY <2>1, <2>2 DEF Rings, Remove
  <2>3. CASE k # 1
    <3> DEFINE moved == [i \in 0..(Cap - 1) |->
                          IF \E j \in k..(r.count - 1) : i = At(r, j)
                          THEN r.slots[(i + 1) % Cap] ELSE r.slots[i]]
    <3>1. p = [r EXCEPT !.slots = moved, !.tail = (@ - 1 + Cap) % Cap, !.count = @ - 1]
      BY <2>3 DEF Remove
    <3> HIDE DEF p, moved
    <3>2. QED BY <2>1, <3>1 DEF Rings
  <2>4. QED BY <2>2, <2>3
<1> HIDE DEF p, n
<1>4. ASSUME NEW h, Right(r, h, foc) PROVE Right(p, h, foc)
  <2>1. SUFFICES ASSUME NEW i \in 1..(n - 1), TellsFocus(Nth(p, i), h),
                        \A j \in (i + 1)..(n - 1) : ~TellsFocus(Nth(p, j), h)
                 PROVE  Nth(p, i).message = WM_SETFOCUS <=> foc = h
    BY <1>2 DEF Right
  <2>2. PICK l \in 1..n : l = IF i < k THEN i ELSE i + 1
    BY <1>1
  <2>3. l # k /\ Nth(p, i) = Nth(r, l)
    BY <1>1, <1>2, <2>2
  <2>4. ASSUME NEW j \in (l + 1)..n, j # k PROVE ~TellsFocus(Nth(r, j), h)
    <3>1. CASE j < k
      <4>1. j \in (i + 1)..(n - 1) /\ j \in 1..(n - 1)
        BY <1>1, <2>2, <3>1
      <4>2. Nth(p, j) = Nth(r, j)
        BY <1>2, <3>1, <4>1
      <4>3. QED BY <2>1, <4>1, <4>2
    <3>2. CASE ~(j < k)
      <4>1. j - 1 \in (i + 1)..(n - 1) /\ j - 1 \in 1..(n - 1) /\ ~(j - 1 < k) /\ j - 1 + 1 = j
        BY <1>1, <2>2, <2>4, <3>2
      <4>2. Nth(p, j - 1) = Nth(r, j)
        BY <1>2, <4>1
      <4>3. QED BY <2>1, <4>1, <4>2
    <3>3. QED BY <3>1, <3>2
  <2>5. ASSUME k \in (l + 1)..n, TellsFocus(Nth(r, k), h) PROVE FALSE
    <3>1. l \in 1..(k - 1)
      BY <1>1, <2>2, <2>5
    <3>2. TellsFocus(Nth(r, l), h)
      BY <2>1, <2>3
    <3>3. Matches(Nth(r, l), f)
      BY <1>1, <2>5, <3>2 DEF Matches, TellsFocus, FocusUnparted
    <3>4. QED BY <1>1, <3>1, <3>3
  <2>6. \A j \in (l + 1)..n : ~TellsFocus(Nth(r, j), h)
    BY <2>4, <2>5
  <2>7. QED BY <1>4, <2>1, <2>3, <2>6 DEF Right, n
<1>5. QED BY <1>2, <1>3, <1>4 DEF AllRight, p

LEMMA SetAllRight ==
  ASSUME NEW R, SetRing(R), AllRight(R, focus')
  PROVE  AllRight(Ring, focus)'
<1>1. /\ Ring'.slots = R.slots /\ Ring'.head = R.head /\ Ring'.count = R.count
      /\ Ring'.refused = R.refused
  BY DEF SetRing, Ring
<1>2. \A k : Nth(Ring', k) = Nth(R, k)
  BY <1>1 DEF Nth, At
<1>3. \A h : Right(R, h, focus') => Right(Ring, h, focus)'
  BY <1>1, <1>2 DEF Right
<1>4. QED BY <1>1, <1>3 DEF AllRight

\* The focus moves: the window that loses it and the one that gets it are told.
LEMMA FocusMoves ==
  ASSUME NEW r, Sound(r), NEW old, NEW new, AllRight(r, old), old # new,
         old # Desktop => Msg(old, WM_KILLFOCUS) \in Messages,
         new # Desktop => Msg(new, WM_SETFOCUS) \in Messages
  PROVE  AllRight(Told(r, old, new, WM_KILLFOCUS, WM_SETFOCUS), new)
<1> DEFINE kill == Msg(old, WM_KILLFOCUS)
           set == Msg(new, WM_SETFOCUS)
           one == IF old # Desktop THEN PostTo(r, kill) ELSE r
           two == IF new # Desktop THEN PostTo(one, set) ELSE one
<1>1. /\ \A h : TellsFocus(kill, h) <=> h = old
      /\ \A h : TellsFocus(set, h) <=> h = new
      /\ kill.message # WM_SETFOCUS /\ set.message = WM_SETFOCUS
  BY DEF TellsFocus, Msg, WM_SETFOCUS, WM_KILLFOCUS
<1>2. Told(r, old, new, WM_KILLFOCUS, WM_SETFOCUS) = two
  BY DEF Told
<1> HIDE DEF kill, set
<1>3. Sound(one)
  BY PostSound DEF kill
<1>4. ASSUME ~one.refused, NEW h \in FocusArgs \ {Desktop}, h # new PROVE Right(one, h, new)
  <2>1. ~r.refused
    BY <1>4, PostFields DEF kill
  <2>2. Right(r, h, old)
    BY <2>1 DEF AllRight
  <2>3. CASE h = old
    <3>1. old # Desktop /\ TellsFocus(kill, h) /\ one = PostTo(r, kill)
      BY <1>1, <2>3
    <3>2. kill.message = WM_SETFOCUS <=> new = h
      BY <1>1, <1>4
    <3> HIDE DEF one
    <3>3. Right(PostTo(r, kill), h, new)
      BY <1>4, <3>1, <3>2, PostRight DEF kill
    <3>4. QED BY <3>1, <3>3
  <2>4. CASE h # old
    <3>1. Right(r, h, new)
      BY <1>4, <2>2, <2>4 DEF Right
    <3>2. CASE old = Desktop
      BY <3>1, <3>2
    <3>3. CASE old # Desktop
      <4>1. ~TellsFocus(kill, h) /\ one = PostTo(r, kill)
        BY <1>1, <2>4, <3>3
      <4> HIDE DEF one
      <4>2. Right(PostTo(r, kill), h, new)
        BY <1>4, <3>1, <3>3, <4>1, PostRight DEF kill
      <4>3. QED BY <4>1, <4>2
    <3>4. QED BY <3>2, <3>3
  <2>5. QED BY <2>3, <2>4
<1> HIDE DEF one
<1>5. ASSUME ~two.refused, NEW h \in FocusArgs \ {Desktop} PROVE Right(two, h, new)
  <2>1. CASE new = Desktop
    BY <1>4, <1>5, <2>1
  <2>2. CASE new # Desktop
    <3>1. two = PostTo(one, set) /\ set \in Messages
      BY <2>2 DEF set
    <3> HIDE DEF two
    <3>2. ~one.refused
      BY <1>3, <1>5, <3>1, PostFields
    <3>3. CASE h = new
      <4>1. TellsFocus(set, h) /\ (set.message = WM_SETFOCUS <=> new = h)
        BY <1>1, <3>3
      <4>2. QED BY <1>3, <1>5, <3>1, <4>1, PostRight
    <3>4. CASE h # new
      <4>1. ~TellsFocus(set, h) /\ Right(one, h, new)
        BY <1>1, <1>4, <3>2, <3>4
      <4>2. QED BY <1>3, <1>5, <3>1, <4>1, PostRight
    <3>5. QED BY <3>3, <3>4
  <2>3. QED BY <2>1, <2>2
<1>6. QED BY <1>2, <1>5 DEF AllRight

FocusInv == QueueSound /\ AllRight(Ring, focus)

\* A call that posts other messages, or none.
LEMMA OthersRight ==
  ASSUME FocusInv, UNCHANGED focus, NEW R, SetRing(R),
         \/ R = Ring
         \/ \E m \in Messages : /\ R = PostTo(Ring, m)
                                /\ m.message \notin {WM_SETFOCUS, WM_KILLFOCUS}
         \/ \E m, n \in Messages : /\ R = PostTo(PostTo(Ring, m), n)
                                   /\ m.message \notin {WM_SETFOCUS, WM_KILLFOCUS}
                                   /\ n.message \notin {WM_SETFOCUS, WM_KILLFOCUS}
  PROVE  AllRight(Ring, focus)'
<1>1. Sound(Ring) /\ AllRight(Ring, focus)
  BY RingIs DEF FocusInv
<1>2. AllRight(R, focus)
  BY <1>1, PostAllRight
<1>3. AllRight(R, focus')
  BY <1>2
<1>4. QED BY <1>3, SetAllRight

LEMMA OtherNumbers ==
  ASSUME NEW h
  PROVE  \A n \in {WM_QUIT, WM_SHOWWINDOW, WM_SIZE, WM_CHAR, WM_ACTIVATE, WM_DESTROY} :
           Msg(h, n).message \notin {WM_SETFOCUS, WM_KILLFOCUS}
BY DEF Msg, WM_QUIT, WM_SHOWWINDOW, WM_SIZE, WM_CHAR, WM_ACTIVATE, WM_DESTROY,
       WM_SETFOCUS, WM_KILLFOCUS

LEMMA SetFocusRight ==
  ASSUME FocusInv, NEW h \in FocusArgs, SetFocus(h)
  PROVE  AllRight(Ring, focus)'
<1> DEFINE R == IF focus = h THEN Ring ELSE Told(Ring, focus, h, WM_KILLFOCUS, WM_SETFOCUS)
<1>1. SetRing(R) /\ focus' = h
  BY DEF SetFocus
<1>2. Sound(Ring) /\ AllRight(Ring, focus) /\ RestOK
  BY RingIs DEF FocusInv
<1>3. CASE focus = h
  <2>1. R = Ring /\ focus' = focus
    BY <1>1, <1>3
  <2> HIDE DEF R
  <2>2. AllRight(R, focus')
    BY <1>2, <2>1
  <2>3. QED BY <1>1, <2>2, SetAllRight
<1>4. CASE focus # h
  <2>1. /\ focus # Desktop => Msg(focus, WM_KILLFOCUS) \in Messages
        /\ h # Desktop => Msg(h, WM_SETFOCUS) \in Messages
    BY <1>2, MessageKinds DEF RestOK
  <2>2. AllRight(Told(Ring, focus, h, WM_KILLFOCUS, WM_SETFOCUS), h)
    BY <1>2, <1>4, <2>1, FocusMoves
  <2>3. R = Told(Ring, focus, h, WM_KILLFOCUS, WM_SETFOCUS)
    BY <1>4
  <2> HIDE DEF R
  <2>4. AllRight(R, focus')
    BY <1>1, <2>2, <2>3
  <2>5. QED BY <1>1, <2>4, SetAllRight
<1>5. QED BY <1>3, <1>4

LEMMA ActiveRight ==
  ASSUME FocusInv, NEW h \in ActiveArgs, SetActiveWindow(h)
  PROVE  AllRight(Ring, focus)'
<1> DEFINE R == IF active = h THEN Ring ELSE Told(Ring, active, h, WM_ACTIVATE, WM_ACTIVATE)
<1>1. SetRing(R) /\ UNCHANGED focus
  BY DEF SetActiveWindow
<1>2. RestOK
  BY RingIs DEF FocusInv
<1>3. /\ active # Desktop => Msg(active, WM_ACTIVATE) \in Messages
      /\ h # Desktop => Msg(h, WM_ACTIVATE) \in Messages
  BY <1>2, MessageKinds DEF RestOK
<1> DEFINE m == Msg(active, WM_ACTIVATE)
           n == Msg(h, WM_ACTIVATE)
<1>4. m.message \notin {WM_SETFOCUS, WM_KILLFOCUS} /\ n.message \notin {WM_SETFOCUS, WM_KILLFOCUS}
  BY OtherNumbers
<1>5. \/ R = Ring
      \/ m \in Messages /\ R = PostTo(Ring, m)
      \/ n \in Messages /\ R = PostTo(Ring, n)
      \/ m \in Messages /\ n \in Messages /\ R = PostTo(PostTo(Ring, m), n)
  <2> HIDE DEF m, n
  <2>1. \/ R = Ring
        \/ R = (IF h # Desktop
                THEN PostTo(IF active # Desktop THEN PostTo(Ring, m) ELSE Ring, n)
                ELSE IF active # Desktop THEN PostTo(Ring, m) ELSE Ring)
    BY DEF Told, m, n
  <2> HIDE DEF R
  <2>2. (active # Desktop => m \in Messages) /\ (h # Desktop => n \in Messages)
    BY <1>3 DEF m, n
  <2>3. CASE active = Desktop
    BY <2>1, <2>2, <2>3
  <2>4. CASE active # Desktop
    BY <2>1, <2>2, <2>4
  <2>5. QED BY <2>3, <2>4
<1> HIDE DEF R, m, n
<1>6. QED BY <1>1, <1>4, <1>5, OthersRight

LEMMA ShowRight ==
  ASSUME FocusInv, NEW h \in ShowArgs, ShowWindow(h)
  PROVE  AllRight(Ring, focus)'
<1> DEFINE m == Msg(h, WM_SHOWWINDOW)
           n == Msg(h, WM_SIZE)
           R == IF WndOf(h) # NoWnd /\ WndOf(h) \notin visible
                THEN PostTo(PostTo(Ring, m), n) ELSE Ring
<1>1. SetRing(R) /\ UNCHANGED focus
  BY DEF ShowWindow
<1>2. /\ m \in Messages /\ m.message \notin {WM_SETFOCUS, WM_KILLFOCUS}
      /\ n \in Messages /\ n.message \notin {WM_SETFOCUS, WM_KILLFOCUS}
  BY MessageKinds, OtherNumbers
<1> HIDE DEF m, n
<1>3. R = Ring \/ R = PostTo(PostTo(Ring, m), n)
  OBVIOUS
<1> HIDE DEF R
<1>4. QED BY <1>1, <1>2, <1>3, OthersRight

LEMMA PeekRight ==
  ASSUME FocusUnparted, FocusInv, NEW f \in Filters, NEW remove \in BOOLEAN,
         Peek(Polled(Ring), f, remove), UNCHANGED focus
  PROVE  AllRight(Ring, focus)'
<1> DEFINE r == Polled(Ring)
           quit == Msg(Desktop, WM_QUIT)
<1>1. r = Ring \/ r = PostTo(Ring, quit)
  BY DEF Polled
<1>2. quit \in Messages /\ quit.message \notin {WM_SETFOCUS, WM_KILLFOCUS}
  BY MessageKinds, OtherNumbers
<1> HIDE DEF quit
<1>3. \/ \E k \in FirstMatch(r, f) : SetRing(IF remove THEN Remove(r, k) ELSE r)
      \/ SetRing(r)
  BY DEF Peek
<1> HIDE DEF r
<1>4. Sound(Ring) /\ AllRight(Ring, focus)
  BY RingIs DEF FocusInv
<1>5. Sound(r) /\ AllRight(r, focus)
  BY <1>1, <1>2, <1>4, PostAllRight
<1>6. CASE SetRing(r)
  BY <1>5, <1>6, SetAllRight
<1>7. ASSUME NEW k \in FirstMatch(r, f), SetRing(Remove(r, k)) PROVE AllRight(Ring, focus)'
  <2>1. AllRight(Remove(r, k), focus)
    BY <1>5, RemoveAllRight
  <2> DEFINE R == Remove(r, k)
  <2> HIDE DEF R
  <2>2. SetRing(R) /\ AllRight(R, focus')
    BY <1>7, <2>1 DEF R
  <2>3. QED BY <2>2, SetAllRight
<1>8. QED BY <1>3, <1>6, <1>7

LEMMA FocusStep ==
  ASSUME FocusUnparted, FocusInv, [Next]_vars
  PROVE  FocusInv'
<1>1. QueueSound' /\ QueueSound /\ RestOK
  BY StepMaps, RingIs DEF FocusInv
<1> SUFFICES AllRight(Ring, focus)'
  BY <1>1 DEF FocusInv
<1>2. ASSUME SetRing(Ring), UNCHANGED focus PROVE AllRight(Ring, focus)'
  BY <1>2, OthersRight
<1>3. ASSUME NEW m \in Messages, m.message \notin {WM_SETFOCUS, WM_KILLFOCUS},
             SetRing(PostTo(Ring, m)), UNCHANGED focus
      PROVE  AllRight(Ring, focus)'
  BY <1>3, OthersRight
<1>4. ASSUME NEW m \in Posts, PostMessage(m) PROVE AllRight(Ring, focus)'
  BY <1>3, <1>4, MessageKinds DEF PostMessage, FocusUnparted
<1>5. ASSUME NEW h \in KeyArgs, TranslateMessage(h) PROVE AllRight(Ring, focus)'
  BY <1>3, <1>5, MessageKinds, OtherNumbers DEF TranslateMessage
<1>6. CASE PostQuitMessage
  BY <1>3, <1>6, MessageKinds, OtherNumbers DEF PostQuitMessage
<1>7. ASSUME NEW h \in CloseArgs, DefWndProcClose(h) PROVE AllRight(Ring, focus)'
  BY <1>2, <1>3, <1>7, MessageKinds, OtherNumbers DEF DefWndProcClose
<1>8. ASSUME NEW h \in ShowArgs, HideWindow(h) PROVE AllRight(Ring, focus)'
  BY <1>2, <1>8, SameRing DEF HideWindow
<1>9. ASSUME NEW f \in Filters, NEW remove \in BOOLEAN, PeekMessage(f, remove)
      PROVE  AllRight(Ring, focus)'
  BY <1>9, PeekRight DEF PeekMessage
<1>10. ASSUME NEW f \in Filters, Round(f) PROVE AllRight(Ring, focus)'
  BY <1>10, PeekRight DEF Round
<1>11. CASE GetMessageLoops
  BY <1>1, <1>10, <1>11 DEF GetMessageLoops, RestOK
<1>12. CASE VmStops
  BY <1>2, <1>12, SameRing DEF VmStops
<1>13. CASE UNCHANGED vars
  BY <1>2, <1>13, SameRing DEF vars
<1>14. CASE \E h \in ShowArgs : ShowWindow(h)
  BY <1>14, ShowRight
<1>15. CASE \E h \in FocusArgs : SetFocus(h)
  BY <1>15, SetFocusRight
<1>16. CASE \E h \in ActiveArgs : SetActiveWindow(h)
  BY <1>16, ActiveRight
<1>17. CASE \E f \in Filters : GetMessage(f)
  BY <1>10, <1>17 DEF GetMessage
<1>18. QED BY <1>4, <1>5, <1>6, <1>7, <1>8, <1>9, <1>11, <1>12, <1>13, <1>14, <1>15, <1>16, <1>17
           DEF Next

-----------------------------------------------------------------------------
(* head, tail and count always describe one run of slots of the ring, whatever
   is posted and taken from its middle (msg_queue_post, msg_queue_peek).    *)
THEOREM QueueCorrect == Spec => []QueueSound
<1>1. Init => QueueSound
  BY InitSound
<1>2. QueueSound /\ [Next]_vars => QueueSound'
  BY StepMaps
<1>3. QED BY <1>1, <1>2, PTL DEF Spec

(* The ring is the first-in, first-out queue of MessageQueue: a call gets the
   oldest message its filter admits, and a post is lost only when the ring is
   full (msg_queue_post, msg_queue_peek, NtUserGetMessage).                 *)
THEOREM MessageQueueCorrect == Spec => ImplementsMessageQueue
<1>1. Init => Abstract!Init
  BY InitSound
<1>2. QueueSound /\ [Next]_vars => [Abstract!Next]_(Abstract!vars)
  BY StepMaps
<1>3. QED BY <1>1, <1>2, QueueCorrect, PTL DEF Spec, ImplementsMessageQueue, Abstract!Spec

(* Whatever was posted, peeked and taken out in between, the last focus message
   that waits for a window agrees with hwndFocus, unless the ring was full or a
   filter parts the two numbers (NtUserSetFocus, msg_queue_peek).           *)
THEOREM FocusToldCorrect ==
  ASSUME FocusUnparted
  PROVE  Spec => []FocusToldRight
<1>1. Init => FocusInv
  <2>1. Init => QueueSound
    BY InitSound
  <2>2. Init => AllRight(Ring, focus)
    BY DEF Init, Ring, AllRight, Right
  <2>3. QED BY <2>1, <2>2 DEF FocusInv
<1>2. FocusInv /\ [Next]_vars => FocusInv'
  BY FocusStep
<1>3. FocusInv => FocusToldRight
  <2> SUFFICES ASSUME FocusInv, ~refused, NEW h \in FocusArgs \ {Desktop} PROVE Right(Ring, h, focus)
                        => \A k \in 1..count :
      TellsFocus(Contents[k], h) /\ (\A j \in (k + 1)..count : ~TellsFocus(Contents[j], h))
        => (Contents[k].message = WM_SETFOCUS <=> focus = h)
    BY DEF FocusInv, AllRight, Ring, FocusToldRight
  <2>1. count \in Nat /\ Ring.count = count
    BY MsgQueueAssumption DEF FocusInv, QueueSound, TypeOK, Ring
  <2>2. \A k \in 1..count : Contents[k] = Nth(Ring, k)
    BY DEF Contents, Nth, Ring
  <2>3. \A k \in 1..count : \A j \in (k + 1)..count : j \in 1..count
    BY <2>1
  <2>4. QED BY <2>1, <2>2, <2>3 DEF Right
<1>4. QED BY <1>1, <1>2, <1>3, PTL DEF Spec

---------------------------------------------------------------------------
(* The window tree.  Recursive functions on it: what follows a window by   *)
(* some link, as the smallest set that the link does not lead out of.      *)

\* E leads from v, but not on from T, to the elements of Reach.
Reach(D, E, T, v) ==
  {x \in D : \A C \in SUBSET D :
               v \in C /\ (\A y \in C \ T : E[y] \in C) => x \in C}

LEMMA ReachStep ==
  ASSUME NEW D, NEW T, NEW E \in [D -> D], NEW v \in D
  PROVE  Reach(D, E, T, v) = {v} \cup IF v \in T THEN {} ELSE Reach(D, E, T, E[v])
<1> DEFINE rest == IF v \in T THEN {} ELSE Reach(D, E, T, E[v])
           all == {v} \cup rest
<1>1. all \subseteq D
  BY DEF Reach
<1>2. Reach(D, E, T, v) \subseteq all
  <2>1. \A y \in all \ T : E[y] \in all
    <3>1. SUFFICES ASSUME NEW y \in all \ T PROVE E[y] \in all
      OBVIOUS
    <3>2. CASE y = v
      <4>1. E[v] \in D /\ E[v] \in Reach(D, E, T, E[v])
        BY DEF Reach
      <4> QED BY <3>1, <3>2, <4>1
    <3>3. CASE y # v
      <4>1. v \notin T /\ y \in Reach(D, E, T, E[v]) /\ y \in D
        BY <3>1, <3>3, <1>1
      <4>2. E[y] \in Reach(D, E, T, E[v])
        BY <3>1, <4>1 DEF Reach
      <4> QED BY <4>1, <4>2
    <3> QED BY <3>2, <3>3
  <2> HIDE DEF rest
  <2> QED BY <1>1, <2>1 DEF Reach
<1>3. v \in Reach(D, E, T, v)
  BY DEF Reach
<1>4. ASSUME v \notin T, NEW x \in Reach(D, E, T, E[v]) PROVE x \in Reach(D, E, T, v)
  <2>1. x \in D
    BY <1>4 DEF Reach
  <2>2. ASSUME NEW C \in SUBSET D, v \in C, \A y \in C \ T : E[y] \in C PROVE x \in C
    <3>1. E[v] \in C
      BY <1>4, <2>2
    <3> QED BY <1>4, <2>2, <3>1 DEF Reach
  <2> QED BY <2>1, <2>2 DEF Reach
<1> QED BY <1>2, <1>3, <1>4

\* Every window, and the desktop, if what holds of the parent and of the next
\* sibling of a window holds of the window.
LEMMA TreeInduct ==
  ASSUME NEW S, \A w \in Tree : ParentOf[w] \in S \cup {NoWnd} /\ NextOf[w] \in S \cup {NoWnd}
                                  => w \in S
  PROVE  Tree \subseteq S
<1> DEFINE circle == Tree \ S
<1>1. SUFFICES ASSUME circle # {} PROVE FALSE
  OBVIOUS
<1>2. PICK w \in circle : ParentOf[w] \notin circle /\ NextOf[w] \notin circle
  BY <1>1, TreeAssumption
<1>3. w \in Tree /\ ParentOf[w] \in Tree \cup {NoWnd} /\ NextOf[w] \in Tree \cup {NoWnd}
  BY MsgQueueAssumption
<1> QED BY <1>2, <1>3

LEMMA TreeFacts ==
  /\ Desktop \in Tree /\ Desktop \notin Windows /\ NoWnd \notin Tree
  /\ \A w \in Tree : w \in Windows \/ w = Desktop
  /\ \A w \in Windows : w \in Tree /\ ParentOf[w] \in Tree /\ ParentOf[w] # NoWnd
  /\ \A w \in Tree : ParentOf[w] \in Tree \cup {NoWnd}
  /\ \A w \in Tree : ChildOf[w] # NoWnd => ChildOf[w] \in Windows /\ ParentOf[ChildOf[w]] = w
  /\ \A w \in Tree : NextOf[w] # NoWnd =>
       w \in Windows /\ NextOf[w] \in Windows /\ ParentOf[NextOf[w]] = ParentOf[w]
<1>1. /\ Desktop \in Tree /\ Desktop \notin Windows /\ NoWnd \notin Tree
      /\ \A w \in Tree : w \in Windows \/ w = Desktop
      /\ \A w \in Windows : w \in Tree
  BY MsgQueueAssumption DEF Tree
<1>2. \A w \in Windows : ParentOf[w] \in Tree /\ ParentOf[w] # NoWnd
  BY <1>1, TreeAssumption
<1>3. \A w \in Tree : /\ ParentOf[w] \in Tree \cup {NoWnd}
                      /\ ChildOf[w] \in Tree \cup {NoWnd}
                      /\ NextOf[w] \in Tree \cup {NoWnd}
  BY MsgQueueAssumption
<1>4. ParentOf[Desktop] = NoWnd /\ NextOf[Desktop] = NoWnd
  BY TreeAssumption
<1>5. ASSUME NEW w \in Tree, ChildOf[w] # NoWnd
      PROVE  ChildOf[w] \in Windows /\ ParentOf[ChildOf[w]] = w
  <2>1. ParentOf[ChildOf[w]] = w
    BY <1>5, TreeAssumption
  <2> QED BY <1>1, <1>3, <1>4, <1>5, <2>1
<1>6. ASSUME NEW w \in Tree, NextOf[w] # NoWnd
      PROVE  w \in Windows /\ NextOf[w] \in Windows /\ ParentOf[NextOf[w]] = ParentOf[w]
  <2>1. ParentOf[NextOf[w]] = ParentOf[w]
    BY <1>6, TreeAssumption
  <2>2. w \in Windows
    BY <1>1, <1>4, <1>6
  <2>3. ParentOf[w] # NoWnd
    BY <1>2, <2>2
  <2> QED BY <1>1, <1>3, <1>4, <1>6, <2>1, <2>2, <2>3
<1> QED BY <1>1, <1>2, <1>3, <1>5, <1>6

LEMMA AboveIs ==
  \A w \in Tree :
    Above(w) = IF ParentOf[w] = NoWnd THEN {} ELSE {ParentOf[w]} \cup Above(ParentOf[w])
<1> DEFINE D == Tree \cup {NoWnd}
           T == {NoWnd}
           E == [v \in D |-> IF v = NoWnd THEN NoWnd ELSE ParentOf[v]]
           Is(f) == f = [v \in D |-> IF v = NoWnd THEN {} ELSE {v} \cup f[ParentOf[v]]]
           up == CHOOSE f : Is(f)
           g == [v \in D |-> Reach(D, E, T, v) \ {NoWnd}]
<1>1. E \in [D -> D]
  BY TreeFacts
<1>2. Is(g)
  <2>1. ASSUME NEW v \in D
        PROVE  g[v] = IF v = NoWnd THEN {} ELSE {v} \cup g[ParentOf[v]]
    <3>1. Reach(D, E, T, v) = {v} \cup IF v \in T THEN {} ELSE Reach(D, E, T, E[v])
      <4> HIDE DEF D, E, T
      <4> QED BY <1>1, <2>1, ReachStep
    <3>2. v # NoWnd => E[v] = ParentOf[v] /\ ParentOf[v] \in D
      BY <2>1, TreeFacts
    <3>3. \A x \in D : g[x] = Reach(D, E, T, x) \ {NoWnd}
      OBVIOUS
    <3>4. v \in T <=> v = NoWnd
      OBVIOUS
    <3> HIDE DEF D, E, T, g
    <3> QED BY <2>1, <3>1, <3>2, <3>3, <3>4
  <2>2. g = [v \in D |-> g[v]]
    OBVIOUS
  <2> HIDE DEF g
  <2> QED BY <2>1, <2>2
<1>3. Is(up)
  <2> HIDE DEF Is
  <2> QED BY <1>2
<1>4. \A w \in Tree : Above(w) = up[ParentOf[w]]
  BY Zenon DEF Above
<1>5. \A v \in D : up[v] = IF v = NoWnd THEN {} ELSE {v} \cup up[ParentOf[v]]
  <2> HIDE DEF up
  <2> QED BY <1>3
<1> HIDE DEF up, Is
<1>6. NoWnd \in D /\ NoWnd \notin Tree /\ \A w \in Tree : ParentOf[w] \in D
  BY TreeFacts
<1>7. ASSUME NEW w \in Tree
      PROVE  Above(w) = IF ParentOf[w] = NoWnd THEN {}
                        ELSE {ParentOf[w]} \cup Above(ParentOf[w])
  <2>1. ParentOf[w] \in D /\ Above(w) = up[ParentOf[w]]
    BY <1>4, <1>6
  <2>2. CASE ParentOf[w] = NoWnd
    BY <1>5, <1>6, <2>1, <2>2
  <2>3. CASE ParentOf[w] # NoWnd
    <3>1. ParentOf[w] \in Tree
      BY <2>1, <2>3
    <3>2. Above(ParentOf[w]) = up[ParentOf[ParentOf[w]]]
      BY <1>4, <3>1
    <3> QED BY <1>5, <2>1, <2>3, <3>2
  <2> QED BY <2>2, <2>3
<1> QED BY <1>7

LEMMA LaterIs ==
  \A w \in Tree :
    Later(w) = IF NextOf[w] = NoWnd THEN {} ELSE {NextOf[w]} \cup Later(NextOf[w])
<1> DEFINE D == Tree \cup {NoWnd}
           T == {NoWnd}
           E == [v \in D |-> IF v = NoWnd THEN NoWnd ELSE NextOf[v]]
           Is(f) == f = [w \in D |-> IF w = NoWnd THEN {} ELSE {w} \cup f[NextOf[w]]]
           later == CHOOSE f : Is(f)
           g == [v \in D |-> Reach(D, E, T, v) \ {NoWnd}]
<1>1. \A w \in Tree : NextOf[w] \in D
  BY TreeFacts
<1>2. E \in [D -> D]
  BY <1>1
<1>3. Is(g)
  <2>1. ASSUME NEW v \in D
        PROVE  g[v] = IF v = NoWnd THEN {} ELSE {v} \cup g[NextOf[v]]
    <3>1. Reach(D, E, T, v) = {v} \cup IF v \in T THEN {} ELSE Reach(D, E, T, E[v])
      <4> HIDE DEF D, E, T
      <4> QED BY <1>2, <2>1, ReachStep
    <3>2. v # NoWnd => E[v] = NextOf[v] /\ NextOf[v] \in D
      BY <1>1, <2>1
    <3>3. \A x \in D : g[x] = Reach(D, E, T, x) \ {NoWnd}
      OBVIOUS
    <3>4. v \in T <=> v = NoWnd
      OBVIOUS
    <3> HIDE DEF D, E, T, g
    <3> QED BY <2>1, <3>1, <3>2, <3>3, <3>4
  <2>2. g = [v \in D |-> g[v]]
    OBVIOUS
  <2> HIDE DEF g
  <2> QED BY <2>1, <2>2
<1>4. Is(later)
  <2> HIDE DEF Is
  <2> QED BY <1>3
<1>5. \A w : Later(w) = later[NextOf[w]]
  BY Zenon DEF Later
<1>6. \A v \in D : later[v] = IF v = NoWnd THEN {} ELSE {v} \cup later[NextOf[v]]
  <2> HIDE DEF later
  <2> QED BY <1>4
<1> HIDE DEF later, Is
<1> QED BY <1>1, <1>5, <1>6, TreeFacts

---------------------------------------------------------------------------
(* What is above a window and what comes later in its list.                *)

\* The window with those above it.
AtOrAbove(w) == Above(w) \cup {w}

LEMMA AboveParent ==
  /\ Above(Desktop) = {} /\ Later(Desktop) = {}
  /\ \A w \in Windows : Above(w) = AtOrAbove(ParentOf[w])
<1>1. ParentOf[Desktop] = NoWnd /\ NextOf[Desktop] = NoWnd
  BY TreeAssumption
<1>2. Above(Desktop) = {} /\ Later(Desktop) = {}
  BY <1>1, AboveIs, LaterIs, TreeFacts
<1>3. ASSUME NEW w \in Windows PROVE Above(w) = AtOrAbove(ParentOf[w])
  <2>1. w \in Tree /\ ParentOf[w] # NoWnd
    BY TreeFacts
  <2>2. Above(w) = {ParentOf[w]} \cup Above(ParentOf[w])
    BY <2>1, AboveIs
  <2> QED BY <2>2 DEF AtOrAbove
<1> QED BY <1>2, <1>3

\* To be above is transitive.
LEMMA AboveTrans ==
  \A w \in Tree : /\ Above(w) \subseteq Tree
                  /\ \A x \in Above(w) : AtOrAbove(x) \subseteq Above(w)
<1> DEFINE S == {w \in Tree : /\ Above(w) \subseteq Tree
                              /\ \A x \in Above(w) : AtOrAbove(x) \subseteq Above(w)}
<1>1. ASSUME NEW w \in Tree, ParentOf[w] \in S \cup {NoWnd} PROVE w \in S
  <2>1. CASE w = Desktop
    BY <2>1, AboveParent, TreeFacts
  <2>2. CASE w \in Windows
    <3>1. ParentOf[w] \in S /\ ParentOf[w] \in Tree
      BY <1>1, <2>2, TreeFacts
    <3>2. Above(w) = Above(ParentOf[w]) \cup {ParentOf[w]}
      BY <2>2, AboveParent DEF AtOrAbove
    <3>3. Above(ParentOf[w]) \subseteq Tree
          /\ \A x \in Above(ParentOf[w]) : AtOrAbove(x) \subseteq Above(ParentOf[w])
      BY <3>1
    <3>4. AtOrAbove(ParentOf[w]) \subseteq Above(w)
      BY <3>2 DEF AtOrAbove
    <3>5. \A x \in Above(w) : AtOrAbove(x) \subseteq Above(w)
      BY <3>2, <3>3, <3>4
    <3>6. Above(w) \subseteq Tree
      BY <3>1, <3>2, <3>3
    <3> QED BY <3>5, <3>6
  <2> QED BY <2>1, <2>2, TreeFacts
<1> HIDE DEF S
<1>2. Tree \subseteq S
  BY <1>1, TreeInduct
<1> QED BY <1>2 DEF S

\* No window is above itself.
LEMMA AboveApart ==
  \A w \in Tree : w \notin Above(w)
<1> DEFINE circle == {w \in Tree : w \in Above(w)}
<1>1. SUFFICES ASSUME circle # {} PROVE FALSE
  OBVIOUS
<1>2. PICK w \in circle : ParentOf[w] \notin circle
  BY <1>1, TreeAssumption
<1>3. w \in Tree /\ w \in Above(w)
  BY <1>2
<1>4. w \in Windows
  BY <1>3, AboveParent, TreeFacts
<1>5. ParentOf[w] \in Tree /\ Above(w) = Above(ParentOf[w]) \cup {ParentOf[w]}
  BY <1>4, AboveParent, TreeFacts DEF AtOrAbove
<1>6. CASE w = ParentOf[w]
  BY <1>2, <1>6
<1>7. CASE w \in Above(ParentOf[w])
  <2>1. AtOrAbove(w) \subseteq Above(ParentOf[w])
    BY <1>5, <1>7, AboveTrans
  <2>2. ParentOf[w] \in Above(ParentOf[w])
    BY <1>5, <2>1 DEF AtOrAbove
  <2> QED BY <1>2, <1>5, <2>2
<1> QED BY <1>3, <1>5, <1>6, <1>7

\* Of two windows at or above a third, one is at or above the other.
LEMMA AboveLine ==
  \A w \in Tree : \A x, y \in AtOrAbove(w) : x = y \/ x \in Above(y) \/ y \in Above(x)
<1> DEFINE S == {w \in Tree : \A x, y \in AtOrAbove(w) : x = y \/ x \in Above(y) \/ y \in Above(x)}
<1>1. ASSUME NEW w \in Tree, ParentOf[w] \in S \cup {NoWnd} PROVE w \in S
  <2>1. SUFFICES ASSUME NEW x \in AtOrAbove(w), NEW y \in AtOrAbove(w)
                 PROVE  x = y \/ x \in Above(y) \/ y \in Above(x)
    OBVIOUS
  <2>2. CASE x = w \/ y = w
    BY <2>1, <2>2 DEF AtOrAbove
  <2>3. CASE x \in Above(w) /\ y \in Above(w)
    <3>1. w \in Windows
      BY <2>3, AboveParent, TreeFacts
    <3>2. ParentOf[w] \in S
      BY <1>1, <3>1, TreeFacts
    <3>3. x \in AtOrAbove(ParentOf[w]) /\ y \in AtOrAbove(ParentOf[w])
      BY <2>3, <3>1, AboveParent
    <3> QED BY <3>2, <3>3
  <2> QED BY <2>1, <2>2, <2>3 DEF AtOrAbove
<1> HIDE DEF S
<1>2. Tree \subseteq S
  BY <1>1, TreeInduct
<1> QED BY <1>2 DEF S

\* A window below w is at or below a child of w.
LEMMA ChildAbove ==
  \A u \in Tree : \A w \in Above(u) : \E y \in AtOrAbove(u) : y \in Windows /\ ParentOf[y] = w
<1> DEFINE S == {u \in Tree : \A w \in Above(u) :
                               \E y \in AtOrAbove(u) : y \in Windows /\ ParentOf[y] = w}
<1>1. ASSUME NEW u \in Tree, ParentOf[u] \in S \cup {NoWnd} PROVE u \in S
  <2>1. SUFFICES ASSUME NEW w \in Above(u)
                 PROVE  \E y \in AtOrAbove(u) : y \in Windows /\ ParentOf[y] = w
    OBVIOUS
  <2>2. u \in Windows
    BY <2>1, AboveParent, TreeFacts
  <2>3. ParentOf[u] \in S /\ Above(u) = AtOrAbove(ParentOf[u])
    BY <1>1, <2>2, AboveParent, TreeFacts
  <2>4. CASE w = ParentOf[u]
    BY <2>2, <2>4 DEF AtOrAbove
  <2>5. CASE w \in Above(ParentOf[u])
    <3>1. PICK y \in AtOrAbove(ParentOf[u]) : y \in Windows /\ ParentOf[y] = w
      BY <2>3, <2>5
    <3>2. y \in AtOrAbove(u)
      BY <2>3, <3>1 DEF AtOrAbove
    <3> QED BY <3>1, <3>2
  <2> QED BY <2>1, <2>3, <2>4, <2>5 DEF AtOrAbove
<1> HIDE DEF S
<1>2. Tree \subseteq S
  BY <1>1, TreeInduct
<1> QED BY <1>2 DEF S

\* Every window is below the desktop.
LEMMA DesktopAbove ==
  \A u \in Windows : Desktop \in Above(u)
<1> DEFINE S == {u \in Tree : Desktop \in AtOrAbove(u)}
<1>1. ASSUME NEW u \in Tree, ParentOf[u] \in S \cup {NoWnd} PROVE u \in S
  <2>1. CASE u = Desktop
    BY <2>1 DEF AtOrAbove
  <2>2. CASE u \in Windows
    <3>1. ParentOf[u] \in S
      BY <1>1, <2>2, TreeFacts
    <3> QED BY <2>2, <3>1, AboveParent DEF AtOrAbove
  <2> QED BY <2>1, <2>2, TreeFacts
<1> HIDE DEF S
<1>2. Tree \subseteq S
  BY <1>1, TreeInduct
<1> QED BY <1>2, TreeFacts DEF S, AtOrAbove

\* The later siblings of a window, and of those.
LEMMA LaterSiblings ==
  \A w \in Tree : \A y \in Later(w) :
    /\ y \in Windows /\ ParentOf[y] = ParentOf[w] /\ w \in Windows
    /\ Later(y) \cup {y} \subseteq Later(w)
<1> DEFINE OK(w) == \A y \in Later(w) :
                      /\ y \in Windows /\ ParentOf[y] = ParentOf[w] /\ w \in Windows
                      /\ Later(y) \cup {y} \subseteq Later(w)
           S == {w \in Tree : OK(w)}
<1>1. ASSUME NEW w \in Tree, NextOf[w] \in S \cup {NoWnd} PROVE w \in S
  <2>1. SUFFICES ASSUME NEW y \in Later(w)
                 PROVE  /\ y \in Windows /\ ParentOf[y] = ParentOf[w] /\ w \in Windows
                        /\ Later(y) \cup {y} \subseteq Later(w)
    OBVIOUS
  <2>2. NextOf[w] # NoWnd
    BY <2>1, LaterIs
  <2>3. Later(w) = {NextOf[w]} \cup Later(NextOf[w])
    BY <2>2, LaterIs
  <2>4. w \in Windows /\ NextOf[w] \in Windows /\ ParentOf[NextOf[w]] = ParentOf[w]
    BY <2>2, TreeFacts
  <2>5. OK(NextOf[w])
    BY <1>1, <2>2
  <2> HIDE DEF S
  <2>6. CASE y = NextOf[w]
    BY <2>3, <2>4, <2>6
  <2>7. CASE y \in Later(NextOf[w])
    BY <2>3, <2>4, <2>5, <2>7
  <2> QED BY <2>1, <2>3, <2>6, <2>7
<1> HIDE DEF S
<1>2. Tree \subseteq S
  BY <1>1, TreeInduct
<1> QED BY <1>2 DEF S

LEMMA LaterApart ==
  \A w \in Tree : w \notin Later(w)
<1> DEFINE circle == {w \in Tree : w \in Later(w)}
<1>1. SUFFICES ASSUME circle # {} PROVE FALSE
  OBVIOUS
<1>2. PICK w \in circle : NextOf[w] \notin circle
  BY <1>1, TreeAssumption
<1>3. w \in Tree /\ w \in Later(w)
  BY <1>2
<1>4. NextOf[w] # NoWnd /\ Later(w) = {NextOf[w]} \cup Later(NextOf[w])
  BY <1>3, LaterIs
<1>5. NextOf[w] \in Tree
  BY <1>3, <1>4, TreeFacts
<1>6. CASE w = NextOf[w]
  BY <1>2, <1>6
<1>7. CASE w \in Later(NextOf[w])
  <2>1. Later(w) \subseteq Later(NextOf[w])
    BY <1>5, <1>7, LaterSiblings
  <2> QED BY <1>2, <1>4, <1>5, <2>1
<1> QED BY <1>3, <1>4, <1>6, <1>7

\* Induction over the natural numbers, for a set instead of a predicate.
LEMMA Induct ==
  ASSUME NEW S, 0 \in S, \A n \in Nat : n \in S => n + 1 \in S
  PROVE  Nat \subseteq S
<1> DEFINE T == Nat \ S
           R == OpToRel(<, Nat)
<1>1. SUFFICES ASSUME T # {} PROVE FALSE
  OBVIOUS
<1>2. IsWellFoundedOn(R, Nat)
  BY NatLessThanWellFounded
<1>3. PICK x \in T : \A y \in T : <<y, x>> \notin R
  <2> HIDE DEF R
  <2> QED BY <1>1, <1>2, WFMin
<1>4. x \in Nat /\ x # 0 /\ x \notin S
  OBVIOUS
<1>5. x - 1 \in Nat /\ x - 1 \notin S
  BY <1>4
<1>6. <<x - 1, x>> \in R
  <2>1. x - 1 < x /\ <<x - 1, x>> \in Nat \X Nat
    BY <1>4, <1>5
  <2>2. QED BY <2>1 DEF OpToRel
<1>7. QED BY <1>3, <1>5, <1>6

\* The list of a window's children holds every one of them: going back from a
\* window along its list ends, because the windows are finitely many.
LEMMA ListHolds ==
  \A w \in Windows :
    /\ ChildOf[ParentOf[w]] # NoWnd
    /\ w \in {ChildOf[ParentOf[w]]} \cup Later(ChildOf[ParentOf[w]])
<1> DEFINE Listed(w) == /\ ChildOf[ParentOf[w]] # NoWnd
                        /\ w \in {ChildOf[ParentOf[w]]} \cup Later(ChildOf[ParentOf[w]])
           Z == {w \in Windows : ~Listed(w)}
           S == {n \in Nat : \E w \in Z : Cardinality(Later(w)) >= n}
<1>1. SUFFICES ASSUME Z # {} PROVE FALSE
  OBVIOUS
<1>2. \A w \in Tree : Later(w) \subseteq Windows /\ IsFiniteSet(Later(w)) /\ Cardinality(Later(w)) \in Nat
                      /\ Cardinality(Later(w)) <= Cardinality(Windows)
  <2>1. SUFFICES ASSUME NEW w \in Tree
                 PROVE  /\ Later(w) \subseteq Windows /\ IsFiniteSet(Later(w))
                        /\ Cardinality(Later(w)) \in Nat
                        /\ Cardinality(Later(w)) <= Cardinality(Windows)
    OBVIOUS
  <2>2. Later(w) \subseteq Windows
    BY LaterSiblings
  <2>3. IsFiniteSet(Windows)
    BY TreeAssumption
  <2> QED BY <2>2, <2>3, FS_Subset, FS_CardinalityType
<1>3. ASSUME NEW w \in Z
      PROVE  \E v \in Z : NextOf[v] = w
  <2>1. w \in Windows /\ ~Listed(w) /\ ParentOf[w] \in Tree
    BY TreeFacts
  <2>2. ChildOf[ParentOf[w]] # w
    <3>1. w # NoWnd
      BY <2>1, TreeFacts
    <3> QED BY <2>1, <3>1
  <2>3. PICK v \in Windows : NextOf[v] = w
    BY <2>1, <2>2, TreeAssumption
  <2>4. v \in Tree /\ NextOf[v] # NoWnd
    BY <2>1, <2>3, TreeFacts
  <2>5. ParentOf[v] = ParentOf[w] /\ w \in Later(v)
    BY <2>3, <2>4, TreeFacts, LaterIs
  <2>6. ASSUME Listed(v) PROVE FALSE
    <3> DEFINE c == ChildOf[ParentOf[w]]
    <3>1. c # NoWnd /\ v \in {c} \cup Later(c) /\ c \in Tree
      BY <2>1, <2>5, <2>6, TreeFacts
    <3>2. w \in Later(c)
      <4>1. CASE v = c
        BY <2>5, <4>1
      <4>2. CASE v \in Later(c)
        <5>1. Later(v) \subseteq Later(c)
          BY <3>1, <4>2, LaterSiblings
        <5> QED BY <2>5, <5>1
      <4> QED BY <3>1, <4>1, <4>2
    <3> QED BY <2>1, <3>1, <3>2
  <2> QED BY <2>3, <2>6
<1>4. 0 \in S
  <2>1. PICK w \in Z : TRUE
    BY <1>1
  <2>2. w \in Tree
    BY TreeFacts
  <2>3. Cardinality(Later(w)) \in Nat
    BY <1>2, <2>2
  <2>4. Cardinality(Later(w)) >= 0
    BY <2>3
  <2> QED BY <2>4
<1>5. ASSUME NEW n \in Nat, n \in S PROVE n + 1 \in S
  <2>1. PICK w \in Z : Cardinality(Later(w)) >= n
    BY <1>5
  <2>2. PICK v \in Z : NextOf[v] = w
    BY <1>3
  <2>3. v \in Tree /\ w \in Tree /\ w # NoWnd
    BY TreeFacts
  <2>4. Later(v) = {w} \cup Later(w) /\ w \notin Later(w)
    BY <2>2, <2>3, LaterIs, LaterApart
  <2>5. Cardinality(Later(v)) = Cardinality(Later(w)) + 1
    <3>1. IsFiniteSet(Later(w))
      BY <1>2, <2>3
    <3>2. Cardinality(Later(w) \cup {w}) = Cardinality(Later(w)) + 1
      BY <2>4, <3>1, FS_AddElement
    <3>3. Later(v) = Later(w) \cup {w}
      BY <2>4
    <3> QED BY <3>2, <3>3
  <2>6. Cardinality(Later(w)) \in Nat
    BY <1>2, <2>3
  <2>7. Cardinality(Later(v)) >= n + 1
    BY <2>1, <2>5, <2>6
  <2> QED BY <2>7
<1>6. Nat \subseteq S
  <2> HIDE DEF S
  <2> QED BY <1>4, <1>5, Induct
<1>7. Cardinality(Windows) \in Nat
  BY TreeAssumption, FS_CardinalityType
<1>8. Cardinality(Windows) + 1 \in S
  BY <1>6, <1>7
<1>9. PICK w \in Z : Cardinality(Later(w)) >= Cardinality(Windows) + 1
  BY <1>8
<1>10. w \in Tree
  BY TreeFacts
<1>11. Cardinality(Later(w)) \in Nat /\ Cardinality(Later(w)) <= Cardinality(Windows)
  BY <1>2, <1>10
<1> QED BY <1>7, <1>9, <1>11

---------------------------------------------------------------------------
(* The order of the tree.                                                  *)

\* The windows in a later list entry of w or of a window above it, or below
\* such an entry.
Beside(w) == {u \in Windows : \E x \in AtOrAbove(w), y \in AtOrAbove(u) : y \in Later(x)}

\* The windows that come after w in the order of the tree.
After(w) == {u \in Windows : Before(w, u)}

LEMMA AfterIs ==
  \A w, u \in Tree : u \in After(w) <=> u \in Windows /\ (w \in Above(u) \/ u \in Beside(w))
BY DEF After, Before, Beside, AtOrAbove

\* No window comes after itself.
LEMMA AfterApart ==
  \A w \in Tree : w \notin After(w)
<1>1. SUFFICES ASSUME NEW w \in Windows, w \in After(w) PROVE FALSE
  BY DEF After
<1>2. w \in Tree /\ w \notin Above(w)
  BY TreeFacts, AboveApart
<1>3. PICK x \in AtOrAbove(w), y \in AtOrAbove(w) : y \in Later(x)
  BY <1>1, <1>2, AfterIs DEF Beside
<1>4. x \in Tree /\ y \in Tree
  BY <1>2, AboveTrans DEF AtOrAbove
<1>5. x \in Windows /\ y \in Windows /\ ParentOf[x] = ParentOf[y]
  BY <1>3, <1>4, LaterSiblings
<1>6. Above(x) = Above(y)
  BY <1>5, AboveParent
<1>7. x # y
  BY <1>3, <1>4, LaterApart
<1>8. x \in Above(y) \/ y \in Above(x)
  BY <1>2, <1>3, <1>7, AboveLine
<1> QED BY <1>4, <1>6, <1>8, AboveApart

---------------------------------------------------------------------------
(* The links of the walk follow the order of the tree.                     *)

\* The first child of w is the next after w.
LEMMA ChildNext ==
  ASSUME NEW w \in Tree, ChildOf[w] # NoWnd
  PROVE  ChildOf[w] \in After(w) /\ After(ChildOf[w]) = After(w) \ {ChildOf[w]}
<1> DEFINE c == ChildOf[w]
<1>1. c \in Windows /\ c \in Tree /\ ParentOf[c] = w
  BY TreeFacts
<1>2. Above(c) = AtOrAbove(w)
  BY <1>1, AboveParent
<1> HIDE DEF c
<1>3. w \in Above(c)
  BY <1>2 DEF AtOrAbove
<1>4. c \in After(w)
  BY <1>1, <1>3, AfterIs
<1>5. ASSUME NEW u \in After(c) PROVE u \in After(w) /\ u # c
  <2>1. u \in Windows /\ u \in Tree
    BY TreeFacts DEF After
  <2>2. u # c
    BY <1>1, AfterApart
  <2>3. CASE c \in Above(u)
    <3>1. w \in Above(u)
      BY <1>3, <2>1, <2>3, AboveTrans DEF AtOrAbove
    <3> QED BY <2>1, <2>2, <3>1, AfterIs
  <2>4. CASE u \in Beside(c)
    <3>1. PICK x \in AtOrAbove(c), y \in AtOrAbove(u) : y \in Later(x)
      BY <2>4 DEF Beside
    <3>2. CASE x = c
      <4>1. y \in Windows /\ ParentOf[y] = w
        BY <1>1, <3>1, <3>2, LaterSiblings
      <4>2. w \in Above(y)
        BY <4>1, AboveParent DEF AtOrAbove
      <4>3. w \in Above(u)
        <5>1. CASE y = u
          BY <4>2, <5>1
        <5>2. CASE y \in Above(u)
          BY <2>1, <4>2, <5>2, AboveTrans DEF AtOrAbove
        <5> QED BY <3>1, <5>1, <5>2 DEF AtOrAbove
      <4> QED BY <2>1, <2>2, <4>3, AfterIs
    <3>3. CASE x \in AtOrAbove(w)
      <4>1. u \in Beside(w)
        BY <2>1, <3>1, <3>3 DEF Beside
      <4> QED BY <2>1, <2>2, <4>1, AfterIs
    <3> QED BY <1>2, <3>1, <3>2, <3>3 DEF AtOrAbove
  <2> QED BY <1>1, <2>1, <2>3, <2>4, AfterIs
<1>6. ASSUME NEW u \in After(w), u # c PROVE u \in After(c)
  <2>1. u \in Windows /\ u \in Tree
    BY TreeFacts DEF After
  <2>2. CASE w \in Above(u)
    <3>1. PICK y \in AtOrAbove(u) : y \in Windows /\ ParentOf[y] = w
      BY <2>1, <2>2, ChildAbove
    <3>2. y \in {c} \cup Later(c)
      BY <3>1, ListHolds DEF c
    <3>3. CASE y = c
      <4>1. c \in Above(u)
        BY <1>6, <3>1, <3>3 DEF AtOrAbove
      <4> QED BY <1>1, <2>1, <4>1, AfterIs
    <3>4. CASE y \in Later(c)
      <4>1. u \in Beside(c)
        BY <2>1, <3>1, <3>4 DEF Beside, AtOrAbove
      <4> QED BY <1>1, <2>1, <4>1, AfterIs
    <3> QED BY <3>2, <3>3, <3>4
  <2>3. CASE u \in Beside(w)
    <3>1. PICK x \in AtOrAbove(w), y \in AtOrAbove(u) : y \in Later(x)
      BY <2>3 DEF Beside
    <3>2. x \in AtOrAbove(c)
      BY <1>2, <3>1 DEF AtOrAbove
    <3>3. u \in Beside(c)
      BY <2>1, <3>1, <3>2 DEF Beside
    <3> QED BY <1>1, <2>1, <3>3, AfterIs
  <2> QED BY <2>1, <2>2, <2>3, AfterIs
<1> QED BY <1>4, <1>5, <1>6 DEF c

\* The next sibling of w is the first of the windows beside it.
LEMMA NextNext ==
  ASSUME NEW w \in Tree, NextOf[w] # NoWnd
  PROVE  NextOf[w] \in Beside(w) /\ After(NextOf[w]) = Beside(w) \ {NextOf[w]}
<1> DEFINE n == NextOf[w]
<1>1. w \in Windows /\ n \in Windows /\ n \in Tree /\ ParentOf[n] = ParentOf[w]
  BY TreeFacts
<1>2. Above(n) = Above(w) /\ Later(w) = {n} \cup Later(n)
  BY <1>1, AboveParent, LaterIs
<1> HIDE DEF n
<1>3. n \in Beside(w)
  BY <1>1, <1>2 DEF Beside, AtOrAbove
<1>4. ASSUME NEW u \in After(n) PROVE u \in Beside(w) /\ u # n
  <2>1. u \in Windows /\ u \in Tree
    BY TreeFacts DEF After
  <2>2. u # n
    BY <1>1, AfterApart
  <2>3. CASE n \in Above(u)
    <3>1. u \in Beside(w)
      BY <1>2, <2>1, <2>3 DEF Beside, AtOrAbove
    <3> QED BY <2>2, <3>1
  <2>4. CASE u \in Beside(n)
    <3>1. PICK x \in AtOrAbove(n), y \in AtOrAbove(u) : y \in Later(x)
      BY <2>4 DEF Beside
    <3>2. CASE x = n
      <4>1. y \in Later(w) /\ w \in AtOrAbove(w)
        BY <1>2, <3>1, <3>2 DEF AtOrAbove
      <4>2. u \in Beside(w)
        BY <2>1, <3>1, <4>1 DEF Beside
      <4> QED BY <2>2, <4>2
    <3>3. CASE x \in Above(w)
      <4>1. x \in AtOrAbove(w)
        BY <3>3 DEF AtOrAbove
      <4>2. u \in Beside(w)
        BY <2>1, <3>1, <4>1 DEF Beside
      <4> QED BY <2>2, <4>2
    <3> QED BY <1>2, <3>1, <3>2, <3>3 DEF AtOrAbove
  <2> QED BY <1>1, <2>1, <2>3, <2>4, AfterIs
<1>5. ASSUME NEW u \in Beside(w), u # n PROVE u \in After(n)
  <2>1. u \in Windows /\ u \in Tree
    BY TreeFacts DEF Beside
  <2>2. PICK x \in AtOrAbove(w), y \in AtOrAbove(u) : y \in Later(x)
    BY DEF Beside
  <2>3. CASE x = w /\ y = n
    <3>1. n \in Above(u)
      BY <1>5, <2>2, <2>3 DEF AtOrAbove
    <3> QED BY <1>1, <2>1, <3>1, AfterIs
  <2>4. CASE x = w /\ y \in Later(n)
    <3>1. u \in Beside(n)
      BY <2>1, <2>2, <2>4 DEF Beside, AtOrAbove
    <3> QED BY <1>1, <2>1, <3>1, AfterIs
  <2>5. CASE x \in Above(w)
    <3>1. x \in AtOrAbove(n)
      BY <1>2, <2>5 DEF AtOrAbove
    <3>2. u \in Beside(n)
      BY <2>1, <2>2, <3>1 DEF Beside
    <3> QED BY <1>1, <2>1, <3>2, AfterIs
  <2> QED BY <1>2, <2>2, <2>3, <2>4, <2>5 DEF AtOrAbove
<1> QED BY <1>3, <1>4, <1>5 DEF n

\* Without a child, what comes after a window is beside it.
LEMMA ChildlessAfter ==
  ASSUME NEW w \in Tree, ChildOf[w] = NoWnd
  PROVE  After(w) = Beside(w)
<1>1. ASSUME NEW u \in Tree, w \in Above(u) PROVE FALSE
  <2>1. PICK y \in AtOrAbove(u) : y \in Windows /\ ParentOf[y] = w
    BY <1>1, ChildAbove
  <2> QED BY <2>1, ListHolds
<1>2. \A u \in Windows : u \in Tree
  BY TreeFacts
<1>3. \A u \in After(w) : u \in Windows
  BY DEF After
<1>4. \A u \in Beside(w) : u \in Windows
  BY DEF Beside
<1> QED BY <1>1, <1>2, <1>3, <1>4, AfterIs

\* Without a next sibling, what is beside a window is beside its parent.
LEMMA LastBeside ==
  ASSUME NEW w \in Windows, NextOf[w] = NoWnd
  PROVE  Beside(w) = Beside(ParentOf[w])
<1>1. w \in Tree /\ Later(w) = {}
  BY LaterIs, TreeFacts
<1>2. AtOrAbove(w) = AtOrAbove(ParentOf[w]) \cup {w}
  BY AboveParent DEF AtOrAbove
<1> QED BY <1>1, <1>2 DEF Beside

LEMMA UpIs ==
  \A w \in Tree :
    Up(w) = IF ParentOf[w] \in {NoWnd, Desktop} THEN NoWnd
            ELSE IF NextOf[ParentOf[w]] # NoWnd THEN NextOf[ParentOf[w]]
            ELSE Up(ParentOf[w])
<1> DEFINE Is(f) == f = [v \in Tree |->
                           IF ParentOf[v] \in {NoWnd, Desktop} THEN NoWnd
                           ELSE IF NextOf[ParentOf[v]] # NoWnd THEN NextOf[ParentOf[v]]
                           ELSE f[ParentOf[v]]]
           up == CHOOSE f : Is(f)
           T == {v \in Tree : \/ ParentOf[v] \in {NoWnd, Desktop}
                              \/ NextOf[ParentOf[v]] # NoWnd}
           E == [v \in Tree |-> IF v \in T THEN v ELSE ParentOf[v]]
           Ends(v) == Reach(Tree, E, T, v) \cap T
           End(v) == CHOOSE x \in Ends(v) : TRUE
           Base(v) == IF ParentOf[v] \in {NoWnd, Desktop} THEN NoWnd ELSE NextOf[ParentOf[v]]
           g == [v \in Tree |-> Base(End(v))]
<1>1. E \in [Tree -> Tree]
  BY TreeFacts
<1>2. ASSUME NEW v \in T PROVE End(v) = v
  <2>1. Reach(Tree, E, T, v) = {v}
    <3> HIDE DEF E, T
    <3>1. v \in Tree
      BY DEF T
    <3> QED BY <1>1, <1>2, <3>1, ReachStep
  <2>2. Ends(v) = {v}
    <3> HIDE DEF E, T
    <3> QED BY <1>2, <2>1
  <2> HIDE DEF Ends
  <2> QED BY <2>2
<1>3. ASSUME NEW v \in Tree, v \notin T PROVE End(v) = End(ParentOf[v])
  <2>1. E[v] = ParentOf[v]
    BY <1>3
  <2>2. Ends(v) = Ends(ParentOf[v])
    <3> HIDE DEF E, T
    <3>1. Reach(Tree, E, T, v) = {v} \cup Reach(Tree, E, T, E[v])
      BY <1>1, <1>3, ReachStep
    <3> QED BY <1>3, <2>1, <3>1
  <2> HIDE DEF Ends
  <2> QED BY <2>2
<1>4. Is(g)
  <2>1. ASSUME NEW v \in Tree
        PROVE  g[v] = IF ParentOf[v] \in {NoWnd, Desktop} THEN NoWnd
                      ELSE IF NextOf[ParentOf[v]] # NoWnd THEN NextOf[ParentOf[v]]
                      ELSE g[ParentOf[v]]
    <3>1. \A x \in Tree : g[x] = Base(End(x))
      OBVIOUS
    <3>2. CASE v \in T
      <4>1. g[v] = Base(v)
        <5> HIDE DEF g, Base, End
        <5> QED BY <1>2, <2>1, <3>1, <3>2
      <4> HIDE DEF g
      <4> QED BY <3>2, <4>1
    <3>3. CASE v \notin T
      <4>1. ParentOf[v] \in Tree
        BY <2>1, <3>3, TreeFacts
      <4>2. g[v] = g[ParentOf[v]]
        <5> HIDE DEF g, Base, End
        <5> QED BY <1>3, <2>1, <3>1, <3>3, <4>1
      <4> HIDE DEF g
      <4> QED BY <2>1, <3>3, <4>2
    <3> QED BY <3>2, <3>3
  <2>2. g = [v \in Tree |-> g[v]]
    OBVIOUS
  <2> HIDE DEF g
  <2> QED BY <2>1, <2>2
<1>5. Is(up)
  <2> HIDE DEF Is
  <2> QED BY <1>4
<1>6. \A w : Up(w) = up[w]
  BY Zenon DEF Up
<1>7. \A v \in Tree : up[v] = IF ParentOf[v] \in {NoWnd, Desktop} THEN NoWnd
                              ELSE IF NextOf[ParentOf[v]] # NoWnd THEN NextOf[ParentOf[v]]
                              ELSE up[ParentOf[v]]
  <2> HIDE DEF up
  <2> QED BY <1>5
<1> HIDE DEF up, Is
<1> QED BY <1>6, <1>7, TreeFacts

\* Where w leads when nothing comes after it but v if at all.
Leads(v, rest) ==
  \/ v = NoWnd /\ rest = {}
  \/ v \in rest /\ v \in Windows /\ After(v) = rest \ {v}

\* Going up from the last in a list leads to the first window beside it.
LEMMA UpNext ==
  \A w \in Windows : NextOf[w] = NoWnd => Leads(Up(w), Beside(w))
<1> DEFINE S == {w \in Tree : w \in Windows /\ NextOf[w] = NoWnd => Leads(Up(w), Beside(w))}
<1>1. ASSUME NEW w \in Tree, ParentOf[w] \in S \cup {NoWnd} PROVE w \in S
  <2>1. SUFFICES ASSUME w \in Windows, NextOf[w] = NoWnd PROVE Leads(Up(w), Beside(w))
    OBVIOUS
  <2> DEFINE p == ParentOf[w]
  <2>2. p \in S /\ p \in Tree
    BY <1>1, <2>1, TreeFacts
  <2>3. Beside(w) = Beside(p)
    BY <2>1, LastBeside
  <2>4. Up(w) = IF p = Desktop THEN NoWnd
                ELSE IF NextOf[p] # NoWnd THEN NextOf[p] ELSE Up(p)
    <3>1. p # NoWnd
      BY <2>1, TreeFacts
    <3> HIDE DEF p
    <3>2. Up(w) = IF p \in {NoWnd, Desktop} THEN NoWnd
                  ELSE IF NextOf[p] # NoWnd THEN NextOf[p] ELSE Up(p)
      BY UpIs DEF p
    <3> QED BY <3>1, <3>2
  <2>5. CASE p = Desktop
    <3>1. Beside(p) = {}
      BY <2>5, AboveParent DEF Beside, AtOrAbove
    <3> QED BY <2>3, <2>4, <2>5, <3>1 DEF Leads
  <2>6. CASE p # Desktop /\ NextOf[p] # NoWnd
    <3>1. NextOf[p] \in Beside(p) /\ After(NextOf[p]) = Beside(p) \ {NextOf[p]}
      BY <2>2, <2>6, NextNext
    <3>2. NextOf[p] \in Windows
      BY <2>2, <2>6, TreeFacts
    <3>3. Up(w) = NextOf[p]
      BY <2>4, <2>6
    <3> QED BY <2>3, <3>1, <3>2, <3>3 DEF Leads
  <2>7. CASE p # Desktop /\ NextOf[p] = NoWnd
    <3>1. p \in Windows
      BY <2>2, <2>7, TreeFacts
    <3>2. Leads(Up(p), Beside(p))
      BY <2>2, <2>7, <3>1
    <3> QED BY <2>3, <2>4, <2>7, <3>2
  <2> QED BY <2>5, <2>6, <2>7
<1> HIDE DEF S
<1>2. Tree \subseteq S
  BY <1>1, TreeInduct
<1> QED BY <1>2, TreeFacts DEF S

\* One step of the walk leads to the window that comes next in the order.
LEMMA FollowNext ==
  \A w \in Windows : Leads(Follow(w), After(w))
<1>1. SUFFICES ASSUME NEW w \in Windows PROVE Leads(Follow(w), After(w))
  OBVIOUS
<1>2. w \in Tree
  BY TreeFacts
<1>3. CASE ChildOf[w] # NoWnd
  <2>1. Follow(w) = ChildOf[w] /\ ChildOf[w] \in Windows
    BY <1>2, <1>3, TreeFacts DEF Follow
  <2> QED BY <1>2, <1>3, <2>1, ChildNext DEF Leads
<1>4. CASE ChildOf[w] = NoWnd /\ NextOf[w] # NoWnd
  <2>1. Follow(w) = NextOf[w] /\ NextOf[w] \in Windows
    BY <1>2, <1>4, TreeFacts DEF Follow
  <2>2. After(w) = Beside(w)
    BY <1>2, <1>4, ChildlessAfter
  <2> QED BY <1>2, <1>4, <2>1, <2>2, NextNext DEF Leads
<1>5. CASE ChildOf[w] = NoWnd /\ NextOf[w] = NoWnd
  <2>1. Follow(w) = Up(w)
    BY <1>5 DEF Follow
  <2>2. After(w) = Beside(w)
    BY <1>2, <1>5, ChildlessAfter
  <2> QED BY <1>5, <2>1, <2>2, UpNext
<1> QED BY <1>3, <1>4, <1>5

---------------------------------------------------------------------------
(* find_window_needing_paint.                                              *)

\* The walk goes on by Follow and ends at a window that needs painting.
Walks(walk) ==
  /\ walk[NoWnd] = NoWnd
  /\ \A w \in Windows : walk[w] = IF NeedsPaint(w) THEN w ELSE walk[Follow(w)]

LEMMA FollowIn ==
  \A w \in Tree : Follow(w) \in Tree \cup {NoWnd}
<1>1. \A w \in Windows : Follow(w) \in Tree \cup {NoWnd}
  BY FollowNext, TreeFacts DEF Leads
<1>2. Follow(Desktop) \in Tree \cup {NoWnd}
  <2>1. Desktop \in Tree /\ ParentOf[Desktop] = NoWnd /\ NextOf[Desktop] = NoWnd
    BY TreeFacts, TreeAssumption
  <2>2. Up(Desktop) = NoWnd
    BY <2>1, UpIs
  <2>3. ChildOf[Desktop] # NoWnd => ChildOf[Desktop] \in Tree
    BY <2>1, TreeFacts
  <2> QED BY <2>1, <2>2, <2>3 DEF Follow
<1> QED BY <1>1, <1>2, TreeFacts

LEMMA FindWalks ==
  \E walk : Walks(walk) /\ FindWindowNeedingPaint = walk[ChildOf[Desktop]]
<1> DEFINE D == Tree \cup {NoWnd}
           Is(f) == f = [w \in D |-> IF w = NoWnd THEN NoWnd
                                     ELSE IF NeedsPaint(w) THEN w ELSE f[Follow(w)]]
           walk == CHOOSE f : Is(f)
           T == {w \in D : w = NoWnd \/ NeedsPaint(w)}
           E == [w \in D |-> IF w \in T THEN w ELSE Follow(w)]
           Ends(w) == Reach(D, E, T, w) \cap T
           End(w) == CHOOSE x \in Ends(w) : TRUE
           g == [w \in D |-> End(w)]
<1>1. E \in [D -> D]
  BY FollowIn
<1>2. ASSUME NEW w \in T PROVE End(w) = w
  <2>1. Reach(D, E, T, w) = {w}
    <3>1. w \in D
      BY DEF T
    <3> HIDE DEF D, E, T
    <3> QED BY <1>1, <1>2, <3>1, ReachStep
  <2>2. Ends(w) = {w}
    <3> HIDE DEF D, E, T
    <3> QED BY <1>2, <2>1
  <2> HIDE DEF Ends
  <2> QED BY <2>2
<1>3. ASSUME NEW w \in D, w \notin T PROVE End(w) = End(Follow(w))
  <2>1. E[w] = Follow(w)
    BY <1>3
  <2>2. Ends(w) = Ends(Follow(w))
    <3> HIDE DEF D, E, T
    <3>1. Reach(D, E, T, w) = {w} \cup Reach(D, E, T, E[w])
      BY <1>1, <1>3, ReachStep
    <3> QED BY <1>3, <2>1, <3>1
  <2> HIDE DEF Ends
  <2> QED BY <2>2
<1>4. Is(g)
  <2>1. ASSUME NEW w \in D
        PROVE  g[w] = IF w = NoWnd THEN NoWnd
                      ELSE IF NeedsPaint(w) THEN w ELSE g[Follow(w)]
    <3>1. \A x \in D : g[x] = End(x)
      OBVIOUS
    <3>2. CASE w \in T
      <4>1. g[w] = w
        <5> HIDE DEF D, T, g, End
        <5> QED BY <1>2, <2>1, <3>1, <3>2
      <4> HIDE DEF g
      <4> QED BY <3>2, <4>1
    <3>3. CASE w \notin T
      <4>1. Follow(w) \in D
        BY <2>1, <3>3, FollowIn
      <4>2. g[w] = g[Follow(w)]
        <5> HIDE DEF D, T, g, End
        <5> QED BY <1>3, <2>1, <3>1, <3>3, <4>1
      <4> HIDE DEF g
      <4> QED BY <2>1, <3>3, <4>2
    <3> QED BY <3>2, <3>3
  <2>2. g = [w \in D |-> g[w]]
    OBVIOUS
  <2> HIDE DEF g
  <2> QED BY <2>1, <2>2
<1>5. Is(walk)
  <2> HIDE DEF Is
  <2> QED BY <1>4
<1>6. FindWindowNeedingPaint = walk[ChildOf[Desktop]]
  BY Zenon DEF FindWindowNeedingPaint
<1>7. \A w \in D : walk[w] = IF w = NoWnd THEN NoWnd
                             ELSE IF NeedsPaint(w) THEN w ELSE walk[Follow(w)]
  <2> HIDE DEF walk
  <2> QED BY <1>5
<1> HIDE DEF walk, Is
<1>8. Walks(walk)
  BY <1>7, TreeFacts DEF Walks
<1> QED BY <1>6, <1>8

\* What the walk from w has before it.
Ahead(w) == {w} \cup After(w)

\* f is the first window of A that needs painting, or there is none.
FirstNeedy(f, A) ==
  /\ f = NoWnd <=> \A v \in A : ~NeedsPaint(v)
  /\ f # NoWnd => /\ f \in A /\ NeedsPaint(f)
                  /\ \A v \in A : NeedsPaint(v) /\ v # f => f \notin After(v)

LEMMA WalkFinds ==
  ASSUME NEW walk, Walks(walk)
  PROVE  \A w \in Windows : FirstNeedy(walk[w], Ahead(w))
<1> DEFINE OK(w) == /\ FirstNeedy(walk[w], Ahead(w))
                    /\ \A v \in Ahead(w) : After(v) \subseteq After(w)
           S == {n \in Nat : \A w \in Windows : Cardinality(After(w)) = n => OK(w)}
<1>1. \A w \in Windows : IsFiniteSet(After(w)) /\ Cardinality(After(w)) \in Nat
  <2>1. \A w \in Windows : After(w) \subseteq Windows
    BY DEF After
  <2> QED BY <2>1, TreeAssumption, FS_Subset, FS_CardinalityType
<1>2. ASSUME NEW w \in Windows, Follow(w) # NoWnd => OK(Follow(w)) PROVE OK(w)
  <2> DEFINE f == Follow(w)
  <2>1. Leads(f, After(w))
    BY FollowNext
  <2>2. walk[w] = IF NeedsPaint(w) THEN w ELSE walk[f]
    BY DEF Walks
  <2>3. w \notin After(w) /\ w # NoWnd
    BY AfterApart, TreeFacts
  <2>4. CASE f = NoWnd /\ After(w) = {}
    <3>1. Ahead(w) = {w} /\ walk[f] = NoWnd
      BY <2>4 DEF Ahead, Walks
    <3>2. FirstNeedy(walk[w], Ahead(w))
      BY <2>2, <2>3, <3>1 DEF FirstNeedy
    <3> QED BY <3>1, <3>2
  <2>5. CASE f \in After(w) /\ f \in Windows /\ After(f) = After(w) \ {f}
    <3>1. Ahead(f) = After(w) /\ f # NoWnd
      BY <2>5, TreeFacts DEF Ahead
    <3>2. OK(f)
      BY <1>2, <3>1
    <3> HIDE DEF f
    <3>3. \A v \in After(w) : After(v) \subseteq After(w)
      BY <2>5, <3>1, <3>2
    <3>4. \A v \in Ahead(w) : After(v) \subseteq After(w)
      BY <3>3 DEF Ahead
    <3>5. CASE NeedsPaint(w)
      <4>1. walk[w] = w
        BY <2>2, <3>5
      <4>2. FirstNeedy(walk[w], Ahead(w))
        BY <2>3, <3>4, <3>5, <4>1 DEF FirstNeedy, Ahead
      <4> QED BY <3>4, <4>2
    <3>6. CASE ~NeedsPaint(w)
      <4>1. walk[w] = walk[f] /\ FirstNeedy(walk[f], After(w))
        BY <2>2, <3>1, <3>2, <3>6
      <4>2. FirstNeedy(walk[w], Ahead(w))
        BY <3>6, <4>1 DEF FirstNeedy, Ahead
      <4> QED BY <3>4, <4>2
    <3> QED BY <3>5, <3>6
  <2> HIDE DEF OK, f
  <2> QED BY <2>1, <2>4, <2>5 DEF Leads
<1>3. ASSUME NEW w \in Windows, Follow(w) # NoWnd
      PROVE  /\ Follow(w) \in Windows
             /\ Cardinality(After(Follow(w))) = Cardinality(After(w)) - 1
  <2>1. /\ Follow(w) \in After(w) /\ Follow(w) \in Windows
        /\ After(Follow(w)) = After(w) \ {Follow(w)}
    BY <1>3, FollowNext DEF Leads
  <2> QED BY <1>1, <2>1, FS_RemoveElement
<1> HIDE DEF OK
<1>4. 0 \in S
  <2>1. ASSUME NEW w \in Windows, Cardinality(After(w)) = 0 PROVE OK(w)
    <3>1. Follow(w) = NoWnd
      <4>1. SUFFICES ASSUME Follow(w) # NoWnd PROVE FALSE
        OBVIOUS
      <4>2. Follow(w) \in Windows /\ Cardinality(After(Follow(w))) = 0 - 1
        BY <1>3, <2>1, <4>1
      <4>3. Cardinality(After(Follow(w))) \in Nat
        BY <1>1, <4>2
      <4> QED BY <4>2, <4>3
    <3> QED BY <1>2, <3>1
  <2> QED BY <2>1
<1>5. ASSUME NEW n \in Nat, n \in S PROVE n + 1 \in S
  <2>1. ASSUME NEW w \in Windows, Cardinality(After(w)) = n + 1 PROVE OK(w)
    <3>1. ASSUME Follow(w) # NoWnd PROVE OK(Follow(w))
      <4>1. Follow(w) \in Windows /\ Cardinality(After(Follow(w))) = (n + 1) - 1
        BY <1>3, <2>1, <3>1
      <4>2. Cardinality(After(Follow(w))) = n
        BY <4>1
      <4> QED BY <1>5, <4>1, <4>2
    <3> QED BY <1>2, <3>1
  <2> QED BY <2>1
<1> HIDE DEF S
<1>6. Nat \subseteq S
  BY <1>4, <1>5, Induct
<1>7. \A w \in Windows : Cardinality(After(w)) \in S
  BY <1>1, <1>6
<1>8. \A w \in Windows : OK(w)
  BY <1>7 DEF S
<1> QED BY <1>8 DEF OK

LEMMA PaintHolds == PaintsInOrder
<1> DEFINE needy == {w \in Windows : NeedsPaint(w)}
           found == FindWindowNeedingPaint
           c == ChildOf[Desktop]
<1>1. PICK walk : Walks(walk) /\ found = walk[c]
  BY FindWalks
<1>2. FirstNeedy(found, Windows)
  <2>1. \A u \in Windows : Desktop \in Above(u)
    BY DesktopAbove
  <2>2. After(Desktop) = Windows
    <3>1. Desktop \in Tree /\ \A u \in Windows : u \in Tree
      BY TreeFacts
    <3> QED BY <2>1, <3>1, AfterIs DEF After
  <2>3. CASE c = NoWnd
    <3>1. Windows = {}
      <4>1. After(Desktop) = Beside(Desktop)
        BY <2>3, ChildlessAfter, TreeFacts
      <4>2. Beside(Desktop) = {}
        BY AboveParent DEF Beside, AtOrAbove
      <4> QED BY <2>2, <4>1, <4>2
    <3>2. found = NoWnd
      BY <1>1, <2>3 DEF Walks
    <3> QED BY <3>1, <3>2 DEF FirstNeedy
  <2>4. CASE c # NoWnd
    <3>1. c \in Windows /\ c \in After(Desktop) /\ After(c) = After(Desktop) \ {c}
      BY <2>4, TreeFacts, ChildNext
    <3>2. Ahead(c) = Windows
      BY <2>2, <3>1 DEF Ahead
    <3>3. FirstNeedy(walk[c], Ahead(c))
      BY <1>1, <3>1, WalkFinds
    <3> QED BY <1>1, <3>2, <3>3
  <2> QED BY <2>3, <2>4
<1>3. found # NoWnd => \A v \in needy \ {found} : ~Before(v, found)
  <2>1. SUFFICES ASSUME found # NoWnd, NEW v \in needy \ {found} PROVE ~Before(v, found)
    OBVIOUS
  <2>2. found \in Windows /\ found \notin After(v)
    BY <1>2, <2>1 DEF FirstNeedy
  <2> QED BY <2>2 DEF After
<1>4. found = NoWnd <=> needy = {}
  BY <1>2 DEF FirstNeedy
<1>5. found # NoWnd => found \in needy
  BY <1>2 DEF FirstNeedy
<1> HIDE DEF needy, found
<1> QED BY <1>3, <1>4, <1>5 DEF PaintsInOrder, needy, found

\* find_window_needing_paint goes down, right and up by the links of the
\* windows.  In every tree, whichever windows are visible and wait for painting,
\* it misses none of them and stops at the first in the order of the tree.
THEOREM PaintsCorrect == Spec => []PaintsInOrder
BY PaintHolds, PTL

=============================================================================
