-------------------------- MODULE HashPruneProof --------------------------
(***************************************************************************)
(* Proofs about HashPrune, for every set of candidates, every assignment   *)
(* of hashes, every capacity and every rounding step.                      *)
(***************************************************************************)
EXTENDS HashPrune, DataTheorems

-----------------------------------------------------------------------------
(* The sequence operations of the reservoir.                               *)

\* The parts the operations are put together from.
LEMMA PartsOfInsert ==
  ASSUME NEW s, NEW i, NEW x, NEW p, p = i - 1
  PROVE  InsertAt(s, i, x) = (SubSeq(s, 1, p) \o <<x>>) \o SubSeq(s, i, Len(s))
BY DEF InsertAt

\* A sequence with x inserted behind its first p elements.
LEMMA InsertFacts ==
  ASSUME NEW S, NEW s \in Seq(S), NEW p \in 0..Len(s), NEW x \in S
  PROVE  /\ InsertAt(s, p + 1, x) \in Seq(S) /\ Len(s) \in Nat
         /\ Len(InsertAt(s, p + 1, x)) = Len(s) + 1
         /\ \A i \in 1..(Len(s) + 1) :
              InsertAt(s, p + 1, x)[i] = IF i <= p THEN s[i] ELSE IF i = p + 1 THEN x ELSE s[i - 1]
<1> DEFINE n == Len(s)
           a == SubSeq(s, 1, p)
           b == <<x>>
           c == SubSeq(s, p + 1, n)
<1>1. n \in Nat /\ \A i \in 1..n : s[i] \in S
  BY LenProperties, ElementOfSeq
<1>2. p \in Nat /\ p <= n
  BY <1>1
<1>3. /\ a \in Seq(S) /\ Len(a) = p /\ \A i \in 1..p : a[i] = s[i]
  <2>1. \A i \in 1..p : s[i] \in S
    BY <1>1, <1>2
  <2>2. /\ a \in Seq(S) /\ Len(a) = IF 1 <= p THEN p - 1 + 1 ELSE 0
        /\ \A i \in 1..(p - 1 + 1) : a[i] = s[1 + i - 1]
    BY <1>2, <2>1, SubSeqProperties
  <2> QED BY <1>2, <2>2
<1>4. /\ c \in Seq(S) /\ Len(c) = n - p /\ \A i \in 1..(n - p) : c[i] = s[p + i]
  <2>1. \A i \in (p + 1)..n : s[i] \in S
    BY <1>1, <1>2
  <2>2. /\ c \in Seq(S) /\ Len(c) = IF p + 1 <= n THEN n - (p + 1) + 1 ELSE 0
        /\ \A i \in 1..(n - (p + 1) + 1) : c[i] = s[(p + 1) + i - 1]
    BY <1>1, <1>2, <2>1, SubSeqProperties
  <2> QED BY <1>1, <1>2, <2>2
<1>5. b \in Seq(S) /\ Len(b) = 1 /\ b[1] = x
  OBVIOUS
<1>6. InsertAt(s, p + 1, x) = (a \o b) \o c
  <2>1. ASSUME NEW q, q = p + 1
        PROVE  InsertAt(s, q, x) = (SubSeq(s, 1, p) \o <<x>>) \o SubSeq(s, q, Len(s))
    <3>1. p = q - 1
      BY <1>2, <2>1
    <3> QED BY <3>1, PartsOfInsert
  <2> QED BY <2>1
<1> HIDE DEF a, b, c
<1>7. /\ a \o b \in Seq(S) /\ Len(a \o b) = p + 1
      /\ \A i \in 1..(p + 1) : (a \o b)[i] = IF i <= p THEN a[i] ELSE b[i - p]
  <2>1. /\ a \o b \in Seq(S) /\ Len(a \o b) = Len(a) + Len(b)
        /\ \A i \in 1..(Len(a) + Len(b)) : (a \o b)[i] = IF i <= Len(a) THEN a[i] ELSE b[i - Len(a)]
    BY <1>3, <1>5, ConcatProperties
  <2> QED BY <1>3, <1>5, <2>1
<1> DEFINE ab == a \o b
<1>8. /\ ab \in Seq(S) /\ Len(ab) = p + 1
      /\ \A i \in 1..(p + 1) : ab[i] = IF i <= p THEN s[i] ELSE x
  BY <1>2, <1>3, <1>5, <1>7
<1> HIDE DEF ab, n
<1>9. /\ ab \o c \in Seq(S) /\ Len(ab \o c) = p + 1 + (n - p)
      /\ \A i \in 1..(p + 1 + (n - p)) : (ab \o c)[i] = IF i <= p + 1 THEN ab[i] ELSE c[i - (p + 1)]
  <2>1. /\ ab \o c \in Seq(S) /\ Len(ab \o c) = Len(ab) + Len(c)
        /\ \A i \in 1..(Len(ab) + Len(c)) : (ab \o c)[i] = IF i <= Len(ab) THEN ab[i] ELSE c[i - Len(ab)]
    BY <1>4, <1>8, ConcatProperties
  <2> QED BY <1>4, <1>8, <2>1
<1>10. ASSUME NEW i \in 1..(n + 1)
       PROVE  (ab \o c)[i] = IF i <= p THEN s[i] ELSE IF i = p + 1 THEN x ELSE s[i - 1]
  <2>1. CASE i <= p + 1
    BY <1>1, <1>2, <1>8, <1>9, <2>1
  <2>2. CASE i > p + 1
    <3>1. i - (p + 1) \in 1..(n - p) /\ p + (i - (p + 1)) = i - 1
      BY <1>1, <1>2, <2>2
    <3>2. c[i - (p + 1)] = s[i - 1]
      BY <1>4, <3>1
    <3> QED BY <1>1, <1>2, <1>9, <2>2, <3>2, SMTT(30)
  <2>3. i <= p + 1 \/ i > p + 1
    BY <1>1, <1>2
  <2> QED BY <2>1, <2>2, <2>3, Zenon
<1>11. p + 1 + (n - p) = n + 1
  BY <1>1, <1>2
<1>12. /\ ab \o c \in Seq(S) /\ Len(ab \o c) = n + 1
  BY <1>9, <1>11
<1> DEFINE r == InsertAt(s, p + 1, x)
<1>13. r = ab \o c
  BY <1>6 DEF ab
<1> HIDE DEF r
<1>14. r \in Seq(S) /\ Len(r) = n + 1 /\ \A i \in 1..(n + 1) :
         r[i] = IF i <= p THEN s[i] ELSE IF i = p + 1 THEN x ELSE s[i - 1]
  BY <1>10, <1>12, <1>13
<1> QED BY <1>1, <1>14 DEF r, n

\* One element of a sequence with x inserted.
LEMMA InsertElement ==
  ASSUME NEW S, NEW s \in Seq(S), NEW p \in 0..Len(s), NEW x \in S, NEW i \in 1..(Len(s) + 1)
  PROVE  InsertAt(s, p + 1, x)[i] = IF i <= p THEN s[i] ELSE IF i = p + 1 THEN x ELSE s[i - 1]
BY InsertFacts

\* A set of positions that is closed downwards is an initial segment.
LEMMA InitialSegment ==
  ASSUME NEW n \in Nat, NEW D, D \subseteq 1..n, \A i \in D : \A j \in 1..n : j <= i => j \in D
  PROVE  /\ Cardinality(D) \in 0..n
         /\ \A i \in 1..n : i \in D <=> i <= Cardinality(D)
<1>1. CASE D = {}
  <2>1. Cardinality(D) = 0
    BY <1>1, FS_EmptySet
  <2> QED BY <1>1, <2>1
<1>2. CASE D # {}
  <2> DEFINE T == {n - i : i \in D}
  <2>1. T \subseteq Nat /\ T # {}
    BY <1>2
  <2>2. PICK k \in T : \A m \in T : k <= m
    <3> HIDE DEF T
    <3> QED BY <2>1, LeastNat
  <2>3. PICK m \in D : k = n - m
    BY <2>2
  <2>4. \A i \in D : i <= m
    <3> SUFFICES ASSUME NEW i \in D PROVE i <= m
      OBVIOUS
    <3>1. n - i \in T
      OBVIOUS
    <3>2. n - m <= n - i
      BY <2>2, <2>3, <3>1
    <3> QED BY <3>2
  <2>5. D = 1..m
    <3>1. m \in 1..n /\ m \in Nat
      BY <2>3
    <3>2. D \subseteq 1..m
      BY <2>4
    <3>3. 1..m \subseteq D
      <4> SUFFICES ASSUME NEW j \in 1..m PROVE j \in D
        OBVIOUS
      <4>1. j \in 1..n /\ j <= m
        BY <3>1
      <4> QED BY <2>3, <4>1
    <3> QED BY <3>2, <3>3
  <2>6. Cardinality(D) = m
    BY <2>5, FS_Interval
  <2> QED BY <2>5, <2>6
<1> QED BY <1>1, <1>2

-----------------------------------------------------------------------------
(* Sorted sequences of slots.                                              *)

SlotRecords == [target : Targets, hash : Nat, dist : Nat]
Elems(s) == {s[i] : i \in DOMAIN s}
Sorted(s) == \A i, j \in DOMAIN s : i < j => s[i].hash <= s[j].hash
Unique(s) == \A i, j \in DOMAIN s : i < j => s[i].target # s[j].target
Ordered(s) == s \in Seq(SlotRecords) /\ Sorted(s) /\ Unique(s)

\* The fields of the slots of a reservoir.
LEMMA SeqFacts ==
  ASSUME NEW s \in Seq(SlotRecords)
  PROVE  /\ Len(s) \in Nat /\ DOMAIN s = 1..Len(s)
         /\ \A i \in 1..Len(s) : /\ s[i] \in SlotRecords /\ s[i].hash \in Nat /\ s[i].dist \in Nat
                                 /\ s[i].target \in Targets
<1>1. Len(s) \in Nat /\ DOMAIN s = 1..Len(s)
  BY LenProperties
<1>2. \A i \in 1..Len(s) : s[i] \in SlotRecords
  BY ElementOfSeq
<1> QED BY <1>1, <1>2 DEF SlotRecords

\* upper_bound_hash and lower_bound_hash are positions that split the slots by hash.
LEMMA BoundFacts ==
  ASSUME NEW s, Ordered(s), NEW h \in Nat
  PROVE  /\ UpperBoundHash(s, h) \in 0..Len(s) /\ LowerBoundHash(s, h) \in 0..Len(s)
         /\ \A i \in 1..Len(s) : /\ i <= UpperBoundHash(s, h) <=> s[i].hash <= h
                                 /\ i <= LowerBoundHash(s, h) <=> s[i].hash < h
<1>1. /\ Len(s) \in Nat /\ DOMAIN s = 1..Len(s) /\ \A i \in 1..Len(s) : s[i].hash \in Nat
  BY SeqFacts DEF Ordered
<1>2. \A i, j \in 1..Len(s) : j <= i => s[j].hash <= s[i].hash
  <2> SUFFICES ASSUME NEW i \in 1..Len(s), NEW j \in 1..Len(s), j <= i PROVE s[j].hash <= s[i].hash
    OBVIOUS
  <2>1. CASE j = i
    BY <1>1, <2>1
  <2>2. CASE j < i
    BY <1>1, <2>2 DEF Ordered, Sorted
  <2> QED BY <1>1, <2>1, <2>2
<1> DEFINE U == {i \in DOMAIN s : s[i].hash <= h}
           L == {i \in DOMAIN s : s[i].hash < h}
<1>3. U \subseteq 1..Len(s) /\ \A i \in U : \A j \in 1..Len(s) : j <= i => j \in U
  <2> SUFFICES ASSUME NEW i \in 1..Len(s), s[i].hash <= h, NEW j \in 1..Len(s), j <= i
               PROVE  s[j].hash <= h
    BY <1>1
  <2>1. s[j].hash <= s[i].hash /\ s[j].hash \in Nat /\ s[i].hash \in Nat
    BY <1>1, <1>2
  <2> QED BY <2>1
<1>4. L \subseteq 1..Len(s) /\ \A i \in L : \A j \in 1..Len(s) : j <= i => j \in L
  <2> SUFFICES ASSUME NEW i \in 1..Len(s), s[i].hash < h, NEW j \in 1..Len(s), j <= i
               PROVE  s[j].hash < h
    BY <1>1
  <2>1. s[j].hash <= s[i].hash /\ s[j].hash \in Nat /\ s[i].hash \in Nat
    BY <1>1, <1>2
  <2> QED BY <2>1
<1>5. /\ Cardinality(U) \in 0..Len(s) /\ \A i \in 1..Len(s) : i \in U <=> i <= Cardinality(U)
  <2> HIDE DEF U
  <2> QED BY <1>1, <1>3, InitialSegment
<1>6. /\ Cardinality(L) \in 0..Len(s) /\ \A i \in 1..Len(s) : i \in L <=> i <= Cardinality(L)
  <2> HIDE DEF L
  <2> QED BY <1>1, <1>4, InitialSegment
<1> QED BY <1>1, <1>5, <1>6 DEF UpperBoundHash, LowerBoundHash
\* insert_slot_sorted's placement: a new target goes behind its equals, and the slots stay
\* sorted and unique.
LEMMA InsertKeeps ==
  ASSUME NEW s, Ordered(s), NEW x \in SlotRecords, \A i \in DOMAIN s : s[i].target # x.target,
         NEW r, r = InsertAt(s, UpperBoundHash(s, x.hash) + 1, x)
  PROVE  /\ Ordered(r) /\ Len(r) = Len(s) + 1 /\ Elems(r) = Elems(s) \cup {x}
         /\ \A i \in 1..(Len(s) + 1) :
              r[i] = IF i <= UpperBoundHash(s, x.hash) THEN s[i]
                     ELSE IF i = UpperBoundHash(s, x.hash) + 1 THEN x ELSE s[i - 1]
<1> DEFINE n == Len(s)
           p == UpperBoundHash(s, x.hash)
<1>1. /\ n \in Nat /\ DOMAIN s = 1..n /\ s \in Seq(SlotRecords)
      /\ \A i \in 1..n : s[i].hash \in Nat
  BY SeqFacts DEF Ordered
<1>2. x.hash \in Nat
  BY DEF SlotRecords
<1>3. p \in 0..n /\ \A i \in 1..n : i <= p <=> s[i].hash <= x.hash
  BY <1>2, BoundFacts
<1> HIDE DEF p
<1>4. /\ r \in Seq(SlotRecords) /\ Len(r) = n + 1
      /\ \A i \in 1..(n + 1) : r[i] = IF i <= p THEN s[i] ELSE IF i = p + 1 THEN x ELSE s[i - 1]
  <2>1. r = InsertAt(s, p + 1, x) /\ p \in 0..Len(s)
    BY <1>3 DEF p
  <2>2. InsertAt(s, p + 1, x) \in Seq(SlotRecords) /\ Len(InsertAt(s, p + 1, x)) = Len(s) + 1
    BY <1>1, <2>1, InsertFacts
  <2>3. ASSUME NEW i \in 1..(Len(s) + 1)
        PROVE  InsertAt(s, p + 1, x)[i] = IF i <= p THEN s[i] ELSE IF i = p + 1 THEN x ELSE s[i - 1]
    <3> DEFINE S == SlotRecords
    <3>1. s \in Seq(S) /\ x \in S
      BY <1>1
    <3> HIDE DEF S
    <3> QED BY <2>1, <3>1, InsertElement
  <2> QED BY <2>1, <2>2, <2>3
<1> HIDE DEF n
<1>5. DOMAIN r = 1..(n + 1)
  BY <1>4, SeqFacts
<1> DEFINE Spot(i) == IF i <= p THEN i ELSE i - 1
<1>6. \A i \in 1..(n + 1) : i # p + 1 => Spot(i) \in 1..n /\ r[i] = s[Spot(i)]
  BY <1>1, <1>3, <1>4
<1>7. r[p + 1] = x /\ p + 1 \in 1..(n + 1)
  BY <1>1, <1>3, <1>4
<1>8. Elems(r) = Elems(s) \cup {x}
  <2>1. ASSUME NEW i \in 1..(n + 1) PROVE r[i] \in Elems(s) \cup {x}
    <3>1. CASE i = p + 1
      BY <1>7, <3>1
    <3>2. CASE i # p + 1
      <4>1. Spot(i) \in 1..n /\ r[i] = s[Spot(i)]
        BY <1>6, <3>2
      <4> HIDE DEF Spot
      <4> QED BY <1>1, <4>1 DEF Elems
    <3> QED BY <3>1, <3>2
  <2>2. ASSUME NEW i \in 1..n PROVE \E j \in 1..(n + 1) : r[j] = s[i]
    <3>1. CASE i <= p
      BY <1>1, <1>3, <1>4, <3>1
    <3>2. CASE ~(i <= p)
      <4>1. i + 1 \in 1..(n + 1) /\ ~(i + 1 <= p) /\ i + 1 # p + 1 /\ i + 1 - 1 = i
        BY <1>1, <1>3, <3>2
      <4> QED BY <1>4, <4>1
    <3> QED BY <3>1, <3>2
  <2>3. Elems(r) \subseteq Elems(s) \cup {x}
    BY <1>5, <2>1 DEF Elems
  <2>4. Elems(s) \subseteq Elems(r)
    BY <1>1, <1>5, <2>2 DEF Elems
  <2>5. x \in Elems(r)
    BY <1>5, <1>7 DEF Elems
  <2> QED BY <2>3, <2>4, <2>5
<1>9. ASSUME NEW i \in 1..(n + 1), NEW j \in 1..(n + 1), i < j
      PROVE  r[i].hash <= r[j].hash /\ r[i].target # r[j].target
  <2>1. CASE i # p + 1 /\ j # p + 1
    <3>1. /\ Spot(i) \in 1..n /\ r[i] = s[Spot(i)] /\ Spot(j) \in 1..n /\ r[j] = s[Spot(j)]
      BY <1>6, <2>1
    <3>2. Spot(i) < Spot(j)
      BY <1>1, <1>3, <1>9, <2>1
    <3> HIDE DEF Spot
    <3> QED BY <1>1, <3>1, <3>2 DEF Ordered, Sorted, Unique
  <2>2. CASE i = p + 1
    <3>1. j - 1 \in 1..n /\ ~(j - 1 <= p) /\ r[j] = s[j - 1]
      BY <1>1, <1>3, <1>4, <1>9, <2>2
    <3>2. ~(s[j - 1].hash <= x.hash) /\ s[j - 1].hash \in Nat /\ s[j - 1].target # x.target
      BY <1>1, <1>3, <3>1
    <3> QED BY <1>2, <1>7, <2>2, <3>1, <3>2
  <2>3. CASE j = p + 1
    <3>1. i \in 1..n /\ i <= p /\ r[i] = s[i]
      BY <1>1, <1>3, <1>4, <1>9, <2>3
    <3>2. s[i].hash <= x.hash /\ s[i].target # x.target
      BY <1>1, <1>3, <3>1
    <3> QED BY <1>7, <2>3, <3>1, <3>2
  <2> QED BY <2>1, <2>2, <2>3
<1>10. Ordered(r)
  BY <1>4, <1>5, <1>9 DEF Ordered, Sorted, Unique
<1> QED BY <1>4, <1>8, <1>10 DEF n, p

\* Removing a slot.
LEMMA RemoveKeeps ==
  ASSUME NEW s, Ordered(s), NEW p \in 0..(Len(s) - 1), NEW r, r = RemoveAt(s, p + 1)
  PROVE  /\ Ordered(r) /\ Len(r) = Len(s) - 1 /\ p + 1 \in DOMAIN s
         /\ Elems(r) = Elems(s) \ {s[p + 1]}
         /\ \A i \in DOMAIN r : r[i].target # s[p + 1].target
<1> DEFINE n == Len(s)
<1>1. /\ n \in Nat /\ DOMAIN s = 1..n /\ s \in Seq(SlotRecords)
  BY SeqFacts DEF Ordered
<1>2. /\ r \in Seq(SlotRecords) /\ n \in Nat \ {0} /\ Len(r) = n - 1
      /\ \A i \in 1..(n - 1) : r[i] = IF i <= p THEN s[i] ELSE s[i + 1]
  BY <1>1, RemoveFacts
<1>3. p \in 0..(n - 1) /\ p + 1 \in 1..n
  BY <1>1
<1> HIDE DEF n
<1>4. DOMAIN r = 1..(n - 1)
  BY <1>2, SeqFacts
<1> DEFINE Spot(i) == IF i <= p THEN i ELSE i + 1
<1>5. \A i \in 1..(n - 1) : Spot(i) \in 1..n /\ Spot(i) # p + 1 /\ r[i] = s[Spot(i)]
  BY <1>1, <1>2, <1>3
<1>6. \A i \in 1..n : i # p + 1 => \E j \in 1..(n - 1) : r[j] = s[i]
  <2> SUFFICES ASSUME NEW i \in 1..n, i # p + 1 PROVE \E j \in 1..(n - 1) : r[j] = s[i]
    OBVIOUS
  <2>1. CASE i <= p
    BY <1>1, <1>2, <1>3, <2>1
  <2>2. CASE ~(i <= p)
    <3>1. i - 1 \in 1..(n - 1) /\ ~(i - 1 <= p) /\ i - 1 + 1 = i
      BY <1>1, <1>3, <2>2
    <3> QED BY <1>2, <3>1
  <2> QED BY <2>1, <2>2
<1>7. \A i \in 1..n : i # p + 1 => s[i].target # s[p + 1].target
  <2> SUFFICES ASSUME NEW i \in 1..n, i # p + 1 PROVE s[i].target # s[p + 1].target
    OBVIOUS
  <2>1. i < p + 1 \/ p + 1 < i
    BY <1>3
  <2> QED BY <1>1, <1>3, <2>1 DEF Ordered, Unique
<1>8. \A i \in DOMAIN r : r[i].target # s[p + 1].target
  <2> HIDE DEF Spot
  <2> QED BY <1>4, <1>5, <1>7
<1>9. Elems(r) = Elems(s) \ {s[p + 1]}
  <2>1. \A i \in 1..(n - 1) : r[i] \in Elems(s) /\ r[i] # s[p + 1]
    <3> HIDE DEF Spot
    <3> QED BY <1>1, <1>4, <1>5, <1>8 DEF Elems
  <2> QED BY <1>1, <1>4, <1>6, <2>1 DEF Elems
<1>10. ASSUME NEW i \in 1..(n - 1), NEW j \in 1..(n - 1), i < j
       PROVE  r[i].hash <= r[j].hash /\ r[i].target # r[j].target
  <2>1. Spot(i) < Spot(j)
    BY <1>1, <1>3, <1>10
  <2>2. /\ Spot(i) \in 1..n /\ r[i] = s[Spot(i)] /\ Spot(j) \in 1..n /\ r[j] = s[Spot(j)]
    BY <1>5
  <2> HIDE DEF Spot
  <2> QED BY <1>1, <2>1, <2>2 DEF Ordered, Sorted, Unique
<1>11. Ordered(r)
  BY <1>2, <1>4, <1>10 DEF Ordered, Sorted, Unique
<1> QED BY <1>1, <1>2, <1>3, <1>8, <1>9, <1>11 DEF n

-----------------------------------------------------------------------------
(* The farthest slot.                                                      *)

Farthest(s, P, i) ==
  i \in P /\ \A j \in P : \/ s[j + 1].dist < s[i + 1].dist
                          \/ s[j + 1].dist = s[i + 1].dist /\ i <= j

\* Among any positions there is a first of the farthest slots.
LEMMA FarthestExists ==
  ASSUME NEW s \in Seq(SlotRecords), NEW P, P \subseteq Positions(s), P # {}
  PROVE  Farthest(s, P, FarthestAmong(s, P))
<1> DEFINE n == Len(s)
           C == {k \in Nat : \A Q \in SUBSET (0..(k - 1)) :
                               Q # {} /\ Q \subseteq 0..(n - 1) => \E i \in Q : Farthest(s, Q, i)}
<1>1. n \in Nat /\ \A i \in 0..(n - 1) : s[i + 1].dist \in Nat
  <2>1. n \in Nat /\ \A i \in 1..n : s[i].dist \in Nat
    BY SeqFacts
  <2>2. \A i \in 0..(n - 1) : i + 1 \in 1..n
    BY <2>1
  <2> QED BY <2>1, <2>2
<1>2. 0 \in C
  <2>1. 0..(0 - 1) = {}
    OBVIOUS
  <2> QED BY <2>1
<1>3. ASSUME NEW k \in Nat, k \in C PROVE k + 1 \in C
  <2> SUFFICES ASSUME NEW Q \in SUBSET (0..k), Q # {}, Q \subseteq 0..(n - 1)
               PROVE  \E i \in Q : Farthest(s, Q, i)
    <3>1. (k + 1) - 1 = k /\ k + 1 \in Nat
      OBVIOUS
    <3> QED BY <3>1
  <2> DEFINE R == Q \ {k}
  <2>1. R \in SUBSET (0..(k - 1)) /\ R \subseteq 0..(n - 1)
    OBVIOUS
  <2>2. CASE R = {}
    <3>1. Q = {k}
      BY <2>2
    <3> QED BY <1>1, <3>1 DEF Farthest
  <2>3. CASE R # {}
    <3>1. PICK i \in R : Farthest(s, R, i)
      BY <1>3, <2>1, <2>3
    <3>2. i \in 0..(k - 1) /\ i \in 0..(n - 1) /\ s[i + 1].dist \in Nat
      BY <1>1, <2>1
    <3>3. \A j \in R : s[j + 1].dist < s[i + 1].dist \/ (s[j + 1].dist = s[i + 1].dist /\ i <= j)
      BY <3>1 DEF Farthest
    <3>4. CASE k \notin Q
      BY <3>1, <3>4 DEF Farthest
    <3>5. CASE k \in Q /\ s[k + 1].dist <= s[i + 1].dist
      <4>1. s[k + 1].dist \in Nat /\ i <= k
        BY <1>1, <3>2, <3>5
      <4>2. s[k + 1].dist < s[i + 1].dist \/ (s[k + 1].dist = s[i + 1].dist /\ i <= k)
        BY <3>2, <3>5, <4>1
      <4>3. \A j \in Q : j \in R \/ j = k
        OBVIOUS
      <4>4. Farthest(s, Q, i)
        BY <3>3, <4>2, <4>3 DEF Farthest
      <4> QED BY <4>4
    <3>6. CASE k \in Q /\ ~(s[k + 1].dist <= s[i + 1].dist)
      <4>1. s[k + 1].dist \in Nat /\ \A j \in R : s[j + 1].dist \in Nat
        BY <1>1, <2>1, <3>6
      <4>2. \A j \in R : s[j + 1].dist < s[k + 1].dist
        BY <3>2, <3>3, <3>6, <4>1, SMTT(30)
      <4>3. s[k + 1].dist = s[k + 1].dist /\ k <= k
        OBVIOUS
      <4>4. Farthest(s, Q, k)
        BY <3>6, <4>2, <4>3 DEF Farthest
      <4> QED BY <3>6, <4>4
    <3> QED BY <3>4, <3>5, <3>6
  <2> QED BY <2>2, <2>3
<1>4. n \in C
  <2> HIDE DEF C
  <2>1. \A k \in Nat : k \in C => k + 1 \in C
    BY <1>3
  <2>2. \A k \in Nat : k \in C
    BY <1>2, <2>1, NatSetInduction
  <2> QED BY <1>1, <2>2
<1>5. \E i \in P : Farthest(s, P, i)
  BY <1>4 DEF Positions
<1> QED BY <1>5 DEF FarthestAmong, Farthest

\* The cached farthest slot of a reservoir with slots s.
Cached(r) ==
  r.slots # <<>> =>
    /\ r.idx \in Positions(r.slots)
    /\ r.slots[r.idx + 1].dist = r.dist
    /\ \A i \in DOMAIN r.slots : r.slots[i].dist <= r.dist

\* recompute_farthest leaves the slots alone and caches a farthest one.
LEMMA RecomputeFacts ==
  ASSUME NEW s \in Seq(SlotRecords), s # <<>>
  PROVE  RecomputeFarthest(s).slots = s /\ Cached(RecomputeFarthest(s))
<1>1. Len(s) \in Nat \ {0} /\ DOMAIN s = 1..Len(s) /\ \A i \in 1..Len(s) : s[i].dist \in Nat
  BY SeqFacts, EmptySeq
<1>2. Positions(s) # {}
  <2>1. 0 \in Positions(s)
    BY <1>1 DEF Positions
  <2> QED BY <2>1
<1> DEFINE i == FarthestAmong(s, Positions(s))
<1>3. Farthest(s, Positions(s), i)
  BY <1>2, FarthestExists
<1>4. RecomputeFarthest(s) = [slots |-> s, idx |-> i, dist |-> s[i + 1].dist]
  BY DEF RecomputeFarthest
<1> HIDE DEF i
<1>5. i \in Positions(s) /\ \A j \in Positions(s) : s[j + 1].dist <= s[i + 1].dist
  <2>1. i \in Positions(s) /\ \A j \in Positions(s) : j + 1 \in 1..Len(s)
    BY <1>1, <1>3 DEF Farthest, Positions
  <2>2. \A j \in Positions(s) : s[j + 1].dist \in Nat
    BY <1>1, <2>1
  <2> QED BY <1>3, <2>1, <2>2 DEF Farthest
<1>6. \A j \in 1..Len(s) : s[j].dist <= s[i + 1].dist
  <2> SUFFICES ASSUME NEW j \in 1..Len(s) PROVE s[j].dist <= s[i + 1].dist
    OBVIOUS
  <2>1. j - 1 \in Positions(s) /\ (j - 1) + 1 = j
    BY <1>1 DEF Positions
  <2> QED BY <1>5, <2>1
<1> QED BY <1>1, <1>4, <1>5, <1>6 DEF Cached
-----------------------------------------------------------------------------
(* insert, as a change of the set of slots.                                *)

Good(r) == Ordered(r.slots) /\ Cached(r)

\* BFloat16::from_f32 rounds downwards and keeps the order, and comparing a raw distance
\* with a rounded one is comparing the rounded ones.
LEMMA RoundFacts ==
  ASSUME NEW d \in Nat
  PROVE  /\ BFloat16(d) \in Nat /\ BFloat16(d) <= d
         /\ \A e \in Nat : d < BFloat16(e) => BFloat16(d) < BFloat16(e)
         /\ \A e \in Nat : BFloat16(e) <= d => BFloat16(e) <= BFloat16(d)
<1> DEFINE g == Grain
           q == d \div g
<1>1. g \in Nat \ {0}
  BY HashPruneAssumption
<1>2. q \in Nat /\ g * q <= d /\ d < g * q + g
  BY <1>1, DivFacts
<1>3. g * q \in Nat
  BY <1>1, <1>2
<1>4. ASSUME NEW e \in Nat, BFloat16(e) <= d PROVE BFloat16(e) <= BFloat16(d)
  <2> DEFINE k == e \div g
  <2>1. k \in Nat
    BY <1>1, DivFacts
  <2>2. g * k <= d
    BY <1>4 DEF BFloat16
  <2> HIDE DEF k, q, g
  <2>3. g * k < g * q + g
    BY <1>1, <1>2, <1>3, <2>1, <2>2
  <2>4. k <= q
    BY <1>1, <1>2, <2>1, <2>3, TimesCancel
  <2>5. g * k <= g * q
    BY <1>1, <1>2, <2>1, <2>4, TimesMonotone
  <2> QED BY <2>5 DEF BFloat16, g, k, q
<1>5. BFloat16(d) = g * q
  BY DEF BFloat16
<1> HIDE DEF q, g
<1>6. ASSUME NEW e \in Nat, d < BFloat16(e) PROVE BFloat16(d) < BFloat16(e)
  <2>1. BFloat16(e) \in Nat
    <3>1. Grain \in Nat \ {0} /\ e \div Grain \in Nat
      BY HashPruneAssumption, DivFacts
    <3> QED BY <3>1 DEF BFloat16
  <2> QED BY <1>2, <1>3, <1>5, <1>6, <2>1
<1> QED BY <1>2, <1>3, <1>4, <1>5, <1>6

\* The slot a candidate becomes.
LEMMA SlotFacts ==
  ASSUME NEW c \in Candidates
  PROVE  /\ Slot(c) \in SlotRecords /\ Slot(c).target = c.target /\ Slot(c).hash = Hash[c.target]
         /\ Slot(c).dist = BFloat16(c.dist) /\ c.dist \in Nat /\ Hash[c.target] \in Nat
<1>1. c.dist \in Nat /\ Hash[c.target] \in Nat
  BY HashPruneAssumption
<1>2. BFloat16(c.dist) \in Nat
  BY <1>1, RoundFacts
<1> QED BY <1>1, <1>2 DEF Slot, SlotRecords, Targets

\* replace_slot_sorted exchanges one slot for another.
LEMMA ReplaceFacts ==
  ASSUME NEW r, Good(r), NEW p \in Positions(r.slots), NEW x \in SlotRecords,
         \A i \in DOMAIN r.slots : i # p + 1 => r.slots[i].target # x.target,
         NEW q, q = ReplaceSlotSorted(r, p, x)
  PROVE  /\ Good(q) /\ Len(q.slots) = Len(r.slots)
         /\ Elems(q.slots) = (Elems(r.slots) \ {r.slots[p + 1]}) \cup {x}
<1> DEFINE s == r.slots
           t == RemoveAt(s, p + 1)
           u == InsertAt(t, UpperBoundHash(t, x.hash) + 1, x)
<1>1. Ordered(s) /\ p \in 0..(Len(s) - 1)
  BY DEF Good, Positions
<1>2. Len(s) \in Nat /\ DOMAIN s = 1..Len(s)
  BY <1>1, SeqFacts DEF Ordered
<1>3. /\ Ordered(t) /\ Len(t) = Len(s) - 1 /\ Elems(t) = Elems(s) \ {s[p + 1]}
      /\ \A i \in DOMAIN t : t[i].target # s[p + 1].target
  BY <1>1, RemoveKeeps, SMTT(30)
<1>4. \A i \in DOMAIN t : t[i].target # x.target
  <2> HIDE DEF t
  <2> SUFFICES ASSUME NEW i \in DOMAIN t PROVE t[i].target # x.target
    OBVIOUS
  <2>1. t[i] \in Elems(s) /\ t[i].target # s[p + 1].target
    BY <1>3 DEF Elems
  <2>2. PICK j \in DOMAIN s : t[i] = s[j]
    BY <2>1 DEF Elems
  <2> QED BY <2>1, <2>2
<1> HIDE DEF t
<1>5. Ordered(u) /\ Len(u) = Len(t) + 1 /\ Elems(u) = Elems(t) \cup {x}
  BY <1>3, <1>4, InsertKeeps
<1>6. q = RecomputeFarthest(u)
  BY DEF ReplaceSlotSorted, t
<1> HIDE DEF u
<1>7. u \in Seq(SlotRecords) /\ Len(u) = Len(s)
  BY <1>2, <1>3, <1>5 DEF Ordered
<1>8. u # <<>>
  <2>1. x \in Elems(u)
    BY <1>5
  <2> QED BY <2>1 DEF Elems
<1>9. q.slots = u /\ Cached(q)
  BY <1>6, <1>7, <1>8, RecomputeFacts
<1> QED BY <1>3, <1>5, <1>7, <1>9 DEF Good

\* insert_slot_sorted adds a slot, and repairs the cached farthest slot without a scan.
LEMMA AddFacts ==
  ASSUME NEW r, Good(r), NEW x \in SlotRecords,
         \A i \in DOMAIN r.slots : r.slots[i].target # x.target,
         NEW q, q = InsertSlotSorted(r, x)
  PROVE  /\ Good(q) /\ Len(q.slots) = Len(r.slots) + 1
         /\ Elems(q.slots) = Elems(r.slots) \cup {x}
<1> DEFINE s == r.slots
           n == Len(s)
           p == UpperBoundHash(s, x.hash)
           u == InsertAt(s, p + 1, x)
<1>1. Ordered(s) /\ x.hash \in Nat /\ x.dist \in Nat
  BY DEF Good, SlotRecords
<1>2. n \in Nat /\ DOMAIN s = 1..n /\ \A i \in 1..n : s[i].dist \in Nat
  BY <1>1, SeqFacts DEF Ordered
<1>3. p \in 0..n
  BY <1>1, BoundFacts
<1>4. /\ Ordered(u) /\ Len(u) = n + 1 /\ Elems(u) = Elems(s) \cup {x}
      /\ \A i \in 1..(n + 1) : u[i] = IF i <= p THEN s[i] ELSE IF i = p + 1 THEN x ELSE s[i - 1]
  BY <1>1, InsertKeeps
<1>5. q = IF Len(u) = 1
          THEN [slots |-> u, idx |-> 0, dist |-> x.dist]
          ELSE IF x.dist >= r.dist
               THEN RecomputeFarthest(u)
               ELSE [slots |-> u, idx |-> IF p <= r.idx THEN r.idx + 1 ELSE r.idx, dist |-> r.dist]
  BY DEF InsertSlotSorted
<1> HIDE DEF u, p, n
<1>6. u \in Seq(SlotRecords) /\ DOMAIN u = 1..(n + 1) /\ u # <<>>
  <2>1. u \in Seq(SlotRecords) /\ DOMAIN u = 1..(n + 1)
    BY <1>4, SeqFacts DEF Ordered
  <2>2. x \in Elems(u)
    BY <1>4
  <2>3. PICK i \in DOMAIN u : x = u[i]
    BY <2>2 DEF Elems
  <2>4. u # <<>>
    BY <2>3
  <2> QED BY <2>1, <2>4
<1>7. q.slots = u /\ Cached(q)
  <2>1. CASE Len(u) = 1
    <3>1. n = 0 /\ u[1] = x
      <4>0. n + 1 = 1
        BY <1>4, <2>1
      <4>1. n = 0 /\ p = 0
        BY <1>2, <1>3, <4>0
      <4> QED BY <1>4, <4>1
    <3>2. q.slots = u /\ q.idx = 0 /\ q.dist = x.dist
      BY <1>5, <2>1
    <3>3. 0 \in Positions(u)
      BY <2>1 DEF Positions
    <3>4. \A i \in DOMAIN u : u[i] = x
      BY <1>6, <3>1
    <3> QED BY <1>1, <3>1, <3>2, <3>3, <3>4 DEF Cached
  <2>2. CASE Len(u) # 1 /\ x.dist >= r.dist
    <3>1. q = RecomputeFarthest(u)
      BY <1>5, <2>2
    <3> QED BY <1>6, <3>1, RecomputeFacts
  <2>3. CASE Len(u) # 1 /\ ~(x.dist >= r.dist)
    <3>1. /\ q.slots = u /\ q.dist = r.dist
          /\ q.idx = IF p <= r.idx THEN r.idx + 1 ELSE r.idx
      BY <1>5, <2>3
    <3>2. n # 0 /\ s # <<>>
      BY <1>2, <1>4, <2>3 DEF n
    <3>3. /\ r.idx \in 0..(n - 1) /\ s[r.idx + 1].dist = r.dist
          /\ \A i \in 1..n : s[i].dist <= r.dist
      BY <1>2, <3>2 DEF Good, Cached, Positions, n
    <3>4. r.dist \in Nat
      <4>1. r.idx + 1 \in 1..n
        BY <1>2, <3>3
      <4> QED BY <1>2, <3>3, <4>1
    <3>5. q.idx \in 0..n /\ u[q.idx + 1].dist = r.dist
      <4> DEFINE k == r.idx
      <4>1. k \in 0..(n - 1) /\ s[k + 1].dist = r.dist
        BY <3>3
      <4>2. q.idx = IF p <= k THEN k + 1 ELSE k
        BY <3>1
      <4> HIDE DEF k
      <4>3. CASE p <= k
        <5>1. k + 2 \in 1..(n + 1) /\ ~(k + 2 <= p) /\ k + 2 # p + 1 /\ k + 2 - 1 = k + 1
          BY <1>2, <1>3, <4>1, <4>3
        <5> DEFINE m == k + 2
        <5> HIDE DEF m
        <5>4. m \in 1..(n + 1) /\ ~(m <= p) /\ m # p + 1 /\ m - 1 = k + 1
          BY <1>2, <1>3, <4>1, <5>1 DEF m
        <5>5. u[m] = s[m - 1]
          BY <1>4, <5>4
        <5>2. u[k + 2] = s[k + 1]
          BY <5>4, <5>5 DEF m
        <5>3. q.idx + 1 = k + 2 /\ q.idx \in 0..n
          BY <1>2, <4>1, <4>2, <4>3
        <5> QED BY <4>1, <5>1, <5>2, <5>3
      <4>4. CASE ~(p <= k)
        <5>1. k + 1 \in 1..(n + 1) /\ k + 1 <= p
          BY <1>2, <1>3, <4>1, <4>4
        <5>2. u[k + 1] = s[k + 1]
          BY <1>4, <5>1
        <5>3. q.idx = k /\ q.idx \in 0..n
          BY <1>2, <4>1, <4>2, <4>4
        <5> QED BY <4>1, <5>2, <5>3
      <4> QED BY <4>3, <4>4
    <3>6. \A i \in 1..(n + 1) : u[i].dist <= r.dist
      <4> SUFFICES ASSUME NEW i \in 1..(n + 1) PROVE u[i].dist <= r.dist
        OBVIOUS
      <4>1. u[i] \in Elems(s) \/ u[i] = x
        BY <1>4, <1>6 DEF Elems
      <4>2. x.dist <= r.dist
        BY <1>1, <2>3, <3>4
      <4>3. \A y \in Elems(s) : y.dist <= r.dist
        BY <1>2, <3>3 DEF Elems
      <4> QED BY <4>1, <4>2, <4>3
    <3>7. Positions(u) = 0..n
      BY <1>2, <1>4 DEF Positions
    <3> QED BY <1>6, <3>1, <3>5, <3>6, <3>7 DEF Cached
  <2> QED BY <2>1, <2>2, <2>3
<1> QED BY <1>4, <1>7 DEF Good, n
\* A candidate replaces a slot exactly when it is nearer.
Decides(r, q, k, c) ==
  IF c.dist < k.dist
  THEN Len(q.slots) = Len(r.slots) /\ Elems(q.slots) = (Elems(r.slots) \ {k}) \cup {Slot(c)}
  ELSE q = r

Updated(r, q, c) == \E k \in Elems(r.slots) : k.target = c.target /\ Decides(r, q, k, c)

Added(r, q, c) ==
  Len(r.slots) < LMax /\ Len(q.slots) = Len(r.slots) + 1 /\ Elems(q.slots) = Elems(r.slots) \cup {Slot(c)}

Collided(r, q, c) ==
  /\ Len(r.slots) = LMax
  /\ \E k \in Elems(r.slots) :
       /\ k.hash = Hash[c.target] /\ Decides(r, q, k, c)
       /\ \A m \in Elems(r.slots) : m.hash = Hash[c.target] => m.dist <= k.dist

Evicted(r, q, c) ==
  /\ Len(r.slots) = LMax /\ \A m \in Elems(r.slots) : m.hash # Hash[c.target]
  /\ \E k \in Elems(r.slots) :
       Decides(r, q, k, c) /\ \A m \in Elems(r.slots) : m.dist <= k.dist

\* The four cases of HashPruneReservoir::insert, as changes of the set of slots.
LEMMA InsertedFacts ==
  ASSUME NEW r, Good(r), Len(r.slots) <= LMax, NEW c \in Candidates, NEW q, q = Inserted(r, c)
  PROVE  /\ Good(q) /\ Len(q.slots) <= LMax
         /\ \/ Updated(r, q, c)
            \/ /\ \A k \in Elems(r.slots) : k.target # c.target
               /\ Added(r, q, c) \/ Collided(r, q, c) \/ Evicted(r, q, c)
<1> DEFINE s == r.slots
           h == Hash[c.target]
           x == Slot(c)
           K == Elems(s)
           known == {i \in Positions(s) : s[i + 1].target = c.target}
           collides == \E i \in DOMAIN s : s[i].hash = h
<1>1. /\ x \in SlotRecords /\ x.target = c.target /\ x.hash = h /\ x.dist = BFloat16(c.dist)
      /\ c.dist \in Nat /\ h \in Nat
  BY SlotFacts
<1>2. /\ Ordered(s) /\ s \in Seq(SlotRecords) /\ Len(s) \in Nat /\ DOMAIN s = 1..Len(s)
      /\ \A i \in 1..Len(s) : s[i].dist \in Nat /\ s[i].hash \in Nat
  BY SeqFacts DEF Good, Ordered
<1>3. LMax \in Nat \ {0}
  BY HashPruneAssumption
<1>4. \A i \in Positions(s) : i + 1 \in DOMAIN s /\ s[i + 1] \in K
  BY <1>2 DEF Positions, Elems
<1>5. \A i \in DOMAIN s : i - 1 \in Positions(s) /\ (i - 1) + 1 = i /\ s[i] \in K
  BY <1>2 DEF Positions, Elems
<1>6. ASSUME NEW p \in Positions(s), \A i \in DOMAIN s : i # p + 1 => s[i].target # c.target,
             q = IF c.dist < s[p + 1].dist THEN ReplaceSlotSorted(r, p, x) ELSE r
      PROVE  Good(q) /\ Len(q.slots) <= LMax /\ Decides(r, q, s[p + 1], c)
  <2>1. CASE c.dist < s[p + 1].dist
    <3>1. q = ReplaceSlotSorted(r, p, x)
      BY <1>6, <2>1
    <3>2. \A i \in DOMAIN s : i # p + 1 => s[i].target # x.target
      BY <1>1, <1>6
    <3>3. /\ Good(q) /\ Len(q.slots) = Len(s) /\ Elems(q.slots) = (K \ {s[p + 1]}) \cup {x}
      <4> HIDE DEF x
      <4>1. x \in SlotRecords /\ p \in Positions(r.slots)
            /\ \A i \in DOMAIN r.slots : i # p + 1 => r.slots[i].target # x.target
        BY <1>1, <3>2
      <4>2. Good(q) /\ Len(q.slots) = Len(r.slots)
        BY <3>1, <4>1, ReplaceFacts
      <4>3. Elems(q.slots) = (Elems(r.slots) \ {r.slots[p + 1]}) \cup {x}
        BY <3>1, <4>1, ReplaceFacts
      <4> QED BY <4>2, <4>3
    <3> QED BY <2>1, <3>3 DEF Decides
  <2>2. CASE ~(c.dist < s[p + 1].dist)
    BY <1>6, <2>2 DEF Decides
  <2> QED BY <2>1, <2>2
<1>7. CASE known # {}
  <2>1. q = UpdateTarget(r, Min(known), c)
    BY <1>7 DEF Inserted
  <2> DEFINE p == Min(known)
  <2>2. p \in known
    <3>1. known \subseteq Nat
      BY <1>2 DEF Positions
    <3>2. PICK n \in known : \A m \in known : n <= m
      <4> HIDE DEF known
      <4> QED BY <1>7, <3>1, LeastNat
    <3> QED BY <3>2 DEF Min
  <2> HIDE DEF p
  <2>3. p \in Positions(s) /\ s[p + 1].target = c.target /\ p + 1 \in 1..Len(s) /\ s[p + 1] \in K
    BY <1>2, <1>4, <2>2
  <2>4. \A i \in DOMAIN s : i # p + 1 => s[i].target # c.target
    <3> SUFFICES ASSUME NEW i \in DOMAIN s, i # p + 1 PROVE s[i].target # c.target
      OBVIOUS
    <3>1. i < p + 1 \/ p + 1 < i
      BY <1>2, <2>3
    <3>2. s[i].target # s[p + 1].target
      BY <1>2, <2>3, <3>1 DEF Ordered, Unique
    <3> QED BY <2>3, <3>2
  <2>5. q = IF c.dist < s[p + 1].dist THEN ReplaceSlotSorted(r, p, x) ELSE r
    BY <2>1 DEF UpdateTarget, p
  <2>6. Good(q) /\ Len(q.slots) <= LMax /\ Decides(r, q, s[p + 1], c)
    BY <1>6, <2>3, <2>4, <2>5
  <2> QED BY <2>3, <2>6 DEF Updated
<1>8. CASE known = {}
  <2>1. \A i \in DOMAIN s : s[i].target # c.target
    <3> SUFFICES ASSUME NEW i \in DOMAIN s PROVE s[i].target # c.target
      OBVIOUS
    <3>1. i - 1 \in Positions(s) /\ (i - 1) + 1 = i
      BY <1>5
    <3> QED BY <1>8, <3>1
  <2>2. \A k \in K : k.target # c.target
    BY <2>1 DEF Elems
  <2>3. CASE Room(r)
    <3>1. q = InsertSlotSorted(r, x)
      BY <1>8, <2>3 DEF Inserted
    <3>2. \A i \in DOMAIN s : s[i].target # x.target
      BY <1>1, <2>1
    <3>3. Good(q) /\ Len(q.slots) = Len(s) + 1 /\ Elems(q.slots) = K \cup {x}
      <4> HIDE DEF x
      <4> QED BY <1>1, <3>1, <3>2, AddFacts
    <3>4. Len(s) < LMax /\ Len(q.slots) <= LMax
      BY <1>2, <1>3, <2>3, <3>3 DEF Room
    <3> QED BY <2>2, <3>3, <3>4 DEF Added
  <2>4. CASE ~Room(r) /\ collides
    <3> DEFINE L == LowerBoundHash(s, h)
               U == UpperBoundHash(s, h)
               bucket == L..(U - 1)
               f == FarthestAmong(s, bucket)
    <3>1. q = IF c.dist < s[f + 1].dist THEN ReplaceSlotSorted(r, f, x) ELSE r
      BY <1>8, <2>4 DEF Inserted, ReplaceSameHash
    <3>2. /\ L \in 0..Len(s) /\ U \in 0..Len(s)
          /\ \A i \in 1..Len(s) : (i <= U <=> s[i].hash <= h) /\ (i <= L <=> s[i].hash < h)
      BY <1>1, <1>2, BoundFacts
    <3> HIDE DEF L, U
    <3>3. \A i \in 1..Len(s) : s[i].hash = h <=> i - 1 \in bucket
      <4> SUFFICES ASSUME NEW i \in 1..Len(s) PROVE s[i].hash = h <=> i - 1 \in bucket
        OBVIOUS
      <4>1. s[i].hash \in Nat /\ (i <= U <=> s[i].hash <= h) /\ (i <= L <=> s[i].hash < h)
        BY <1>2, <3>2
      <4> QED BY <1>1, <1>2, <3>2, <4>1, SMTT(30)
    <3>4. bucket \subseteq Positions(s)
      BY <1>2, <3>2 DEF Positions
    <3>5. bucket # {}
      <4>1. PICK i \in DOMAIN s : s[i].hash = h
        BY <2>4
      <4>2. i - 1 \in bucket
        BY <1>2, <3>3, <4>1
      <4> QED BY <4>2
    <3> HIDE DEF bucket
    <3>6. Farthest(s, bucket, f)
      BY <1>2, <3>4, <3>5, FarthestExists
    <3> HIDE DEF f
    <3>7. f \in bucket /\ f \in Positions(s) /\ f + 1 \in 1..Len(s) /\ s[f + 1] \in K
      BY <1>2, <1>4, <3>4, <3>6 DEF Farthest
    <3>8. s[f + 1].hash = h
      <4>1. (f + 1) - 1 = f
        BY <1>2, <3>7 DEF Positions
      <4> QED BY <3>3, <3>7, <4>1
    <3>9. \A m \in K : m.hash = h => m.dist <= s[f + 1].dist
      <4> SUFFICES ASSUME NEW i \in DOMAIN s, s[i].hash = h PROVE s[i].dist <= s[f + 1].dist
        BY DEF Elems
      <4>1. i \in 1..Len(s) /\ i - 1 \in bucket /\ (i - 1) + 1 = i
        BY <1>2, <1>5, <3>3
      <4>2. \A j \in bucket : s[j + 1].dist < s[f + 1].dist \/ s[j + 1].dist = s[f + 1].dist
        BY <3>6 DEF Farthest
      <4>3. s[i].dist < s[f + 1].dist \/ s[i].dist = s[f + 1].dist
        BY <4>1, <4>2
      <4> QED BY <1>2, <3>7, <4>1, <4>3
    <3>10. Good(q) /\ Len(q.slots) <= LMax /\ Decides(r, q, s[f + 1], c)
      BY <1>6, <2>1, <3>1, <3>7
    <3>11. Len(s) = LMax
      BY <1>2, <1>3, <2>4 DEF Room
    <3> QED BY <2>2, <3>7, <3>8, <3>9, <3>10, <3>11 DEF Collided
  <2>5. CASE ~Room(r) /\ ~collides
    <3>1. q = IF c.dist < r.dist THEN ReplaceSlotSorted(r, r.idx, x) ELSE r
      BY <1>8, <2>5 DEF Inserted, ReplaceFarthest
    <3>2. Len(s) = LMax /\ s # <<>>
      BY <1>2, <1>3, <2>5 DEF Room
    <3>3. r.idx \in Positions(s) /\ s[r.idx + 1].dist = r.dist /\ \A i \in DOMAIN s : s[i].dist <= r.dist
      BY <3>2 DEF Good, Cached
    <3>4. s[r.idx + 1] \in K
      BY <1>4, <3>3
    <3>5. Good(q) /\ Len(q.slots) <= LMax /\ Decides(r, q, s[r.idx + 1], c)
      BY <1>6, <2>1, <3>1, <3>3
    <3>6. \A m \in K : m.dist <= s[r.idx + 1].dist /\ m.hash # h
      BY <2>5, <3>3 DEF Elems
    <3> QED BY <2>2, <3>2, <3>4, <3>5, <3>6 DEF Evicted
  <2> QED BY <2>3, <2>4, <2>5
<1> QED BY <1>7, <1>8
-----------------------------------------------------------------------------
(* The inductive invariant.                                                *)

Kept == Elems(Slots)

\* A slot carries the hash of its target and the rounded distance of an offer for it.
SlotInv ==
  \A s \in Kept :
    /\ s.hash = Hash[s.target]
    /\ \E c \in offered : c.target = s.target /\ s.dist = BFloat16(c.dist)

\* No slot that competes with the candidate is farther: none of its bucket, or none at all
\* when its bucket is empty.
Beaten(K, c) ==
  IF \E s \in K : s.hash = Hash[c.target]
  THEN \A s \in K : s.hash = Hash[c.target] => s.dist <= BFloat16(c.dist)
  ELSE \A s \in K : s.dist <= BFloat16(c.dist)

\* An offered candidate is kept, at its distance or nearer, or the reservoir is full of
\* better ones.
OfferInv ==
  \A c \in offered :
    \/ \E s \in Kept : s.target = c.target /\ s.dist <= BFloat16(c.dist)
    \/ Len(Slots) = LMax /\ Beaten(Kept, c)

IInv ==
  /\ Good(reservoir) /\ Len(Slots) <= LMax /\ offered \subseteq Candidates
  /\ SlotInv /\ OfferInv

\* A slot that is beaten in its bucket and removed leaves its bucket's offers beaten, and a
\* nearer slot in its place beats what it beat.
LEMMA InsertStep ==
  ASSUME IInv, NEW c \in Candidates, Insert(c)
  PROVE  IInv'
<1> DEFINE r == reservoir
           q == reservoir'
           K == Elems(r.slots)
           M == Elems(q.slots)
           x == Slot(c)
           B(d) == BFloat16(d.dist)
           Has(S, d) == \E s \in S : s.target = d.target /\ s.dist <= B(d)
<1>1. /\ Good(r) /\ Len(r.slots) <= LMax /\ offered \subseteq Candidates
      /\ q = Inserted(r, c) /\ offered' = offered \cup {c} /\ LMax \in Nat
  BY HashPruneAssumption DEF IInv, Slots, Insert
<1>2. /\ Good(q) /\ Len(q.slots) <= LMax
      /\ \/ Updated(r, q, c)
         \/ /\ \A k \in K : k.target # c.target
            /\ Added(r, q, c) \/ Collided(r, q, c) \/ Evicted(r, q, c)
  BY <1>1, InsertedFacts
<1>3. /\ x.target = c.target /\ x.hash = Hash[c.target] /\ x.dist = B(c) /\ c.dist \in Nat
  BY SlotFacts
<1>4. \A s \in K : s.dist \in Nat /\ s.target \in Targets
  BY <1>1, SeqFacts DEF Good, Ordered, Elems
<1>5. \A d \in Candidates : d.dist \in Nat /\ B(d) \in Nat
  BY SlotFacts, RoundFacts
<1>6. /\ \A s \in K : s.hash = Hash[s.target] /\ \E d \in offered : d.target = s.target /\ s.dist = B(d)
      /\ \A d \in offered : Has(K, d) \/ (Len(r.slots) = LMax /\ Beaten(K, d))
  BY DEF IInv, SlotInv, OfferInv, Kept, Slots
<1>7. \A s, t \in K : s.target = t.target => s = t
  <2> DEFINE z == r.slots
  <2>1. Unique(z) /\ DOMAIN z = 1..Len(z) /\ Len(z) \in Nat
    BY <1>1, SeqFacts DEF Good, Ordered
  <2> SUFFICES ASSUME NEW i \in DOMAIN z, NEW j \in DOMAIN z, z[i].target = z[j].target
               PROVE  z[i] = z[j]
    BY DEF Elems
  <2>2. ~(i < j) /\ ~(j < i)
    BY <2>1 DEF Unique
  <2> QED BY <2>1, <2>2
\* A candidate that is nearer than a slot is nearer when both are rounded.
<1>8. \A s \in K : /\ c.dist < s.dist => B(c) < s.dist
                   /\ ~(c.dist < s.dist) => s.dist <= B(c)
  <2> SUFFICES ASSUME NEW s \in K
               PROVE  (c.dist < s.dist => B(c) < s.dist) /\ (~(c.dist < s.dist) => s.dist <= B(c))
    OBVIOUS
  <2>1. PICK d \in offered : s.dist = B(d)
    BY <1>6
  <2>2. d.dist \in Nat /\ c.dist \in Nat
    BY <1>1, <1>5
  <2>3. (c.dist < B(d) => B(c) < B(d)) /\ (B(d) <= c.dist => B(d) <= B(c))
    BY <2>2, RoundFacts
  <2>4. B(d) \in Nat
    BY <2>2, RoundFacts
  <2> QED BY <2>1, <2>2, <2>3, <2>4
<1> HIDE DEF r, q, K, M, x
<1>9. SUFFICES /\ \A s \in M : s.hash = Hash[s.target]
                                /\ \E d \in offered \cup {c} : d.target = s.target /\ s.dist = B(d)
               /\ \A d \in offered \cup {c} : Has(M, d) \/ (Len(q.slots) = LMax /\ Beaten(M, d))
  BY <1>1, <1>2 DEF IInv, SlotInv, OfferInv, Kept, Slots, M, q, Beaten
<1>10. ASSUME M \subseteq K \cup {x}
       PROVE  \A s \in M : s.hash = Hash[s.target]
                           /\ \E d \in offered \cup {c} : d.target = s.target /\ s.dist = B(d)
  <2> SUFFICES ASSUME NEW s \in M
               PROVE  s.hash = Hash[s.target]
                      /\ \E d \in offered \cup {c} : d.target = s.target /\ s.dist = B(d)
    OBVIOUS
  <2>1. CASE s \in K
    BY <1>6, <2>1
  <2>2. CASE s = x
    BY <1>3, <2>2
  <2> QED BY <1>10, <2>1, <2>2
<1>11. ASSUME x \in M PROVE Has(M, c)
  BY <1>3, <1>5, <1>11
<1>12. CASE Updated(r, q, c)
  <2>1. PICK k \in K : k.target = c.target /\ Decides(r, q, k, c)
    BY <1>12 DEF Updated, K
  <2>2. CASE ~(c.dist < k.dist)
    <3>1. q = r /\ M = K
      BY <2>1, <2>2 DEF Decides, M, K
    <3>2. Has(M, c)
      BY <1>8, <2>1, <2>2, <3>1
    <3> QED BY <1>6, <1>10, <3>1, <3>2
  <2>3. CASE c.dist < k.dist
    <3>1. Len(q.slots) = Len(r.slots) /\ M = (K \ {k}) \cup {x}
      BY <2>1, <2>3 DEF Decides, M, K, x
    <3>2. x.dist < k.dist /\ x.target = k.target /\ x.hash = k.hash /\ x.dist \in Nat /\ k.dist \in Nat
      BY <1>3, <1>4, <1>5, <1>6, <1>8, <2>1, <2>3
    <3>3. ASSUME NEW d \in offered PROVE Has(M, d) \/ (Len(q.slots) = LMax /\ Beaten(M, d))
      <4>0. B(d) \in Nat
        BY <1>1, <1>5
      <4> HIDE DEF B
      <4>1. CASE Has(K, d)
        <5>1. PICK s \in K : s.target = d.target /\ s.dist <= B(d)
          BY <4>1
        <5>2. s = k \/ s \in M
          BY <3>1
        <5>3. s = k => x.target = d.target /\ x.dist <= B(d) /\ x \in M
          BY <3>1, <3>2, <4>0, <5>1
        <5> QED BY <5>1, <5>2, <5>3
      <4>2. CASE Len(r.slots) = LMax /\ Beaten(K, d)
        <5>1. (\E s \in M : s.hash = Hash[d.target]) <=> (\E s \in K : s.hash = Hash[d.target])
          BY <3>1, <3>2
        <5>2. Beaten(M, d)
          <6>1. k.dist <= B(d) => x.dist <= B(d)
            BY <3>2, <4>0
          <6> QED BY <3>1, <3>2, <4>2, <5>1, <6>1 DEF Beaten, B
        <5> QED BY <3>1, <4>2, <5>2
      <4> QED BY <1>6, <4>1, <4>2
    <3>4. Has(M, c)
      BY <1>11, <3>1
    <3> QED BY <1>10, <3>1, <3>3, <3>4
  <2> QED BY <2>2, <2>3
<1>13. CASE Added(r, q, c)
  <2>1. M = K \cup {x} /\ Len(r.slots) < LMax
    BY <1>13 DEF Added, M, K, x
  <2>2. Len(r.slots) # LMax
    <3>1. Len(r.slots) \in Nat
      BY <1>1, SeqFacts DEF Good, Ordered
    <3> QED BY <1>1, <2>1, <3>1
  <2>3. \A d \in offered : Has(M, d)
    BY <1>6, <2>1, <2>2
  <2> QED BY <1>10, <1>11, <2>1, <2>3
<1>14. CASE Collided(r, q, c)
  <2>1. PICK k \in K : /\ k.hash = Hash[c.target] /\ Decides(r, q, k, c)
                       /\ \A m \in K : m.hash = Hash[c.target] => m.dist <= k.dist
    BY <1>14 DEF Collided, K
  <2>2. Len(r.slots) = LMax
    BY <1>14 DEF Collided
  <2>3. CASE ~(c.dist < k.dist)
    <3>1. q = r /\ M = K
      BY <2>1, <2>3 DEF Decides, M, K
    <3>2. k.dist <= B(c)
      BY <1>8, <2>3
    <3>3. Beaten(M, c)
      <4>1. \A m \in K : m.hash = Hash[c.target] => m.dist <= B(c)
        BY <1>3, <1>4, <1>5, <2>1, <3>2
      <4> QED BY <2>1, <3>1, <4>1 DEF Beaten
    <3> QED BY <1>6, <1>10, <2>2, <3>1, <3>3
  <2>4. CASE c.dist < k.dist
    <3>1. Len(q.slots) = LMax /\ M = (K \ {k}) \cup {x}
      BY <2>1, <2>2, <2>4 DEF Decides, M, K, x
    <3>2. x.dist < k.dist /\ x.hash = k.hash /\ x.dist \in Nat /\ k.dist \in Nat
      BY <1>3, <1>4, <1>5, <1>8, <2>1, <2>4
    <3>3. ASSUME NEW d \in offered PROVE Has(M, d) \/ (Len(q.slots) = LMax /\ Beaten(M, d))
      <4>0. B(d) \in Nat
        BY <1>1, <1>5
      <4>1. CASE Has(K, d)
        <5>1. PICK s \in K : s.target = d.target /\ s.dist <= B(d)
          BY <4>1
        <5>2. CASE s # k
          BY <3>1, <5>1, <5>2
        <5>3. CASE s = k
          <6>1. Hash[d.target] = k.hash /\ k.dist <= B(d)
            BY <1>6, <5>1, <5>3
          <6>2. \A m \in M : m.hash = Hash[d.target] => m.dist <= B(d)
            BY <1>4, <2>1, <3>1, <3>2, <4>0, <6>1
          <6>3. x \in M /\ x.hash = Hash[d.target]
            BY <3>1, <3>2, <6>1
          <6> QED BY <3>1, <6>2, <6>3 DEF Beaten
        <5> QED BY <5>2, <5>3
      <4>2. CASE Beaten(K, d)
        <5>1. (\E s \in M : s.hash = Hash[d.target]) <=> (\E s \in K : s.hash = Hash[d.target])
          BY <3>1, <3>2
        <5>2. k.dist <= B(d) => x.dist <= B(d)
          BY <3>2, <4>0
        <5>3. Beaten(M, d)
          <6> HIDE DEF B
          <6> QED BY <3>1, <3>2, <4>2, <5>1, <5>2 DEF Beaten, B
        <5> QED BY <3>1, <5>3
      <4> QED BY <1>6, <4>1, <4>2
    <3>4. Has(M, c)
      BY <1>11, <3>1
    <3> QED BY <1>10, <3>1, <3>3, <3>4
  <2> QED BY <2>3, <2>4
<1>15. CASE Evicted(r, q, c)
  <2>1. PICK k \in K : Decides(r, q, k, c) /\ \A m \in K : m.dist <= k.dist
    BY <1>15 DEF Evicted, K
  <2>2. Len(r.slots) = LMax /\ \A m \in K : m.hash # Hash[c.target]
    BY <1>15 DEF Evicted, K
  <2>3. CASE ~(c.dist < k.dist)
    <3>1. q = r /\ M = K
      BY <2>1, <2>3 DEF Decides, M, K
    <3>2. k.dist <= B(c)
      BY <1>8, <2>3
    <3>3. Beaten(M, c)
      <4>1. \A m \in K : m.dist <= B(c)
        BY <1>3, <1>4, <1>5, <2>1, <3>2
      <4> QED BY <2>2, <3>1, <4>1 DEF Beaten
    <3> QED BY <1>6, <1>10, <2>2, <3>1, <3>3
  <2>4. CASE c.dist < k.dist
    <3>1. Len(q.slots) = LMax /\ M = (K \ {k}) \cup {x}
      BY <2>1, <2>2, <2>4 DEF Decides, M, K, x
    <3>2. x.dist < k.dist /\ x.hash = Hash[c.target] /\ x.dist \in Nat /\ k.dist \in Nat
      BY <1>3, <1>4, <1>5, <1>8, <2>4
    <3>3. ASSUME NEW d \in offered PROVE Has(M, d) \/ (Len(q.slots) = LMax /\ Beaten(M, d))
      <4>0. B(d) \in Nat
        BY <1>1, <1>5
      <4>1. ASSUME k.dist <= B(d) PROVE Beaten(M, d)
        <5>1. \A m \in M : m.dist <= B(d)
          BY <1>4, <2>1, <3>1, <3>2, <4>0, <4>1
        <5> QED BY <5>1 DEF Beaten
      <4>2. CASE Has(K, d)
        <5>1. PICK s \in K : s.target = d.target /\ s.dist <= B(d)
          BY <4>2
        <5>2. CASE s # k
          BY <3>1, <5>1, <5>2
        <5>3. CASE s = k
          BY <3>1, <4>1, <5>1, <5>3
        <5> QED BY <5>2, <5>3
      <4>3. CASE Beaten(K, d)
        <5>1. CASE k.dist <= B(d)
          BY <3>1, <4>1, <5>1
        <5>2. CASE ~(k.dist <= B(d))
          <6>1. /\ \E s \in K : s.hash = Hash[d.target]
                /\ \A s \in K : s.hash = Hash[d.target] => s.dist <= B(d)
            BY <4>3, <5>2 DEF Beaten
          <6>2. PICK s \in K : s.hash = Hash[d.target]
            BY <6>1
          <6>3. s # k /\ s \in M /\ Hash[d.target] # x.hash
            BY <2>2, <3>1, <3>2, <5>2, <6>1, <6>2
          <6>4. \A m \in M : m.hash = Hash[d.target] => m.dist <= B(d)
            BY <3>1, <6>1, <6>3
          <6> QED BY <3>1, <6>2, <6>3, <6>4 DEF Beaten
        <5> QED BY <5>1, <5>2
      <4> QED BY <1>6, <4>2, <4>3
    <3>4. Has(M, c)
      BY <1>11, <3>1
    <3> QED BY <1>10, <3>1, <3>3, <3>4
  <2> QED BY <2>3, <2>4
<1> QED BY <1>2, <1>12, <1>13, <1>14, <1>15
\* The least element of a set is its minimum.
LEMMA MinIs ==
  ASSUME NEW S, S \subseteq Nat, NEW m \in S, \A y \in S : m <= y
  PROVE  Min(S) = m
<1>1. \A x \in S : (\A y \in S : x <= y) => x = m
  <2> SUFFICES ASSUME NEW x \in S, \A y \in S : x <= y PROVE x = m
    OBVIOUS
  <2>1. x <= m /\ m <= x /\ x \in Nat /\ m \in Nat
    OBVIOUS
  <2> QED BY <2>1
<1> QED BY <1>1 DEF Min

\* An empty reservoir, nothing offered.
LEMMA EmptyIInv ==
  ASSUME reservoir = Empty, offered = {}
  PROVE  IInv
<1>1. Slots = <<>> /\ Len(Slots) = 0 /\ reservoir.slots = <<>>
  BY DEF Slots, Empty
<1>2. DOMAIN Slots = {} /\ Slots \in Seq(SlotRecords)
  BY <1>1
<1>3. Good(reservoir)
  BY <1>1, <1>2 DEF Good, Ordered, Sorted, Unique, Cached
<1>4. Kept = {}
  BY <1>2 DEF Kept, Elems
<1>5. Len(Slots) <= LMax
  BY <1>1, HashPruneAssumption
<1> QED BY <1>3, <1>4, <1>5 DEF IInv, SlotInv, OfferInv

\* Every step keeps the invariant.
LEMMA StepPreserves == IInv /\ [Next]_vars => IInv'
<1> SUFFICES ASSUME IInv, [Next]_vars PROVE IInv'
  OBVIOUS
<1>1. CASE Drain
  <2>1. reservoir' = Empty /\ offered' = {}
    BY <1>1 DEF Drain
  <2>2. Slots' = <<>> /\ Len(Slots') = 0
    BY <2>1 DEF Slots, Empty
  <2>3. DOMAIN Slots' = {} /\ Slots' \in Seq(SlotRecords)
    BY <2>2
  <2>4. Good(reservoir')
    BY <2>2, <2>3 DEF Good, Ordered, Sorted, Unique, Cached, Slots
  <2>5. Kept' = {}
    BY <2>3 DEF Kept, Elems
  <2>6. Len(Slots') <= LMax
    BY <2>2, HashPruneAssumption
  <2> QED BY <2>1, <2>4, <2>5, <2>6 DEF IInv, SlotInv, OfferInv
<1>2. ASSUME NEW c \in Candidates, Insert(c) PROVE IInv'
  BY <1>2, InsertStep
<1>3. CASE UNCHANGED vars
  BY <1>3 DEF vars, IInv, SlotInv, OfferInv, Kept, Slots
<1> QED BY <1>1, <1>2, <1>3 DEF Next

\* The inductive invariant holds after any sequence of offers.
LEMMA Invariance == Spec => []IInv
<1>1. Init => IInv
  BY EmptyIInv DEF Init
<1> QED BY <1>1, StepPreserves, PTL DEF Spec

\* HashPruneReservoir::insert keeps at most l_max slots, sorted by hash, no target twice,
\* and its cached farthest slot is a farthest slot.
THEOREM ReservoirWellFormed == Spec => []WellFormed
<1>1. IInv => WellFormed
  BY DEF IInv, WellFormed, Good, Ordered, Sorted, Unique, Cached, SlotRecords, Slots
<1> QED BY <1>1, Invariance, PTL

\* A kept target has the nearest distance it was ever offered with, and a hash that is
\* represented keeps the nearest candidate that was ever offered for it, whatever was
\* evicted in between.
THEOREM NearestIsKept == Spec => []NearestKept
<1>1. IInv => NearestKept
  <2> SUFFICES ASSUME IInv, NEW i \in DOMAIN Slots
               PROVE  /\ Slots[i].dist = Min({BFloat16(c.dist) : c \in {c \in offered : c.target = Slots[i].target}})
                      /\ \A c \in offered : Hash[c.target] = Slots[i].hash =>
                           \E j \in DOMAIN Slots : Slots[j].hash = Slots[i].hash
                                                   /\ Slots[j].dist <= BFloat16(c.dist)
    BY DEF NearestKept
  <2> DEFINE s == Slots[i]
             D == {BFloat16(c.dist) : c \in {c \in offered : c.target = s.target}}
  <2>1. s \in Kept /\ \A k \in Kept : \E j \in DOMAIN Slots : k = Slots[j]
    BY DEF Kept, Elems
  <2>2. s.hash = Hash[s.target] /\ \E c \in offered : c.target = s.target /\ s.dist = BFloat16(c.dist)
    BY <2>1 DEF IInv, SlotInv
  <2>3. \A k \in Kept : k.hash = Hash[k.target]
    BY DEF IInv, SlotInv
  <2>4. \A k \in Kept : k.target = s.target => k = s
    <3> SUFFICES ASSUME NEW j \in DOMAIN Slots, Slots[j].target = s.target PROVE Slots[j] = s
      BY DEF Kept, Elems
    <3>1. Unique(Slots) /\ DOMAIN Slots = 1..Len(Slots) /\ Len(Slots) \in Nat
      BY SeqFacts DEF IInv, Good, Ordered, Slots
    <3>2. ~(i < j) /\ ~(j < i)
      BY <3>1 DEF Unique
    <3> QED BY <3>1, <3>2
  <2>5. ASSUME NEW c \in offered, Hash[c.target] = s.hash
        PROVE  /\ \E k \in Kept : k.hash = s.hash /\ k.dist <= BFloat16(c.dist)
               /\ c.target = s.target => s.dist <= BFloat16(c.dist)
    <3>1. CASE \E k \in Kept : k.target = c.target /\ k.dist <= BFloat16(c.dist)
      BY <2>3, <2>4, <2>5, <3>1
    <3>2. CASE Beaten(Kept, c)
      BY <2>1, <2>5, <3>2 DEF Beaten
    <3> QED BY <3>1, <3>2 DEF IInv, OfferInv
  <2>6. s.dist \in D /\ D \subseteq Nat /\ \A y \in D : s.dist <= y
    <3>1. \A c \in offered : BFloat16(c.dist) \in Nat
      BY SlotFacts, RoundFacts DEF IInv
    <3> QED BY <2>2, <2>5, <3>1
  <2>7. s.dist = Min(D)
    <3> HIDE DEF D, s
    <3> QED BY <2>6, MinIs
  <2> QED BY <2>1, <2>5, <2>7
<1> QED BY <1>1, Invariance, PTL
=============================================================================
