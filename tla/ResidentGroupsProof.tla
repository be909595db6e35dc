------------------------ MODULE ResidentGroupsProof ------------------------
(***************************************************************************)
(* Proofs about ResidentPlan and ResidentGroups, for every call: every set *)
(* of runs, every configuration, every number of workers and emitters, and *)
(* any number of I/O errors.  The planner cuts groups of the right shape,  *)
(* and puts every run with points into exactly one group, or leaves it to  *)
(* the level scan.                                                         *)
(***************************************************************************)
EXTENDS ResidentGroups, DataTheorems

-----------------------------------------------------------------------------
(* The plan of a call.                                                     *)

\* A group of the plan, the runs with points of a sequence of runs, and how many
\* of them each group takes.
GroupRecords == [runs : Seq(Seq(Nat)), bytes : Nat]
Filled(runs) == Cardinality({i \in DOMAIN runs : runs[i] # <<>>})
FilledOf(groups) == [g \in DOMAIN groups |-> Filled(groups[g].runs)]

\* What the greedy grouping carries along, and the runs with points that it has placed.
Groupings == [pending : Seq(Seq(Nat)), groups : Seq(GroupRecords), levelwise : Seq(Seq(Nat))]
Placed(acc) == Filled(acc.pending) + Filled(acc.levelwise)
                 + Sum(FilledOf(acc.groups), DOMAIN acc.groups)

\* max(1) of the code.
LEMMA AtLeast1Type ==
  ASSUME NEW n \in Int
  PROVE  AtLeast1(n) \in Nat \ {0} /\ AtLeast1(n) >= n
BY MaxOfTwo DEF AtLeast1

\* A concatenation of sequences is a sequence over the same set.
LEMMA FlattenType ==
  ASSUME NEW S, NEW ss \in Seq(Seq(S))
  PROVE  FlattenSeq(ss) \in Seq(S)
<1> DEFINE Flat(g, n) == g = [i \in 1..n |-> IF i = 1 THEN ss[i] ELSE g[i-1] \o ss[i]]
           C == {n \in Nat : \E g : Flat(g, n)}
<1>1. 0 \in C
  <2> DEFINE g == [i \in {} |-> 0]
  <2>1. Flat(g, 0)
    OBVIOUS
  <2> HIDE DEF Flat
  <2> QED BY <2>1
<1>2. ASSUME NEW n \in Nat, n \in C PROVE n + 1 \in C
  <2>1. PICK g : Flat(g, n)
    BY <1>2
  <2> DEFINE h == [i \in 1..(n+1) |-> IF i \in 1..n THEN g[i]
                                      ELSE IF i = 1 THEN ss[i] ELSE g[i-1] \o ss[i]]
  <2>2. ASSUME NEW i \in 1..(n+1) PROVE h[i] = IF i = 1 THEN ss[i] ELSE h[i-1] \o ss[i]
    <3>1. CASE i \in 1..n
      <4>1. g[i] = IF i = 1 THEN ss[i] ELSE g[i-1] \o ss[i]
        BY <2>1, <3>1
      <4>2. i # 1 => i - 1 \in 1..n
        BY <3>1
      <4> QED BY <3>1, <4>1, <4>2
    <3>2. CASE i \notin 1..n
      <4>1. i # 1 => i - 1 \in 1..n
        BY <3>2
      <4> QED BY <3>2, <4>1
    <3> QED BY <3>1, <3>2
  <2>3. Flat(h, n + 1)
    <3>1. h = [i \in 1..(n+1) |-> h[i]]
      OBVIOUS
    <3> HIDE DEF h
    <3>2. h = [i \in 1..(n+1) |-> IF i = 1 THEN ss[i] ELSE h[i-1] \o ss[i]]
      BY <2>2, <3>1
    <3> QED BY <3>2
  <2> HIDE DEF Flat, h
  <2> QED BY <2>3
<1>3. \A n \in Nat : n \in C
  <2> HIDE DEF C
  <2> QED BY <1>1, <1>2, NatSetInduction
<1>4. CASE Len(ss) = 0
  <2>1. FlattenSeq(ss) = ss /\ ss = <<>>
    BY <1>4, EmptySeq DEF FlattenSeq
  <2> QED BY <2>1
<1>5. CASE Len(ss) # 0
  <2> DEFINE m == Len(ss)
             g == CHOOSE g : Flat(g, m)
             D == {n \in Nat : n + 1 <= m => g[n + 1] \in Seq(S)}
  <2>1. FlattenSeq(ss) = g[m]
    BY <1>5 DEF FlattenSeq
  <2>2. m \in Nat /\ m - 1 \in Nat /\ m - 1 + 1 = m
    BY <1>5
  <2>3. Flat(g, m)
    <3>1. \E k : Flat(k, m)
      BY <1>3, <2>2
    <3> HIDE DEF Flat
    <3> QED BY <3>1
  <2>4. \A i \in 1..m : g[i] = IF i = 1 THEN ss[i] ELSE g[i-1] \o ss[i]
    <3> HIDE DEF g
    <3> QED BY <2>3
  <2>5. \A i \in 1..m : ss[i] \in Seq(S)
    OBVIOUS
  <2> HIDE DEF g, m
  <2>6. 0 \in D
    BY <2>2, <2>4, <2>5
  <2>7. ASSUME NEW n \in Nat, n \in D PROVE n + 1 \in D
    <3>1. SUFFICES ASSUME (n + 1) + 1 <= m PROVE g[(n + 1) + 1] \in Seq(S)
      OBVIOUS
    <3>2. g[n + 1] \in Seq(S)
      BY <2>7, <2>2, <3>1
    <3> DEFINE q == (n + 1) + 1
    <3>3. q \in 1..m /\ q # 1 /\ q - 1 = n + 1
      BY <2>2, <3>1
    <3> HIDE DEF q
    <3>4. g[q] = g[q - 1] \o ss[q] /\ ss[q] \in Seq(S)
      BY <2>4, <2>5, <3>3
    <3>5. g[q] \in Seq(S)
      BY <3>2, <3>3, <3>4, ConcatProperties
    <3> QED BY <3>5 DEF q
  <2>8. m - 1 \in D
    <3> HIDE DEF D
    <3> QED BY <2>2, <2>6, <2>7, NatSetInduction
  <2>9. g[m - 1 + 1] \in Seq(S)
    BY <2>2, <2>8
  <2> QED BY <2>1, <2>2, <2>9
<1> QED BY <1>4, <1>5

\* The points of finitely many runs are finitely many.
LEMMA PointsFinite ==
  ASSUME NEW runs \in Seq(Seq(Nat))
  PROVE  IsFiniteSet(PointsOf(runs)) /\ Cardinality(PointsOf(runs)) \in Nat
<1> DEFINE K == DOMAIN runs
           R(U) == UNION {ToSet(runs[i]) : i \in U}
           C == {U \in SUBSET K : IsFiniteSet(R(U))}
<1>1. IsFiniteSet(K)
  <2>1. K = 1..Len(runs) /\ Len(runs) \in Nat
    OBVIOUS
  <2> QED BY <2>1, FS_Interval
<1>2. ASSUME NEW i \in K PROVE IsFiniteSet(ToSet(runs[i]))
  <2> DEFINE s == runs[i]
             J == DOMAIN s
             f == [j \in J |-> s[j]]
  <2>1. s \in Seq(Nat)
    OBVIOUS
  <2> HIDE DEF s
  <2>2. J = 1..Len(s) /\ Len(s) \in Nat
    BY <2>1
  <2>3. IsFiniteSet(J)
    BY <2>2, FS_Interval
  <2>4. f \in Surjection(J, ToSet(s))
    BY DEF Surjection, ToSet
  <2>5. IsFiniteSet(ToSet(s))
    <3> HIDE DEF f, J
    <3> QED BY <2>3, <2>4, FS_Surjection
  <2> QED BY <2>5 DEF s
<1>3. ASSUME NEW U \in SUBSET K, \A V \in SUBSET U : V # U => V \in C
      PROVE  U \in C
  <2>1. CASE U = {}
    <3>1. R(U) = {}
      BY <2>1
    <3> QED BY <3>1, FS_EmptySet
  <2>2. CASE U # {}
    <3>1. PICK x : x \in U
      BY <2>2
    <3>2. U \ {x} \in C
      BY <1>3, <3>1
    <3>3. R(U) = R(U \ {x}) \cup ToSet(runs[x])
      BY <3>1
    <3>4. IsFiniteSet(R(U \ {x})) /\ IsFiniteSet(ToSet(runs[x]))
      BY <1>2, <3>1, <3>2
    <3> HIDE DEF R
    <3> QED BY <3>3, <3>4, FS_Union
  <2> QED BY <2>1, <2>2
<1>4. K \in C
  <2> HIDE DEF C, K
  <2> QED BY <1>1, <1>3, FiniteSetInduction
<1>5. PointsOf(runs) = R(K)
  BY DEF PointsOf
<1> QED BY <1>4, <1>5, FS_CardinalityType

\* A group knows its runs and a size in bytes.
LEMMA GroupOfType ==
  ASSUME NEW runs \in Seq(Seq(Nat)), NEW dim \in Nat
  PROVE  GroupOf(runs, dim) \in GroupRecords /\ GroupOf(runs, dim).runs = runs
<1> DEFINE n == Cardinality(PointsOf(runs))
<1>1. n \in Nat
  BY PointsFinite
<1> HIDE DEF n
<1>2. AtLeast1(n) \in Nat /\ AtLeast1(dim) \in Nat
  BY <1>1, AtLeast1Type
<1>3. VectorBytes(dim, n) \in Nat
  <2>1. \A x, y \in Nat : x * y * 4 \in Nat
    OBVIOUS
  <2> QED BY <1>2, <2>1 DEF VectorBytes
<1>4. EstimatedBytes(dim, n) \in Nat
  BY <1>2, <1>3 DEF EstimatedBytes
<1> QED BY <1>4 DEF GroupOf, GroupRecords, n

\* How many of the runs have points.
LEMMA FilledNat ==
  ASSUME NEW runs \in Seq(Seq(Nat))
  PROVE  /\ IsFiniteSet({i \in DOMAIN runs : runs[i] # <<>>}) /\ Filled(runs) \in Nat
         /\ IsFiniteSet(DOMAIN runs)
<1>1. DOMAIN runs = 1..Len(runs) /\ Len(runs) \in Nat
  OBVIOUS
<1>2. IsFiniteSet(DOMAIN runs)
  BY <1>1, FS_Interval
<1>3. IsFiniteSet({i \in DOMAIN runs : runs[i] # <<>>})
  BY <1>2, FS_Subset
<1> QED BY <1>2, <1>3, FS_CardinalityType DEF Filled

\* No run has points when there is none.
LEMMA FilledEmpty == Filled(<<>>) = 0
<1>1. {i \in DOMAIN <<>> : <<>>[i] # <<>>} = {}
  OBVIOUS
<1> QED BY <1>1, FS_EmptySet DEF Filled

\* A position in the second of two sequences.
LEMMA Shifted ==
  \A a, b \in Nat, j \in Int : 1 <= j /\ j <= b =>
     /\ j + a \in Int /\ 1 <= j + a /\ j + a <= a + b /\ j + a > a /\ (j + a) - a = j
OBVIOUS

\* Runs put one after the other.
LEMMA FilledConcat ==
  ASSUME NEW s \in Seq(Seq(Nat)), NEW t \in Seq(Seq(Nat))
  PROVE  s \o t \in Seq(Seq(Nat)) /\ Filled(s \o t) = Filled(s) + Filled(t)
<1> DEFINE A == {i \in DOMAIN s : s[i] # <<>>}
           B == {i \in DOMAIN t : t[i] # <<>>}
           u == s \o t
           D == {i \in DOMAIN u : u[i] # <<>>}
           f == [i \in B |-> i + Len(s)]
           E == {f[i] : i \in B}
<1>1. /\ u \in Seq(Seq(Nat)) /\ Len(u) = Len(s) + Len(t) /\ Len(s) \in Nat /\ Len(t) \in Nat
      /\ \A i \in 1..Len(s) : u[i] = s[i]
      /\ \A i \in 1..Len(u) : i > Len(s) => u[i] = t[i - Len(s)]
  BY ConcatProperties
<1>2. DOMAIN u = 1..Len(u) /\ DOMAIN s = 1..Len(s) /\ DOMAIN t = 1..Len(t)
  BY <1>1
<1> HIDE DEF u
<1>a. /\ \A i \in A : i \in Int /\ 1 <= i /\ i <= Len(s) /\ s[i] # <<>>
      /\ \A i \in B : i \in Int /\ 1 <= i /\ i <= Len(t) /\ t[i] # <<>> /\ f[i] = i + Len(s)
      /\ \A i \in D : i \in Int /\ 1 <= i /\ i <= Len(s) + Len(t) /\ u[i] # <<>>
      /\ \A i \in Int : 1 <= i /\ i <= Len(s) /\ s[i] # <<>> => i \in A
      /\ \A i \in Int : 1 <= i /\ i <= Len(t) /\ t[i] # <<>> => i \in B
      /\ \A i \in Int : 1 <= i /\ i <= Len(s) + Len(t) /\ u[i] # <<>> => i \in D
  BY <1>1, <1>2
<1>b. /\ \A i \in Int : 1 <= i /\ i <= Len(s) => u[i] = s[i]
      /\ \A i \in Int : Len(s) < i /\ i <= Len(s) + Len(t) => u[i] = t[i - Len(s)]
  BY <1>1
<1>c. f \in [B -> E] /\ \A j \in E : \E i \in B : j = f[i]
  OBVIOUS
<1>d. \A i \in B : f[i] \in E
  OBVIOUS
<1> HIDE DEF A, B, D, E, f
<1>3. D = A \cup E
  <2>1. ASSUME NEW i \in D PROVE i \in A \cup E
    <3>1. CASE i <= Len(s)
      BY <1>1, <1>a, <1>b, <3>1
    <3>2. CASE i > Len(s)
      <4> DEFINE j == i - Len(s)
      <4>1. i \in Int /\ i <= Len(s) + Len(t) /\ u[i] # <<>> /\ u[i] = t[j]
        BY <1>1, <1>a, <1>b, <3>2
      <4>2. j \in Int /\ 1 <= j /\ j <= Len(t) /\ j + Len(s) = i
        <5>1. \A a, b, c \in Int : a > b /\ a <= b + c =>
                 a - b \in Int /\ 1 <= a - b /\ a - b <= c /\ (a - b) + b = a
          OBVIOUS
        <5>2. i \in Int /\ Len(s) \in Int /\ Len(t) \in Int /\ i > Len(s) /\ i <= Len(s) + Len(t)
          BY <1>1, <3>2, <4>1
        <5> QED BY <5>1, <5>2
      <4> HIDE DEF j
      <4>3. j \in B /\ f[j] = i
        BY <1>a, <4>1, <4>2
      <4> QED BY <4>3, <1>d
    <3> QED BY <1>1, <1>a, <3>1, <3>2
  <2>2. ASSUME NEW i \in A PROVE i \in D
    <3>1. i \in Int /\ 1 <= i /\ i <= Len(s) /\ s[i] # <<>>
      BY <1>a
    <3>2. u[i] = s[i] /\ i <= Len(s) + Len(t)
      BY <1>1, <1>b, <3>1
    <3> QED BY <1>a, <3>1, <3>2
  <2>3. ASSUME NEW j \in B PROVE f[j] \in D
    <3> DEFINE i == j + Len(s)
    <3>0. j \in Int /\ 1 <= j /\ j <= Len(t) /\ t[j] # <<>> /\ f[j] = i
      BY <1>a
    <3>1. /\ i \in Int /\ 1 <= i /\ i <= Len(s) + Len(t) /\ i > Len(s) /\ i - Len(s) = j
          /\ f[j] = i /\ t[j] # <<>>
      <4>1. Len(s) \in Nat /\ Len(t) \in Nat
        BY <1>1
      <4> QED BY <3>0, <4>1, Shifted
    <3> HIDE DEF i
    <3>2. u[i] = t[j]
      BY <1>b, <3>1
    <3> QED BY <1>a, <3>1, <3>2
  <2> QED BY <1>c, <2>1, <2>2, <2>3
<1>4. A \cap E = {}
  BY <1>1, <1>a, <1>c
<1>5. IsFiniteSet(A) /\ IsFiniteSet(B) /\ Cardinality(A) \in Nat /\ Cardinality(B) \in Nat
  BY FilledNat, FS_CardinalityType DEF A, B
<1>6. IsFiniteSet(E) /\ Cardinality(E) = Cardinality(B)
  <2>1. \A i, j \in B : f[i] = f[j] => i = j
    BY <1>1, <1>a
  <2>2. f \in Bijection(B, E)
    BY <1>c, <2>1 DEF Bijection, Injection, Surjection, IsInjective
  <2>3. ExistsBijection(B, E)
    BY <2>2 DEF ExistsBijection
  <2> QED BY <1>5, <2>3, FS_Bijection
<1>7. Cardinality(D) = Cardinality(A) + Cardinality(E)
  <2>1. Cardinality(A \cap E) = 0
    BY <1>4, FS_EmptySet
  <2>2. Cardinality(A \cup E) = Cardinality(A) + Cardinality(E) - Cardinality(A \cap E)
    BY <1>5, <1>6, FS_Union
  <2>3. Cardinality(A) \in Nat /\ Cardinality(E) \in Nat
    BY <1>5, <1>6
  <2> QED BY <1>3, <2>1, <2>2, <2>3
<1>8. Filled(s) = Cardinality(A) /\ Filled(t) = Cardinality(B) /\ Filled(u) = Cardinality(D)
  BY DEF Filled, A, B, D
<1> QED BY <1>1, <1>6, <1>7, <1>8 DEF u

\* One more run with points.
LEMMA FilledAppend ==
  ASSUME NEW s \in Seq(Seq(Nat)), NEW run \in Seq(Nat), run # <<>>
  PROVE  Append(s, run) \in Seq(Seq(Nat)) /\ Filled(Append(s, run)) = Filled(s) + 1
<1> DEFINE t == <<run>>
<1>1. t \in Seq(Seq(Nat)) /\ {i \in DOMAIN t : t[i] # <<>>} = {1}
  OBVIOUS
<1>2. Filled(t) = 1
  BY <1>1, FS_Singleton DEF Filled
<1>3. Append(s, run) = s \o t
  OBVIOUS
<1> HIDE DEF t
<1>4. s \o t \in Seq(Seq(Nat)) /\ Filled(s \o t) = Filled(s) + Filled(t)
  BY <1>1, FilledConcat
<1> QED BY <1>2, <1>3, <1>4

\* The groups made so far, and one more.
LEMMA FilledGroups ==
  ASSUME NEW gs \in Seq(GroupRecords), NEW g \in GroupRecords
  PROVE  /\ Append(gs, g) \in Seq(GroupRecords)
         /\ Sum(FilledOf(gs), DOMAIN gs) \in Nat
         /\ Sum(FilledOf(Append(gs, g)), DOMAIN Append(gs, g))
              = Sum(FilledOf(gs), DOMAIN gs) + Filled(g.runs)
<1> DEFINE hs == Append(gs, g)
           n == Len(gs)
           K == DOMAIN gs
           fs == FilledOf(gs)
           fh == FilledOf(hs)
<1>1. /\ hs \in Seq(GroupRecords) /\ n \in Nat /\ K = 1..n /\ DOMAIN hs = 1..(n + 1)
      /\ \A i \in K : hs[i] = gs[i]
      /\ hs[n + 1] = g
  BY AppendFacts
<1>2. IsFiniteSet(K) /\ n + 1 \notin K /\ DOMAIN hs = K \cup {n + 1}
  <2> HIDE DEF hs, K, n
  <2>1. IsFiniteSet(K)
    BY <1>1, FS_Interval
  <2>2. n + 1 \notin K /\ DOMAIN hs = K \cup {n + 1}
    BY <1>1
  <2> QED BY <2>1, <2>2
<1>3. \A i \in DOMAIN hs : hs[i] \in GroupRecords
  BY <1>1
<1> HIDE DEF hs
<1>4. \A i \in DOMAIN hs : fh[i] = Filled(hs[i].runs) /\ fh[i] \in Nat
  BY <1>3, FilledNat DEF FilledOf, GroupRecords
<1>5. \A i \in K : fs[i] = fh[i]
  BY <1>1, <1>2 DEF FilledOf
<1> HIDE DEF fs, fh
<1>6. Sum(fh, K \cup {n + 1}) = fh[n + 1] + Sum(fh, K)
  BY <1>2, <1>4, SumAdd
<1>7. Sum(fs, K) = Sum(fh, K) /\ Sum(fs, K) \in Nat
  BY <1>2, <1>4, <1>5, SumSame, SumNat
<1>8. fh[n + 1] = Filled(g.runs) /\ fh[n + 1] \in Nat
  BY <1>1, <1>2, <1>4
<1>9. Sum(fh, DOMAIN hs) = Sum(fs, K) + Filled(g.runs)
  <2> HIDE DEF K, n
  <2> QED BY <1>2, <1>6, <1>7, <1>8
<1> QED BY <1>1, <1>7, <1>9 DEF hs, fs, fh

\* A grouping in its parts.
LEMMA PlacedNat ==
  ASSUME NEW acc \in Groupings
  PROVE  /\ acc.pending \in Seq(Seq(Nat)) /\ acc.levelwise \in Seq(Seq(Nat))
         /\ acc.groups \in Seq(GroupRecords)
         /\ Filled(acc.pending) \in Nat /\ Filled(acc.levelwise) \in Nat
         /\ Sum(FilledOf(acc.groups), DOMAIN acc.groups) \in Nat
         /\ Placed(acc) \in Nat
<1>1. /\ acc.pending \in Seq(Seq(Nat)) /\ acc.levelwise \in Seq(Seq(Nat))
      /\ acc.groups \in Seq(GroupRecords)
  BY DEF Groupings
<1>2. [runs |-> <<>>, bytes |-> 0] \in GroupRecords
  BY DEF GroupRecords
<1>3. Sum(FilledOf(acc.groups), DOMAIN acc.groups) \in Nat
  BY <1>1, <1>2, FilledGroups
<1>4. Filled(acc.pending) \in Nat /\ Filled(acc.levelwise) \in Nat
  BY <1>1, FilledNat
<1> QED BY <1>1, <1>3, <1>4 DEF Placed

\* Closing the pending group keeps what was placed.
LEMMA FinalizeFacts ==
  ASSUME NEW acc \in Groupings, NEW c, NEW dim \in Nat, NEW cmax, NEW budget
  PROVE  LET new == FinalizePending(acc, c, dim, cmax, budget)
         IN new \in Groupings /\ new.pending = <<>> /\ Placed(new) = Placed(acc)
<1> DEFINE new == FinalizePending(acc, c, dim, cmax, budget)
           g == GroupOf(acc.pending, dim)
           lw == acc.levelwise \o acc.pending
           gs == Append(acc.groups, g)
           left == [acc EXCEPT !.pending = <<>>, !.levelwise = lw]
           taken == [acc EXCEPT !.pending = <<>>, !.groups = gs]
<1>1. \/ acc.pending = <<>> /\ new = acc
      \/ new = left
      \/ new = taken
  BY DEF FinalizePending, EmptyPending
<1>2. /\ acc.pending \in Seq(Seq(Nat)) /\ acc.levelwise \in Seq(Seq(Nat))
      /\ acc.groups \in Seq(GroupRecords)
      /\ Filled(acc.pending) \in Nat /\ Filled(acc.levelwise) \in Nat
      /\ Sum(FilledOf(acc.groups), DOMAIN acc.groups) \in Nat
  BY PlacedNat
<1>3. g \in GroupRecords /\ g.runs = acc.pending
  BY <1>2, GroupOfType
<1>a. lw \in Seq(Seq(Nat)) /\ Filled(lw) = Filled(acc.levelwise) + Filled(acc.pending)
  BY <1>2, FilledConcat
<1>b. /\ gs \in Seq(GroupRecords)
      /\ Sum(FilledOf(gs), DOMAIN gs) = Sum(FilledOf(acc.groups), DOMAIN acc.groups) + Filled(acc.pending)
  BY <1>2, <1>3, FilledGroups
<1>c. <<>> \in Seq(Seq(Nat))
  OBVIOUS
<1> HIDE DEF g, new, lw, gs
<1>4. CASE acc.pending = <<>> /\ new = acc
  BY <1>4 DEF new
<1>5. CASE new = left
  <2>1. left.pending = <<>> /\ left.groups = acc.groups /\ left.levelwise = lw
    BY DEF Groupings
  <2>2. left \in Groupings
    BY <1>2, <1>a, <1>c DEF Groupings
  <2>3. Placed(left) = Placed(acc)
    <3> HIDE DEF left
    <3> QED BY <1>2, <1>a, <2>1, FilledEmpty DEF Placed
  <2> QED BY <1>5, <2>1, <2>2, <2>3 DEF new
<1>6. CASE new = taken
  <2>1. taken.pending = <<>> /\ taken.levelwise = acc.levelwise /\ taken.groups = gs
    BY DEF Groupings
  <2>2. taken \in Groupings
    BY <1>2, <1>b, <1>c DEF Groupings
  <2>3. Placed(taken) = Placed(acc)
    <3> HIDE DEF taken
    <3> QED BY <1>2, <1>b, <2>1, FilledEmpty DEF Placed
  <2> QED BY <1>6, <2>1, <2>2, <2>3 DEF new
<1> QED BY <1>1, <1>4, <1>5, <1>6

\* One turn of the grouping loop places its run, unless it has no points.
LEMMA GroupRunFacts ==
  ASSUME NEW acc \in Groupings, NEW run \in Seq(Nat), NEW c, NEW dim \in Nat, NEW cmax, NEW budget
  PROVE  LET new == GroupRun(run, acc, c, dim, cmax, budget)
         IN new \in Groupings /\ Placed(new) = Placed(acc) + (IF run = <<>> THEN 0 ELSE 1)
<1> DEFINE new == GroupRun(run, acc, c, dim, cmax, budget)
           closed1 == FinalizePending(acc, c, dim, cmax, budget)
           native == [closed1 EXCEPT !.levelwise = Append(@, run)]
           fresh == [closed1 EXCEPT !.pending = <<run>>]
           joined == [acc EXCEPT !.pending = Append(acc.pending, run)]
<1>1. \/ run = <<>> /\ new = acc
      \/ run # <<>> /\ new \in {native, fresh, joined}
  BY DEF GroupRun
<1>2. closed1 \in Groupings /\ closed1.pending = <<>> /\ Placed(closed1) = Placed(acc)
  BY FinalizeFacts
<1> HIDE DEF new, closed1
<1>3. /\ acc.pending \in Seq(Seq(Nat)) /\ acc.levelwise \in Seq(Seq(Nat))
      /\ acc.groups \in Seq(GroupRecords)
      /\ Filled(acc.pending) \in Nat /\ Filled(acc.levelwise) \in Nat
      /\ Sum(FilledOf(acc.groups), DOMAIN acc.groups) \in Nat /\ Placed(acc) \in Nat
  BY PlacedNat
<1>4. /\ closed1.levelwise \in Seq(Seq(Nat))
      /\ closed1.groups \in Seq(GroupRecords)
      /\ Filled(closed1.levelwise) \in Nat
      /\ Sum(FilledOf(closed1.groups), DOMAIN closed1.groups) \in Nat
  BY <1>2, PlacedNat
<1>5. CASE run = <<>> /\ new = acc
  BY <1>3, <1>5 DEF new
<1>6. ASSUME run # <<>> PROVE native \in Groupings /\ Placed(native) = Placed(acc) + 1
  <2>1. /\ native.pending = <<>> /\ native.groups = closed1.groups
        /\ native.levelwise = Append(closed1.levelwise, run)
    BY <1>2 DEF Groupings
  <2>2. native.levelwise \in Seq(Seq(Nat)) /\ Filled(native.levelwise) = Filled(closed1.levelwise) + 1
    BY <1>4, <1>6, <2>1, FilledAppend
  <2>3. native \in Groupings
    BY <1>2, <2>2 DEF Groupings
  <2>4. Placed(native) = Placed(closed1) + 1
    <3> HIDE DEF native
    <3> QED BY <1>2, <1>4, <2>1, <2>2, FilledEmpty DEF Placed
  <2> QED BY <1>2, <2>3, <2>4
<1>7. ASSUME run # <<>> PROVE fresh \in Groupings /\ Placed(fresh) = Placed(acc) + 1
  <2>1. /\ fresh.pending = Append(<<>>, run) /\ fresh.groups = closed1.groups
        /\ fresh.levelwise = closed1.levelwise
    BY <1>2 DEF Groupings
  <2>2. fresh.pending \in Seq(Seq(Nat)) /\ Filled(fresh.pending) = 1
    <3>1. <<>> \in Seq(Seq(Nat))
      OBVIOUS
    <3>2. Append(<<>>, run) \in Seq(Seq(Nat)) /\ Filled(Append(<<>>, run)) = Filled(<<>>) + 1
      BY <1>7, <3>1, FilledAppend, Zenon
    <3>3. Filled(Append(<<>>, run)) = 1
      BY <3>2, FilledEmpty
    <3> HIDE DEF fresh
    <3> QED BY <2>1, <3>2, <3>3
  <2>3. fresh \in Groupings
    BY <1>2, <2>2 DEF Groupings
  <2>4. Placed(fresh) = Placed(closed1) + 1
    <3> HIDE DEF fresh
    <3> QED BY <1>2, <1>4, <2>1, <2>2, FilledEmpty DEF Placed
  <2> QED BY <1>2, <2>3, <2>4
<1>8. ASSUME run # <<>> PROVE joined \in Groupings /\ Placed(joined) = Placed(acc) + 1
  <2>1. /\ joined.pending = Append(acc.pending, run) /\ joined.groups = acc.groups
        /\ joined.levelwise = acc.levelwise
    BY DEF Groupings
  <2>2. joined.pending \in Seq(Seq(Nat)) /\ Filled(joined.pending) = Filled(acc.pending) + 1
    BY <1>3, <1>8, <2>1, FilledAppend
  <2>3. joined \in Groupings
    BY <1>3, <2>2 DEF Groupings
  <2>4. Placed(joined) = Placed(acc) + 1
    <3> HIDE DEF joined
    <3> QED BY <1>3, <2>1, <2>2 DEF Placed
  <2> QED BY <2>3, <2>4
<1>9. CASE run # <<>> /\ new \in {native, fresh, joined}
  <2> HIDE DEF native, fresh, joined
  <2> QED BY <1>6, <1>7, <1>8, <1>9 DEF new
<1> QED BY <1>1, <1>5, <1>9

NoGrouping == [pending |-> EmptyPending, groups |-> <<>>, levelwise |-> <<>>]

\* The grouping loop over the runs in order places every run with points.
LEMMA GroupingLoop ==
  ASSUME NEW runs \in Seq(Seq(Nat)), NEW c, NEW dim \in Nat, NEW cmax, NEW budget
  PROVE  LET new == GroupInputs(runs, c, dim, cmax, budget)
         IN new \in Groupings /\ new.pending = <<>> /\ Placed(new) = Filled(runs)
<1> DEFINE K == DOMAIN runs
           Turn(g, s) == IF s = {} THEN NoGrouping
                         ELSE GroupRun(runs[Max(s)], g[s \ {Max(s)}], c, dim, cmax, budget)
           Loop(g) == g = [s \in SUBSET K |-> Turn(g, s)]
           iter == CHOOSE g : Loop(g)
           In(s) == {i \in s : runs[i] # <<>>}
           Upto(g, n) == g = [s \in SUBSET K |-> g[s]] /\ \A s \in SUBSET K : Cardinality(s) <= n => g[s] = Turn(g, s)
           C == {n \in Nat : \E g : Upto(g, n)}
           D == {s \in SUBSET K : iter[s] \in Groupings /\ Placed(iter[s]) = Cardinality(In(s))}
<1>0. /\ K \subseteq Int /\ IsFiniteSet(K) /\ \A i \in K : runs[i] \in Seq(Nat)
      /\ \A s \in SUBSET K : IsFiniteSet(s) /\ Cardinality(s) \in Nat /\ Cardinality(s) <= Cardinality(K)
  <2>1. K \subseteq Int /\ IsFiniteSet(K) /\ \A i \in K : runs[i] \in Seq(Nat)
    <3>1. K = 1..Len(runs) /\ Len(runs) \in Nat
      OBVIOUS
    <3>2. \A i \in K : runs[i] \in Seq(Nat)
      OBVIOUS
    <3> HIDE DEF K
    <3> QED BY <3>1, <3>2, FS_Interval
  <2> QED BY <2>1, FS_Subset, FS_CardinalityType
<1>1. ASSUME NEW s \in SUBSET K, s # {}
      PROVE  /\ Max(s) \in s /\ s \ {Max(s)} \in SUBSET K
             /\ Cardinality(s \ {Max(s)}) = Cardinality(s) - 1
  <2>1. Max(s) \in s
    BY <1>0, <1>1, MaxOfSet
  <2> QED BY <1>0, <2>1, FS_RemoveElement
<1> HIDE DEF K
<1>2. 0 \in C
  <2> DEFINE g == [s \in SUBSET K |-> NoGrouping]
  <2>1. \A s \in SUBSET K : Cardinality(s) <= 0 => s = {}
    BY <1>0, FS_EmptySet
  <2>2. Upto(g, 0)
    BY <2>1
  <2> HIDE DEF Upto
  <2> QED BY <2>2
<1>3. ASSUME NEW n \in Nat, n \in C PROVE n + 1 \in C
  <2>1. PICK g : Upto(g, n)
    BY <1>3
  <2> DEFINE h == [s \in SUBSET K |-> IF Cardinality(s) <= n THEN g[s] ELSE Turn(g, s)]
  <2>2. ASSUME NEW s \in SUBSET K, Cardinality(s) <= n + 1 PROVE h[s] = Turn(h, s)
    <3>1. h[s] = Turn(g, s)
      BY <2>1
    <3>2. CASE s = {}
      BY <3>1, <3>2
    <3>3. CASE s # {}
      <4> DEFINE t == s \ {Max(s)}
      <4>1. t \in SUBSET K /\ Cardinality(t) <= n
        <5>1. t \in SUBSET K /\ Cardinality(t) = Cardinality(s) - 1
          BY <1>1, <3>3, Zenon
        <5>2. Cardinality(s) \in Nat
          BY <1>0
        <5> HIDE DEF t
        <5> QED BY <2>2, <5>1, <5>2
      <4>2. h[t] = g[t]
        BY <4>1
      <4> HIDE DEF h, t
      <4>3. Turn(h, s) = GroupRun(runs[Max(s)], h[t], c, dim, cmax, budget)
        BY <3>3 DEF t
      <4>4. Turn(g, s) = GroupRun(runs[Max(s)], g[t], c, dim, cmax, budget)
        BY <3>3 DEF t
      <4> QED BY <3>1, <4>2, <4>3, <4>4
    <3> QED BY <3>2, <3>3
  <2>3. h = [s \in SUBSET K |-> h[s]]
    OBVIOUS
  <2> HIDE DEF h, Turn
  <2>4. Upto(h, n + 1)
    BY <2>2, <2>3
  <2> HIDE DEF Upto
  <2>5. n + 1 \in Nat
    OBVIOUS
  <2> QED BY <2>4, <2>5
<1>4. \A n \in Nat : n \in C
  <2> HIDE DEF C
  <2> QED BY <1>2, <1>3, NatSetInduction
<1>5. PICK g : Upto(g, Cardinality(K))
  <2> HIDE DEF Upto
  <2>1. Cardinality(K) \in C
    BY <1>0, <1>4
  <2> QED BY <2>1
<1>6. Loop(g)
  <2>1. \A s \in SUBSET K : g[s] = Turn(g, s)
    <3> HIDE DEF Turn
    <3> QED BY <1>0, <1>5
  <2>2. g = [s \in SUBSET K |-> g[s]]
    BY <1>5
  <2> HIDE DEF Turn
  <2> QED BY <2>1, <2>2
<1>7. Loop(iter)
  <2> HIDE DEF Loop
  <2> QED BY <1>6
<1>8. FoldLeft(LAMBDA acc, run : GroupRun(run, acc, c, dim, cmax, budget), NoGrouping, runs) = iter[K]
  BY DEF FoldLeft, MapThenFoldSet, K
<1>9. \A s \in SUBSET K : iter[s] = Turn(iter, s)
  <2> HIDE DEF iter, Turn
  <2> QED BY <1>7
<1> HIDE DEF iter
<1>10. ASSUME NEW s \in SUBSET K, \A u \in SUBSET s : u # s => u \in D
       PROVE  s \in D
  <2>1. CASE s = {}
    <3>1. iter[s] = NoGrouping /\ In(s) = {}
      BY <1>9, <2>1
    <3>2. NoGrouping \in Groupings
      BY DEF NoGrouping, Groupings, EmptyPending
    <3>3. Placed(NoGrouping) = 0
      <4>1. DOMAIN NoGrouping.groups = {} /\ NoGrouping.pending = <<>> /\ NoGrouping.levelwise = <<>>
        BY DEF NoGrouping, EmptyPending
      <4> QED BY <4>1, FilledEmpty, SumEmpty DEF Placed
    <3> QED BY <3>1, <3>2, <3>3, FS_EmptySet
  <2>2. CASE s # {}
    <3> DEFINE x == Max(s)
               t == s \ {x}
    <3>1. x \in s /\ t \in SUBSET s /\ t # s /\ t \in SUBSET K /\ x \notin t
      BY <1>1, <2>2
    <3>2. iter[s] = GroupRun(runs[x], iter[t], c, dim, cmax, budget)
      BY <1>9, <2>2
    <3> HIDE DEF x
    <3>3. iter[t] \in Groupings /\ Placed(iter[t]) = Cardinality(In(t))
      BY <1>10, <3>1
    <3>4. runs[x] \in Seq(Nat)
      BY <1>0, <3>1
    <3>5. iter[s] \in Groupings /\ Placed(iter[s]) = Placed(iter[t]) + (IF runs[x] = <<>> THEN 0 ELSE 1)
      BY <3>2, <3>3, <3>4, GroupRunFacts
    <3>6. IsFiniteSet(In(t)) /\ Cardinality(In(t)) \in Nat
      BY <1>0, <3>1, FS_Subset, FS_CardinalityType
    <3>7. Cardinality(In(s)) = Cardinality(In(t)) + (IF runs[x] = <<>> THEN 0 ELSE 1)
      <4>1. CASE runs[x] = <<>>
        <5>1. In(s) = In(t)
          BY <3>1, <4>1
        <5>2. Cardinality(In(s)) = Cardinality(In(t))
          BY <5>1, Zenon
        <5> HIDE DEF In
        <5> QED BY <3>6, <4>1, <5>2
      <4>2. CASE runs[x] # <<>>
        <5>1. In(s) = In(t) \cup {x} /\ x \notin In(t)
          BY <3>1, <4>2
        <5>2. Cardinality(In(t) \cup {x}) = Cardinality(In(t)) + 1
          BY <3>6, <5>1, FS_AddElement
        <5> QED BY <4>2, <5>1, <5>2
      <4> QED BY <4>1, <4>2
    <3> QED BY <3>3, <3>5, <3>7
  <2> QED BY <2>1, <2>2
<1>11. K \in D
  <2> HIDE DEF D
  <2> QED BY <1>0, <1>10, FiniteSetInduction
<1>12. Cardinality(In(K)) = Filled(runs)
  BY DEF Filled, K
<1>13. iter[K] \in Groupings /\ Placed(iter[K]) = Filled(runs)
  BY <1>11, <1>12
<1>14. GroupInputs(runs, c, dim, cmax, budget) = FinalizePending(iter[K], c, dim, cmax, budget)
  BY <1>8 DEF GroupInputs, NoGrouping
<1> HIDE DEF K
<1> QED BY <1>13, <1>14, FinalizeFacts

\* The plan a call decides on: its groups and levelwise runs hold every run with points
\* exactly once, whatever the configuration.
LEMMA DecisionFacts ==
  ASSUME NEW runs \in Seq(Seq(Nat)), NEW c, c.slots \in 1..4, NEW n, NEW dim \in Nat,
         NEW cmax, NEW width
  PROVE  LET p == ResidentDecision(runs, c, n, dim, cmax, width)
         IN  /\ p.groups \in Seq(GroupRecords) /\ p.slots \in 1..4 /\ p.refused \in BOOLEAN
             /\ p.refused => p.groups = <<>>
             /\ Filled(runs) = Filled(p.levelwise) + Sum(FilledOf(p.groups), DOMAIN p.groups)
<1> DEFINE p == ResidentDecision(runs, c, n, dim, cmax, width)
           none == [groups |-> <<>>, levelwise |-> runs, slots |-> 1, refused |-> FALSE]
           whole == <<GroupOf(runs, dim)>>
           budget == VectorBudget(IF c.slots > 1 THEN PipelinedBudget(c, n, dim)
                                  ELSE GroupedBudget(c, n, dim), dim, width)
           grouping == GroupInputs(runs, c, dim, cmax, budget)
           parts == [none EXCEPT !.groups = grouping.groups, !.levelwise = grouping.levelwise,
                                 !.slots = IF Len(grouping.groups) < 2 THEN 1 ELSE c.slots]
<1>1. \/ p = none
      \/ p = [none EXCEPT !.groups = whole, !.levelwise = <<>>]
      \/ p = [none EXCEPT !.refused = TRUE]
      \/ p = parts
  BY DEF ResidentDecision
<1>2. grouping \in Groupings /\ grouping.pending = <<>> /\ Placed(grouping) = Filled(runs)
  BY GroupingLoop
<1> HIDE DEF p, budget, grouping
<1>3. Filled(runs) \in Nat /\ Sum(FilledOf(<<>>), DOMAIN <<>>) = 0
  <2>1. DOMAIN <<>> = {}
    OBVIOUS
  <2> QED BY <2>1, FilledNat, SumEmpty
<1>4. CASE p = none \/ p = [none EXCEPT !.refused = TRUE]
  <2>1. /\ p.groups = <<>> /\ p.levelwise = runs /\ p.slots = 1
        /\ p.refused = TRUE \/ p.refused = FALSE
    <3>1. CASE p = none
      BY <3>1
    <3>2. CASE p = [none EXCEPT !.refused = TRUE]
      BY <3>2
    <3> QED BY <1>4, <3>1, <3>2
  <2>2. p.groups \in Seq(GroupRecords) /\ p.slots \in 1..4
    BY <2>1
  <2>3. Filled(runs) = Filled(p.levelwise) + Sum(FilledOf(p.groups), DOMAIN p.groups)
    BY <1>3, <2>1
  <2> QED BY <2>1, <2>2, <2>3 DEF p
<1>5. CASE p = [none EXCEPT !.groups = whole, !.levelwise = <<>>]
  <2>1. /\ p.groups = whole /\ p.levelwise = <<>> /\ p.slots = 1 /\ p.refused = FALSE
    BY <1>5
  <2>2. GroupOf(runs, dim) \in GroupRecords /\ GroupOf(runs, dim).runs = runs
    BY GroupOfType
  <2>3. whole = Append(<<>>, GroupOf(runs, dim)) /\ <<>> \in Seq(GroupRecords)
    OBVIOUS
  <2>4. /\ whole \in Seq(GroupRecords)
        /\ Sum(FilledOf(whole), DOMAIN whole) = Sum(FilledOf(<<>>), DOMAIN <<>>) + Filled(GroupOf(runs, dim).runs)
    BY <2>2, <2>3, FilledGroups, Zenon
  <2> HIDE DEF whole
  <2>5. Sum(FilledOf(whole), DOMAIN whole) = Filled(runs)
    BY <1>3, <2>2, <2>4
  <2>6. Filled(runs) = Filled(p.levelwise) + Sum(FilledOf(p.groups), DOMAIN p.groups)
    BY <1>3, <2>1, <2>5, FilledEmpty
  <2>7. p.groups \in Seq(GroupRecords) /\ p.slots \in 1..4
    BY <2>1, <2>4
  <2> QED BY <2>1, <2>6, <2>7 DEF p
<1>6. CASE p = parts
  <2>1. /\ p.groups = grouping.groups /\ p.levelwise = grouping.levelwise
        /\ p.slots = (IF Len(grouping.groups) < 2 THEN 1 ELSE c.slots) /\ p.refused = FALSE
    BY <1>6
  <2>2. p.groups \in Seq(GroupRecords) /\ p.slots \in 1..4
    BY <1>2, <2>1, PlacedNat
  <2>3. Filled(runs) = Filled(p.levelwise) + Sum(FilledOf(p.groups), DOMAIN p.groups)
    BY <1>2, <2>1, PlacedNat, FilledEmpty DEF Placed
  <2> QED BY <2>1, <2>2, <2>3 DEF p
<1> QED BY <1>1, <1>4, <1>5, <1>6
-----------------------------------------------------------------------------
(* The inductive invariant.                                                *)

WorkerStates == {"off", "pop", "popWait", "fill", "drain", "ended", "failed"}
EmitterStates == {"off", "emit", "emitWait", "ended"}
HydratorStates == {"next", "acquire", "load", "send", "done"}
BuilderStates == {"start", "build", "drop", "join", "returned"}

\* The plan is the one the call computed from its inputs, and never changes.
PlanInv ==
    /\ inst \in Instances
    /\ plan = ResidentDecision(inst.runs, inst.config, inst.n, inst.dim, inst.cmax, inst.width)

PipeTypes ==
    /\ hyd \in [pc : HydratorStates, i : 1 .. Len(plan.groups) + 1, ok : BOOLEAN]
    /\ bld \in [pc : BuilderStates, i : 1 .. Len(plan.groups) + 1, err : BOOLEAN]
    /\ ready \in Seq(0 .. Len(plan.groups)) /\ rx \in BOOLEAN

BuildTypes ==
    /\ todo \in Seq(Int) /\ heap \in SUBSET (Int \X Nat) /\ closed \in BOOLEAN
    /\ waiters \in Seq(Threads)
    /\ thread \in [Threads -> WorkerStates \cup EmitterStates]
    /\ batch \in [Workers -> Seq(Int)]
    /\ built \in [Groups -> Nat]

\* The first group the builder has not received.
Ahead == IF Building THEN bld.i + 1 ELSE bld.i

\* The groups travel in order: the ready queue holds those between the builder
\* and the hydrator, and the hydrator's error, if any, behind them.
OrderInv ==
    /\ ~Pipelined => ready = <<>> /\ hyd.pc = "done"
    /\ \A k \in DOMAIN ready : ready[k] = 0 => k = Len(ready) /\ hyd.pc = "done"
    /\ \A k \in DOMAIN ready : ready[k] # 0 => ready[k] = Ahead + k - 1 /\ ready[k] < hyd.i
    /\ (rx /\ Pipelined) =>
          hyd.i = Ahead + Len(ready) - (IF \E k \in DOMAIN ready : ready[k] = 0 THEN 1 ELSE 0)
    /\ hyd.pc \in {"acquire", "load", "send"} => hyd.i <= Len(plan.groups)
    /\ Len(ready) <= ReadyCap

\* Where the builder stands.
BuilderInv ==
    /\ Building => bld.i <= Len(plan.groups)
    /\ bld.pc \in {"start", "build"} => rx
    /\ bld.pc = "join" /\ Pipelined => ~rx
    /\ bld.pc = "returned" => ready = <<>> /\ hyd.pc = "done"
    /\ bld.pc \in {"drop", "join", "returned"} /\ ~bld.err => bld.i = Len(plan.groups) + 1

\* The limiter counts the bytes of the groups in memory, and one alone may exceed it.
BytesInv ==
    /\ live = Sum(PermitBytes, HoldingBytes)
    /\ live <= Budget \/ Budget = 0 \/ Cardinality(HoldingBytes) = 1

\* The threads of a group exist while it is built, and play their roles.
ThreadInv ==
    /\ \A w \in Workers : thread[w] \in WorkerStates
    /\ \A e \in Emitters : thread[e] \in EmitterStates
    /\ ~Building => \A t \in Threads : thread[t] = "off"
    /\ \A t \in Threads : t \notin inst.workers \cup inst.emitters => thread[t] = "off"

\* The line in front of the condition variable: who waits stands in it once.
Waiting == {"popWait", "emitWait"}
WaitInv ==
    /\ \A i \in DOMAIN waiters : thread[waiters[i]] \in Waiting
    /\ \A t \in Threads : thread[t] \in Waiting => \E i \in DOMAIN waiters : waiters[i] = t
    /\ \A i, j \in DOMAIN waiters : waiters[i] = waiters[j] => i = j
    /\ Building /\ closed => waiters = <<>>

\* The leaves of the morsel queue carry distinct sequence numbers.
HeapInv ==
    /\ IsFiniteSet(heap) /\ Cardinality(heap) <= inst.cap
    /\ \A x \in heap : x[2] > Len(todo)

\* Who has come to an end, and what that says of the leaves.
EndedInv ==
    /\ \A w \in Workers : thread[w] \notin {"fill", "drain"} => batch[w] = <<>>
    /\ Building /\ closed => \A e \in inst.emitters : thread[e] = "ended"
    /\ Building /\ ~bld.err => \A e \in inst.emitters : thread[e] = "ended" => todo = <<>>
    /\ Building => \A w \in Workers : thread[w] = "ended" => closed /\ heap = {}

LeafCount == [g \in Groups |-> Len(LeavesOf(g))]
InBatches == [w \in Workers |-> Len(batch[w])]
NobodyFailed == ~bld.err /\ \A w \in Workers : thread[w] # "failed"

\* No leaf is lost while nobody fails: those not emitted, queued, in a batch and
\* worked on add up to the leaves of the group.
PastInv == /\ ~bld.err => \A g \in Groups : g < bld.i => built[g] = LeafCount[g]
           /\ \A g \in Groups : g >= Ahead => built[g] = 0
LeavesInv ==
    Building /\ NobodyFailed =>
        Len(todo) + Cardinality(heap) + Sum(InBatches, Workers) + built[bld.i]
            = LeafCount[bld.i]

PipeInv == PipeTypes /\ OrderInv /\ BuilderInv /\ BytesInv
BuildInv == /\ BuildTypes /\ ThreadInv /\ WaitInv /\ HeapInv /\ EndedInv /\ PastInv
            /\ LeavesInv
IInv == PlanInv /\ PipeInv /\ BuildInv

-----------------------------------------------------------------------------
(* What never changes during a call.                                       *)

\* The budget of the limiter is a number.
LEMMA BudgetType ==
  ASSUME NEW c, c.budget \in Nat, c.maxRun \in Nat, c.ratio \in Nat, NEW n \in Nat, NEW dim \in Nat
  PROVE  LimiterBudget(c, n, dim) \in Nat
<1> DEFINE m == MaxResidentBytes(c, n, dim)
           cap == AtLeast1(m)
<1>1. m \in Int
  <2>1. AtLeast1(dim) \in Nat
    BY AtLeast1Type
  <2>2. \A x, y, z \in Nat : (x * y * 4 * z) \div 100 \in Int
    OBVIOUS
  <2> QED BY <2>1, <2>2 DEF MaxResidentBytes
<1> HIDE DEF m
<1>2. cap \in Nat
  BY <1>1, AtLeast1Type
<1> HIDE DEF cap
<1>3. AtLeast1(Min({c.maxRun, cap})) \in Nat
  BY <1>2, MinOfTwo, AtLeast1Type
<1>4. GroupedBudget(c, n, dim) \in Nat
  BY <1>2, <1>3 DEF GroupedBudget, cap, m
<1> QED BY <1>4 DEF LimiterBudget

\* The permit of a group is for at least one byte.
LEMMA PermitType ==
  ASSUME NEW group \in GroupRecords, NEW width \in Nat
  PROVE  AtLeast1(group.bytes + SketchBytes(width, Cardinality(PointsOf(group.runs)))) \in Nat \ {0}
<1> DEFINE k == Cardinality(PointsOf(group.runs))
<1>1. k \in Nat /\ group.bytes \in Nat
  BY PointsFinite DEF GroupRecords
<1> HIDE DEF k
<1>2. AtLeast1(k) \in Nat
  BY <1>1, AtLeast1Type
<1>3. SketchBytes(width, k) \in Nat
  <2>1. \A x, y, z \in Nat : x * (y * 4 + 4) + z \in Nat
    OBVIOUS
  <2>2. AtLeast1(k) * (width * 4 + 4) + AccessorBytes \in Nat
    BY <1>2, <2>1, AccessorAssumption
  <2> QED BY <2>2 DEF SketchBytes
<1>4. group.bytes + SketchBytes(width, k) \in Int
  BY <1>1, <1>3
<1> QED BY <1>4, AtLeast1Type DEF k

\* The leaves of a group form a sequence of sizes.
LEMMA LeavesType ==
  ASSUME PlanInv, plan.groups \in Seq(GroupRecords), NEW g \in Groups
  PROVE  LeavesOf(g) \in Seq(Int)
<1> DEFINE runs == plan.groups[g].runs
           cut(run) == [k \in 1 .. ExpectedLeaves(Len(run), inst.cmax) |->
                          Min({inst.cmax, Len(run) - (k - 1) * inst.cmax})]
           cuts == [r \in DOMAIN runs |-> cut(runs[r])]
<1>1. runs \in Seq(Seq(Nat)) /\ inst.cmax \in Nat
  <2>1. inst.cmax \in Nat
    BY ResidentAssumption DEF PlanInv
  <2>2. plan.groups[g] \in GroupRecords
    BY DEF Groups
  <2> QED BY <2>1, <2>2 DEF GroupRecords
<1> HIDE DEF runs
<1>2. ASSUME NEW r \in DOMAIN runs PROVE cut(runs[r]) \in Seq(Int)
  <2> DEFINE n == Len(runs[r])
  <2>1. n \in Nat
    BY <1>1
  <2> HIDE DEF n
  <2>2. AtLeast1(inst.cmax) \in Nat \ {0}
    <3>1. inst.cmax \in Int
      BY <1>1
    <3> QED BY <3>1, AtLeast1Type
  <2>3. CeilDiv(n, AtLeast1(inst.cmax)) \in Int
    <3>1. \A x \in Nat, y \in Nat \ {0} : (x + y - 1) \div y \in Int
      OBVIOUS
    <3> QED BY <2>1, <2>2, <3>1 DEF CeilDiv
  <2>4. ExpectedLeaves(n, inst.cmax) \in Nat
    BY <2>3, AtLeast1Type DEF ExpectedLeaves
  <2>5. \A k \in 1 .. ExpectedLeaves(n, inst.cmax) : Min({inst.cmax, n - (k - 1) * inst.cmax}) \in Int
    <3> SUFFICES ASSUME NEW k \in 1 .. ExpectedLeaves(n, inst.cmax)
                 PROVE  Min({inst.cmax, n - (k - 1) * inst.cmax}) \in Int
      OBVIOUS
    <3>1. \A x, y \in Int, z \in Nat : y - (x - 1) * z \in Int
      OBVIOUS
    <3>2. k \in Int
      BY <2>4
    <3>3. n - (k - 1) * inst.cmax \in Int /\ inst.cmax \in Int
      BY <1>1, <2>1, <3>1, <3>2
    <3> QED BY <3>3, MinOfTwo
  <2> DEFINE m == ExpectedLeaves(n, inst.cmax)
             size(k) == Min({inst.cmax, n - (k - 1) * inst.cmax})
  <2>6. cut(runs[r]) = [k \in 1..m |-> size(k)]
    BY DEF n
  <2> HIDE DEF m, size
  <2>7. m \in Nat /\ \A k \in 1..m : size(k) \in Int
    BY <2>4, <2>5 DEF m, size
  <2>8. [k \in 1..m |-> size(k)] \in Seq(Int)
    BY <2>7
  <2> QED BY <2>6, <2>8
<1>3. cuts \in Seq(Seq(Int))
  <2>1. DOMAIN runs = 1..Len(runs) /\ Len(runs) \in Nat
    BY <1>1
  <2> HIDE DEF cut
  <2> QED BY <1>2, <2>1
<1>4. LeavesOf(g) = FlattenSeq(cuts)
  BY DEF LeavesOf, runs
<1> HIDE DEF cuts
<1> QED BY <1>3, <1>4, FlattenType

\* The inputs and the plan in the form the proofs use.
LEMMA PlanFacts ==
  ASSUME PlanInv
  PROVE  /\ plan.groups \in Seq(GroupRecords) /\ Len(plan.groups) \in Nat
         /\ Groups = 1 .. Len(plan.groups) /\ IsFiniteSet(Groups)
         /\ plan.slots \in 1 .. 4 /\ plan.refused \in BOOLEAN
         /\ ReadyCap \in Int /\ Budget \in Nat
         /\ PermitBytes \in [Groups -> Nat \ {0}]
         /\ LeafCount \in [Groups -> Nat]
         /\ \A g \in Groups : LeavesOf(g) \in Seq(Int)
         /\ inst.cap \in Nat \ {0}
         /\ inst.workers \in SUBSET Workers /\ inst.workers # {}
         /\ inst.emitters \in SUBSET Emitters /\ inst.emitters # {}
         /\ Filled(inst.runs) = Filled(plan.levelwise) + Sum(FilledOf(plan.groups), Groups)
<1>1. /\ inst.runs \in Seq(Seq(Nat))
      /\ inst.n \in Nat /\ inst.dim \in Nat /\ inst.cmax \in Nat /\ inst.width \in Nat
      /\ inst.config.budget \in Nat /\ inst.config.maxRun \in Nat /\ inst.config.ratio \in Nat
      /\ inst.config.slots \in 1 .. 4
      /\ inst.workers \in SUBSET Workers /\ inst.workers # {}
      /\ inst.emitters \in SUBSET Emitters /\ inst.emitters # {}
      /\ inst.cap \in Nat \ {0}
  BY ResidentAssumption DEF PlanInv
<1>2. /\ plan.groups \in Seq(GroupRecords) /\ plan.slots \in 1..4 /\ plan.refused \in BOOLEAN
      /\ Filled(inst.runs) = Filled(plan.levelwise) + Sum(FilledOf(plan.groups), DOMAIN plan.groups)
  BY <1>1, DecisionFacts, SMTT(30) DEF PlanInv
<1>3. Groups = 1 .. Len(plan.groups) /\ Len(plan.groups) \in Nat
  BY <1>2 DEF Groups
<1>4. IsFiniteSet(Groups)
  BY <1>3, FS_Interval
<1>5. ReadyCap \in Int
  BY <1>2, <1>3, MinOfTwo DEF ReadyCap
<1>6. Budget \in Nat
  BY <1>1, BudgetType DEF Budget
<1>7. PermitBytes \in [Groups -> Nat \ {0}]
  <2>1. \A g \in Groups : plan.groups[g] \in GroupRecords
    BY <1>2 DEF Groups
  <2> QED BY <1>1, <2>1, PermitType DEF PermitBytes
<1>8. \A g \in Groups : LeavesOf(g) \in Seq(Int)
  BY <1>2, LeavesType
<1>9. LeafCount \in [Groups -> Nat]
  BY <1>8 DEF LeafCount
<1> QED BY <1>1, <1>2, <1>3, <1>4, <1>5, <1>6, <1>7, <1>8, <1>9 DEF Groups

\* No step changes the inputs or the plan, nor what is computed from them.
LEMMA PlanKept ==
  ASSUME PlanInv, UNCHANGED <<inst, plan>>
  PROVE  /\ PlanInv' /\ Groups' = Groups /\ Pipelined' = Pipelined /\ ReadyCap' = ReadyCap
         /\ Budget' = Budget /\ PermitBytes' = PermitBytes /\ LeafCount' = LeafCount
BY DEF PlanInv, Groups, Pipelined, ReadyCap, Budget, PermitBytes, LeafCount, LeavesOf

-----------------------------------------------------------------------------
(* The bytes of the limiter.                                               *)

\* The three places where groups are in memory.
HydratorHolds == IF hyd.pc = "load" \/ (hyd.pc = "send" /\ hyd.ok) THEN {hyd.i} ELSE {}
QueueHolds == ToSet(ready) \ {0}
BuilderHolds == IF Building THEN {bld.i} ELSE {}

\* The groups in memory are different groups of the plan, each counted once.
LEMMA HoldingFacts ==
  ASSUME PlanInv, PipeTypes, OrderInv, BuilderInv
  PROVE  /\ HoldingBytes = HydratorHolds \cup QueueHolds \cup BuilderHolds
         /\ HoldingBytes \in SUBSET Groups /\ IsFiniteSet(HoldingBytes)
         /\ hyd.i \notin QueueHolds
         /\ hyd.pc # "done" => hyd.i \notin BuilderHolds
         /\ QueueHolds \cap BuilderHolds = {}
         /\ \A j, k \in DOMAIN ready : ready[j] = ready[k] /\ ready[j] # 0 => j = k
<1>1. /\ Len(plan.groups) \in Nat /\ Groups = 1 .. Len(plan.groups) /\ IsFiniteSet(Groups)
  BY PlanFacts
<1>2. /\ hyd.i \in 1 .. Len(plan.groups) + 1 /\ bld.i \in 1 .. Len(plan.groups) + 1
      /\ ready \in Seq(0 .. Len(plan.groups)) /\ Len(ready) \in Nat
      /\ DOMAIN ready = 1..Len(ready)
      /\ hyd.pc \in HydratorStates /\ bld.pc \in BuilderStates
  BY DEF PipeTypes
<1>3. \A k \in DOMAIN ready : k \in Nat /\ k >= 1 /\ ready[k] \in 0 .. Len(plan.groups)
  BY <1>1, <1>2
<1>4. HoldingBytes = HydratorHolds \cup QueueHolds \cup BuilderHolds
  BY DEF HoldingBytes, HydratorHolds, QueueHolds, BuilderHolds
<1>5. Ahead \in Nat /\ (Building => Ahead = bld.i + 1) /\ (Building => bld.i <= Len(plan.groups))
  BY <1>1, <1>2 DEF Ahead, BuilderInv
<1>6. \A x \in QueueHolds : x \in Groups /\ x < hyd.i /\ x >= Ahead
  <2> SUFFICES ASSUME NEW k \in DOMAIN ready, ready[k] # 0
               PROVE  ready[k] \in Groups /\ ready[k] < hyd.i /\ ready[k] >= Ahead
    BY DEF QueueHolds, ToSet
  <2>1. ready[k] = Ahead + k - 1 /\ ready[k] < hyd.i
    BY DEF OrderInv
  <2>2. k \in Nat /\ k >= 1 /\ ready[k] \in 0 .. Len(plan.groups)
    BY <1>3
  <2>3. ready[k] \in Groups
    BY <1>1, <2>2
  <2>4. ready[k] >= Ahead
    BY <1>5, <2>1, <2>2
  <2> QED BY <2>1, <2>3, <2>4
<1>7. \A x \in HydratorHolds : x \in Groups
  <2>1. HydratorHolds # {} => hyd.i <= Len(plan.groups) /\ HydratorHolds = {hyd.i}
    BY DEF HydratorHolds, OrderInv
  <2> QED BY <1>1, <1>2, <2>1
<1>8. \A x \in BuilderHolds : x \in Groups /\ x = bld.i /\ Building
  BY <1>1, <1>2, <1>5 DEF BuilderHolds
<1>9. hyd.pc # "done" => hyd.i \notin BuilderHolds
  <2> SUFFICES ASSUME hyd.pc # "done", Building PROVE hyd.i # bld.i
    BY <1>8
  <2>1. Pipelined /\ rx
    BY DEF OrderInv, BuilderInv, Building
  <2>2. ~\E k \in DOMAIN ready : ready[k] = 0
    BY DEF OrderInv
  <2>3. hyd.i = Ahead + Len(ready) - 0
    BY <2>1, <2>2 DEF OrderInv
  <2> QED BY <1>1, <1>2, <1>5, <2>3
<1>10. hyd.i \notin QueueHolds
  <2>1. hyd.i \in Nat
    BY <1>1, <1>2
  <2> QED BY <1>6, <2>1
<1>11. QueueHolds \cap BuilderHolds = {}
  <2> SUFFICES ASSUME NEW x \in QueueHolds, x \in BuilderHolds PROVE FALSE
    OBVIOUS
  <2>1. x = bld.i /\ Building /\ x >= Ahead
    BY <1>6, <1>8
  <2> QED BY <1>1, <1>2, <1>5, <2>1
<1>12. ASSUME NEW j \in DOMAIN ready, NEW k \in DOMAIN ready, ready[j] = ready[k], ready[j] # 0
       PROVE  j = k
  <2>1. ready[j] = Ahead + j - 1 /\ ready[k] = Ahead + k - 1
    BY <1>12 DEF OrderInv
  <2>2. j \in Nat /\ k \in Nat /\ Ahead \in Nat /\ Ahead + j - 1 = Ahead + k - 1
    BY <1>3, <1>5, <1>12, <2>1
  <2> QED BY <2>2
<1>13. HoldingBytes \in SUBSET Groups
  BY <1>4, <1>6, <1>7, <1>8
<1>14. IsFiniteSet(HoldingBytes)
  BY <1>1, <1>13, FS_Subset
<1> QED BY <1>4, <1>9, <1>10, <1>11, <1>12, <1>13, <1>14

\* What the queue holds is what QueuedBytes adds up.
LEMMA QueuedFacts ==
  ASSUME PlanInv, PipeTypes, OrderInv, BuilderInv
  PROVE  QueuedBytes = Sum(PermitBytes, QueueHolds) /\ QueueHolds \in SUBSET HoldingBytes
<1> DEFINE K == DOMAIN ready
           b == [k \in K |-> IF ready[k] = 0 THEN 0 ELSE PermitBytes[ready[k]]]
<1>1. QueuedBytes = Sum(b, K)
  BY DEF QueuedBytes, Sum
<1>2. IsFiniteSet(K)
  <2>1. K = 1..Len(ready) /\ Len(ready) \in Nat
    BY DEF PipeTypes
  <2> QED BY <2>1, FS_Interval
<1>3. \A j, k \in K : ready[j] = ready[k] /\ ready[j] # 0 => j = k
  BY HoldingFacts
<1>4. QueueHolds \in SUBSET HoldingBytes /\ HoldingBytes \in SUBSET Groups
  BY HoldingFacts
<1>5. \A k \in K : ready[k] # 0 => PermitBytes[ready[k]] \in Nat
  <2> SUFFICES ASSUME NEW k \in K, ready[k] # 0 PROVE PermitBytes[ready[k]] \in Nat
    OBVIOUS
  <2>1. ready[k] \in Groups
    BY <1>4 DEF QueueHolds, ToSet
  <2> QED BY <2>1, PlanFacts
<1>6. \A k \in K : b[k] = IF ready[k] = 0 THEN 0 ELSE PermitBytes[ready[k]]
  OBVIOUS
<1> HIDE DEF b, K
<1>7. Sum(b, K) = Sum(PermitBytes, {ready[k] : k \in K} \ {0})
  BY <1>2, <1>3, <1>5, <1>6, SumImage
<1> QED BY <1>1, <1>4, <1>7 DEF QueueHolds, ToSet, K

\* No bytes are taken or given back.
LEMMA BytesSame ==
  ASSUME PlanInv, BytesInv, UNCHANGED <<inst, plan, live>>, HoldingBytes' = HoldingBytes
  PROVE  BytesInv'
BY PlanKept DEF BytesInv

\* A group takes its bytes when the limiter admits it.
LEMMA BytesTaken ==
  ASSUME PlanInv, PipeTypes, OrderInv, BuilderInv, BytesInv, UNCHANGED <<inst, plan>>,
         NEW g \in Groups, g \notin HoldingBytes, HoldingBytes' = HoldingBytes \cup {g},
         CanAdmit(PermitBytes[g]), live' = live + PermitBytes[g]
  PROVE  BytesInv'
<1> DEFINE H == HoldingBytes
           P == PermitBytes
           B == Budget
<1>1. H \in SUBSET Groups /\ IsFiniteSet(H)
  BY HoldingFacts
<1>2. P \in [Groups -> Nat \ {0}] /\ B \in Nat
  BY PlanFacts
<1>3. P' = P /\ B' = B
  BY PlanKept
<1>4. live = Sum(P, H)
  BY DEF BytesInv
<1>5. CanAdmit(P[g]) => B = 0 \/ live = 0 \/ live + P[g] <= B
  BY DEF CanAdmit
<1>6. H' = H \cup {g} /\ g \notin H
  OBVIOUS
<1> HIDE DEF H, P, B
<1>7. Sum(P, H \cup {g}) = P[g] + Sum(P, H)
  BY <1>1, <1>2, <1>6, SumAdd
<1>8. Sum(P, H) \in Nat /\ P[g] \in Nat
  BY <1>1, <1>2, SumNat
<1>9. live' = Sum(P, H)' /\ live' = live + P[g]
  BY <1>3, <1>4, <1>6, <1>7, <1>8 DEF P
<1>10. live = 0 => H = {}
  <2> SUFFICES ASSUME NEW x \in H, live = 0 PROVE FALSE
    OBVIOUS
  <2>1. Sum(P, H) = P[x] + Sum(P, H \ {x})
    BY <1>1, <1>2, SumRemove
  <2>2. P[x] \in Nat \ {0} /\ Sum(P, H \ {x}) \in Nat
    BY <1>1, <1>2, SumNat, FS_Subset
  <2> QED BY <1>4, <2>1, <2>2
<1>11. live = 0 => Cardinality(H)' = 1
  <2>1. live = 0 => H' = {g}
    BY <1>6, <1>10
  <2> QED BY <2>1, FS_Singleton
<1>12. live' <= B \/ B = 0 \/ Cardinality(H)' = 1
  BY <1>5, <1>9, <1>11 DEF P
<1> QED BY <1>3, <1>9, <1>12 DEF BytesInv, H, P, B

\* Groups that leave memory give their bytes back.
LEMMA BytesGiven ==
  ASSUME PlanInv, PipeTypes, OrderInv, BuilderInv, BytesInv, UNCHANGED <<inst, plan>>,
         NEW R \in SUBSET HoldingBytes, HoldingBytes' = HoldingBytes \ R,
         live' = live - Sum(PermitBytes, R)
  PROVE  BytesInv'
<1> DEFINE H == HoldingBytes
           Q == HoldingBytes \ R
           P == PermitBytes
           B == Budget
<1>1. H \in SUBSET Groups /\ IsFiniteSet(H) /\ IsFiniteSet(R) /\ IsFiniteSet(Q)
  BY HoldingFacts, FS_Subset
<1>2. P \in [Groups -> Nat \ {0}] /\ B \in Nat
  BY PlanFacts
<1>3. P' = P /\ B' = B
  BY PlanKept
<1>4. live = Sum(P, H) /\ (live <= B \/ B = 0 \/ Cardinality(H) = 1)
  BY DEF BytesInv
<1>5. R \cap Q = {} /\ R \cup Q = H /\ R \in SUBSET H /\ Q \in SUBSET H /\ H' = Q
  OBVIOUS
<1>6. live' = live - Sum(P, R)
  OBVIOUS
<1> HIDE DEF H, Q, P, B
<1>7. (\A x \in R \cup Q : P[x] \in Nat) /\ (\A x \in Q : P[x] \in Nat) /\ (\A x \in R : P[x] \in Nat)
  BY <1>1, <1>2, <1>5
<1>8. Sum(P, R \cup Q) = Sum(P, R) + Sum(P, Q) /\ Sum(P, R) \in Nat /\ Sum(P, Q) \in Nat
  BY <1>1, <1>5, <1>7, SumDisjoint, SumNat
<1>9. Sum(P, H) = Sum(P, R) + Sum(P, Q)
  BY <1>5, <1>8, Zenon
<1>10. live' = Sum(P, Q) /\ live' <= live /\ live' \in Nat /\ live \in Nat
  BY <1>4, <1>6, <1>8, <1>9
<1>11. Cardinality(H) = 1 => live' = 0 \/ Q = H
  <2> SUFFICES ASSUME Cardinality(H) = 1, Q # H PROVE live' = 0
    OBVIOUS
  <2>1. PICK x : H = {x}
    BY <1>1, FS_Singleton
  <2>2. Q = {}
    BY <1>5, <2>1
  <2> QED BY <1>10, <2>2, SumEmpty
<1>12. live' <= B \/ B = 0 \/ Cardinality(Q) = 1
  <2>1. CASE Cardinality(H) = 1
    BY <1>2, <1>11, <2>1
  <2>2. CASE live <= B \/ B = 0
    BY <1>2, <1>10, <2>2
  <2> QED BY <1>4, <2>1, <2>2
<1>13. live' = Sum(P, H)' /\ (live' <= B' \/ B' = 0 \/ Cardinality(H)' = 1)
  BY <1>3, <1>5, <1>10, <1>12
<1> QED BY <1>13 DEF BytesInv, H, P, B

-----------------------------------------------------------------------------
(* The pipeline: the steps of the hydrator and of the builder.             *)

\* The records of the two threads and the plan's size, as numbers.
LEMMA PipeFacts ==
  ASSUME PlanInv, PipeTypes
  PROVE  /\ Len(plan.groups) \in Nat /\ Groups = 1 .. Len(plan.groups)
         /\ hyd.i \in Nat /\ 1 <= hyd.i /\ hyd.i <= Len(plan.groups) + 1
         /\ bld.i \in Nat /\ 1 <= bld.i /\ bld.i <= Len(plan.groups) + 1
         /\ hyd.pc \in HydratorStates /\ bld.pc \in BuilderStates
         /\ hyd.ok \in BOOLEAN /\ bld.err \in BOOLEAN
         /\ Len(ready) \in Nat /\ DOMAIN ready = 1..Len(ready) /\ Ahead \in Nat
<1>1. Len(plan.groups) \in Nat /\ Groups = 1 .. Len(plan.groups)
  BY PlanFacts
<1>2. /\ hyd.i \in 1 .. Len(plan.groups) + 1 /\ bld.i \in 1 .. Len(plan.groups) + 1
      /\ hyd.pc \in HydratorStates /\ bld.pc \in BuilderStates
      /\ hyd.ok \in BOOLEAN /\ bld.err \in BOOLEAN
      /\ Len(ready) \in Nat /\ DOMAIN ready = 1..Len(ready)
  BY DEF PipeTypes
<1> QED BY <1>1, <1>2 DEF Ahead

\* Steps that leave the pipeline alone: the builder may note an error while it builds.
LEMMA PipeKept ==
  ASSUME PlanInv, PipeInv, UNCHANGED <<inst, plan, live, hyd, ready, rx>>,
         bld' = bld \/ (Building /\ bld' = [bld EXCEPT !.err = TRUE])
  PROVE  PlanInv' /\ PipeInv'
<1>1. /\ PlanInv' /\ Groups' = Groups /\ Pipelined' = Pipelined /\ ReadyCap' = ReadyCap
  BY PlanKept
<1>2. /\ bld'.pc = bld.pc /\ bld'.i = bld.i /\ (bld'.err = bld.err \/ Building)
      /\ bld' \in [pc : BuilderStates, i : 1 .. Len(plan.groups) + 1, err : BOOLEAN]
  BY DEF PipeInv, PipeTypes
<1>3. Building' = Building /\ Ahead' = Ahead /\ HoldingBytes' = HoldingBytes
  BY <1>2 DEF Building, Ahead, HoldingBytes
<1>4. PipeTypes'
  BY <1>2 DEF PipeInv, PipeTypes
<1>5. OrderInv'
  BY <1>1, <1>3 DEF PipeInv, OrderInv
<1>6. BuilderInv'
  BY <1>1, <1>2 DEF PipeInv, BuilderInv, Building
<1>7. BytesInv'
  BY <1>3, BytesSame DEF PipeInv
<1> QED BY <1>1, <1>4, <1>5, <1>6, <1>7 DEF PipeInv

\* A step of the hydrator that leaves the ready queue alone.
LEMMA HydratorMoves ==
  ASSUME PlanInv, PipeInv, UNCHANGED <<inst, plan, ready, rx, bld>>, hyd.pc # "done",
         NEW pc \in HydratorStates, NEW ok \in BOOLEAN,
         hyd' = [hyd EXCEPT !.pc = pc, !.ok = ok],
         pc \in {"acquire", "load", "send"} => hyd.i <= Len(plan.groups)
  PROVE  PlanInv' /\ PipeTypes' /\ OrderInv' /\ BuilderInv'
<1>1. /\ PlanInv' /\ Groups' = Groups /\ Pipelined' = Pipelined /\ ReadyCap' = ReadyCap
  BY PlanKept
<1>2. /\ hyd'.pc = pc /\ hyd'.i = hyd.i /\ hyd'.ok = ok
      /\ hyd' \in [pc : HydratorStates, i : 1 .. Len(plan.groups) + 1, ok : BOOLEAN]
  BY DEF PipeInv, PipeTypes
<1>3. Building' = Building /\ Ahead' = Ahead
  BY DEF Building, Ahead
<1>4. PipeTypes'
  BY <1>2 DEF PipeInv, PipeTypes
<1>5. Pipelined /\ \A k \in DOMAIN ready : ready[k] # 0
  BY DEF PipeInv, OrderInv
<1>6. OrderInv'
  BY <1>1, <1>2, <1>3, <1>5 DEF PipeInv, OrderInv
<1>7. BuilderInv'
  BY <1>1, <1>2, <1>3 DEF PipeInv, BuilderInv
<1> QED BY <1>1, <1>4, <1>6, <1>7

\* The hydrator goes on to the next group or finds that it is through.
LEMMA NextGroupStep ==
  ASSUME PlanInv, PipeInv, NextGroup
  PROVE  PlanInv' /\ PipeInv'
<1> DEFINE p == IF abort \/ hyd.i > Len(plan.groups) THEN "done" ELSE "acquire"
<1>1. /\ hyd.pc = "next" /\ hyd' = [hyd EXCEPT !.pc = p]
      /\ UNCHANGED <<inst, plan, live, ready, rx, bld>>
  BY DEF NextGroup
<1>2. p \in HydratorStates /\ (p \in {"acquire", "load", "send"} => hyd.i <= Len(plan.groups))
  BY PipeFacts DEF HydratorStates, PipeInv
<1> HIDE DEF p
<1>3. hyd.ok \in BOOLEAN /\ hyd' = [hyd EXCEPT !.pc = p, !.ok = hyd.ok]
  BY <1>1 DEF PipeInv, PipeTypes
<1>4. PlanInv' /\ PipeTypes' /\ OrderInv' /\ BuilderInv'
  BY <1>1, <1>2, <1>3, HydratorMoves
<1>5. HoldingBytes' = HoldingBytes
  <2>1. hyd'.pc \in {"done", "acquire"}
    BY <1>1 DEF PipeInv, PipeTypes, p
  <2> QED BY <1>1, <2>1 DEF HoldingBytes, Building
<1>6. BytesInv'
  BY <1>1, <1>5, BytesSame DEF PipeInv
<1> QED BY <1>4, <1>6 DEF PipeInv

\* The limiter admits the next group, alone if it is larger than the budget.
LEMMA AcquireStep ==
  ASSUME PlanInv, PipeInv, Acquire
  PROVE  PlanInv' /\ PipeInv'
<1>1. /\ hyd.pc = "acquire" /\ hyd' = [hyd EXCEPT !.pc = "load"]
      /\ CanAdmit(PermitBytes[hyd.i]) /\ live' = live + PermitBytes[hyd.i]
      /\ UNCHANGED <<inst, plan, ready, rx, bld>>
  BY DEF Acquire
<1>2. hyd.i <= Len(plan.groups) /\ hyd.i \in Groups
  <2>1. hyd.i <= Len(plan.groups)
    BY <1>1 DEF PipeInv, OrderInv
  <2> QED BY <2>1, PipeFacts DEF PipeInv
<1>3. hyd.ok \in BOOLEAN /\ hyd' = [hyd EXCEPT !.pc = "load", !.ok = hyd.ok]
  BY <1>1 DEF PipeInv, PipeTypes
<1>4. PlanInv' /\ PipeTypes' /\ OrderInv' /\ BuilderInv'
  BY <1>1, <1>2, <1>3, HydratorMoves DEF HydratorStates
<1>5. HoldingBytes' = HoldingBytes \cup {hyd.i} /\ hyd.i \notin HoldingBytes
  <2>1. hyd'.pc = "load" /\ hyd'.i = hyd.i
    BY <1>1 DEF PipeInv, PipeTypes
  <2>2. HydratorHolds = {} /\ HydratorHolds' = {hyd.i}
    BY <1>1, <2>1 DEF HydratorHolds
  <2>3. QueueHolds' = QueueHolds /\ BuilderHolds' = BuilderHolds
    BY <1>1 DEF QueueHolds, BuilderHolds, Building
  <2>4. HoldingBytes' = HydratorHolds' \cup QueueHolds' \cup BuilderHolds'
    BY DEF HoldingBytes, HydratorHolds, QueueHolds, BuilderHolds
  <2> QED BY <1>1, <2>2, <2>3, <2>4, HoldingFacts DEF PipeInv
<1>6. BytesInv'
  BY <1>1, <1>2, <1>5, BytesTaken DEF PipeInv
<1> QED BY <1>4, <1>6 DEF PipeInv

\* The group is loaded, or an I/O error gives its bytes back.
LEMMA HydrateStep ==
  ASSUME PlanInv, PipeInv, Hydrate
  PROVE  PlanInv' /\ PipeInv'
<1>1. hyd.pc = "load" /\ UNCHANGED <<inst, plan, ready, rx, bld>>
  BY DEF Hydrate
<1>2. hyd.i <= Len(plan.groups) /\ hyd.i \in Groups
  <2>1. hyd.i <= Len(plan.groups)
    BY <1>1 DEF PipeInv, OrderInv
  <2> QED BY <2>1, PipeFacts DEF PipeInv
<1>3. HydratorHolds = {hyd.i} /\ QueueHolds' = QueueHolds /\ BuilderHolds' = BuilderHolds
  BY <1>1 DEF HydratorHolds, QueueHolds, BuilderHolds, Building
<1>4. HoldingBytes' = HydratorHolds' \cup QueueHolds' \cup BuilderHolds'
  BY DEF HoldingBytes, HydratorHolds, QueueHolds, BuilderHolds
<1>5. /\ HoldingBytes = HydratorHolds \cup QueueHolds \cup BuilderHolds
      /\ hyd.i \notin QueueHolds /\ hyd.i \notin BuilderHolds
  BY <1>1, HoldingFacts DEF PipeInv
<1>6. CASE hyd' = [hyd EXCEPT !.pc = "send", !.ok = TRUE] /\ live' = live
  <2>1. PlanInv' /\ PipeTypes' /\ OrderInv' /\ BuilderInv'
    BY <1>1, <1>2, <1>6, HydratorMoves DEF HydratorStates
  <2>2. hyd'.pc = "send" /\ hyd'.i = hyd.i /\ hyd'.ok = TRUE
    BY <1>6 DEF PipeInv, PipeTypes
  <2>3. HydratorHolds' = {hyd.i}
    BY <2>2 DEF HydratorHolds
  <2>4. BytesInv'
    BY <1>1, <1>3, <1>4, <1>5, <1>6, <2>3, BytesSame DEF PipeInv
  <2> QED BY <2>1, <2>4 DEF PipeInv
<1>7. CASE hyd' = [hyd EXCEPT !.pc = "send", !.ok = FALSE] /\ live' = live - PermitBytes[hyd.i]
  <2>1. PlanInv' /\ PipeTypes' /\ OrderInv' /\ BuilderInv'
    BY <1>1, <1>2, <1>7, HydratorMoves DEF HydratorStates
  <2>2. hyd'.pc = "send" /\ hyd'.ok = FALSE
    BY <1>7 DEF PipeInv, PipeTypes
  <2>3. HydratorHolds' = {}
    BY <2>2 DEF HydratorHolds
  <2>4. HoldingBytes' = HoldingBytes \ {hyd.i} /\ {hyd.i} \in SUBSET HoldingBytes
    BY <1>3, <1>4, <1>5, <2>3
  <2>5. Sum(PermitBytes, {hyd.i}) = PermitBytes[hyd.i]
    BY <1>2, SumOne, PlanFacts
  <2>6. BytesInv'
    BY <1>1, <1>7, <2>4, <2>5, BytesGiven DEF PipeInv
  <2> QED BY <2>1, <2>6 DEF PipeInv
<1> QED BY <1>6, <1>7 DEF Hydrate

\* The groups in memory after a step, in their three places.
LEMMA HoldingNext ==
  HoldingBytes' = HydratorHolds' \cup QueueHolds' \cup BuilderHolds'
BY DEF HoldingBytes, HydratorHolds, QueueHolds, BuilderHolds

\* The group, or the error in its place, goes to the back of the ready queue, or is
\* dropped because nobody will receive it.
LEMMA SendReadyStep ==
  ASSUME PlanInv, PipeInv, SendReady
  PROVE  PlanInv' /\ PipeInv'
<1>1. hyd.pc = "send" /\ UNCHANGED <<inst, plan, rx, bld>>
  BY DEF SendReady
<1>2. hyd.i <= Len(plan.groups) /\ hyd.i \in Groups
  <2>1. hyd.i <= Len(plan.groups)
    BY <1>1 DEF PipeInv, OrderInv
  <2> QED BY <2>1, PipeFacts DEF PipeInv
<1>3. HydratorHolds = (IF hyd.ok THEN {hyd.i} ELSE {}) /\ BuilderHolds' = BuilderHolds
  BY <1>1 DEF HydratorHolds, BuilderHolds, Building
<1>4. /\ HoldingBytes = HydratorHolds \cup QueueHolds \cup BuilderHolds
      /\ hyd.i \notin QueueHolds /\ hyd.i \notin BuilderHolds
  BY <1>1, HoldingFacts DEF PipeInv
<1>5. CASE /\ live' = IF hyd.ok THEN live - PermitBytes[hyd.i] ELSE live
           /\ hyd' = [hyd EXCEPT !.pc = "done"] /\ ready' = ready
  <2>1. hyd.ok \in BOOLEAN /\ hyd' = [hyd EXCEPT !.pc = "done", !.ok = hyd.ok]
    BY <1>5 DEF PipeInv, PipeTypes
  <2>2. PlanInv' /\ PipeTypes' /\ OrderInv' /\ BuilderInv'
    BY <1>1, <1>2, <1>5, <2>1, HydratorMoves DEF HydratorStates
  <2>3. hyd'.pc = "done"
    BY <1>5 DEF PipeInv, PipeTypes
  <2>4. HydratorHolds' = {} /\ QueueHolds' = QueueHolds
    BY <1>5, <2>3 DEF HydratorHolds, QueueHolds
  <2>5. CASE hyd.ok
    <3>1. HoldingBytes' = HoldingBytes \ {hyd.i} /\ {hyd.i} \in SUBSET HoldingBytes
      BY <1>3, <1>4, <2>4, <2>5, HoldingNext
    <3>2. Sum(PermitBytes, {hyd.i}) = PermitBytes[hyd.i]
      BY <1>2, SumOne, PlanFacts
    <3>3. BytesInv'
      BY <1>1, <1>5, <2>5, <3>1, <3>2, BytesGiven DEF PipeInv
    <3> QED BY <2>2, <3>3 DEF PipeInv
  <2>6. CASE ~hyd.ok
    <3>1. HoldingBytes' = HoldingBytes
      BY <1>3, <1>4, <2>4, <2>6, HoldingNext
    <3>2. BytesInv'
      BY <1>1, <1>5, <2>6, <3>1, BytesSame DEF PipeInv
    <3> QED BY <2>2, <3>2 DEF PipeInv
  <2> QED BY <2>5, <2>6
<1>6. CASE /\ rx /\ Len(ready) < ReadyCap
           /\ ready' = Append(ready, IF hyd.ok THEN hyd.i ELSE 0)
           /\ hyd' = IF hyd.ok THEN [hyd EXCEPT !.pc = "next", !.i = @ + 1]
                     ELSE [hyd EXCEPT !.pc = "done"]
           /\ live' = live
  <2> DEFINE x == IF hyd.ok THEN hyd.i ELSE 0
             n == Len(ready)
             N == Len(plan.groups)
  <2>0. PlanInv /\ PipeTypes /\ OrderInv /\ BuilderInv /\ BytesInv
    BY DEF PipeInv
  <2>1. /\ N \in Nat /\ hyd.i \in Nat /\ 1 <= hyd.i /\ hyd.i <= N /\ n \in Nat /\ Ahead \in Nat
        /\ DOMAIN ready = 1..n /\ ReadyCap \in Int
    BY <1>2, <2>0, PipeFacts, PlanFacts
  <2>2. x \in 0 .. N
    BY <2>1
  <2>3. /\ ready' \in Seq(0 .. N) /\ Len(ready') = n + 1 /\ DOMAIN ready' = 1..(n + 1)
        /\ \A k \in DOMAIN ready : ready'[k] = ready[k]
        /\ ready'[n + 1] = x
    BY <1>6, <2>0, <2>2, AppendFacts DEF PipeTypes
  <2>4. /\ PlanInv' /\ Groups' = Groups /\ Pipelined' = Pipelined /\ ReadyCap' = ReadyCap
    BY <1>1, PlanKept
  <2>5. Building' = Building /\ Ahead' = Ahead
    BY <1>1 DEF Building, Ahead
  <2>6. /\ Pipelined /\ rx /\ \A k \in DOMAIN ready : ready[k] # 0
        /\ hyd.i = Ahead + n
    <3>1. Pipelined /\ \A k \in DOMAIN ready : ready[k] # 0
      BY <1>1, <2>0 DEF OrderInv
    <3>2. hyd.i = Ahead + n - 0
      BY <1>6, <2>0, <3>1 DEF OrderInv
    <3> QED BY <1>6, <2>1, <3>1, <3>2
  <2>7. /\ hyd'.i = (IF hyd.ok THEN hyd.i + 1 ELSE hyd.i) /\ hyd'.ok = hyd.ok
        /\ hyd'.pc = (IF hyd.ok THEN "next" ELSE "done")
        /\ hyd' \in [pc : HydratorStates, i : 1 .. N + 1, ok : BOOLEAN]
    <3>1. hyd.ok = TRUE \/ hyd.ok = FALSE
      BY <2>0 DEF PipeTypes
    <3>2. CASE hyd.ok = TRUE
      <4>1. hyd' = [hyd EXCEPT !.pc = "next", !.i = hyd.i + 1] /\ hyd.i + 1 \in 1 .. N + 1
        BY <1>6, <2>1, <3>2
      <4> QED BY <2>0, <3>2, <4>1 DEF PipeTypes, HydratorStates
    <3>3. CASE hyd.ok = FALSE
      <4>1. hyd' = [hyd EXCEPT !.pc = "done"]
        BY <1>6, <3>3
      <4> QED BY <2>0, <3>3, <4>1 DEF PipeTypes, HydratorStates
    <3> QED BY <3>1, <3>2, <3>3
  <2>8. PipeTypes'
    BY <1>1, <2>0, <2>3, <2>7 DEF PipeTypes
  <2> HIDE DEF n, N
  <2>9. \A k \in DOMAIN ready' : k \in DOMAIN ready \/ k = n + 1
    BY <2>1, <2>3
  <2>10. OrderInv'
    <3>1. \A k \in DOMAIN ready' : ready'[k] = 0 => k = Len(ready') /\ hyd'.pc = "done"
      <4>1. x = 0 => ~hyd.ok
        BY <2>1
      <4> QED BY <2>3, <2>6, <2>7, <2>9, <4>1
    <3>2. ASSUME NEW k \in DOMAIN ready', ready'[k] # 0
          PROVE  ready'[k] = Ahead + k - 1 /\ ready'[k] < hyd'.i
      <4>1. CASE k \in DOMAIN ready
        <5>1. ready'[k] = ready[k] /\ ready[k] = Ahead + k - 1 /\ ready[k] < hyd.i /\ k \in Nat
          BY <2>0, <2>1, <2>3, <2>6, <4>1 DEF OrderInv
        <5>2. hyd'.i = hyd.i \/ hyd'.i = hyd.i + 1
          BY <2>7
        <5> QED BY <2>1, <5>1, <5>2
      <4>2. CASE k = n + 1
        <5>1. hyd.ok /\ ready'[k] = hyd.i
          BY <2>3, <3>2, <4>2
        <5> QED BY <2>1, <2>6, <2>7, <4>2, <5>1
      <4> QED BY <2>9, <4>1, <4>2
    <3>3. hyd'.i = Ahead + Len(ready') - (IF \E k \in DOMAIN ready' : ready'[k] = 0 THEN 1 ELSE 0)
      <4>1. CASE hyd.ok
        <5>1. ~\E k \in DOMAIN ready' : ready'[k] = 0
          BY <2>1, <2>3, <2>6, <2>9, <4>1
        <5>2. hyd'.i = hyd.i + 1
          BY <2>7, <4>1
        <5>3. hyd'.i = Ahead + (n + 1) - 0
          BY <2>1, <2>6, <5>2
        <5> QED BY <2>3, <5>1, <5>3
      <4>2. CASE ~hyd.ok
        <5>1. \E k \in DOMAIN ready' : ready'[k] = 0
          <6>1. n + 1 \in DOMAIN ready' /\ ready'[n + 1] = 0
            BY <2>1, <2>3, <4>2
          <6> QED BY <6>1
        <5>2. hyd'.i = hyd.i
          BY <2>7, <4>2
        <5>3. hyd'.i = Ahead + (n + 1) - 1
          BY <2>1, <2>6, <5>2
        <5> QED BY <2>3, <5>1, <5>3
      <4> QED BY <4>1, <4>2
    <3>4. hyd'.pc \notin {"acquire", "load", "send"}
      BY <2>7
    <3>5. Len(ready') <= ReadyCap
      BY <1>6, <2>1, <2>3 DEF n
    <3> QED BY <1>1, <2>4, <2>5, <2>6, <3>1, <3>2, <3>3, <3>4, <3>5 DEF OrderInv
  <2>11. BuilderInv'
    <3>1. bld.pc # "returned"
      BY <1>1, <2>0 DEF BuilderInv
    <3> QED BY <1>1, <2>0, <2>4, <2>5, <3>1 DEF BuilderInv
  <2>12. HoldingBytes' = HoldingBytes
    <3>1. HydratorHolds' = {}
      BY <2>7 DEF HydratorHolds
    <3>2. ToSet(ready)' = ToSet(ready) \cup {x}
      <4>1. \A k \in DOMAIN ready : k \in DOMAIN ready'
        BY <2>1, <2>3
      <4>2. n + 1 \in DOMAIN ready'
        BY <2>1, <2>3
      <4> HIDE DEF x
      <4> QED BY <2>3, <2>9, <4>1, <4>2 DEF ToSet
    <3>3. QueueHolds' = QueueHolds \cup HydratorHolds
      BY <1>3, <2>1, <3>2 DEF QueueHolds
    <3> QED BY <1>3, <1>4, <3>1, <3>3, HoldingNext
  <2>13. BytesInv'
    BY <1>1, <1>6, <2>0, <2>12, BytesSame
  <2> QED BY <2>4, <2>8, <2>10, <2>11, <2>13 DEF PipeInv
<1> QED BY <1>5, <1>6 DEF SendReady

\* Without a pipeline the builder takes the bytes itself.
LEMMA SerialGroupStep ==
  ASSUME PlanInv, PipeInv, SerialGroup
  PROVE  PlanInv' /\ PipeInv'
<1>0. PlanInv /\ PipeTypes /\ OrderInv /\ BuilderInv /\ BytesInv
  BY DEF PipeInv
<1>1. /\ ~Pipelined /\ bld.pc = "start" /\ bld.i <= Len(plan.groups)
      /\ CanAdmit(PermitBytes[bld.i]) /\ UNCHANGED <<inst, plan, hyd, ready, rx>>
  BY DEF SerialGroup
<1>2. ready = <<>> /\ hyd.pc = "done" /\ rx
  BY <1>0, <1>1 DEF OrderInv, BuilderInv
<1>3. bld.i \in Groups
  BY <1>0, <1>1, PipeFacts
<1>4. /\ PlanInv' /\ Groups' = Groups /\ Pipelined' = Pipelined /\ ReadyCap' = ReadyCap
  BY <1>1, PlanKept
<1>5. CASE live' = live + PermitBytes[bld.i] /\ BeginBuild(bld.i)
  <2>1. /\ bld' = [bld EXCEPT !.pc = "build"] /\ bld'.pc = "build" /\ bld'.i = bld.i
        /\ bld' \in [pc : BuilderStates, i : 1 .. Len(plan.groups) + 1, err : BOOLEAN]
    BY <1>0, <1>5 DEF BeginBuild, PipeTypes, BuilderStates
  <2>2. PipeTypes'
    BY <1>0, <1>1, <2>1 DEF PipeTypes
  <2>3. OrderInv'
    BY <1>0, <1>1, <1>2, <1>4 DEF OrderInv
  <2>4. BuilderInv'
    BY <1>1, <1>2, <2>1 DEF BuilderInv, Building
  <2>5. HoldingBytes = {} /\ HoldingBytes' = {bld.i}
    BY <1>1, <1>2, <2>1 DEF HoldingBytes, Building, ToSet
  <2>6. BytesInv'
    BY <1>0, <1>1, <1>3, <1>5, <2>5, BytesTaken
  <2> QED BY <1>4, <2>2, <2>3, <2>4, <2>6 DEF PipeInv
<1>6. CASE bld' = [bld EXCEPT !.pc = "join", !.err = TRUE] /\ live' = live
  <2>1. /\ bld'.pc = "join" /\ bld'.i = bld.i /\ bld'.err = TRUE
        /\ bld' \in [pc : BuilderStates, i : 1 .. Len(plan.groups) + 1, err : BOOLEAN]
    BY <1>0, <1>6 DEF PipeTypes, BuilderStates
  <2>2. PipeTypes'
    BY <1>0, <1>1, <2>1 DEF PipeTypes
  <2>3. OrderInv'
    BY <1>0, <1>1, <1>2, <1>4 DEF OrderInv
  <2>4. BuilderInv'
    BY <1>1, <1>2, <1>4, <2>1 DEF BuilderInv, Building
  <2>5. HoldingBytes' = HoldingBytes
    BY <1>1, <1>2, <2>1 DEF HoldingBytes, Building, ToSet
  <2>6. BytesInv'
    BY <1>0, <1>1, <1>6, <2>5, BytesSame
  <2> QED BY <1>4, <2>2, <2>3, <2>4, <2>6 DEF PipeInv
<1> QED BY <1>5, <1>6 DEF SerialGroup

\* The builder receives the group whose turn it is, or an error.
LEMMA RecvReadyStep ==
  ASSUME PlanInv, PipeInv, RecvReady
  PROVE  PlanInv' /\ PipeInv'
<1> DEFINE n == Len(ready)
           N == Len(plan.groups)
<1>0. PlanInv /\ PipeTypes /\ OrderInv /\ BuilderInv /\ BytesInv
  BY DEF PipeInv
<1>1. /\ Pipelined /\ bld.pc = "start" /\ bld.i <= N /\ ~Building
      /\ UNCHANGED <<inst, plan, live, hyd>>
  BY DEF RecvReady, Building
<1>2. /\ N \in Nat /\ hyd.i \in Nat /\ bld.i \in Nat /\ 1 <= bld.i /\ n \in Nat
      /\ DOMAIN ready = 1..n /\ Ahead = bld.i /\ rx
      /\ ready \in Seq(0 .. N) /\ ReadyCap \in Int
  BY <1>0, <1>1, PipeFacts, PlanFacts DEF Ahead, BuilderInv, PipeTypes
<1>3. /\ PlanInv' /\ Groups' = Groups /\ Pipelined' = Pipelined /\ ReadyCap' = ReadyCap
  BY <1>1, PlanKept
<1>4. \A k \in DOMAIN ready : k \in Nat /\ k >= 1 /\ k <= n
  BY <1>2
<1>5. CASE /\ ready # <<>> /\ Head(ready) = bld.i
           /\ ready' = Tail(ready) /\ BeginBuild(bld.i) /\ rx' = rx
  <2>1. /\ bld'.pc = "build" /\ bld'.i = bld.i
        /\ bld' \in [pc : BuilderStates, i : 1 .. N + 1, err : BOOLEAN]
    BY <1>0, <1>5 DEF BeginBuild, PipeTypes, BuilderStates
  <2>2. /\ n >= 1 /\ ready[1] = bld.i /\ ready' \in Seq(0 .. N) /\ Len(ready') = n - 1
        /\ DOMAIN ready' = 1..(n - 1)
        /\ \A k \in DOMAIN ready' : ready'[k] = ready[k + 1]
    BY <1>2, <1>5, TailFacts
  <2>3. Ahead' = Ahead + 1 /\ Building'
    BY <1>2, <2>1 DEF Ahead, Building
  <2>4. PipeTypes'
    BY <1>0, <1>1, <1>5, <2>1, <2>2 DEF PipeTypes
  <2> HIDE DEF n, N
  <2>5. \A k \in DOMAIN ready' : k \in Nat /\ k + 1 \in DOMAIN ready /\ k <= n - 1
    <3>1. \A k \in 1..(n - 1) : k \in Nat /\ k + 1 \in 1..n /\ k <= n - 1
      BY <1>2
    <3> QED BY <1>2, <2>2, <3>1
  <2>6. OrderInv'
    <3>1. ASSUME NEW k \in DOMAIN ready', ready'[k] = 0
          PROVE  k = Len(ready') /\ hyd'.pc = "done"
      <4> DEFINE q == k + 1
      <4>1. q \in DOMAIN ready /\ ready[q] = 0
        BY <2>2, <2>5, <3>1
      <4>2. q = n /\ hyd.pc = "done"
        <5> HIDE DEF q
        <5> QED BY <1>0, <4>1 DEF OrderInv, n
      <4> QED BY <1>1, <1>2, <2>2, <2>5, <4>2
    <3>2. ASSUME NEW k \in DOMAIN ready', ready'[k] # 0
          PROVE  ready'[k] = Ahead' + k - 1 /\ ready'[k] < hyd'.i
      <4> DEFINE q == k + 1
      <4>1. q \in DOMAIN ready /\ ready[q] # 0 /\ ready'[k] = ready[q]
        BY <2>2, <2>5, <3>2
      <4>2. ready[q] = Ahead + q - 1 /\ ready[q] < hyd.i
        <5> HIDE DEF q
        <5> QED BY <1>0, <4>1 DEF OrderInv
      <4>3. Ahead + q - 1 = Ahead' + k - 1
        <5>1. k \in Nat
          BY <2>5
        <5>2. \A a, b \in Nat : a + (b + 1) - 1 = (a + 1) + b - 1
          OBVIOUS
        <5>3. Ahead \in Nat /\ Ahead' = Ahead + 1
          BY <1>2, <2>3
        <5> QED BY <5>1, <5>2, <5>3
      <4> HIDE DEF q
      <4> QED BY <1>1, <4>1, <4>2, <4>3
    <3> DEFINE z == IF \E k \in DOMAIN ready : ready[k] = 0 THEN 1 ELSE 0
               y == IF \E k \in DOMAIN ready' : ready'[k] = 0 THEN 1 ELSE 0
    <3>3. z = y
      <4>1. ASSUME NEW k \in DOMAIN ready, ready[k] = 0 PROVE \E j \in DOMAIN ready' : ready'[j] = 0
        <5> DEFINE j == k - 1
        <5>1. k \in Nat /\ k # 1 /\ k >= 1 /\ k <= n
          BY <1>2, <1>4, <2>2, <4>1
        <5>2. j \in DOMAIN ready' /\ j + 1 = k
          BY <1>2, <2>2, <5>1, SMTT(30)
        <5> HIDE DEF j
        <5>3. ready'[j] = ready[k]
          BY <2>2, <5>2
        <5> QED BY <4>1, <5>2, <5>3
      <4>2. ASSUME NEW j \in DOMAIN ready', ready'[j] = 0 PROVE \E k \in DOMAIN ready : ready[k] = 0
        <5>1. j + 1 \in DOMAIN ready /\ ready[j + 1] = 0
          BY <2>2, <2>5, <4>2
        <5> QED BY <5>1
      <4> QED BY <4>1, <4>2
    <3>4. hyd.i = Ahead + n - z
      BY <1>0, <1>1, <1>2 DEF OrderInv, n
    <3>5. z \in Nat
      OBVIOUS
    <3> HIDE DEF z, y
    <3>6. hyd'.i = Ahead' + Len(ready') - y
      BY <1>1, <1>2, <2>2, <2>3, <3>3, <3>4, <3>5
    <3>7. hyd.pc \in {"acquire", "load", "send"} => hyd.i <= N
      BY <1>0 DEF OrderInv, N
    <3>8. Len(ready') <= ReadyCap'
      <4>1. n <= ReadyCap
        BY <1>0 DEF OrderInv, n
      <4> QED BY <1>2, <1>3, <2>2, <4>1
    <3> QED BY <1>1, <1>3, <3>1, <3>2, <3>6, <3>7, <3>8 DEF OrderInv, y, N
  <2>7. BuilderInv'
    BY <1>1, <1>2, <1>5, <2>1 DEF BuilderInv, Building, N
  <2>8. HoldingBytes' = HoldingBytes
    <3>1. HydratorHolds' = HydratorHolds /\ BuilderHolds = {} /\ BuilderHolds' = {bld.i}
      BY <1>1, <2>1 DEF HydratorHolds, BuilderHolds, Building
    <3>2. ToSet(ready) = {bld.i} \cup ToSet(ready')
      <4>1. \A k \in DOMAIN ready : ready[k] \in {bld.i} \cup ToSet(ready')
        <5> SUFFICES ASSUME NEW k \in DOMAIN ready, k # 1 PROVE ready[k] \in ToSet(ready')
          BY <2>2
        <5> DEFINE j == k - 1
        <5>1. j \in DOMAIN ready' /\ j + 1 = k
          BY <1>2, <1>4, <2>2, SMTT(30)
        <5> HIDE DEF j
        <5> QED BY <2>2, <5>1 DEF ToSet
      <4>2. \A j \in DOMAIN ready' : ready'[j] \in ToSet(ready)
        BY <2>2, <2>5 DEF ToSet
      <4>3. bld.i \in ToSet(ready)
        <5>1. 1 \in DOMAIN ready
          BY <1>2, <2>2
        <5> QED BY <2>2, <5>1 DEF ToSet
      <4> QED BY <4>1, <4>2, <4>3 DEF ToSet
    <3>3. QueueHolds = {bld.i} \cup QueueHolds'
      BY <1>2, <3>2 DEF QueueHolds
    <3>4. HoldingBytes = HydratorHolds \cup QueueHolds \cup BuilderHolds
      BY <1>0, HoldingFacts
    <3> QED BY <3>1, <3>3, <3>4, HoldingNext
  <2>9. BytesInv'
    BY <1>0, <1>1, <2>8, BytesSame
  <2> QED BY <1>3, <2>4, <2>6, <2>7, <2>9 DEF PipeInv
<1>6. CASE /\ \/ ready # <<>> /\ Head(ready) # bld.i
              \/ ready = <<>>
           /\ ready' = IF ready = <<>> THEN ready ELSE Tail(ready)
           /\ bld' = [bld EXCEPT !.pc = "drop", !.err = TRUE] /\ rx' = rx
  <2>1. /\ bld'.pc = "drop" /\ bld'.i = bld.i /\ bld'.err = TRUE
        /\ bld' \in [pc : BuilderStates, i : 1 .. N + 1, err : BOOLEAN]
    BY <1>0, <1>6 DEF PipeTypes, BuilderStates
  <2>2. Ahead' = Ahead /\ ~Building'
    BY <1>1, <2>1 DEF Ahead, Building
  <2>3. ready' = <<>> /\ \A k \in DOMAIN ready : ready[k] = 0
    <3>1. CASE ready = <<>>
      BY <1>6, <3>1
    <3>2. CASE ready # <<>>
      <4>1. n >= 1 /\ Head(ready) = ready[1] /\ Tail(ready) \in Seq(0 .. N) /\ Len(Tail(ready)) = n - 1
        BY <1>2, <3>2, TailFacts
      <4>2. 1 \in DOMAIN ready
        BY <1>2, <4>1
      <4>3. ready[1] # 0 => ready[1] = Ahead + 1 - 1
        BY <1>0, <4>2 DEF OrderInv
      <4>4. ready[1] = 0
        BY <1>2, <1>6, <3>2, <4>1, <4>3
      <4>5. n = 1
        BY <1>0, <4>2, <4>4 DEF OrderInv
      <4>6. Tail(ready) = <<>>
        <5>1. Len(Tail(ready)) = 0
          BY <4>1, <4>5
        <5> QED BY <4>1, <5>1, EmptySeq
      <4> QED BY <1>2, <1>6, <3>2, <4>4, <4>5, <4>6
    <3> QED BY <3>1, <3>2
  <2>4. PipeTypes'
    <3>1. ready' \in Seq(0 .. N)
      BY <2>3
    <3> QED BY <1>0, <1>1, <1>6, <2>1, <3>1 DEF PipeTypes
  <2>5. hyd.i = Ahead
    <3>1. hyd.i = Ahead + n - (IF \E k \in DOMAIN ready : ready[k] = 0 THEN 1 ELSE 0)
      BY <1>0, <1>1, <1>2 DEF OrderInv
    <3>2. CASE n = 0
      BY <1>2, <3>1, <3>2
    <3>3. CASE n # 0
      <4>1. n \in DOMAIN ready /\ 1 \in DOMAIN ready
        BY <1>2, <3>3
      <4>2. ready[n] = 0 /\ ready[1] = 0
        BY <2>3, <4>1
      <4>3. n = 1
        <5>1. \A k \in DOMAIN ready : ready[k] = 0 => k = n
          BY <1>0 DEF OrderInv
        <5> QED BY <4>1, <4>2, <5>1
      <4>4. \E k \in DOMAIN ready : ready[k] = 0
        BY <4>1, <4>2
      <4> QED BY <1>2, <3>1, <4>3, <4>4
    <3> QED BY <3>2, <3>3
  <2>6. OrderInv'
    <3>1. Len(ready') = 0 /\ DOMAIN ready' = {}
      BY <2>3
    <3>2. hyd.pc \in {"acquire", "load", "send"} => hyd.i <= N
      BY <1>0 DEF OrderInv
    <3>3. Len(ready') <= ReadyCap'
      <4>1. n <= ReadyCap
        BY <1>0 DEF OrderInv
      <4> QED BY <1>2, <1>3, <3>1, <4>1
    <3>4. hyd'.i = Ahead' + Len(ready') - 0
      BY <1>1, <1>2, <2>2, <2>5, <3>1
    <3> QED BY <1>1, <1>3, <2>3, <3>1, <3>2, <3>3, <3>4 DEF OrderInv
  <2>7. BuilderInv'
    BY <1>1, <1>2, <1>6, <2>1 DEF BuilderInv, Building
  <2>8. HoldingBytes' = HoldingBytes
    <3>1. QueueHolds = {} /\ QueueHolds' = {}
      BY <2>3 DEF QueueHolds, ToSet
    <3>2. HydratorHolds' = HydratorHolds /\ BuilderHolds = {} /\ BuilderHolds' = {}
      BY <1>1, <2>2 DEF HydratorHolds, BuilderHolds
    <3>3. HoldingBytes = HydratorHolds \cup QueueHolds \cup BuilderHolds
      BY <1>0, HoldingFacts
    <3> QED BY <3>1, <3>2, <3>3, HoldingNext
  <2>9. BytesInv'
    BY <1>0, <1>1, <2>8, BytesSame
  <2> QED BY <1>3, <2>4, <2>6, <2>7, <2>9 DEF PipeInv
<1>7. \/ /\ ready # <<>> /\ Head(ready) = bld.i
         /\ ready' = Tail(ready) /\ BeginBuild(bld.i) /\ rx' = rx
      \/ /\ \/ ready # <<>> /\ Head(ready) # bld.i
            \/ ready = <<>>
         /\ ready' = IF ready = <<>> THEN ready ELSE Tail(ready)
         /\ bld' = [bld EXCEPT !.pc = "drop", !.err = TRUE] /\ rx' = rx
  BY DEF RecvReady
<1> QED BY <1>5, <1>6, <1>7

\* The builder goes on while the groups stay where they are.
LEMMA BuilderMoves ==
  ASSUME PlanInv, PipeInv, UNCHANGED <<inst, plan, live, hyd, ready>>, rx' \in BOOLEAN,
         NEW pc \in BuilderStates \ {"build", "start", "returned"}, bld' = [bld EXCEPT !.pc = pc],
         ~Building, rx' => rx, pc = "join" /\ Pipelined => ~rx',
         ~bld.err => bld.i = Len(plan.groups) + 1
  PROVE  PlanInv' /\ PipeInv'
<1>0. PlanInv /\ PipeTypes /\ OrderInv /\ BuilderInv /\ BytesInv
  BY DEF PipeInv
<1>1. /\ PlanInv' /\ Groups' = Groups /\ Pipelined' = Pipelined /\ ReadyCap' = ReadyCap
  BY PlanKept
<1>2. /\ bld'.pc = pc /\ bld'.i = bld.i /\ bld'.err = bld.err
      /\ bld' \in [pc : BuilderStates, i : 1 .. Len(plan.groups) + 1, err : BOOLEAN]
  BY <1>0 DEF PipeTypes
<1>3. PipeTypes'
  BY <1>0, <1>2 DEF PipeTypes
<1>4. ~Building' /\ Ahead' = Ahead /\ HoldingBytes' = HoldingBytes
  BY <1>2 DEF Building, Ahead, HoldingBytes
<1>5. OrderInv'
  BY <1>0, <1>1, <1>4 DEF OrderInv
<1>6. BuilderInv'
  BY <1>1, <1>2, <1>4 DEF BuilderInv
<1>7. BytesInv'
  BY <1>0, <1>4, BytesSame
<1> QED BY <1>1, <1>3, <1>5, <1>6, <1>7 DEF PipeInv

\* The builder leaves its loop.
LEMMA LoopEndsStep ==
  ASSUME PlanInv, PipeInv, LoopEnds
  PROVE  PlanInv' /\ PipeInv'
<1> DEFINE p == IF Pipelined THEN "drop" ELSE "join"
<1>1. /\ bld.pc = "start" /\ (bld.err \/ bld.i > Len(plan.groups)) /\ bld' = [bld EXCEPT !.pc = p]
      /\ UNCHANGED <<inst, plan, live, hyd, ready, rx>>
  BY DEF LoopEnds
<1>2. p \in BuilderStates \ {"build", "start", "returned"} /\ (p = "join" => ~Pipelined)
  BY DEF BuilderStates
<1> HIDE DEF p
<1>3. ~bld.err => bld.i = Len(plan.groups) + 1
  BY <1>1, PipeFacts DEF PipeInv
<1>4. rx' \in BOOLEAN /\ ~Building
  BY <1>1 DEF PipeInv, PipeTypes, Building
<1> QED BY <1>1, <1>2, <1>3, <1>4, BuilderMoves

\* The abort flag is raised behind the dropped receiver.
LEMMA RaiseAbortStep ==
  ASSUME PlanInv, PipeInv, RaiseAbort
  PROVE  PlanInv' /\ PipeInv'
<1>1. /\ bld.pc = "drop" /\ ~rx /\ bld' = [bld EXCEPT !.pc = "join"]
      /\ UNCHANGED <<inst, plan, live, hyd, ready, rx>>
  BY DEF RaiseAbort
<1>2. "join" \in BuilderStates \ {"build", "start", "returned"}
  BY DEF BuilderStates
<1>3. ~bld.err => bld.i = Len(plan.groups) + 1
  BY <1>1 DEF PipeInv, BuilderInv
<1>4. rx' \in BOOLEAN /\ ~Building
  BY <1>1 DEF PipeInv, PipeTypes, Building
<1> QED BY <1>1, <1>2, <1>3, <1>4, BuilderMoves

\* The channel goes, and with it the groups in it.
LEMMA QueueDropped ==
  ASSUME PlanInv, PipeInv, UNCHANGED <<inst, plan, hyd>>, rx' \in BOOLEAN, ~Building,
         NEW pc \in BuilderStates \ {"build", "start"}, bld' = [bld EXCEPT !.pc = pc],
         bld.pc # "start", pc = "join" => bld.pc = "join", pc = "returned" => hyd.pc = "done",
         ready' = <<>>, live' = live - QueuedBytes, Pipelined => ~rx'
  PROVE  PlanInv' /\ PipeInv'
<1>0. PlanInv /\ PipeTypes /\ OrderInv /\ BuilderInv /\ BytesInv
  BY DEF PipeInv
<1>1. /\ PlanInv' /\ Groups' = Groups /\ Pipelined' = Pipelined /\ ReadyCap' = ReadyCap
  BY PlanKept
<1>2. /\ bld'.pc = pc /\ bld'.i = bld.i /\ bld'.err = bld.err
      /\ bld' \in [pc : BuilderStates, i : 1 .. Len(plan.groups) + 1, err : BOOLEAN]
  BY <1>0 DEF PipeTypes
<1>3. PipeTypes'
  <2>1. ready' \in Seq(0 .. Len(plan.groups))
    OBVIOUS
  <2> QED BY <1>0, <1>2, <2>1 DEF PipeTypes
<1>4. ~Building' /\ Ahead' = Ahead
  BY <1>2 DEF Building, Ahead
<1>5. OrderInv'
  <2>1. Len(ready') = 0 /\ DOMAIN ready' = {}
    OBVIOUS
  <2>2. Len(ready') <= ReadyCap'
    <3>1. Len(ready) <= ReadyCap /\ Len(ready) \in Nat /\ ReadyCap \in Int
      BY <1>0, PipeFacts, PlanFacts DEF OrderInv
    <3> QED BY <1>1, <2>1, <3>1
  <2>3. hyd.pc \in {"acquire", "load", "send"} => hyd.i <= Len(plan.groups)
    BY <1>0 DEF OrderInv
  <2>4. ~Pipelined => hyd.pc = "done"
    BY <1>0 DEF OrderInv
  <2> QED BY <1>1, <2>1, <2>2, <2>3, <2>4 DEF OrderInv
<1>6. BuilderInv'
  <2>1. ~bld.err => bld.i = Len(plan.groups) + 1
    BY <1>0, PipeFacts DEF BuilderInv, BuilderStates, Building
  <2> QED BY <1>1, <1>2, <1>4, <2>1 DEF BuilderInv
<1>7. HoldingBytes' = HoldingBytes \ QueueHolds
  <2>1. QueueHolds' = {} /\ BuilderHolds = {} /\ BuilderHolds' = {} /\ HydratorHolds' = HydratorHolds
    BY <1>4 DEF QueueHolds, ToSet, BuilderHolds, HydratorHolds
  <2>2. HoldingBytes = HydratorHolds \cup QueueHolds \cup BuilderHolds /\ hyd.i \notin QueueHolds
    BY <1>0, HoldingFacts
  <2>3. HydratorHolds \in SUBSET {hyd.i}
    BY DEF HydratorHolds
  <2> QED BY <2>1, <2>2, <2>3, HoldingNext
<1>8. BytesInv'
  BY <1>0, <1>7, QueuedFacts, BytesGiven
<1> QED BY <1>1, <1>3, <1>5, <1>6, <1>8 DEF PipeInv

\* The receiver goes, with or without what is queued.
LEMMA DropReceiverStep ==
  ASSUME PlanInv, PipeInv, DropReceiver
  PROVE  PlanInv' /\ PipeInv'
<1>1. /\ bld.pc = "drop" /\ rx /\ rx' = FALSE /\ UNCHANGED <<inst, plan, hyd, bld>>
  BY DEF DropReceiver
<1>2. /\ bld' = [bld EXCEPT !.pc = "drop"] /\ ~Building /\ rx' \in BOOLEAN
      /\ "drop" \in BuilderStates \ {"build", "start", "returned"}
  BY <1>1 DEF PipeInv, PipeTypes, Building, BuilderStates
<1>3. CASE ready' = <<>> /\ live' = live - QueuedBytes
  BY <1>1, <1>2, <1>3, QueueDropped
<1>4. CASE ready' = ready /\ live' = live
  <2>1. ~bld.err => bld.i = Len(plan.groups) + 1
    BY <1>1 DEF PipeInv, BuilderInv
  <2> QED BY <1>1, <1>2, <1>4, <2>1, BuilderMoves
<1> QED BY <1>3, <1>4 DEF DropReceiver

\* The call returns and the channel goes with it.
LEMMA ReturnStep ==
  ASSUME PlanInv, PipeInv, Return
  PROVE  PlanInv' /\ PipeInv'
<1>1. /\ bld.pc = "join" /\ hyd.pc = "done" /\ bld' = [bld EXCEPT !.pc = "returned"]
      /\ live' = live - QueuedBytes /\ ready' = <<>> /\ UNCHANGED <<inst, plan, hyd, rx>>
  BY DEF Return
<1>2. /\ ~Building /\ rx' \in BOOLEAN /\ (Pipelined => ~rx')
      /\ "returned" \in BuilderStates \ {"build", "start"}
  BY <1>1 DEF PipeInv, PipeTypes, BuilderInv, Building, BuilderStates
<1> QED BY <1>1, <1>2, QueueDropped

\* The bytes of a finished group are given back.
LEMMA EndGroupPipe ==
  ASSUME PlanInv, PipeInv, EndGroup
  PROVE  PlanInv' /\ PipeInv'
<1> DEFINE e == bld.err \/ \E w \in inst.workers : thread[w] = "failed"
<1>0. PlanInv /\ PipeTypes /\ OrderInv /\ BuilderInv /\ BytesInv
  BY DEF PipeInv
<1>1. /\ Building /\ live' = live - PermitBytes[bld.i]
      /\ bld' = [bld EXCEPT !.pc = "start", !.i = bld.i + 1, !.err = e]
      /\ UNCHANGED <<inst, plan, hyd, ready, rx>>
  BY <1>0 DEF EndGroup, PipeTypes
<1>2. bld.i <= Len(plan.groups) /\ bld.i \in Groups /\ bld.i + 1 \in 1 .. Len(plan.groups) + 1
  BY <1>0, <1>1, PipeFacts DEF BuilderInv
<1>3. /\ PlanInv' /\ Groups' = Groups /\ Pipelined' = Pipelined /\ ReadyCap' = ReadyCap
  BY <1>1, PlanKept
<1>4. e \in BOOLEAN
  OBVIOUS
<1> HIDE DEF e
<1>5. /\ bld'.pc = "start" /\ bld'.i = bld.i + 1
      /\ bld' \in [pc : BuilderStates, i : 1 .. Len(plan.groups) + 1, err : BOOLEAN]
  BY <1>0, <1>1, <1>2, <1>4 DEF PipeTypes, BuilderStates
<1>6. PipeTypes'
  BY <1>0, <1>1, <1>5 DEF PipeTypes
<1>7. ~Building' /\ Ahead' = Ahead
  BY <1>1, <1>5 DEF Building, Ahead
<1>8. OrderInv'
  BY <1>0, <1>1, <1>3, <1>7 DEF OrderInv
<1>9. BuilderInv'
  <2>1. rx
    BY <1>0, <1>1 DEF BuilderInv, Building
  <2> QED BY <1>1, <1>3, <1>5, <1>7, <2>1 DEF BuilderInv
<1>10. HoldingBytes' = HoldingBytes \ {bld.i} /\ {bld.i} \in SUBSET HoldingBytes
  <2>1. /\ QueueHolds' = QueueHolds /\ BuilderHolds = {bld.i} /\ BuilderHolds' = {}
        /\ HydratorHolds' = HydratorHolds
    BY <1>1, <1>7 DEF QueueHolds, BuilderHolds, HydratorHolds
  <2>2. /\ HoldingBytes = HydratorHolds \cup QueueHolds \cup BuilderHolds
        /\ QueueHolds \cap BuilderHolds = {} /\ (hyd.pc # "done" => hyd.i \notin BuilderHolds)
    BY <1>0, HoldingFacts
  <2>3. HydratorHolds \in SUBSET {hyd.i} /\ (HydratorHolds # {} => hyd.pc # "done")
    BY DEF HydratorHolds
  <2> QED BY <2>1, <2>2, <2>3, HoldingNext
<1>11. Sum(PermitBytes, {bld.i}) = PermitBytes[bld.i]
  BY <1>2, SumOne, PlanFacts
<1>12. BytesInv'
  BY <1>0, <1>1, <1>10, <1>11, BytesGiven
<1> QED BY <1>3, <1>6, <1>8, <1>9, <1>12 DEF PipeInv

-----------------------------------------------------------------------------
(* The construction of a group.                                            *)

States == WorkerStates \cup EmitterStates

\* The constants of the threads.
LEMMA ThreadSets ==
  ASSUME PlanInv
  PROVE  /\ Threads = Workers \cup Emitters /\ Workers \cap Emitters = {}
         /\ IsFiniteSet(Workers) /\ inst.workers \in SUBSET Workers /\ inst.workers # {}
         /\ inst.emitters \in SUBSET Emitters /\ inst.emitters # {}
BY ResidentAssumption, PlanFacts DEF Threads

\* A step that leaves the threads and leaves alone while no group is built.
LEMMA BuildKept ==
  ASSUME PlanInv, BuildInv, UNCHANGED <<inst, plan, build, built>>,
         \/ bld' = bld
         \/ ~Building /\ ~Building' /\ bld'.i = bld.i /\ (bld.err => bld'.err)
  PROVE  BuildInv'
<1>1. /\ Groups' = Groups /\ LeafCount' = LeafCount
      /\ UNCHANGED <<inst, todo, heap, closed, waiters, thread, batch, built>>
  BY PlanKept DEF build
<1>2. Building' = Building /\ Ahead' = Ahead /\ (~bld'.err => ~bld.err)
      /\ bld'.i = bld.i
  BY DEF Building, Ahead
<1>3. BuildTypes' /\ HeapInv' /\ WaitInv' /\ ThreadInv'
  BY <1>1, <1>2 DEF BuildInv, BuildTypes, HeapInv, WaitInv, ThreadInv
<1>4. EndedInv'
  BY <1>1, <1>2 DEF BuildInv, EndedInv
<1>5. PastInv'
  BY <1>1, <1>2 DEF BuildInv, PastInv
<1>6. LeavesInv'
  BY <1>1, <1>2 DEF BuildInv, LeavesInv, NobodyFailed, InBatches
<1> QED BY <1>3, <1>4, <1>5, <1>6 DEF BuildInv

\* A group begins with all its leaves to be emitted.
LEMMA BeginStep ==
  ASSUME PlanInv, PipeInv, BuildInv, UNCHANGED <<inst, plan, built>>, bld.pc = "start",
         bld.i <= Len(plan.groups), BeginBuild(bld.i)
  PROVE  BuildInv'
<1>1. /\ bld' = [bld EXCEPT !.pc = "build"] /\ todo' = LeavesOf(bld.i) /\ heap' = {}
      /\ closed' = FALSE /\ waiters' = <<>> /\ batch' = [w \in Workers |-> <<>>]
      /\ thread' = [t \in Threads |-> IF t \in inst.workers THEN "pop"
                                      ELSE IF t \in inst.emitters THEN "emit" ELSE "off"]
  BY DEF BeginBuild
<1>2. /\ bld'.pc = "build" /\ bld'.i = bld.i /\ bld'.err = bld.err /\ bld.i \in Groups
      /\ Ahead = bld.i /\ Ahead' = bld.i + 1 /\ Building' /\ ~Building
  BY <1>1, PipeFacts DEF PipeInv, PipeTypes, Building, Ahead
<1>3. /\ Groups' = Groups /\ LeafCount' = LeafCount /\ Groups = 1 .. Len(plan.groups)
      /\ Len(plan.groups) \in Nat /\ inst.cap \in Nat \ {0}
  BY PlanKept, PlanFacts
<1>4. todo' \in Seq(Int) /\ Len(todo') = LeafCount[bld.i] /\ LeafCount[bld.i] \in Nat
  BY <1>1, <1>2, PlanFacts DEF LeafCount
<1>5. \A w \in Workers : batch'[w] = <<>> /\ thread'[w] \in {"pop", "off"}
  BY <1>1, ThreadSets
<1>6. \A e \in Emitters : thread'[e] \in {"emit", "off"}
  BY <1>1, ThreadSets
<1>7. \A t \in Threads : t \notin inst.workers \cup inst.emitters => thread'[t] = "off"
  BY <1>1
<1>8. thread' \in [Threads -> States] /\ batch' \in [Workers -> Seq(Int)]
  BY <1>1 DEF States, WorkerStates, EmitterStates
<1>9. BuildTypes'
  <2>1. waiters' \in Seq(Threads) /\ closed' \in BOOLEAN
    <3>1. waiters' = <<>> /\ closed' = FALSE
      BY <1>1
    <3>2. <<>> \in Seq(Threads)
      OBVIOUS
    <3>3. waiters' \in Seq(Threads)
      BY <3>1, <3>2
    <3>4. closed' \in BOOLEAN
      BY <3>1
    <3> QED BY <3>3, <3>4
  <2>3. heap' \in SUBSET (Int \X Nat)
    BY <1>1
  <2>2. built' \in [Groups -> Nat]
    BY DEF BuildInv, BuildTypes
  <2> QED BY <1>3, <1>4, <1>8, <2>1, <2>2, <2>3 DEF BuildTypes, States, Threads
<1>10. ThreadInv'
  BY <1>2, <1>5, <1>6, <1>7 DEF ThreadInv, WorkerStates, EmitterStates
<1>11. WaitInv'
  <2>1. \A t \in Threads : thread'[t] \notin Waiting
    BY <1>5, <1>6, ThreadSets DEF Waiting
  <2>2. DOMAIN waiters' = {}
    BY <1>1
  <2> QED BY <1>1, <2>1, <2>2 DEF WaitInv
<1>12. HeapInv'
  <2>1. IsFiniteSet(heap') /\ Cardinality(heap') = 0
    BY <1>1, FS_EmptySet
  <2> QED BY <1>1, <1>3, <2>1 DEF HeapInv
<1>13. EndedInv'
  <2>1. \A e \in inst.emitters : thread'[e] # "ended"
    BY <1>6, ThreadSets
  <2> QED BY <1>1, <1>5, <2>1 DEF EndedInv
<1>14. PastInv'
  <2>1. \A g \in Groups : g >= bld.i + 1 => g >= bld.i
    BY <1>2, <1>3
  <2> QED BY <1>2, <1>3, <2>1 DEF BuildInv, PastInv
<1>15. LeavesInv'
  <2>1. Sum(InBatches', Workers) = 0
    <3>1. \A w \in Workers : InBatches'[w] = 0
      BY <1>5 DEF InBatches
    <3> QED BY <3>1, ThreadSets, SumZero
  <2>2. built'[bld.i] = 0
    <3>1. bld.i >= Ahead
      BY <1>2, <1>3
    <3> QED BY <1>2, <3>1 DEF BuildInv, PastInv
  <2>3. Cardinality(heap') = 0
    BY <1>1, FS_EmptySet
  <2>4. Len(todo') + Cardinality(heap') + Sum(InBatches', Workers) + built'[bld.i] = LeafCount[bld.i]
    BY <1>4, <2>1, <2>2, <2>3
  <2> QED BY <1>2, <1>3, <2>4 DEF LeavesInv
<1> QED BY <1>9, <1>10, <1>11, <1>12, <1>13, <1>14, <1>15 DEF BuildInv

\* A group ends with every leaf worked on, unless somebody failed.
LEMMA EndGroupStep ==
  ASSUME PlanInv, PipeInv, BuildInv, EndGroup
  PROVE  BuildInv'
<1> DEFINE e == bld.err \/ \E w \in inst.workers : thread[w] = "failed"
<1>1. /\ Building /\ closed /\ \A w \in inst.workers : thread[w] \in {"ended", "failed"}
      /\ thread' = Idle
      /\ bld' = [bld EXCEPT !.pc = "start", !.i = bld.i + 1, !.err = e]
      /\ UNCHANGED <<inst, plan, todo, heap, closed, waiters, batch, built>>
  BY DEF EndGroup, PipeInv, PipeTypes
<1>2. e \in BOOLEAN
  OBVIOUS
<1>3. /\ bld'.pc = "start" /\ bld'.i = bld.i + 1 /\ bld'.err = e /\ ~Building'
      /\ Ahead' = Ahead /\ bld.i \in Nat /\ Ahead = bld.i + 1
  <2>1. bld'.pc = "start" /\ bld'.i = bld.i + 1 /\ bld'.err = e
    BY <1>1, <1>2 DEF PipeInv, PipeTypes
  <2>2. bld.i \in Nat
    BY PipeFacts DEF PipeInv
  <2> QED BY <1>1, <2>1, <2>2 DEF Building, Ahead
<1>4. /\ Groups' = Groups /\ LeafCount' = LeafCount /\ Groups = 1 .. Len(plan.groups)
      /\ Len(plan.groups) \in Nat /\ bld.i \in Groups
  <2>1. bld.i <= Len(plan.groups) /\ bld.i >= 1 /\ bld.i \in Nat
    BY <1>1, PipeFacts DEF PipeInv, BuilderInv
  <2> QED BY <1>1, <2>1, PlanKept, PlanFacts
<1>5. \A t \in Threads : thread'[t] = "off"
  BY <1>1 DEF Idle
<1>6. waiters = <<>>
  BY <1>1 DEF BuildInv, WaitInv
<1>7. \A w \in Workers : batch[w] = <<>>
  <2>1. \A w \in Workers : thread[w] \in {"ended", "failed", "off"}
    <3> SUFFICES ASSUME NEW w \in Workers, w \notin inst.workers PROVE thread[w] = "off"
      BY <1>1
    <3>1. w \notin inst.emitters /\ w \in Threads
      BY ThreadSets
    <3> QED BY <3>1 DEF BuildInv, ThreadInv
  <2> QED BY <2>1 DEF BuildInv, EndedInv
<1>8. BuildTypes'
  <2>1. thread' \in [Threads -> States]
    BY <1>1 DEF Idle, States, WorkerStates
  <2> QED BY <1>1, <1>4, <2>1 DEF BuildInv, BuildTypes, States, Threads
<1>9. ThreadInv'
  BY <1>3, <1>5, ThreadSets DEF ThreadInv, WorkerStates, EmitterStates
<1>10. WaitInv'
  <2>1. DOMAIN waiters' = {}
    BY <1>1, <1>6
  <2> QED BY <1>1, <1>3, <1>5, <1>6, <2>1 DEF WaitInv, Waiting
<1>11. HeapInv'
  BY <1>1 DEF BuildInv, HeapInv
<1>12. EndedInv'
  BY <1>1, <1>3, <1>7 DEF EndedInv
<1>13. ~e => built[bld.i] = LeafCount[bld.i]
  <2> SUFFICES ASSUME ~e PROVE built[bld.i] = LeafCount[bld.i]
    OBVIOUS
  <2>1. NobodyFailed
    <3> SUFFICES ASSUME NEW w \in Workers, w \notin inst.workers PROVE thread[w] # "failed"
      BY DEF NobodyFailed
    <3>1. w \notin inst.emitters /\ w \in Threads
      BY ThreadSets
    <3> QED BY <3>1 DEF BuildInv, ThreadInv
  <2>2. PICK w \in inst.workers : TRUE
    BY ThreadSets
  <2>3. heap = {}
    <3>1. thread[w] = "ended" /\ w \in Workers
      BY <1>1, ThreadSets
    <3> QED BY <1>1, <3>1 DEF BuildInv, EndedInv
  <2>4. todo = <<>>
    <3>1. PICK x \in inst.emitters : TRUE
      BY ThreadSets
    <3>2. thread[x] = "ended" /\ ~bld.err
      BY <1>1 DEF BuildInv, EndedInv
    <3> QED BY <1>1, <3>2 DEF BuildInv, EndedInv
  <2>5. Sum(InBatches, Workers) = 0
    <3>1. \A v \in Workers : InBatches[v] = 0
      BY <1>7 DEF InBatches
    <3> QED BY <3>1, ThreadSets, SumZero
  <2>6. Len(todo) = 0 /\ Cardinality(heap) = 0 /\ built[bld.i] \in Nat
    BY <1>4, <2>3, <2>4, FS_EmptySet DEF BuildInv, BuildTypes
  <2>7. Len(todo) + Cardinality(heap) + Sum(InBatches, Workers) + built[bld.i] = LeafCount[bld.i]
    BY <1>1, <2>1 DEF BuildInv, LeavesInv
  <2> QED BY <2>5, <2>6, <2>7
<1>14. PastInv'
  <2>1. ASSUME ~bld'.err, NEW g \in Groups, g < bld.i + 1 PROVE built'[g] = LeafCount[g]
    <3>1. ~e /\ ~bld.err
      BY <1>3, <2>1
    <3>2. g < bld.i \/ g = bld.i
      BY <1>3, <1>4, <2>1
    <3>3. g < bld.i => built[g] = LeafCount[g]
      BY <3>1 DEF BuildInv, PastInv
    <3> QED BY <1>1, <1>13, <3>1, <3>2, <3>3
  <2> QED BY <1>1, <1>3, <1>4, <2>1 DEF BuildInv, PastInv
<1>15. LeavesInv'
  BY <1>3 DEF LeavesInv
<1> QED BY <1>8, <1>9, <1>10, <1>11, <1>12, <1>14, <1>15 DEF BuildInv

\* The queue closes: nobody waits any more.
LEMMA CloseQueueStep ==
  ASSUME PlanInv, PipeInv, BuildInv, CloseQueue
  PROVE  BuildInv'
<1>1. /\ Building /\ (\A e \in inst.emitters : thread[e] = "ended")
      /\ closed' = TRUE /\ waiters' = <<>>
      /\ thread' = [t \in Threads |-> IF thread[t] = "popWait" THEN "pop" ELSE thread[t]]
      /\ UNCHANGED <<inst, plan, bld, todo, heap, batch, built>>
  BY DEF CloseQueue
<1>2. /\ Groups' = Groups /\ LeafCount' = LeafCount /\ Building' = Building /\ Ahead' = Ahead
  BY <1>1, PlanKept DEF Building, Ahead
<1>3. \A t \in Threads : thread'[t] = IF thread[t] = "popWait" THEN "pop" ELSE thread[t]
  BY <1>1
<1>4. \A e \in Emitters : thread[e] \in {"ended", "off"}
  <2> SUFFICES ASSUME NEW e \in Emitters, e \notin inst.emitters PROVE thread[e] = "off"
    BY <1>1
  <2>1. e \notin inst.workers /\ e \in Threads
    BY ThreadSets
  <2> QED BY <2>1 DEF BuildInv, ThreadInv
<1>5. BuildTypes'
  <2>1. thread' \in [Threads -> States]
    BY <1>1 DEF BuildInv, BuildTypes, States, WorkerStates
  <2>2. waiters' \in Seq(Threads)
    BY <1>1
  <2> QED BY <1>1, <1>2, <2>1, <2>2 DEF BuildInv, BuildTypes, States, Threads
<1>6. ThreadInv'
  <2>1. \A w \in Workers : thread'[w] \in WorkerStates
    BY <1>3, ThreadSets DEF BuildInv, ThreadInv, WorkerStates
  <2>2. \A e \in Emitters : thread'[e] \in EmitterStates
    BY <1>3, <1>4, ThreadSets DEF EmitterStates
  <2> QED BY <1>1, <1>2, <1>3, <2>1, <2>2 DEF BuildInv, ThreadInv
<1>7. WaitInv'
  <2>1. \A t \in Threads : thread'[t] \notin Waiting
    <3> SUFFICES ASSUME NEW t \in Threads PROVE thread'[t] \notin Waiting
      OBVIOUS
    <3>1. t \in Workers \/ t \in Emitters
      BY ThreadSets
    <3>2. t \in Workers => thread[t] \in WorkerStates
      BY DEF BuildInv, ThreadInv
    <3> QED BY <1>3, <1>4, <3>1, <3>2 DEF Waiting, WorkerStates
  <2>2. DOMAIN waiters' = {}
    BY <1>1
  <2> QED BY <1>1, <2>1, <2>2 DEF WaitInv
<1>8. HeapInv'
  BY <1>1 DEF BuildInv, HeapInv
<1>9. EndedInv'
  <2>1. \A w \in Workers : thread'[w] \notin {"fill", "drain"} => thread[w] \notin {"fill", "drain"}
    BY <1>3, ThreadSets
  <2>2. \A t \in Threads : thread'[t] = "ended" <=> thread[t] = "ended"
    BY <1>3
  <2>3. (\A w \in Workers : w \in Threads) /\ (\A e \in inst.emitters : e \in Threads)
    BY ThreadSets
  <2> QED BY <1>1, <1>2, <2>1, <2>2, <2>3 DEF BuildInv, EndedInv
<1>10. PastInv'
  BY <1>1, <1>2 DEF BuildInv, PastInv
<1>11. LeavesInv'
  <2>1. \A w \in Workers : thread'[w] = "failed" <=> thread[w] = "failed"
    BY <1>3, ThreadSets
  <2> QED BY <1>1, <1>2, <2>1 DEF BuildInv, LeavesInv, NobodyFailed, InBatches
<1> QED BY <1>5, <1>6, <1>7, <1>8, <1>9, <1>10, <1>11 DEF BuildInv

-----------------------------------------------------------------------------
(* The threads that build a group.                                         *)

\* The line of waiting threads.
LineInv ==
    /\ \A i \in DOMAIN waiters : thread[waiters[i]] \in Waiting
    /\ \A t \in Threads : thread[t] \in Waiting => \E i \in DOMAIN waiters : waiters[i] = t
    /\ \A i, j \in DOMAIN waiters : waiters[i] = waiters[j] => i = j

\* Thread x goes on to state s; others are at most woken.
Moves(x, s) ==
    /\ thread' \in [Threads -> States] /\ waiters' \in Seq(Threads)
    /\ thread'[x] = s
    /\ \A t \in Threads \ {x} : \/ thread'[t] = thread[t]
                                \/ thread[t] = "popWait" /\ thread'[t] = "pop"
                                \/ thread[t] = "emitWait" /\ thread'[t] = "emit"

\* A notification takes the longest waiter off the line.
LEMMA NotifyMoves ==
  ASSUME thread \in [Threads -> States], waiters \in Seq(Threads), LineInv,
         NEW x \in Threads, NEW s \in States, thread[x] \notin Waiting, s \notin Waiting,
         NotifyOne([thread EXCEPT ![x] = s])
  PROVE  Moves(x, s) /\ LineInv' /\ (waiters = <<>> => waiters' = <<>>)
<1> DEFINE th == [thread EXCEPT ![x] = s]
<1>1. th \in [Threads -> States] /\ th[x] = s /\ \A t \in Threads \ {x} : th[t] = thread[t]
  OBVIOUS
<1>2. CASE waiters = <<>>
  <2>1. thread' = th /\ waiters' = waiters
    BY <1>2 DEF NotifyOne
  <2> HIDE DEF th
  <2>2. Moves(x, s)
    BY <1>1, <2>1 DEF Moves
  <2>3. DOMAIN waiters = {}
    BY <1>2
  <2>4. LineInv'
    BY <1>1, <2>1, <2>3 DEF LineInv
  <2> QED BY <1>2, <2>1, <2>2, <2>4
<1>3. CASE waiters # <<>>
  <2> DEFINE h == Head(waiters)
             n == Len(waiters)
  <2>1. /\ n \in Nat \ {0} /\ h = waiters[1] /\ h \in Threads
        /\ Tail(waiters) \in Seq(Threads) /\ Len(Tail(waiters)) = n - 1
        /\ DOMAIN waiters = 1..n /\ DOMAIN Tail(waiters) = 1..(n - 1)
        /\ \A i \in DOMAIN Tail(waiters) : Tail(waiters)[i] = waiters[i + 1]
    BY <1>3, TailFacts
  <2>2. thread' = [th EXCEPT ![h] = Woken(h)] /\ waiters' = Tail(waiters)
    BY <1>3 DEF NotifyOne
  <2>3. 1 \in DOMAIN waiters
    BY <2>1
  <2>4. thread[h] \in Waiting /\ h # x
    BY <2>1, <2>3 DEF LineInv
  <2>5. \/ thread[h] = "popWait" /\ Woken(h) = "pop"
        \/ thread[h] = "emitWait" /\ Woken(h) = "emit"
    BY <2>4 DEF Waiting, Woken
  <2>6. Woken(h) \in States /\ Woken(h) \notin Waiting
    BY <2>5 DEF States, WorkerStates, EmitterStates, Waiting
  <2> HIDE DEF h, th, n
  <2>7. /\ thread' \in [Threads -> States] /\ thread'[h] = Woken(h)
        /\ \A t \in Threads \ {h} : thread'[t] = th[t]
    BY <1>1, <2>1, <2>2, <2>6
  <2>8. Moves(x, s)
    BY <1>1, <2>1, <2>2, <2>4, <2>5, <2>7 DEF Moves
  <2>9. \A i \in DOMAIN waiters' : i \in Nat /\ i + 1 \in DOMAIN waiters /\ i + 1 # 1 /\ waiters'[i] = waiters[i + 1]
    <3>1. \A i \in 1..(n - 1) : i \in Nat /\ i + 1 \in 1..n /\ i + 1 # 1
      BY <2>1
    <3> QED BY <2>1, <2>2, <3>1
  <2>10. LineInv'
    <3>1. ASSUME NEW i \in DOMAIN waiters' PROVE thread'[waiters'[i]] \in Waiting
      <4> DEFINE q == i + 1
      <4>1. q \in DOMAIN waiters /\ q # 1 /\ waiters'[i] = waiters[q]
        BY <2>9
      <4> HIDE DEF q
      <4>2. thread[waiters[q]] \in Waiting /\ waiters[q] # h /\ waiters[q] \in Threads
        BY <2>1, <2>3, <4>1 DEF LineInv
      <4>3. waiters[q] # x
        BY <4>2
      <4> QED BY <1>1, <2>7, <4>1, <4>2, <4>3
    <3>2. ASSUME NEW t \in Threads, thread'[t] \in Waiting
          PROVE  \E i \in DOMAIN waiters' : waiters'[i] = t
      <4>1. t # h /\ t # x /\ thread[t] \in Waiting
        BY <1>1, <2>4, <2>6, <2>7, <3>2
      <4>2. PICK q \in DOMAIN waiters : waiters[q] = t
        BY <4>1 DEF LineInv
      <4> DEFINE i == q - 1
      <4>3. i \in 1..(n - 1) /\ i + 1 = q
        <5>1. q # 1 /\ q \in 1..n /\ n \in Nat
          BY <2>1, <4>1, <4>2
        <5> QED BY <5>1
      <4>4. i \in DOMAIN waiters' /\ waiters'[i] = waiters[i + 1]
        BY <2>1, <2>2, <4>3
      <4> QED BY <4>2, <4>3, <4>4
    <3>3. ASSUME NEW i \in DOMAIN waiters', NEW j \in DOMAIN waiters', waiters'[i] = waiters'[j]
          PROVE  i = j
      <4> DEFINE p == i + 1
                 q == j + 1
      <4>1. /\ p \in DOMAIN waiters /\ q \in DOMAIN waiters /\ waiters[p] = waiters[q]
        BY <2>9, <3>3
      <4>2. p = q
        <5> HIDE DEF p, q
        <5> QED BY <4>1 DEF LineInv
      <4>3. i \in Nat /\ j \in Nat
        BY <2>9
      <4> QED BY <4>2, <4>3
    <3> QED BY <3>1, <3>2, <3>3 DEF LineInv
  <2> QED BY <1>3, <2>8, <2>10
<1> QED BY <1>2, <1>3

\* A thread joins the line at its end.
LEMMA WaitMoves ==
  ASSUME thread \in [Threads -> States], waiters \in Seq(Threads), LineInv,
         NEW x \in Threads, NEW s \in States, thread[x] \notin Waiting, s \in Waiting,
         thread' = [thread EXCEPT ![x] = s], waiters' = Append(waiters, x)
  PROVE  Moves(x, s) /\ LineInv'
<1> DEFINE n == Len(waiters)
<1>1. /\ waiters' \in Seq(Threads) /\ n \in Nat
      /\ DOMAIN waiters = 1..n /\ DOMAIN waiters' = 1..(n + 1)
      /\ \A i \in DOMAIN waiters : waiters'[i] = waiters[i]
      /\ waiters'[n + 1] = x
  BY AppendFacts
<1>2. /\ thread' \in [Threads -> States] /\ thread'[x] = s
      /\ \A t \in Threads \ {x} : thread'[t] = thread[t]
  OBVIOUS
<1>3. Moves(x, s)
  BY <1>1, <1>2 DEF Moves
<1> HIDE DEF n
<1>4. /\ \A i \in DOMAIN waiters' : i \in DOMAIN waiters \/ i = n + 1
      /\ \A i \in DOMAIN waiters : i \in DOMAIN waiters'
      /\ n + 1 \in DOMAIN waiters'
  BY <1>1
<1>5. \A i \in DOMAIN waiters : waiters[i] # x /\ waiters[i] \in Threads
  BY DEF LineInv
<1>6. LineInv'
  <2>1. \A i \in DOMAIN waiters' : thread'[waiters'[i]] \in Waiting
    BY <1>1, <1>2, <1>4, <1>5 DEF LineInv
  <2>2. \A t \in Threads : thread'[t] \in Waiting => \E i \in DOMAIN waiters' : waiters'[i] = t
    BY <1>1, <1>2, <1>4 DEF LineInv
  <2>3. \A i, j \in DOMAIN waiters' : waiters'[i] = waiters'[j] => i = j
    BY <1>1, <1>4, <1>5 DEF LineInv
  <2> QED BY <2>1, <2>2, <2>3 DEF LineInv
<1> QED BY <1>3, <1>6

\* A thread whose wait timed out leaves the line, wherever it stood.
LEMMA TimeoutMoves ==
  ASSUME thread \in [Threads -> States], waiters \in Seq(Threads), LineInv,
         NEW x \in Threads, NEW s \in States, thread[x] \in Waiting, s \notin Waiting,
         thread' = [thread EXCEPT ![x] = s], waiters' = RemoveFirst(waiters, x)
  PROVE  Moves(x, s) /\ LineInv' /\ waiters # <<>>
<1> DEFINE n == Len(waiters)
<1>1. PICK q \in DOMAIN waiters : waiters[q] = x
  BY DEF LineInv
<1>2. /\ waiters' \in Seq(Threads) /\ n \in Nat
      /\ DOMAIN waiters = 1..n /\ DOMAIN waiters' = 1..(n - 1)
      /\ \A i \in DOMAIN waiters' : waiters'[i] = IF i < q THEN waiters[i] ELSE waiters[i + 1]
  BY <1>1, RemoveFirstFacts DEF LineInv
<1>3. /\ thread' \in [Threads -> States] /\ thread'[x] = s
      /\ \A t \in Threads \ {x} : thread'[t] = thread[t]
  OBVIOUS
<1>4. Moves(x, s)
  BY <1>2, <1>3 DEF Moves
<1> HIDE DEF n
<1> DEFINE old(i) == IF i < q THEN i ELSE i + 1
<1>5. \A i \in DOMAIN waiters' : old(i) \in DOMAIN waiters /\ old(i) # q /\ waiters'[i] = waiters[old(i)]
  <2> SUFFICES ASSUME NEW i \in DOMAIN waiters'
               PROVE  old(i) \in DOMAIN waiters /\ old(i) # q /\ waiters'[i] = waiters[old(i)]
    OBVIOUS
  <2>1. i \in 1..(n - 1) /\ q \in 1..n /\ n \in Nat
    BY <1>2
  <2>2. old(i) \in 1..n /\ old(i) # q
    BY <2>1
  <2>3. waiters'[i] = waiters[old(i)]
    BY <1>2
  <2> QED BY <1>2, <2>2, <2>3
<1>6. \A i, j \in DOMAIN waiters' : old(i) = old(j) => i = j
  BY <1>2
<1>7. \A k \in DOMAIN waiters : k # q => \E i \in DOMAIN waiters' : old(i) = k
  <2> SUFFICES ASSUME NEW k \in DOMAIN waiters, k # q PROVE \E i \in DOMAIN waiters' : old(i) = k
    OBVIOUS
  <2>1. k \in 1..n /\ q \in 1..n /\ n \in Nat
    BY <1>2
  <2>2. CASE k < q
    <3>1. k \in DOMAIN waiters' /\ old(k) = k
      BY <1>2, <2>1, <2>2
    <3> QED BY <3>1
  <2>3. CASE ~(k < q)
    <3>1. k - 1 \in DOMAIN waiters' /\ old(k - 1) = k
      BY <1>2, <2>1, <2>3
    <3> QED BY <3>1
  <2> QED BY <2>2, <2>3
<1>8. \A k \in DOMAIN waiters : waiters[k] = x <=> k = q
  BY <1>1 DEF LineInv
<1>9. \A k \in DOMAIN waiters : waiters[k] \in Threads
  BY <1>2
<1> HIDE DEF old
<1>10. LineInv'
  <2>1. \A i \in DOMAIN waiters' : thread'[waiters'[i]] \in Waiting
    <3> SUFFICES ASSUME NEW i \in DOMAIN waiters' PROVE thread'[waiters'[i]] \in Waiting
      OBVIOUS
    <3>1. PICK k \in DOMAIN waiters : k # q /\ waiters'[i] = waiters[k]
      BY <1>5
    <3>2. waiters[k] # x /\ waiters[k] \in Threads /\ thread[waiters[k]] \in Waiting
      BY <1>8, <1>9, <3>1 DEF LineInv
    <3> QED BY <1>3, <3>1, <3>2
  <2>2. ASSUME NEW t \in Threads, thread'[t] \in Waiting
        PROVE  \E i \in DOMAIN waiters' : waiters'[i] = t
    <3>1. t # x /\ thread[t] \in Waiting
      BY <1>3, <2>2
    <3>2. PICK k \in DOMAIN waiters : waiters[k] = t
      BY <3>1 DEF LineInv
    <3>3. PICK i \in DOMAIN waiters' : old(i) = k
      BY <1>7, <1>8, <3>1, <3>2
    <3> QED BY <1>5, <3>2, <3>3
  <2>3. ASSUME NEW i \in DOMAIN waiters', NEW j \in DOMAIN waiters', waiters'[i] = waiters'[j]
        PROVE  i = j
    <3>1. /\ waiters[old(i)] = waiters[old(j)]
          /\ old(i) \in DOMAIN waiters /\ old(j) \in DOMAIN waiters
      BY <1>5, <2>3
    <3>2. old(i) = old(j)
      BY <3>1 DEF LineInv
    <3> QED BY <1>6, <3>2
  <2> QED BY <2>1, <2>2, <2>3 DEF LineInv
<1>11. waiters # <<>>
  BY <1>1
<1> QED BY <1>4, <1>10, <1>11

\* A thread goes on while nobody waits or is woken.
LEMMA PlainMoves ==
  ASSUME thread \in [Threads -> States], waiters \in Seq(Threads), LineInv,
         NEW x \in Threads, NEW s \in States, thread[x] \notin Waiting, s \notin Waiting,
         thread' = [thread EXCEPT ![x] = s], waiters' = waiters
  PROVE  Moves(x, s) /\ LineInv'
<1>1. /\ thread' \in [Threads -> States] /\ thread'[x] = s
      /\ \A t \in Threads \ {x} : thread'[t] = thread[t]
  OBVIOUS
<1>2. \A i \in DOMAIN waiters : waiters[i] # x /\ waiters[i] \in Threads
  BY DEF LineInv
<1> QED BY <1>1, <1>2 DEF Moves, LineInv

\* A thread that is not off belongs to the call.
LEMMA ActiveThread ==
  ASSUME PlanInv, BuildInv, NEW x \in Threads, thread[x] # "off"
  PROVE  /\ Building
         /\ x \in Workers => x \in inst.workers
         /\ x \in Emitters => x \in inst.emitters
BY ThreadSets DEF BuildInv, ThreadInv

\* Nobody else changes its role, ends or touches a batch when a thread moves.
LEMMA OthersStay ==
  ASSUME PlanInv, BuildInv, NEW x \in Threads, NEW s, Moves(x, s), thread[x] # "off",
         UNCHANGED inst, Building',
         x \in Workers => s \in WorkerStates, x \in Emitters => s \in EmitterStates
  PROVE  /\ ThreadInv'
         /\ \A t \in Threads \ {x} : /\ thread'[t] = "ended" <=> thread[t] = "ended"
                                     /\ thread'[t] = "failed" <=> thread[t] = "failed"
                                     /\ thread'[t] = "fill" <=> thread[t] = "fill"
                                     /\ thread'[t] = "drain" <=> thread[t] = "drain"
<1>1. /\ \A w \in Workers : thread[w] \in WorkerStates
      /\ \A e \in Emitters : thread[e] \in EmitterStates
      /\ \A t \in Threads : t \notin inst.workers \cup inst.emitters => thread[t] = "off"
  BY DEF BuildInv, ThreadInv
<1>2. /\ thread'[x] = s
      /\ \A t \in Threads \ {x} : \/ thread'[t] = thread[t]
                                  \/ thread[t] = "popWait" /\ thread'[t] = "pop"
                                  \/ thread[t] = "emitWait" /\ thread'[t] = "emit"
  BY DEF Moves
<1>3. Threads = Workers \cup Emitters /\ x \in inst.workers \cup inst.emitters
  BY <1>1, ThreadSets
<1>4. \A w \in Workers : thread'[w] \in WorkerStates
  <2> SUFFICES ASSUME NEW w \in Workers PROVE thread'[w] \in WorkerStates
    OBVIOUS
  <2>1. thread[w] \in WorkerStates /\ w \in Threads
    BY <1>1, <1>3
  <2> QED BY <1>2, <2>1 DEF WorkerStates
<1>5. \A e \in Emitters : thread'[e] \in EmitterStates
  <2> SUFFICES ASSUME NEW e \in Emitters PROVE thread'[e] \in EmitterStates
    OBVIOUS
  <2>1. thread[e] \in EmitterStates /\ e \in Threads
    BY <1>1, <1>3
  <2> QED BY <1>2, <2>1 DEF EmitterStates
<1>6. \A t \in Threads : t \notin inst.workers \cup inst.emitters => thread'[t] = "off"
  BY <1>1, <1>2, <1>3
<1>7. ThreadInv'
  BY <1>4, <1>5, <1>6 DEF ThreadInv
<1> QED BY <1>2, <1>7

\* The parts of the invariant as a thread finds them.
LEMMA AtWork ==
  ASSUME PlanInv, PipeInv, BuildInv, Building, UNCHANGED <<inst, plan>>
  PROVE  /\ thread \in [Threads -> States] /\ waiters \in Seq(Threads) /\ LineInv
         /\ bld.i \in Groups /\ bld.i \in Nat /\ Ahead = bld.i + 1
         /\ todo \in Seq(Int) /\ Len(todo) \in Nat /\ heap \in SUBSET (Int \X Nat)
         /\ IsFiniteSet(heap) /\ Cardinality(heap) \in Nat /\ inst.cap \in Nat
         /\ batch \in [Workers -> Seq(Int)]
         /\ built \in [Groups -> Nat]
         /\ IsFiniteSet(Workers) /\ Sum(InBatches, Workers) \in Nat
         /\ \A w \in Workers : InBatches[w] = Len(batch[w]) /\ InBatches[w] \in Nat
         /\ LeafCount' = LeafCount /\ Groups' = Groups
         /\ Groups = 1 .. Len(plan.groups) /\ Len(plan.groups) \in Nat
<1>1. thread \in [Threads -> States] /\ waiters \in Seq(Threads) /\ LineInv
  BY DEF BuildInv, BuildTypes, States, WaitInv, LineInv
<1>2. bld.i \in Groups /\ bld.i \in Nat /\ Ahead = bld.i + 1
  BY PipeFacts DEF PipeInv, BuilderInv, Ahead
<1>3. /\ todo \in Seq(Int) /\ Len(todo) \in Nat /\ heap \in SUBSET (Int \X Nat)
      /\ batch \in [Workers -> Seq(Int)] /\ built \in [Groups -> Nat]
  BY DEF BuildInv, BuildTypes
<1>4. IsFiniteSet(heap) /\ Cardinality(heap) \in Nat
  BY FS_CardinalityType DEF BuildInv, HeapInv
<1>5. \A w \in Workers : InBatches[w] = Len(batch[w]) /\ InBatches[w] \in Nat
  BY <1>3 DEF InBatches
<1>6. IsFiniteSet(Workers) /\ Sum(InBatches, Workers) \in Nat
  BY <1>5, ThreadSets, SumNat
<1> QED BY <1>1, <1>2, <1>3, <1>4, <1>5, <1>6, PlanKept, PlanFacts

\* The largest leaf of a non-empty queue is in it.
LEMMA LargestFacts ==
  ASSUME heap \in SUBSET (Int \X Nat), IsFiniteSet(heap), heap # {}
  PROVE  Largest \in heap /\ Largest[1] \in Int
<1> DEFINE A == {x[1] : x \in heap}
           B(a) == {x[2] : x \in {y \in heap : y[1] = a}}
           f == [x \in heap |-> x[1]]
<1>1. IsFiniteSet(A) /\ A \subseteq Int /\ A # {}
  <2>1. f \in Surjection(heap, A)
    BY DEF Surjection
  <2>2. IsFiniteSet(A)
    <3> HIDE DEF f, A
    <3> QED BY <2>1, FS_Surjection
  <2> QED BY <2>2
<1> DEFINE a == Max(A)
           H == {y \in heap : y[1] = a}
           C == {x[2] : x \in H}
           g == [x \in H |-> x[2]]
<1>2. a \in A /\ \A y \in A : y <= a
  <2> HIDE DEF A
  <2> QED BY <1>1, MaxOfSet
<1> HIDE DEF a
<1>3. IsFiniteSet(C) /\ C \subseteq Int /\ C # {}
  <2>1. IsFiniteSet(H) /\ H # {}
    BY <1>2, FS_Subset
  <2>2. g \in Surjection(H, C)
    BY DEF Surjection
  <2>3. IsFiniteSet(C)
    <3> HIDE DEF g, H, C
    <3> QED BY <2>1, <2>2, FS_Surjection
  <2> QED BY <2>1, <2>3
<1> DEFINE c == Max(C)
<1>4. c \in C /\ \A y \in C : y <= c
  <2> HIDE DEF C
  <2> QED BY <1>3, MaxOfSet
<1> HIDE DEF c
<1>5. PICK x \in heap : x[1] = a /\ x[2] = c
  BY <1>4
<1>6. ASSUME NEW y \in heap PROVE x[1] > y[1] \/ (x[1] = y[1] /\ x[2] >= y[2])
  <2>1. y[1] <= a /\ y[1] \in Int /\ x[1] \in Int /\ y[2] \in Int /\ x[2] \in Int
    BY <1>2
  <2>2. y[1] = a => y[2] <= c
    BY <1>4
  <2> QED BY <1>5, <2>1, <2>2
<1>7. Largest \in heap
  BY <1>6 DEF Largest
<1> QED BY <1>7

\* A leaf goes to the queue, or the emitter waits for room.
LEMMA SubmitStep ==
  ASSUME PlanInv, PipeInv, BuildInv, NEW e \in Emitters, Submit(e)
  PROVE  BuildInv'
<1>1. /\ Building /\ thread[e] = "emit" /\ todo # <<>>
      /\ UNCHANGED <<inst, plan, bld, closed, batch, built>>
  BY DEF Submit
<1>2. /\ thread \in [Threads -> States] /\ waiters \in Seq(Threads) /\ LineInv
      /\ bld.i \in Groups /\ bld.i \in Nat /\ Ahead = bld.i + 1
      /\ todo \in Seq(Int) /\ Len(todo) \in Nat /\ heap \in SUBSET (Int \X Nat)
      /\ IsFiniteSet(heap) /\ Cardinality(heap) \in Nat /\ inst.cap \in Nat
      /\ batch \in [Workers -> Seq(Int)] /\ built \in [Groups -> Nat]
      /\ Sum(InBatches, Workers) \in Nat
      /\ LeafCount' = LeafCount /\ Groups' = Groups
  BY <1>1, AtWork
<1>3. e \in Threads /\ e \in inst.emitters /\ e \notin Workers
  BY <1>1, ActiveThread, ThreadSets
<1>4. ~closed /\ \A w \in Workers : thread[w] # "ended"
  BY <1>1, <1>3 DEF BuildInv, EndedInv
<1>5. ~bld.err => \A x \in inst.emitters : thread[x] # "ended"
  BY <1>1 DEF BuildInv, EndedInv
<1>6. Building' /\ Ahead' = Ahead
  BY <1>1 DEF Building, Ahead
<1>7. PastInv'
  BY <1>1, <1>2, <1>6 DEF BuildInv, PastInv
<1>8. CASE /\ Cardinality(heap) < inst.cap
           /\ heap' = heap \cup {<<Head(todo), Len(todo)>>} /\ todo' = Tail(todo)
           /\ NotifyOne(thread)
  <2> DEFINE leaf == <<Head(todo), Len(todo)>>
  <2>1. [thread EXCEPT ![e] = "emit"] = thread
    BY <1>1, <1>2, <1>3
  <2>2. "emit" \in States /\ "emit" \notin Waiting
    BY DEF States, EmitterStates, Waiting
  <2>3. Moves(e, "emit") /\ LineInv' /\ (waiters = <<>> => waiters' = <<>>)
    BY <1>1, <1>2, <1>3, <1>8, <2>1, <2>2, NotifyMoves
  <2>4. /\ ThreadInv'
        /\ \A t \in Threads \ {e} : /\ thread'[t] = "ended" <=> thread[t] = "ended"
                                    /\ thread'[t] = "failed" <=> thread[t] = "failed"
                                    /\ thread'[t] = "fill" <=> thread[t] = "fill"
                                    /\ thread'[t] = "drain" <=> thread[t] = "drain"
    BY <1>1, <1>3, <1>6, <2>3, OthersStay DEF EmitterStates
  <2>5. thread'[e] = "emit" /\ thread' \in [Threads -> States] /\ waiters' \in Seq(Threads)
    BY <2>3 DEF Moves
  <2>6. Workers \subseteq Threads \ {e} /\ inst.emitters \subseteq Threads
    BY <1>3, ThreadSets
  <2>7. /\ Head(todo) \in Int /\ Tail(todo) \in Seq(Int) /\ Len(Tail(todo)) = Len(todo) - 1
        /\ Len(todo) >= 1
    BY <1>1, <1>2, TailFacts
  <2>8. leaf \in Int \X Nat /\ leaf[2] = Len(todo) /\ leaf \notin heap
    BY <1>2, <2>7 DEF BuildInv, HeapInv
  <2> HIDE DEF leaf
  <2>9. IsFiniteSet(heap') /\ Cardinality(heap') = Cardinality(heap) + 1
    BY <1>2, <1>8, <2>8, FS_AddElement DEF leaf
  <2>10. BuildTypes'
    <3>1. heap' \in SUBSET (Int \X Nat)
      BY <1>2, <1>8, <2>8 DEF leaf
    <3> QED BY <1>1, <1>2, <1>8, <2>5, <2>7, <3>1 DEF BuildInv, BuildTypes, States, Threads
  <2>11. WaitInv'
    BY <1>1, <1>4, <2>3 DEF WaitInv, LineInv
  <2>12. HeapInv'
    <3>1. \A x \in heap' : x[2] > Len(todo')
      <4> SUFFICES ASSUME NEW x \in heap' PROVE x[2] > Len(todo')
        OBVIOUS
      <4>1. x[2] >= Len(todo) /\ x[2] \in Int
        <5>1. CASE x = leaf
          BY <1>2, <2>8, <5>1
        <5>2. CASE x \in heap
          <6>1. x[2] > Len(todo) /\ x[2] \in Nat
            BY <1>2, <5>2 DEF BuildInv, HeapInv
          <6> QED BY <1>2, <6>1
        <5> QED BY <1>8, <5>1, <5>2 DEF leaf
      <4> QED BY <1>2, <1>8, <2>7, <4>1
    <3>2. Cardinality(heap') <= inst'.cap
      BY <1>1, <1>2, <1>8, <2>9
    <3> QED BY <2>9, <3>1, <3>2 DEF HeapInv
  <2>13. EndedInv'
    <3>1. \A w \in Workers : thread'[w] \notin {"fill", "drain"} => batch'[w] = <<>>
      <4>1. \A w \in Workers : thread'[w] \notin {"fill", "drain"} => thread[w] \notin {"fill", "drain"}
        BY <2>4, <2>6
      <4> QED BY <1>1, <4>1 DEF BuildInv, EndedInv
    <3>2. ~bld'.err => \A x \in inst.emitters : thread'[x] # "ended"
      BY <1>1, <1>5, <2>4, <2>5, <2>6
    <3>3. \A w \in Workers : thread'[w] # "ended"
      BY <1>4, <2>4, <2>6
    <3> QED BY <1>1, <1>4, <3>1, <3>2, <3>3 DEF EndedInv
  <2>14. LeavesInv'
    <3> SUFFICES ASSUME NobodyFailed' PROVE LeavesInv'
      BY DEF LeavesInv
    <3>1. NobodyFailed
      BY <1>1, <2>4, <2>6 DEF NobodyFailed
    <3>2. Len(todo) + Cardinality(heap) + Sum(InBatches, Workers) + built[bld.i] = LeafCount[bld.i]
      BY <1>1, <3>1 DEF BuildInv, LeavesInv
    <3>3. InBatches' = InBatches /\ built'[bld'.i] = built[bld.i] /\ built[bld.i] \in Nat
      BY <1>1, <1>2 DEF InBatches
    <3>4. Len(todo') + Cardinality(heap') + Sum(InBatches', Workers) + built'[bld'.i] = LeafCount[bld.i]
      BY <1>2, <1>8, <2>7, <2>9, <3>2, <3>3
    <3> QED BY <1>1, <1>2, <3>4 DEF LeavesInv
  <2> QED BY <1>7, <2>4, <2>10, <2>11, <2>12, <2>13, <2>14 DEF BuildInv
<1>9. CASE /\ thread' = [thread EXCEPT ![e] = "emitWait"]
           /\ waiters' = Append(waiters, e)
           /\ UNCHANGED <<heap, todo>>
  <2>2. "emitWait" \in States /\ "emitWait" \in Waiting /\ thread[e] \notin Waiting
    BY <1>1 DEF States, EmitterStates, Waiting
  <2>3. Moves(e, "emitWait") /\ LineInv'
    BY <1>2, <1>3, <1>9, <2>2, WaitMoves
  <2>4. /\ ThreadInv'
        /\ \A t \in Threads \ {e} : /\ thread'[t] = "ended" <=> thread[t] = "ended"
                                    /\ thread'[t] = "failed" <=> thread[t] = "failed"
                                    /\ thread'[t] = "fill" <=> thread[t] = "fill"
                                    /\ thread'[t] = "drain" <=> thread[t] = "drain"
    BY <1>1, <1>3, <1>6, <2>3, OthersStay DEF EmitterStates
  <2>5. thread'[e] = "emitWait" /\ thread' \in [Threads -> States] /\ waiters' \in Seq(Threads)
    BY <2>3 DEF Moves
  <2>6. Workers \subseteq Threads \ {e} /\ inst.emitters \subseteq Threads
    BY <1>3, ThreadSets
  <2>10. BuildTypes'
    BY <1>1, <1>2, <1>9, <2>5 DEF BuildInv, BuildTypes, States, Threads
  <2>11. WaitInv'
    BY <1>1, <1>4, <2>3 DEF WaitInv, LineInv
  <2>12. HeapInv'
    BY <1>1, <1>9 DEF BuildInv, HeapInv
  <2>13. EndedInv'
    <3>1. \A w \in Workers : thread'[w] \notin {"fill", "drain"} => batch'[w] = <<>>
      <4>1. \A w \in Workers : thread'[w] \notin {"fill", "drain"} => thread[w] \notin {"fill", "drain"}
        BY <2>4, <2>6
      <4> QED BY <1>1, <4>1 DEF BuildInv, EndedInv
    <3>2. ~bld'.err => \A x \in inst.emitters : thread'[x] # "ended"
      BY <1>1, <1>5, <2>4, <2>5, <2>6
    <3>3. \A w \in Workers : thread'[w] # "ended"
      BY <1>4, <2>4, <2>6
    <3> QED BY <1>1, <1>4, <3>1, <3>2, <3>3 DEF EndedInv
  <2>14. LeavesInv'
    <3> SUFFICES ASSUME NobodyFailed' PROVE LeavesInv'
      BY DEF LeavesInv
    <3>1. NobodyFailed
      BY <1>1, <2>4, <2>6 DEF NobodyFailed
    <3> QED BY <1>1, <1>2, <1>9, <3>1 DEF BuildInv, LeavesInv, InBatches
  <2> QED BY <1>7, <2>4, <2>10, <2>11, <2>12, <2>13, <2>14 DEF BuildInv
<1> QED BY <1>8, <1>9 DEF Submit

\* A step of one thread that only takes leaves away from where they were keeps
\* the invariant of the construction, if it accounts for them.
LEMMA ThreadStep ==
  ASSUME PlanInv, PipeInv, BuildInv, Building, UNCHANGED <<inst, plan, closed>>,
         bld'.pc = "build", bld'.i = bld.i, bld.err => bld'.err,
         NEW x \in Threads, thread[x] \notin {"off", "failed"},
         NEW s, Moves(x, s), LineInv',
         x \in Workers => s \in WorkerStates, x \in Emitters => s \in EmitterStates,
         closed => waiters' = <<>>,
         heap' \in SUBSET heap, todo' \in Seq(Int), Len(todo') <= Len(todo),
         batch' \in [Workers -> Seq(Int)], \A w \in Workers \ {x} : batch'[w] = batch[w],
         x \in Workers /\ s \notin {"fill", "drain"} => batch'[x] = <<>>,
         built' \in [Groups -> Nat], \A g \in Groups \ {bld.i} : built'[g] = built[g],
         x \in Workers /\ s = "ended" => closed /\ heap' = {},
         x \in Emitters /\ closed => s = "ended",
         x \in Emitters /\ s = "ended" /\ ~bld'.err => todo' = <<>>,
         ~bld'.err /\ s # "failed" =>
            Len(todo') + Cardinality(heap') + Sum(InBatches', Workers) + built'[bld.i]
              = Len(todo) + Cardinality(heap) + Sum(InBatches, Workers) + built[bld.i]
  PROVE  BuildInv'
<1>1. /\ todo \in Seq(Int) /\ Len(todo) \in Nat /\ heap \in SUBSET (Int \X Nat)
      /\ bld.i \in Groups /\ bld.i \in Nat /\ Ahead = bld.i + 1
      /\ IsFiniteSet(heap) /\ Cardinality(heap) \in Nat /\ inst.cap \in Nat
      /\ LeafCount' = LeafCount /\ Groups' = Groups
      /\ Groups = 1 .. Len(plan.groups) /\ Len(plan.groups) \in Nat
  BY AtWork
<1>2. Building' /\ Ahead' = Ahead
  BY <1>1 DEF Building, Ahead
<1>3. /\ ThreadInv'
      /\ \A t \in Threads \ {x} : /\ thread'[t] = "ended" <=> thread[t] = "ended"
                                  /\ thread'[t] = "failed" <=> thread[t] = "failed"
                                  /\ thread'[t] = "fill" <=> thread[t] = "fill"
                                  /\ thread'[t] = "drain" <=> thread[t] = "drain"
  BY <1>2, OthersStay
<1>4. thread'[x] = s /\ thread' \in [Threads -> States] /\ waiters' \in Seq(Threads)
  BY DEF Moves
<1>5. Threads = Workers \cup Emitters /\ inst.emitters \subseteq Emitters /\ Workers \cap Emitters = {}
  BY ThreadSets
<1>6. BuildTypes'
  <2>1. heap' \in SUBSET (Int \X Nat)
    BY <1>1
  <2>2. closed' \in BOOLEAN
    BY DEF BuildInv, BuildTypes
  <2> QED BY <1>1, <1>4, <2>1, <2>2 DEF BuildTypes, States, Threads
<1>7. WaitInv'
  BY DEF WaitInv, LineInv
<1>8. HeapInv'
  <2>1. IsFiniteSet(heap') /\ Cardinality(heap') <= Cardinality(heap) /\ Cardinality(heap') \in Nat
    BY <1>1, FS_Subset, FS_CardinalityType
  <2>2. Cardinality(heap) <= inst.cap
    BY DEF BuildInv, HeapInv
  <2>3. \A y \in heap' : y[2] > Len(todo')
    <3> SUFFICES ASSUME NEW y \in heap' PROVE y[2] > Len(todo')
      OBVIOUS
    <3>1. y[2] > Len(todo) /\ y[2] \in Nat
      BY <1>1 DEF BuildInv, HeapInv
    <3>2. Len(todo') \in Nat
      OBVIOUS
    <3> QED BY <1>1, <3>1, <3>2
  <2> QED BY <1>1, <2>1, <2>2, <2>3 DEF HeapInv
<1>9. todo = <<>> => todo' = <<>>
  <2> SUFFICES ASSUME todo = <<>> PROVE todo' = <<>>
    OBVIOUS
  <2>1. Len(todo) = 0 /\ Len(todo') \in Nat
    OBVIOUS
  <2>2. Len(todo') = 0
    BY <2>1
  <2> QED BY <2>2, EmptySeq
<1>10. EndedInv'
  <2>1. \A w \in Workers : thread'[w] \notin {"fill", "drain"} => batch'[w] = <<>>
    <3> SUFFICES ASSUME NEW w \in Workers, thread'[w] \notin {"fill", "drain"} PROVE batch'[w] = <<>>
      OBVIOUS
    <3>1. CASE w = x
      BY <1>4, <3>1
    <3>2. CASE w # x
      <4>1. thread[w] \notin {"fill", "drain"}
        BY <1>3, <1>5, <3>2
      <4> QED BY <3>2, <4>1 DEF BuildInv, EndedInv
    <3> QED BY <3>1, <3>2
  <2>2. closed => \A e \in inst.emitters : thread'[e] = "ended"
    <3> SUFFICES ASSUME closed, NEW e \in inst.emitters PROVE thread'[e] = "ended"
      OBVIOUS
    <3>1. thread[e] = "ended" /\ e \in Threads /\ e \in Emitters
      BY <1>5 DEF BuildInv, EndedInv
    <3> QED BY <1>3, <1>4, <3>1
  <2>3. ~bld'.err => \A e \in inst.emitters : thread'[e] = "ended" => todo' = <<>>
    <3> SUFFICES ASSUME ~bld'.err, NEW e \in inst.emitters, thread'[e] = "ended" PROVE todo' = <<>>
      OBVIOUS
    <3>1. e \in Threads /\ e \in Emitters
      BY <1>5
    <3>2. CASE e = x
      BY <1>4, <3>1, <3>2
    <3>3. CASE e # x
      <4>1. thread[e] = "ended" /\ ~bld.err
        BY <1>3, <3>1, <3>3
      <4>2. todo = <<>>
        BY <4>1 DEF BuildInv, EndedInv
      <4> QED BY <1>9, <4>2
    <3> QED BY <3>2, <3>3
  <2>4. \A w \in Workers : thread'[w] = "ended" => closed /\ heap' = {}
    <3> SUFFICES ASSUME NEW w \in Workers, thread'[w] = "ended" PROVE closed /\ heap' = {}
      OBVIOUS
    <3>1. CASE w = x
      BY <1>4, <3>1
    <3>2. CASE w # x
      <4>1. thread[w] = "ended"
        BY <1>3, <1>5, <3>2
      <4>2. closed /\ heap = {}
        BY <4>1 DEF BuildInv, EndedInv
      <4> QED BY <4>2
    <3> QED BY <3>1, <3>2
  <2> QED BY <2>1, <2>2, <2>3, <2>4 DEF EndedInv
<1>11. PastInv'
  <2>1. \A g \in Groups : g < bld.i \/ g >= Ahead => g \in Groups \ {bld.i}
    BY <1>1
  <2>2. ~bld'.err => \A g \in Groups : g < bld.i => built'[g] = LeafCount[g]
    BY <2>1 DEF BuildInv, PastInv
  <2>3. \A g \in Groups : g >= Ahead => built'[g] = 0
    BY <2>1 DEF BuildInv, PastInv
  <2> QED BY <1>1, <1>2, <2>2, <2>3 DEF PastInv
<1>12. LeavesInv'
  <2> SUFFICES ASSUME NobodyFailed' PROVE LeavesInv'
    BY DEF LeavesInv
  <2>1. ~bld'.err /\ ~bld.err
    BY DEF NobodyFailed
  <2>2. s # "failed"
    <3>1. x \in Workers \/ x \in Emitters
      BY <1>5
    <3>2. "failed" \notin EmitterStates
      BY DEF EmitterStates
    <3> QED BY <1>4, <3>1, <3>2 DEF NobodyFailed
  <2>3. NobodyFailed
    <3> SUFFICES ASSUME NEW w \in Workers, w # x PROVE thread[w] # "failed"
      BY <2>1 DEF NobodyFailed
    <3> QED BY <1>3, <1>5 DEF NobodyFailed
  <2>4. Len(todo) + Cardinality(heap) + Sum(InBatches, Workers) + built[bld.i] = LeafCount[bld.i]
    BY <2>3 DEF BuildInv, LeavesInv
  <2>5. Len(todo') + Cardinality(heap') + Sum(InBatches', Workers) + built'[bld.i] = LeafCount[bld.i]
    BY <2>1, <2>2, <2>4
  <2> QED BY <1>1, <2>5 DEF LeavesInv
<1> QED BY <1>3, <1>6, <1>7, <1>8, <1>10, <1>11, <1>12 DEF BuildInv

\* An emitter whose wait timed out tries again.
LEMMA SubmitTimeoutStep ==
  ASSUME PlanInv, PipeInv, BuildInv, NEW e \in Emitters, SubmitTimeout(e)
  PROVE  BuildInv'
<1>1. /\ Building /\ thread[e] = "emitWait" /\ thread' = [thread EXCEPT ![e] = "emit"]
      /\ waiters' = RemoveFirst(waiters, e)
      /\ UNCHANGED <<inst, plan, bld, todo, heap, closed, batch, built>>
  BY DEF SubmitTimeout
<1>2. /\ thread \in [Threads -> States] /\ waiters \in Seq(Threads) /\ LineInv
      /\ todo \in Seq(Int) /\ batch \in [Workers -> Seq(Int)] /\ built \in [Groups -> Nat]
      /\ Len(todo) \in Nat
  BY <1>1, AtWork
<1>3. e \in Threads /\ e \notin Workers
  BY ThreadSets
<1>4. "emit" \in States /\ "emit" \notin Waiting /\ thread[e] \in Waiting /\ "emit" \in EmitterStates
  BY <1>1 DEF States, EmitterStates, Waiting
<1>5. Moves(e, "emit") /\ LineInv' /\ waiters # <<>>
  BY <1>1, <1>2, <1>3, <1>4, TimeoutMoves
<1>6. ~closed
  BY <1>1, <1>5 DEF BuildInv, WaitInv
<1>7. InBatches' = InBatches
  BY <1>1 DEF InBatches
<1>8. /\ bld'.pc = "build" /\ bld'.i = bld.i /\ (bld.err => bld'.err)
      /\ heap' \in SUBSET heap /\ todo' \in Seq(Int) /\ Len(todo') <= Len(todo)
      /\ batch' \in [Workers -> Seq(Int)] /\ (\A w \in Workers \ {e} : batch'[w] = batch[w])
      /\ built' \in [Groups -> Nat] /\ (\A g \in Groups \ {bld.i} : built'[g] = built[g])
  BY <1>1, <1>2 DEF Building
<1>9. Len(todo') + Cardinality(heap') + Sum(InBatches', Workers) + built'[bld.i]
        = Len(todo) + Cardinality(heap) + Sum(InBatches, Workers) + built[bld.i]
  BY <1>1, <1>7
<1>10. thread[e] \notin {"off", "failed"} /\ "emit" # "ended"
  BY <1>1
<1> QED BY <1>1, <1>3, <1>4, <1>5, <1>6, <1>8, <1>9, <1>10, ThreadStep

\* An emitter ends: nothing is left, or the builder knows of its error.
LEMMA EmitterEndsStep ==
  ASSUME PlanInv, PipeInv, BuildInv, NEW e \in Emitters, EmitterEnds(e)
  PROVE  BuildInv'
<1>1. /\ Building /\ thread[e] = "emit" /\ thread' = [thread EXCEPT ![e] = "ended"]
      /\ UNCHANGED <<inst, plan, heap, closed, waiters, batch, built>>
      /\ \/ todo = <<>> /\ UNCHANGED <<todo, bld>>
         \/ /\ \E k \in 0 .. Min({Len(todo), Cardinality(inst.emitters) - 1}) :
                 todo' = SubSeq(todo, 1, k)
            /\ bld' = [bld EXCEPT !.err = TRUE]
  BY DEF EmitterEnds
<1>2. /\ thread \in [Threads -> States] /\ waiters \in Seq(Threads) /\ LineInv
      /\ todo \in Seq(Int) /\ batch \in [Workers -> Seq(Int)] /\ built \in [Groups -> Nat]
      /\ Len(todo) \in Nat
  BY <1>1, AtWork
<1>3. e \in Threads /\ e \notin Workers /\ e \in inst.emitters
  BY <1>1, ThreadSets, ActiveThread
<1>4. "ended" \in States /\ "ended" \notin Waiting /\ thread[e] \notin Waiting /\ "ended" \in EmitterStates
  BY <1>1 DEF States, EmitterStates, Waiting
<1>5. Moves(e, "ended") /\ LineInv'
  BY <1>1, <1>2, <1>3, <1>4, PlainMoves
<1>6. ~closed
  BY <1>1, <1>3 DEF BuildInv, EndedInv
<1>7. InBatches' = InBatches
  BY <1>1 DEF InBatches
<1>10. /\ heap' \in SUBSET heap /\ thread[e] \notin {"off", "failed"}
       /\ batch' \in [Workers -> Seq(Int)] /\ (\A w \in Workers \ {e} : batch'[w] = batch[w])
       /\ built' \in [Groups -> Nat] /\ (\A g \in Groups \ {bld.i} : built'[g] = built[g])
  BY <1>1, <1>2
<1>8. CASE todo = <<>> /\ UNCHANGED <<todo, bld>>
  <2>1. bld'.pc = "build" /\ bld'.i = bld.i /\ (bld.err => bld'.err)
    BY <1>1, <1>8 DEF Building
  <2>2. todo' = <<>> /\ todo' \in Seq(Int) /\ Len(todo') <= Len(todo)
    BY <1>2, <1>8
  <2>3. Len(todo') + Cardinality(heap') + Sum(InBatches', Workers) + built'[bld.i]
          = Len(todo) + Cardinality(heap) + Sum(InBatches, Workers) + built[bld.i]
    BY <1>1, <1>7, <1>8
  <2> QED BY <1>1, <1>3, <1>4, <1>5, <1>6, <1>10, <2>1, <2>2, <2>3, ThreadStep
<1>9. CASE /\ \E k \in 0 .. Min({Len(todo), Cardinality(inst.emitters) - 1}) :
                todo' = SubSeq(todo, 1, k)
           /\ bld' = [bld EXCEPT !.err = TRUE]
  <2>1. bld'.pc = "build" /\ bld'.i = bld.i /\ bld'.err
    BY <1>1, <1>9 DEF Building, PipeInv, PipeTypes
  <2> DEFINE m == Cardinality(inst.emitters) - 1
  <2>2. m \in Int
    <3>1. IsFiniteSet(inst.emitters)
      BY ResidentAssumption, ThreadSets, FS_Subset
    <3> QED BY <3>1, FS_CardinalityType
  <2> HIDE DEF m
  <2>3. PICK k \in 0 .. Min({Len(todo), m}) : todo' = SubSeq(todo, 1, k)
    BY <1>9 DEF m
  <2>4. k \in Nat /\ k <= Len(todo)
    <3> DEFINE n == Len(todo)
    <3>1. n \in Int
      BY <1>2
    <3> HIDE DEF n
    <3>2. Min({n, m}) = IF n <= m THEN n ELSE m
      BY <2>2, <3>1, MinOfTwo
    <3>3. k \in 0 .. Min({n, m})
      BY <2>3 DEF n
    <3>4. k \in Nat /\ k <= n
      BY <2>2, <3>1, <3>2, <3>3
    <3> QED BY <3>4 DEF n
  <2>5. SubSeq(todo, 1, k) \in Seq(Int) /\ Len(SubSeq(todo, 1, k)) = k
    BY <1>2, <2>4
  <2>6. todo' \in Seq(Int) /\ Len(todo') <= Len(todo)
    BY <2>3, <2>4, <2>5
  <2> QED BY <1>1, <1>3, <1>4, <1>5, <1>6, <1>10, <2>1, <2>6, ThreadStep
<1> QED BY <1>1, <1>8, <1>9

\* Taking the largest leaf off the queue.
LEMMA TakeLargest ==
  ASSUME heap \in SUBSET (Int \X Nat), IsFiniteSet(heap), heap # {}, heap' = heap \ {Largest}
  PROVE  /\ heap' \in SUBSET heap /\ Cardinality(heap') = Cardinality(heap) - 1
         /\ Cardinality(heap) \in Nat /\ Cardinality(heap') \in Nat
<1>1. Largest \in heap
  BY LargestFacts
<1>2. /\ Cardinality(heap \ {Largest}) = Cardinality(heap) - 1 /\ IsFiniteSet(heap \ {Largest})
  BY <1>1, FS_RemoveElement
<1> QED BY <1>2, FS_CardinalityType

\* One batch changes: the sum over the workers follows it.
LEMMA BatchSum ==
  ASSUME IsFiniteSet(Workers), NEW w \in Workers,
         \A v \in Workers : InBatches[v] = Len(batch[v]) /\ InBatches[v] \in Nat,
         \A v \in Workers : InBatches'[v] = Len(batch'[v]) /\ InBatches'[v] \in Nat,
         \A v \in Workers : v # w => InBatches'[v] = InBatches[v]
  PROVE  Sum(InBatches', Workers) + InBatches[w] = Sum(InBatches, Workers) + InBatches'[w]
<1>1. \A v \in Workers : InBatches[v] \in Nat /\ InBatches'[v] \in Nat
  OBVIOUS
<1> QED BY <1>1, SumUpdate

\* A batch that changes its length changes the number of leaves in batches.
LEMMA BatchChanges ==
  ASSUME PlanInv, batch \in [Workers -> Seq(Int)], NEW w \in Workers, NEW b \in Seq(Int),
         batch' = [batch EXCEPT ![w] = b]
  PROVE  /\ batch' \in [Workers -> Seq(Int)] /\ batch'[w] = b
         /\ \A v \in Workers \ {w} : batch'[v] = batch[v]
         /\ Sum(InBatches', Workers) + Len(batch[w]) = Sum(InBatches, Workers) + Len(b)
         /\ Sum(InBatches', Workers) \in Nat /\ Sum(InBatches, Workers) \in Nat
<1>1. /\ batch' \in [Workers -> Seq(Int)] /\ batch'[w] = b
      /\ \A v \in Workers \ {w} : batch'[v] = batch[v]
  OBVIOUS
<1>2. /\ \A v \in Workers : InBatches[v] = Len(batch[v]) /\ InBatches[v] \in Nat
      /\ \A v \in Workers : InBatches'[v] = Len(batch'[v]) /\ InBatches'[v] \in Nat
  BY <1>1 DEF InBatches
<1>3. \A v \in Workers : v # w => InBatches'[v] = InBatches[v]
  BY <1>1, <1>2
<1>4. IsFiniteSet(Workers)
  BY ThreadSets
<1>5. Sum(InBatches', Workers) + InBatches[w] = Sum(InBatches, Workers) + InBatches'[w]
  BY <1>2, <1>3, <1>4, BatchSum, Zenon
<1>6. Sum(InBatches', Workers) \in Nat /\ Sum(InBatches, Workers) \in Nat
  BY <1>2, <1>4, SumNat
<1> QED BY <1>1, <1>2, <1>5, <1>6

\* A worker takes a leaf, finds the end of a closed queue, or waits.
LEMMA PopStep ==
  ASSUME PlanInv, PipeInv, BuildInv, NEW w \in Workers, Pop(w)
  PROVE  BuildInv'
<1>1. /\ Building /\ thread[w] = "pop" /\ UNCHANGED <<inst, plan, bld, todo, closed, built>>
  BY DEF Pop
<1>2. /\ thread \in [Threads -> States] /\ waiters \in Seq(Threads) /\ LineInv
      /\ todo \in Seq(Int) /\ batch \in [Workers -> Seq(Int)] /\ built \in [Groups -> Nat]
      /\ Len(todo) \in Nat /\ heap \in SUBSET (Int \X Nat) /\ IsFiniteSet(heap)
      /\ Cardinality(heap) \in Nat /\ bld.i \in Groups /\ Sum(InBatches, Workers) \in Nat
  BY <1>1, AtWork
<1>3. w \in Threads /\ w \notin Emitters
  BY ThreadSets
<1>4. /\ bld'.pc = "build" /\ bld'.i = bld.i /\ (bld.err => bld'.err)
      /\ todo' \in Seq(Int) /\ Len(todo') <= Len(todo)
      /\ built' \in [Groups -> Nat] /\ (\A g \in Groups \ {bld.i} : built'[g] = built[g])
      /\ thread[w] \notin {"off", "failed"} /\ thread[w] \notin Waiting
  BY <1>1, <1>2 DEF Building, Waiting
<1>5. batch[w] = <<>>
  BY <1>1 DEF BuildInv, EndedInv
<1>6. closed => waiters = <<>>
  BY <1>1 DEF BuildInv, WaitInv
<1>7. CASE /\ heap # {} /\ batch' = [batch EXCEPT ![w] = <<Largest[1]>>]
           /\ heap' = heap \ {Largest} /\ NotifyOne([thread EXCEPT ![w] = "fill"])
  <2>1. "fill" \in States /\ "fill" \notin Waiting /\ "fill" \in WorkerStates
    BY DEF States, WorkerStates, Waiting
  <2>2. Moves(w, "fill") /\ LineInv' /\ (waiters = <<>> => waiters' = <<>>)
    BY <1>2, <1>3, <1>4, <1>7, <2>1, NotifyMoves
  <2>3. /\ heap' \in SUBSET heap /\ Cardinality(heap') = Cardinality(heap) - 1
        /\ Cardinality(heap') \in Nat
    BY <1>2, <1>7, TakeLargest
  <2>4. Largest[1] \in Int
    BY <1>2, <1>7, LargestFacts
  <2> DEFINE b == <<Largest[1]>>
  <2>5. b \in Seq(Int) /\ Len(b) = 1
    BY <2>4
  <2> HIDE DEF b
  <2>6. batch' = [batch EXCEPT ![w] = b]
    BY <1>7 DEF b
  <2>7. /\ batch' \in [Workers -> Seq(Int)] /\ (\A v \in Workers \ {w} : batch'[v] = batch[v])
        /\ Sum(InBatches', Workers) + Len(batch[w]) = Sum(InBatches, Workers) + Len(b)
        /\ Sum(InBatches', Workers) \in Nat
    BY <1>2, <2>5, <2>6, BatchChanges
  <2>8. Sum(InBatches', Workers) = Sum(InBatches, Workers) + 1
    <3>1. Len(batch[w]) = 0
      BY <1>5
    <3> QED BY <1>2, <2>5, <2>7, <3>1
  <2>9. Len(todo') + Cardinality(heap') + Sum(InBatches', Workers) + built'[bld.i]
          = Len(todo) + Cardinality(heap) + Sum(InBatches, Workers) + built[bld.i]
    <3>1. todo' = todo /\ built'[bld.i] = built[bld.i] /\ built[bld.i] \in Nat
      BY <1>1, <1>2
    <3> QED BY <1>2, <2>3, <2>8, <3>1
  <2>10. "fill" # "ended" /\ (closed => waiters' = <<>>)
    BY <1>6, <2>2
  <2> QED BY <1>1, <1>3, <1>4, <2>1, <2>2, <2>3, <2>7, <2>9, <2>10, ThreadStep
<1>8. CASE heap = {} /\ UNCHANGED <<batch, heap>>
  <2>1. /\ InBatches' = InBatches /\ heap' \in SUBSET heap /\ heap' = {}
        /\ batch' \in [Workers -> Seq(Int)] /\ (\A v \in Workers \ {w} : batch'[v] = batch[v])
        /\ batch'[w] = <<>>
    BY <1>2, <1>5, <1>8 DEF InBatches
  <2>2. Len(todo') + Cardinality(heap') + Sum(InBatches', Workers) + built'[bld.i]
          = Len(todo) + Cardinality(heap) + Sum(InBatches, Workers) + built[bld.i]
    BY <1>1, <1>8, <2>1
  <2>3. CASE closed /\ thread' = [thread EXCEPT ![w] = "ended"] /\ waiters' = waiters
    <3>1. "ended" \in States /\ "ended" \notin Waiting /\ "ended" \in WorkerStates
      BY DEF States, WorkerStates, Waiting
    <3>2. Moves(w, "ended") /\ LineInv' /\ (closed => waiters' = <<>>)
      BY <1>2, <1>3, <1>4, <1>6, <2>3, <3>1, PlainMoves
    <3> QED BY <1>1, <1>3, <1>4, <2>1, <2>2, <2>3, <3>1, <3>2, ThreadStep
  <2>4. CASE ~closed /\ thread' = [thread EXCEPT ![w] = "popWait"] /\ waiters' = Append(waiters, w)
    <3>1. "popWait" \in States /\ "popWait" \in Waiting /\ "popWait" \in WorkerStates
      BY DEF States, WorkerStates, Waiting
    <3>2. Moves(w, "popWait") /\ LineInv' /\ "popWait" # "ended"
      BY <1>2, <1>3, <1>4, <2>4, <3>1, WaitMoves
    <3> QED BY <1>1, <1>3, <1>4, <2>1, <2>2, <2>4, <3>1, <3>2, ThreadStep
  <2> QED BY <1>8, <2>3, <2>4 DEF Pop
<1> QED BY <1>7, <1>8 DEF Pop

\* A batch takes one more leaf, or is full.
LEMMA FillBatchStep ==
  ASSUME PlanInv, PipeInv, BuildInv, NEW w \in Workers, FillBatch(w)
  PROVE  BuildInv'
<1>1. /\ Building /\ thread[w] = "fill" /\ UNCHANGED <<inst, plan, bld, todo, closed, built>>
  BY DEF FillBatch
<1>2. /\ thread \in [Threads -> States] /\ waiters \in Seq(Threads) /\ LineInv
      /\ todo \in Seq(Int) /\ batch \in [Workers -> Seq(Int)] /\ built \in [Groups -> Nat]
      /\ Len(todo) \in Nat /\ heap \in SUBSET (Int \X Nat) /\ IsFiniteSet(heap)
      /\ Cardinality(heap) \in Nat /\ bld.i \in Groups /\ Sum(InBatches, Workers) \in Nat
  BY <1>1, AtWork
<1>3. w \in Threads /\ w \notin Emitters
  BY ThreadSets
<1>4. /\ bld'.pc = "build" /\ bld'.i = bld.i /\ (bld.err => bld'.err)
      /\ todo' \in Seq(Int) /\ Len(todo') <= Len(todo)
      /\ built' \in [Groups -> Nat] /\ (\A g \in Groups \ {bld.i} : built'[g] = built[g])
      /\ thread[w] \notin {"off", "failed"} /\ thread[w] \notin Waiting
  BY <1>1, <1>2 DEF Building, Waiting
<1>6. closed => waiters = <<>>
  BY <1>1 DEF BuildInv, WaitInv
<1>7. CASE /\ heap # {} /\ batch' = [batch EXCEPT ![w] = Append(batch[w], Largest[1])]
           /\ heap' = heap \ {Largest} /\ NotifyOne(thread)
  <2>1. "fill" \in States /\ "fill" \notin Waiting /\ "fill" \in WorkerStates
    BY DEF States, WorkerStates, Waiting
  <2>2. Moves(w, "fill") /\ LineInv' /\ (waiters = <<>> => waiters' = <<>>)
    <3>1. [thread EXCEPT ![w] = "fill"] = thread
      BY <1>1, <1>2, <1>3
    <3> QED BY <1>2, <1>3, <1>4, <1>7, <2>1, <3>1, NotifyMoves
  <2>3. /\ heap' \in SUBSET heap /\ Cardinality(heap') = Cardinality(heap) - 1
        /\ Cardinality(heap') \in Nat
    BY <1>2, <1>7, TakeLargest
  <2>4. Largest[1] \in Int
    BY <1>2, <1>7, LargestFacts
  <2> DEFINE b == Append(batch[w], Largest[1])
  <2>5. b \in Seq(Int) /\ Len(b) = Len(batch[w]) + 1 /\ Len(batch[w]) \in Nat
    BY <1>2, <2>4
  <2> HIDE DEF b
  <2>6. batch' = [batch EXCEPT ![w] = b]
    BY <1>7 DEF b
  <2>7. /\ batch' \in [Workers -> Seq(Int)] /\ (\A v \in Workers \ {w} : batch'[v] = batch[v])
        /\ Sum(InBatches', Workers) + Len(batch[w]) = Sum(InBatches, Workers) + Len(b)
        /\ Sum(InBatches', Workers) \in Nat
    BY <1>2, <2>5, <2>6, BatchChanges
  <2>8. Sum(InBatches', Workers) = Sum(InBatches, Workers) + 1
    <3>1. \A s, r, m, n \in Nat : r + m = s + n /\ n = m + 1 => r = s + 1
      OBVIOUS
    <3>2. Sum(InBatches, Workers) \in Nat /\ Len(b) \in Nat /\ Len(batch[w]) \in Nat
      BY <1>2, <2>5
    <3> QED BY <2>5, <2>7, <3>1, <3>2
  <2>9. Len(todo') + Cardinality(heap') + Sum(InBatches', Workers) + built'[bld.i]
          = Len(todo) + Cardinality(heap) + Sum(InBatches, Workers) + built[bld.i]
    <3>1. todo' = todo /\ built'[bld.i] = built[bld.i] /\ built[bld.i] \in Nat
      BY <1>1, <1>2
    <3> QED BY <1>2, <2>3, <2>8, <3>1
  <2>10. "fill" # "ended" /\ (closed => waiters' = <<>>)
    BY <1>6, <2>2
  <2> QED BY <1>1, <1>3, <1>4, <2>1, <2>2, <2>3, <2>7, <2>9, <2>10, ThreadStep
<1>8. CASE thread' = [thread EXCEPT ![w] = "drain"] /\ UNCHANGED <<batch, heap, waiters>>
  <2>1. /\ InBatches' = InBatches /\ heap' \in SUBSET heap
        /\ batch' \in [Workers -> Seq(Int)] /\ (\A v \in Workers \ {w} : batch'[v] = batch[v])
    BY <1>2, <1>8 DEF InBatches
  <2>2. Len(todo') + Cardinality(heap') + Sum(InBatches', Workers) + built'[bld.i]
          = Len(todo) + Cardinality(heap) + Sum(InBatches, Workers) + built[bld.i]
    BY <1>1, <1>8, <2>1
  <2>3. "drain" \in States /\ "drain" \notin Waiting /\ "drain" \in WorkerStates
    BY DEF States, WorkerStates, Waiting
  <2>4. Moves(w, "drain") /\ LineInv' /\ (closed => waiters' = <<>>) /\ "drain" # "ended"
    BY <1>2, <1>3, <1>4, <1>6, <1>8, <2>3, PlainMoves
  <2> QED BY <1>1, <1>3, <1>4, <2>1, <2>2, <2>3, <2>4, ThreadStep
<1>9. MayGrow(w) => heap # {}
  BY DEF MayGrow
<1> QED BY <1>7, <1>8, <1>9 DEF FillBatch

\* A leaf of a batch is worked on, or fails and takes the worker with it.
LEMMA DrainLeafStep ==
  ASSUME PlanInv, PipeInv, BuildInv, NEW w \in Workers, DrainLeaf(w)
  PROVE  BuildInv'
<1>1. /\ Building /\ thread[w] = "drain" /\ UNCHANGED <<inst, plan, bld, todo, heap, closed, waiters>>
  BY DEF DrainLeaf
<1>2. /\ thread \in [Threads -> States] /\ waiters \in Seq(Threads) /\ LineInv
      /\ todo \in Seq(Int) /\ batch \in [Workers -> Seq(Int)] /\ built \in [Groups -> Nat]
      /\ Len(todo) \in Nat /\ Cardinality(heap) \in Nat /\ bld.i \in Groups
      /\ Sum(InBatches, Workers) \in Nat
  BY <1>1, AtWork
<1>3. w \in Threads /\ w \notin Emitters
  BY ThreadSets
<1>4. /\ bld'.pc = "build" /\ bld'.i = bld.i /\ (bld.err => bld'.err)
      /\ todo' \in Seq(Int) /\ Len(todo') <= Len(todo) /\ heap' \in SUBSET heap
      /\ thread[w] \notin {"off", "failed"} /\ thread[w] \notin Waiting
  BY <1>1, <1>2 DEF Building, Waiting
<1>5. closed => waiters' = <<>>
  BY <1>1 DEF BuildInv, WaitInv
<1>6. CASE batch[w] = <<>> /\ thread' = [thread EXCEPT ![w] = "pop"] /\ UNCHANGED <<batch, built>>
  <2>1. /\ InBatches' = InBatches /\ batch'[w] = <<>>
        /\ batch' \in [Workers -> Seq(Int)] /\ (\A v \in Workers \ {w} : batch'[v] = batch[v])
        /\ built' \in [Groups -> Nat] /\ (\A g \in Groups \ {bld.i} : built'[g] = built[g])
    BY <1>2, <1>6 DEF InBatches
  <2>2. Len(todo') + Cardinality(heap') + Sum(InBatches', Workers) + built'[bld.i]
          = Len(todo) + Cardinality(heap) + Sum(InBatches, Workers) + built[bld.i]
    BY <1>1, <1>6, <2>1
  <2>3. "pop" \in States /\ "pop" \notin Waiting /\ "pop" \in WorkerStates
    BY DEF States, WorkerStates, Waiting
  <2>4. Moves(w, "pop") /\ LineInv' /\ "pop" # "ended"
    BY <1>1, <1>2, <1>3, <1>4, <1>6, <2>3, PlainMoves
  <2> QED BY <1>1, <1>3, <1>4, <1>5, <2>1, <2>2, <2>3, <2>4, ThreadStep
<1>7. CASE /\ batch[w] # <<>> /\ batch' = [batch EXCEPT ![w] = Tail(batch[w])]
           /\ built' = [built EXCEPT ![bld.i] = built[bld.i] + 1] /\ UNCHANGED thread
  <2>1. "drain" \in States /\ "drain" \notin Waiting /\ "drain" \in WorkerStates
    BY DEF States, WorkerStates, Waiting
  <2>2. Moves(w, "drain") /\ LineInv' /\ "drain" # "ended"
    <3>1. thread' = [thread EXCEPT ![w] = "drain"]
      BY <1>1, <1>2, <1>3, <1>7
    <3> QED BY <1>1, <1>2, <1>3, <1>4, <2>1, <3>1, PlainMoves
  <2> DEFINE b == Tail(batch[w])
  <2>3. b \in Seq(Int) /\ Len(b) = Len(batch[w]) - 1 /\ Len(batch[w]) \in Nat /\ Len(b) \in Nat
    BY <1>2, <1>7, TailFacts
  <2> HIDE DEF b
  <2>4. batch' = [batch EXCEPT ![w] = b]
    BY <1>7 DEF b
  <2>5. /\ batch' \in [Workers -> Seq(Int)] /\ (\A v \in Workers \ {w} : batch'[v] = batch[v])
        /\ Sum(InBatches', Workers) + Len(batch[w]) = Sum(InBatches, Workers) + Len(b)
        /\ Sum(InBatches', Workers) \in Nat
    BY <1>2, <2>3, <2>4, BatchChanges
  <2>6. Sum(InBatches', Workers) = Sum(InBatches, Workers) - 1
    <3>1. \A s, r, m, n \in Nat : r + m = s + n /\ n = m - 1 => r = s - 1
      OBVIOUS
    <3>2. Sum(InBatches, Workers) \in Nat /\ Len(b) \in Nat /\ Len(batch[w]) \in Nat
      BY <1>2, <2>3
    <3> QED BY <2>3, <2>5, <3>1, <3>2
  <2>7. /\ built' \in [Groups -> Nat] /\ built'[bld.i] = built[bld.i] + 1 /\ built[bld.i] \in Nat
        /\ \A g \in Groups \ {bld.i} : built'[g] = built[g]
    BY <1>2, <1>7
  <2>8. Len(todo') + Cardinality(heap') + Sum(InBatches', Workers) + built'[bld.i]
          = Len(todo) + Cardinality(heap) + Sum(InBatches, Workers) + built[bld.i]
    <3>1. todo' = todo /\ heap' = heap
      BY <1>1
    <3> QED BY <1>2, <2>6, <2>7, <3>1
  <2> QED BY <1>1, <1>3, <1>4, <1>5, <2>1, <2>2, <2>5, <2>7, <2>8, ThreadStep
<1>8. CASE /\ batch' = [batch EXCEPT ![w] = <<>>] /\ thread' = [thread EXCEPT ![w] = "failed"]
           /\ UNCHANGED built
  <2>1. /\ batch' \in [Workers -> Seq(Int)] /\ (\A v \in Workers \ {w} : batch'[v] = batch[v])
        /\ batch'[w] = <<>>
        /\ built' \in [Groups -> Nat] /\ (\A g \in Groups \ {bld.i} : built'[g] = built[g])
    <3>1. <<>> \in Seq(Int)
      OBVIOUS
    <3> QED BY <1>2, <1>8, <3>1
  <2>2. "failed" \in States /\ "failed" \notin Waiting /\ "failed" \in WorkerStates
    BY DEF States, WorkerStates, Waiting
  <2>3. Moves(w, "failed") /\ LineInv' /\ "failed" # "ended"
    BY <1>1, <1>2, <1>3, <1>4, <1>8, <2>2, PlainMoves
  <2> QED BY <1>1, <1>3, <1>4, <1>5, <2>1, <2>2, <2>3, ThreadStep
<1> QED BY <1>6, <1>7, <1>8 DEF DrainLeaf

-----------------------------------------------------------------------------
(* The invariant is inductive.                                             *)

\* A call starts with nothing in memory.
LEMMA InitInv ==
  ASSUME Init
  PROVE  IInv
<1>1. /\ inst \in Instances
      /\ plan = ResidentDecision(inst.runs, inst.config, inst.n, inst.dim, inst.cmax, inst.width)
      /\ live = 0 /\ ready = <<>> /\ rx = TRUE
      /\ hyd = [pc |-> IF Pipelined THEN "next" ELSE "done", i |-> 1, ok |-> TRUE]
      /\ bld = [pc |-> "start", i |-> 1, err |-> plan.refused]
      /\ todo = <<>> /\ heap = {} /\ closed = FALSE /\ waiters = <<>>
      /\ thread = Idle /\ batch = [w \in Workers |-> <<>>]
      /\ built = [g \in Groups |-> 0]
  BY DEF Init
<1>2. PlanInv
  BY <1>1 DEF PlanInv
<1>3. /\ Len(plan.groups) \in Nat /\ Groups = 1 .. Len(plan.groups) /\ plan.refused \in BOOLEAN
      /\ plan.slots \in 1..4 /\ inst.cap \in Nat \ {0} /\ Budget \in Nat
  BY <1>2, PlanFacts
<1>4. /\ hyd.pc \in {"next", "done"} /\ (~Pipelined => hyd.pc = "done") /\ hyd.i = 1
      /\ bld.pc = "start" /\ bld.i = 1 /\ ~Building /\ Ahead = 1
  BY <1>1 DEF Building, Ahead
<1>5. PipeTypes
  <2>1. hyd \in [pc : HydratorStates, i : 1 .. Len(plan.groups) + 1, ok : BOOLEAN]
    BY <1>1, <1>3 DEF HydratorStates
  <2>2. bld \in [pc : BuilderStates, i : 1 .. Len(plan.groups) + 1, err : BOOLEAN]
    BY <1>1, <1>3 DEF BuilderStates
  <2>3. <<>> \in Seq(0 .. Len(plan.groups))
    OBVIOUS
  <2>4. ready \in Seq(0 .. Len(plan.groups))
    BY <1>1, <2>3
  <2> QED BY <1>1, <2>1, <2>2, <2>4 DEF PipeTypes
<1>6. OrderInv
  <2>1. DOMAIN ready = {} /\ Len(ready) = 0
    BY <1>1
  <2>2. Len(ready) <= ReadyCap
    <3>1. ReadyCap = IF plan.slots <= Len(plan.groups) THEN plan.slots ELSE Len(plan.groups)
      BY <1>3, MinOfTwo DEF ReadyCap
    <3> QED BY <1>3, <2>1, <3>1
  <2> QED BY <1>1, <1>4, <2>1, <2>2 DEF OrderInv
<1>7. BuilderInv
  BY <1>1, <1>4 DEF BuilderInv, Building
<1>8. BytesInv
  <2>1. HoldingBytes = {}
    BY <1>1, <1>4 DEF HoldingBytes, ToSet
  <2>2. Sum(PermitBytes, {}) = 0
    BY SumEmpty
  <2> QED BY <1>1, <1>3, <2>1, <2>2 DEF BytesInv
<1>9. BuildTypes
  <2>1. thread \in [Threads -> WorkerStates \cup EmitterStates]
    BY <1>1 DEF Idle, WorkerStates
  <2>2. <<>> \in Seq(Int) /\ <<>> \in Seq(Threads)
    OBVIOUS
  <2>3. todo \in Seq(Int) /\ waiters \in Seq(Threads) /\ batch \in [Workers -> Seq(Int)]
    BY <1>1, <2>2
  <2>4. built \in [Groups -> Nat] /\ heap \in SUBSET (Int \X Nat)
    BY <1>1
  <2>5. closed \in BOOLEAN
    BY <1>1
  <2> QED BY <2>1, <2>3, <2>4, <2>5 DEF BuildTypes
<1>10. \A t \in Threads : thread[t] = "off"
  BY <1>1 DEF Idle
<1>11. ThreadInv
  BY <1>10, <1>2, ThreadSets DEF ThreadInv, WorkerStates, EmitterStates
<1>12. WaitInv
  <2>1. DOMAIN waiters = {}
    BY <1>1
  <2> QED BY <1>4, <1>10, <2>1 DEF WaitInv, Waiting
<1>13. HeapInv
  <2>1. IsFiniteSet(heap) /\ Cardinality(heap) = 0
    BY <1>1, FS_EmptySet
  <2> QED BY <1>1, <1>3, <2>1 DEF HeapInv
<1>14. EndedInv
  <2>1. \A w \in Workers : batch[w] = <<>>
    BY <1>1
  <2> QED BY <1>4, <2>1 DEF EndedInv
<1>15. PastInv
  <2>1. \A g \in Groups : ~(g < bld.i) /\ built[g] = 0
    BY <1>1, <1>3, <1>4
  <2> QED BY <2>1 DEF PastInv
<1>16. LeavesInv
  BY <1>4 DEF LeavesInv
<1> QED BY <1>2, <1>5, <1>6, <1>7, <1>8, <1>9, <1>11, <1>12, <1>13, <1>14, <1>15, <1>16
        DEF IInv, PipeInv, BuildInv

\* The steps of the hydrator do not touch the group under construction.
LEMMA HydratorInv ==
  ASSUME IInv, HydratorStep
  PROVE  IInv'
<1>0. PlanInv /\ PipeInv /\ BuildInv
  BY DEF IInv
<1>1. PlanInv' /\ PipeInv'
  BY <1>0, NextGroupStep, AcquireStep, HydrateStep, SendReadyStep DEF HydratorStep
<1>2. UNCHANGED <<inst, plan, bld, build, built>>
  BY DEF HydratorStep, NextGroup, Acquire, Hydrate, SendReady
<1>3. BuildInv'
  BY <1>0, <1>2, BuildKept
<1> QED BY <1>1, <1>3 DEF IInv

\* The steps of the builder: a group begins and ends, or the call does.
LEMMA BuilderStepInv ==
  ASSUME IInv, BuilderStep
  PROVE  IInv'
<1>0. PlanInv /\ PipeInv /\ BuildInv /\ PipeTypes
  BY DEF IInv, PipeInv
<1>1. CASE SerialGroup
  <2>1. PlanInv' /\ PipeInv'
    BY <1>0, <1>1, SerialGroupStep
  <2>2. UNCHANGED <<inst, plan, built>> /\ bld.pc = "start" /\ bld.i <= Len(plan.groups)
    BY <1>1 DEF SerialGroup
  <2>3. CASE BeginBuild(bld.i)
    <3>1. BuildInv'
      BY <1>0, <2>2, <2>3, BeginStep
    <3> QED BY <2>1, <3>1 DEF IInv
  <2>4. CASE bld' = [bld EXCEPT !.pc = "join", !.err = TRUE] /\ UNCHANGED build
    <3>1. ~Building /\ ~Building' /\ bld'.i = bld.i /\ bld'.err
      BY <1>0, <2>2, <2>4 DEF PipeTypes, Building
    <3>2. BuildInv'
      BY <1>0, <2>2, <2>4, <3>1, BuildKept
    <3> QED BY <2>1, <3>2 DEF IInv
  <2> QED BY <1>1, <2>3, <2>4 DEF SerialGroup
<1>2. CASE RecvReady
  <2>1. PlanInv' /\ PipeInv'
    BY <1>0, <1>2, RecvReadyStep
  <2>2. UNCHANGED <<inst, plan, built>> /\ bld.pc = "start" /\ bld.i <= Len(plan.groups)
    BY <1>2 DEF RecvReady
  <2>3. CASE BeginBuild(bld.i)
    <3>1. BuildInv'
      BY <1>0, <2>2, <2>3, BeginStep
    <3> QED BY <2>1, <3>1 DEF IInv
  <2>4. CASE bld' = [bld EXCEPT !.pc = "drop", !.err = TRUE] /\ UNCHANGED build
    <3>1. ~Building /\ ~Building' /\ bld'.i = bld.i /\ bld'.err
      BY <1>0, <2>2, <2>4 DEF PipeTypes, Building
    <3>2. BuildInv'
      BY <1>0, <2>2, <2>4, <3>1, BuildKept
    <3> QED BY <2>1, <3>2 DEF IInv
  <2> QED BY <1>2, <2>3, <2>4 DEF RecvReady
<1>3. CASE LoopEnds \/ DropReceiver \/ RaiseAbort \/ Return
  <2>1. PlanInv' /\ PipeInv'
    BY <1>0, <1>3, LoopEndsStep, DropReceiverStep, RaiseAbortStep, ReturnStep
  <2>2. UNCHANGED <<inst, plan, build, built>>
    BY <1>3 DEF LoopEnds, DropReceiver, RaiseAbort, Return
  <2>3. ~Building /\ ~Building' /\ bld'.i = bld.i /\ bld'.err = bld.err
    <3>1. CASE LoopEnds
      BY <1>0, <3>1 DEF LoopEnds, PipeTypes, Building
    <3>2. CASE DropReceiver \/ RaiseAbort \/ Return
      BY <1>0, <3>2 DEF DropReceiver, RaiseAbort, Return, PipeTypes, Building
    <3> QED BY <1>3, <3>1, <3>2
  <2>4. BuildInv'
    BY <1>0, <2>2, <2>3, BuildKept
  <2> QED BY <2>1, <2>4 DEF IInv
<1>4. CASE CloseQueue
  <2>1. UNCHANGED <<inst, plan, live, hyd, ready, rx, bld>>
    BY <1>4 DEF CloseQueue
  <2>2. PlanInv' /\ PipeInv'
    BY <1>0, <2>1, PipeKept
  <2> QED BY <1>0, <1>4, <2>2, CloseQueueStep DEF IInv
<1>5. CASE EndGroup
  BY <1>0, <1>5, EndGroupPipe, EndGroupStep DEF IInv
<1> QED BY <1>1, <1>2, <1>3, <1>4, <1>5 DEF BuilderStep

\* The steps of the workers and emitters do not touch the pipeline, but for the
\* error an emitter notes.
LEMMA ThreadsInv ==
  ASSUME IInv, \/ \E w \in Workers : WorkerStep(w)
               \/ \E e \in Emitters : EmitterStep(e)
  PROVE  IInv'
<1>0. PlanInv /\ PipeInv /\ BuildInv
  BY DEF IInv
<1>1. ASSUME NEW w \in Workers, WorkerStep(w) PROVE IInv'
  <2>1. UNCHANGED <<inst, plan, live, hyd, ready, rx, bld>>
    BY <1>1 DEF WorkerStep, Pop, FillBatch, DrainLeaf
  <2>2. PlanInv' /\ PipeInv'
    BY <1>0, <2>1, PipeKept
  <2>3. BuildInv'
    BY <1>0, <1>1, PopStep, FillBatchStep, DrainLeafStep DEF WorkerStep
  <2> QED BY <2>2, <2>3 DEF IInv
<1>2. ASSUME NEW e \in Emitters, EmitterStep(e) PROVE IInv'
  <2>1. /\ UNCHANGED <<inst, plan, live, hyd, ready, rx>>
        /\ bld' = bld \/ (Building /\ bld' = [bld EXCEPT !.err = TRUE])
    BY <1>2 DEF EmitterStep, Submit, SubmitTimeout, EmitterEnds
  <2>2. PlanInv' /\ PipeInv'
    BY <1>0, <2>1, PipeKept
  <2>3. BuildInv'
    BY <1>0, <1>2, SubmitStep, SubmitTimeoutStep, EmitterEndsStep DEF EmitterStep
  <2> QED BY <2>2, <2>3 DEF IInv
<1> QED BY <1>1, <1>2

\* Every step keeps the invariant.
LEMMA NextInv ==
  ASSUME IInv, [Next]_vars
  PROVE  IInv'
<1>1. CASE HydratorStep
  BY <1>1, HydratorInv
<1>2. CASE BuilderStep
  BY <1>2, BuilderStepInv
<1>3. CASE UNCHANGED vars
  <2>0. PlanInv /\ PipeInv /\ BuildInv
    BY DEF IInv
  <2>1. UNCHANGED <<inst, plan, live, hyd, ready, rx, bld, build, built>>
    BY <1>3 DEF vars
  <2>2. PlanInv' /\ PipeInv'
    BY <2>0, <2>1, PipeKept
  <2>3. BuildInv'
    BY <2>0, <2>1, BuildKept
  <2> QED BY <2>2, <2>3 DEF IInv
<1>4. CASE Done
  BY <1>3, <1>4 DEF Done
<1>5. CASE \/ \E w \in Workers : WorkerStep(w)
           \/ \E e \in Emitters : EmitterStep(e)
  BY <1>5, ThreadsInv
<1> QED BY <1>1, <1>2, <1>3, <1>4, <1>5 DEF Next

\* The inductive invariant holds throughout every call.
LEMMA Invariance == Spec => []IInv
<1>1. Init => IInv
  BY InitInv
<1>2. IInv /\ [Next]_vars => IInv'
  BY NextInv
<1> QED BY <1>1, <1>2, PTL DEF Spec

-----------------------------------------------------------------------------
(* The theorems.                                                           *)

\* The pipeline, the morsel queue and its line of waiters keep their types.
LEMMA TypesFollow ==
  ASSUME IInv
  PROVE  TypeOK
<1>0. PlanInv /\ PipeInv /\ BuildInv /\ PipeTypes
  BY DEF IInv, PipeInv
<1>1. plan.slots \in 1 .. 4
  BY <1>0, PlanFacts
<1>2. live \in Nat
  <2>1. HoldingBytes \in SUBSET Groups /\ IsFiniteSet(HoldingBytes)
    BY <1>0, HoldingFacts DEF PipeInv
  <2>2. \A g \in HoldingBytes : PermitBytes[g] \in Nat
    BY <1>0, <2>1, PlanFacts
  <2>3. Sum(PermitBytes, HoldingBytes) \in Nat
    BY <2>1, <2>2, SumNat
  <2> QED BY <1>0, <2>3 DEF PipeInv, BytesInv
<1>3. Len(ready) <= ReadyCap
  BY <1>0 DEF PipeInv, OrderInv
<1>4. /\ hyd.pc \in {"next", "acquire", "load", "send", "done"}
      /\ bld.pc \in {"start", "build", "drop", "join", "returned"}
      /\ hyd.i \in 1 .. Len(plan.groups) + 1 /\ bld.i \in 1 .. Len(plan.groups) + 1
  BY <1>0 DEF PipeTypes, HydratorStates, BuilderStates
<1>5. Cardinality(heap) <= inst.cap
  BY <1>0 DEF BuildInv, HeapInv
<1>6. \A t \in Threads : thread[t] \in {"off", "pop", "popWait", "fill", "drain", "ended",
                                        "failed", "emit", "emitWait"}
  BY <1>0 DEF BuildInv, BuildTypes, WorkerStates, EmitterStates
<1>7. ToSet(waiters) = {t \in Threads : thread[t] \in {"popWait", "emitWait"}}
  <2>1. \A i \in DOMAIN waiters : waiters[i] \in Threads
    BY <1>0 DEF BuildInv, BuildTypes
  <2> QED BY <1>0, <2>1 DEF BuildInv, WaitInv, Waiting, ToSet
<1> QED BY <1>1, <1>2, <1>3, <1>4, <1>5, <1>6, <1>7 DEF TypeOK

\* For every set of runs, every configuration and every number of threads, the
\* call, its threads, the queue and the limiter keep their types, the ready
\* queue and the morsel queue never outgrow their capacities, and the threads in
\* the line of the condition variable are exactly those that sleep
\* (D1ResidentLeafMorselQueue, process_d1_resident_subtree_groups).
THEOREM TypeCorrect == Spec => []TypeOK
<1>1. IInv => TypeOK
  BY TypesFollow
<1> QED BY <1>1, Invariance, PTL

\* A call that has returned holds nothing: its hydrator is through and the queue empty.
LEMMA BytesFollow ==
  ASSUME IInv
  PROVE  BytesBounded
<1>0. PlanInv /\ PipeInv /\ BytesInv /\ BuilderInv
  BY DEF IInv, PipeInv
<1>1. ASSUME bld.pc = "returned" PROVE live = 0
  <2>1. ready = <<>> /\ hyd.pc = "done" /\ ~Building
    BY <1>0, <1>1 DEF BuilderInv, Building
  <2>2. HoldingBytes = {}
    BY <2>1 DEF HoldingBytes, ToSet
  <2> QED BY <1>0, <2>2, SumEmpty DEF BytesInv
<1> QED BY <1>0, <1>1 DEF BytesInv, BytesBounded, Sum

\* Whatever the sizes of the groups and wherever I/O errors strike, the limiter
\* counts exactly the bytes of the groups in memory, exceeds its budget only for
\* one group that is larger than all of it, and is back at zero when the call
\* has returned (D1ResidentSubtreeLimiter, D1ResidentSubtreePermit).
THEOREM BytesAreBounded == Spec => []BytesBounded
<1>1. IInv => BytesBounded
  BY BytesFollow
<1> QED BY <1>1, Invariance, PTL

\* A call without an error has been through every group, each with all its leaves.
LEMMA LeavesFollow ==
  ASSUME IInv
  PROVE  OkBuildsEveryLeaf
<1> SUFFICES ASSUME bld.pc = "returned", ~bld.err
             PROVE  /\ \A g \in Groups : built[g] = Len(LeavesOf(g))
                    /\ Filled(inst.runs) = Filled(plan.levelwise) + Sum(FilledOf(plan.groups), Groups)
  BY DEF OkBuildsEveryLeaf, Filled, FilledOf, Sum, Groups
<1>0. PlanInv /\ PipeInv /\ PastInv /\ BuilderInv /\ PipeTypes
  BY DEF IInv, PipeInv, BuildInv
<1>1. bld.i = Len(plan.groups) + 1 /\ Groups = 1 .. Len(plan.groups) /\ Len(plan.groups) \in Nat
  BY <1>0, PipeFacts DEF BuilderInv
<1>2. \A g \in Groups : g < bld.i
  BY <1>1
<1>3. \A g \in Groups : built[g] = LeafCount[g]
  BY <1>0, <1>2 DEF PastInv
<1>4. \A g \in Groups : built[g] = Len(LeavesOf(g))
  BY <1>3 DEF LeafCount
<1> QED BY <1>0, <1>4, PlanFacts

\* A call that returns Ok has built every leaf of every group once, and its
\* groups together with the runs left to the level scan are all the runs with
\* points, for every set of runs, every plan and every schedule of the threads
\* (D1ResidentLeafMorselQueue, finish_d1_resident_leaf_morsels).
THEOREM EveryLeafIsBuilt == Spec => []OkBuildsEveryLeaf
<1>1. IInv => OkBuildsEveryLeaf
  BY LeavesFollow
<1> QED BY <1>1, Invariance, PTL
=============================================================================
