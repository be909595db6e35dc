---------------------------- MODULE DataTheorems ----------------------------
(***************************************************************************)
(* Facts about data that the proofs share: sums over finite sets, as the   *)
(* models write them with MapThenSumSet, arithmetic, sequences, and        *)
(* induction stated with sets instead of predicates.  The library's        *)
(* theorem WFMin (every non-empty set has a minimal element) stands in for *)
(* the induction rules that take an operator.                              *)
(***************************************************************************)
EXTENDS SeqTools, FiniteSetsExt, FiniteSetTheorems, SequenceTheorems, WellFoundedInduction, TLAPS

-----------------------------------------------------------------------------
(* Induction.                                                              *)

\* A non-empty set of naturals has a least element.
LEMMA LeastNat ==
  ASSUME NEW T, T \subseteq Nat, T # {}
  PROVE  \E n \in T : \A m \in T : n <= m
<1> DEFINE less == {ss \in Nat \X Nat : ss[1] < ss[2]}
<1>1. IsWellFoundedOn(less, Nat)
  BY NatLessThanWellFounded DEF OpToRel
<1> HIDE DEF less
<1>2. PICK n \in T : \A m \in T : <<m, n>> \notin less
  BY <1>1, WFMin
<1>3. ASSUME NEW m \in T PROVE n <= m
  <2>1. <<m, n>> \in Nat \X Nat /\ <<m, n>> \notin less
    BY <1>2
  <2>2. ~(m < n)
    BY <2>1 DEF less
  <2> QED BY <2>2
<1> QED BY <1>2, <1>3

\* A set that holds 0 and with each natural the next one holds them all.
LEMMA NatSetInduction ==
  ASSUME NEW C, 0 \in C, \A n \in Nat : n \in C => n + 1 \in C
  PROVE  \A n \in Nat : n \in C
<1> SUFFICES ASSUME Nat \ C # {} PROVE FALSE
  OBVIOUS
<1>1. PICK n \in Nat \ C : \A m \in Nat \ C : n <= m
  BY LeastNat
<1>2. n # 0 /\ n - 1 \in Nat
  BY <1>1
<1>3. n - 1 \in C
  BY <1>1, <1>2
<1> QED BY <1>1, <1>2, <1>3

\* A family of subsets of a finite set S that holds T whenever it holds every proper
\* subset of T holds S.
LEMMA FiniteSetInduction ==
  ASSUME NEW S, IsFiniteSet(S), NEW C,
         \A T \in SUBSET S : (\A U \in SUBSET T : U # T => U \in C) => T \in C
  PROVE  S \in C
<1> SUFFICES ASSUME S \notin C PROVE FALSE
  OBVIOUS
<1> DEFINE Bad == {T \in SUBSET S : T \notin C}
           Sizes == {Cardinality(T) : T \in Bad}
<1>1. \A T \in SUBSET S : IsFiniteSet(T) /\ Cardinality(T) \in Nat
  BY FS_Subset, FS_CardinalityType
<1>2. Sizes \subseteq Nat /\ Sizes # {}
  BY <1>1
<1>3. PICK n \in Sizes : \A m \in Sizes : n <= m
  BY <1>2, LeastNat
<1>4. PICK T \in Bad : n = Cardinality(T)
  BY <1>3
<1>5. ASSUME NEW U \in SUBSET T, U # T PROVE U \in C
  <2>1. Cardinality(U) <= Cardinality(T) /\ Cardinality(U) # Cardinality(T)
    BY <1>1, <1>4, <1>5, FS_Subset
  <2>2. Cardinality(U) \in Nat /\ Cardinality(T) \in Nat
    BY <1>1
  <2>3. Cardinality(U) < n
    BY <2>1, <2>2, <1>4
  <2>4. ASSUME U \in Bad PROVE FALSE
    <3>1. Cardinality(U) \in Sizes
      BY <2>4
    <3> HIDE DEF Sizes
    <3>2. n <= Cardinality(U) /\ n \in Nat
      BY <3>1, <1>2, <1>3
    <3> QED BY <3>2, <2>2, <2>3
  <2> QED BY <2>4
<1> QED BY <1>4, <1>5

-----------------------------------------------------------------------------
(* Sums.                                                                   *)

\* MapThenSumSet of a function; an operator Op(i) == f[i] gives the same value.
Sum(f, S) == MapThenSumSet(LAMBDA x : f[x], S)

\* The element MapThenSumSet adds next, and the function it is defined with.
Pick(s) == CHOOSE x \in s : TRUE
Term(g, f, s) == IF s = {} THEN 0 ELSE f[Pick(s)] + g[s \ {Pick(s)}]
Folds(g, f, S) == g = [s \in SUBSET S |-> Term(g, f, s)]

\* The sum over a set is the value of the recursive function the library defines.
LEMMA SumIsFold ==
  ASSUME NEW f, NEW S
  PROVE  Sum(f, S) = (CHOOSE g : Folds(g, f, S))[S]
BY DEF Sum, MapThenSumSet, MapThenFoldSet, Folds, Term, Pick

\* The element the recursion removes from a non-empty set, and what is left.
LEMMA PickSmaller ==
  ASSUME NEW S, IsFiniteSet(S), NEW s \in SUBSET S, s # {}
  PROVE  /\ Pick(s) \in s /\ s \ {Pick(s)} \in SUBSET S
         /\ IsFiniteSet(s) /\ Cardinality(s) \in Nat
         /\ Cardinality(s \ {Pick(s)}) = Cardinality(s) - 1
<1>1. Pick(s) \in s
  BY DEF Pick
<1>2. IsFiniteSet(s) /\ Cardinality(s) \in Nat
  BY FS_Subset, FS_CardinalityType
<1> QED BY <1>1, <1>2, FS_RemoveElement

\* The recursive definition of a sum over a finite set has a solution.
LEMMA FoldExists ==
  ASSUME NEW S, IsFiniteSet(S), NEW f
  PROVE  \E g : Folds(g, f, S)
<1> DEFINE Upto(g, n) == \A s \in SUBSET S : Cardinality(s) <= n => g[s] = Term(g, f, s)
           C == {n \in Nat : \E g : g = [s \in SUBSET S |-> g[s]] /\ Upto(g, n)}
<1>0. \A s \in SUBSET S : IsFiniteSet(s) /\ Cardinality(s) \in Nat
  BY FS_Subset, FS_CardinalityType
<1>1. 0 \in C
  <2> DEFINE g == [s \in SUBSET S |-> 0]
  <2>1. \A s \in SUBSET S : Cardinality(s) <= 0 => s = {}
    BY <1>0, FS_EmptySet
  <2>2. Upto(g, 0)
    BY <2>1 DEF Term
  <2>3. g = [s \in SUBSET S |-> g[s]]
    OBVIOUS
  <2> HIDE DEF g
  <2> QED BY <2>2, <2>3
<1>2. ASSUME NEW n \in Nat, n \in C PROVE n + 1 \in C
  <2>1. PICK g : g = [s \in SUBSET S |-> g[s]] /\ Upto(g, n)
    BY <1>2
  <2> DEFINE h == [s \in SUBSET S |-> IF Cardinality(s) <= n THEN g[s] ELSE Term(g, f, s)]
  <2>2. ASSUME NEW s \in SUBSET S, Cardinality(s) <= n + 1 PROVE h[s] = Term(h, f, s)
    <3>1. h[s] = Term(g, f, s)
      BY <2>1
    <3>2. CASE s = {}
      BY <3>1, <3>2 DEF Term
    <3>3. CASE s # {}
      <4>1. s \ {Pick(s)} \in SUBSET S /\ Cardinality(s \ {Pick(s)}) <= n
        BY <2>2, <3>3, PickSmaller
      <4>2. h[s \ {Pick(s)}] = g[s \ {Pick(s)}]
        BY <4>1
      <4> HIDE DEF h
      <4> QED BY <3>1, <3>3, <4>2 DEF Term
    <3> QED BY <3>2, <3>3
  <2>3. h = [s \in SUBSET S |-> h[s]]
    OBVIOUS
  <2> HIDE DEF h
  <2>4. Upto(h, n + 1)
    BY <2>2
  <2> HIDE DEF Upto
  <2>5. n + 1 \in Nat /\ \E k : k = [s \in SUBSET S |-> k[s]] /\ Upto(k, n + 1)
    BY <2>3, <2>4
  <2> QED BY <2>5
<1> HIDE DEF C
<1>3. \A n \in Nat : n \in C
  BY <1>1, <1>2, NatSetInduction
<1>4. Cardinality(S) \in C
  BY <1>0, <1>3
<1>5. PICK g : g = [s \in SUBSET S |-> g[s]] /\ Upto(g, Cardinality(S))
  BY <1>4 DEF C
<1>6. \A s \in SUBSET S : Cardinality(s) <= Cardinality(S)
  BY FS_Subset
<1>7. \A s \in SUBSET S : g[s] = Term(g, f, s)
  BY <1>5, <1>6
<1> QED BY <1>5, <1>7 DEF Folds

\* Solutions for a set and for a subset of it agree where both are defined.
LEMMA FoldsAgree ==
  ASSUME NEW S, IsFiniteSet(S), NEW T \in SUBSET S, NEW f, NEW g, NEW h,
         Folds(g, f, S), Folds(h, f, T)
  PROVE  g[T] = h[T]
<1> DEFINE C == {s \in SUBSET T : g[s] = h[s]}
<1>1. IsFiniteSet(T)
  BY FS_Subset
<1>2. ASSUME NEW s \in SUBSET T, \A u \in SUBSET s : u # s => u \in C
      PROVE  s \in C
  <2>1. g[s] = Term(g, f, s) /\ h[s] = Term(h, f, s)
    BY DEF Folds
  <2>2. CASE s = {}
    BY <2>1, <2>2 DEF Term
  <2>3. CASE s # {}
    <3>1. Pick(s) \in s
      BY <2>3 DEF Pick
    <3>2. s \ {Pick(s)} \in C
      BY <1>2, <3>1
    <3> QED BY <2>1, <2>3, <3>2 DEF Term
  <2> QED BY <2>2, <2>3
<1> HIDE DEF C
<1>3. T \in C
  BY <1>1, <1>2, FiniteSetInduction
<1> QED BY <1>3 DEF C

\* The defining equation of a sum.
LEMMA SumEquation ==
  ASSUME NEW S, IsFiniteSet(S), NEW f
  PROVE  Sum(f, S) = IF S = {} THEN 0 ELSE f[Pick(S)] + Sum(f, S \ {Pick(S)})
<1> DEFINE g == CHOOSE g : Folds(g, f, S)
           T == S \ {Pick(S)}
           h == CHOOSE h : Folds(h, f, T)
<1>1. Folds(g, f, S)
  BY FoldExists
<1>2. T \in SUBSET S /\ IsFiniteSet(T)
  BY FS_Subset
<1>3. Folds(h, f, T)
  BY <1>2, FoldExists
<1>4. Sum(f, S) = g[S] /\ Sum(f, T) = h[T]
  BY SumIsFold
<1> HIDE DEF g, h
<1>5. g[T] = h[T]
  BY <1>1, <1>2, <1>3, FoldsAgree
<1>6. g[S] = Term(g, f, S)
  BY <1>1 DEF Folds
<1> QED BY <1>4, <1>5, <1>6 DEF Term

\* The sum over the empty set.
LEMMA SumEmpty ==
  ASSUME NEW f
  PROVE  Sum(f, {}) = 0
BY SumEquation, FS_EmptySet

\* A sum of naturals is a natural.
LEMMA SumNat ==
  ASSUME NEW S, IsFiniteSet(S), NEW f, \A x \in S : f[x] \in Nat
  PROVE  Sum(f, S) \in Nat
<1> DEFINE C == {T \in SUBSET S : Sum(f, T) \in Nat}
<1>1. ASSUME NEW T \in SUBSET S, \A U \in SUBSET T : U # T => U \in C
      PROVE  T \in C
  <2>1. IsFiniteSet(T)
    BY FS_Subset
  <2>2. CASE T = {}
    BY <2>2, SumEmpty
  <2>3. CASE T # {}
    <3>1. Pick(T) \in T
      BY <2>3 DEF Pick
    <3>2. Sum(f, T \ {Pick(T)}) \in Nat /\ f[Pick(T)] \in Nat
      BY <1>1, <3>1
    <3>3. Sum(f, T) = f[Pick(T)] + Sum(f, T \ {Pick(T)})
      BY <2>1, <2>3, SumEquation
    <3> QED BY <3>2, <3>3
  <2> QED BY <2>2, <2>3
<1> HIDE DEF C
<1>2. S \in C
  BY <1>1, FiniteSetInduction
<1> QED BY <1>2 DEF C

\* Any element may be taken out first.
LEMMA SumRemove ==
  ASSUME NEW S, IsFiniteSet(S), NEW f, \A x \in S : f[x] \in Nat, NEW x \in S
  PROVE  Sum(f, S) = f[x] + Sum(f, S \ {x})
<1> DEFINE C == {T \in SUBSET S : \A y \in T : Sum(f, T) = f[y] + Sum(f, T \ {y})}
<1>1. ASSUME NEW T \in SUBSET S, \A U \in SUBSET T : U # T => U \in C
      PROVE  T \in C
  <2> SUFFICES ASSUME NEW y \in T PROVE Sum(f, T) = f[y] + Sum(f, T \ {y})
    OBVIOUS
  <2> DEFINE p == Pick(T)
  <2>1. p \in T
    BY DEF Pick
  <2> HIDE DEF p
  <2>2. /\ IsFiniteSet(T) /\ IsFiniteSet(T \ {p}) /\ IsFiniteSet(T \ {y})
        /\ IsFiniteSet((T \ {p}) \ {y})
    BY FS_Subset
  <2>3. Sum(f, T) = f[p] + Sum(f, T \ {p})
    BY <2>1, <2>2, SumEquation DEF p
  <2>4. CASE y = p
    BY <2>3, <2>4
  <2>5. CASE y # p
    <3>1. T \ {p} \in C /\ y \in T \ {p} /\ T \ {y} \in C /\ p \in T \ {y}
      BY <1>1, <2>1, <2>5
    <3>2. Sum(f, T \ {p}) = f[y] + Sum(f, (T \ {p}) \ {y})
      BY <3>1
    <3>3. Sum(f, T \ {y}) = f[p] + Sum(f, (T \ {y}) \ {p})
      BY <3>1
    <3>4. (T \ {y}) \ {p} = (T \ {p}) \ {y}
      OBVIOUS
    <3>5. f[y] \in Nat /\ f[p] \in Nat /\ Sum(f, (T \ {p}) \ {y}) \in Nat
      BY <2>1, <2>2, SumNat
    <3> QED BY <2>3, <3>2, <3>3, <3>4, <3>5
  <2> QED BY <2>4, <2>5
<1> HIDE DEF C
<1>2. S \in C
  BY <1>1, FiniteSetInduction
<1> QED BY <1>2 DEF C

\* Adding a new element adds its term.
LEMMA SumAdd ==
  ASSUME NEW S, IsFiniteSet(S), NEW f, NEW x, x \notin S, \A y \in S \cup {x} : f[y] \in Nat
  PROVE  Sum(f, S \cup {x}) = f[x] + Sum(f, S)
<1>1. IsFiniteSet(S \cup {x})
  BY FS_AddElement
<1>2. (S \cup {x}) \ {x} = S
  OBVIOUS
<1>3. Sum(f, S \cup {x}) = f[x] + Sum(f, (S \cup {x}) \ {x})
  BY <1>1, SumRemove
<1> QED BY <1>2, <1>3

\* The sum over one element.
LEMMA SumOne ==
  ASSUME NEW f, NEW x, f[x] \in Nat
  PROVE  Sum(f, {x}) = f[x]
<1>1. IsFiniteSet({}) /\ x \notin {} /\ {} \cup {x} = {x}
  BY FS_EmptySet
<1>2. Sum(f, {} \cup {x}) = f[x] + Sum(f, {})
  BY <1>1, SumAdd
<1> QED BY <1>1, <1>2, SumEmpty

\* A sum depends on the terms only.
LEMMA SumSame ==
  ASSUME NEW S, IsFiniteSet(S), NEW f, NEW g, \A x \in S : f[x] = g[x]
  PROVE  Sum(f, S) = Sum(g, S)
<1> DEFINE C == {T \in SUBSET S : Sum(f, T) = Sum(g, T)}
<1>1. ASSUME NEW T \in SUBSET S, \A U \in SUBSET T : U # T => U \in C
      PROVE  T \in C
  <2>1. IsFiniteSet(T)
    BY FS_Subset
  <2>2. CASE T = {}
    BY <2>2, SumEmpty
  <2>3. CASE T # {}
    <3>1. Pick(T) \in T
      BY <2>3 DEF Pick
    <3>2. Sum(f, T \ {Pick(T)}) = Sum(g, T \ {Pick(T)}) /\ f[Pick(T)] = g[Pick(T)]
      BY <1>1, <3>1
    <3> QED BY <2>1, <2>3, <3>2, SumEquation
  <2> QED BY <2>2, <2>3
<1> HIDE DEF C
<1>2. S \in C
  BY <1>1, FiniteSetInduction
<1> QED BY <1>2 DEF C

\* The terms of a subset sum up to no more.
LEMMA SumSubset ==
  ASSUME NEW S, IsFiniteSet(S), NEW f, \A x \in S : f[x] \in Nat, NEW T \in SUBSET S
  PROVE  Sum(f, T) <= Sum(f, S)
<1> DEFINE C == {U \in SUBSET (S \ T) : Sum(f, T) <= Sum(f, T \cup U)}
<1>0. IsFiniteSet(T) /\ IsFiniteSet(S \ T)
  BY FS_Subset
<1>1. ASSUME NEW U \in SUBSET (S \ T), \A V \in SUBSET U : V # U => V \in C
      PROVE  U \in C
  <2>1. CASE U = {}
    <3>1. T \cup U = T
      BY <2>1
    <3>2. Sum(f, T) \in Nat
      BY <1>0, SumNat
    <3> QED BY <3>1, <3>2
  <2>2. CASE U # {}
    <3>1. PICK x : x \in U
      BY <2>2
    <3> DEFINE V == T \cup (U \ {x})
    <3>2. V \cup {x} = T \cup U /\ x \notin V /\ V \in SUBSET S /\ U \ {x} \in C
      BY <1>1, <3>1
    <3>3. IsFiniteSet(V)
      BY <3>2, FS_Subset
    <3>4. Sum(f, T) <= Sum(f, V)
      BY <3>2
    <3> HIDE DEF V
    <3>5. Sum(f, V \cup {x}) = f[x] + Sum(f, V)
      BY <3>1, <3>2, <3>3, SumAdd
    <3>6. f[x] \in Nat /\ Sum(f, V) \in Nat /\ Sum(f, T) \in Nat
      BY <1>0, <3>1, <3>2, <3>3, SumNat
    <3>7. Sum(f, T) <= Sum(f, V \cup {x})
      BY <3>4, <3>5, <3>6
    <3>8. Sum(f, T) <= Sum(f, T \cup U)
      BY <3>2, <3>7, Zenon
    <3> QED BY <3>8
  <2> QED BY <2>1, <2>2
<1> HIDE DEF C
<1>2. S \ T \in C
  BY <1>0, <1>1, FiniteSetInduction
<1>3. T \cup (S \ T) = S
  OBVIOUS
<1> QED BY <1>2, <1>3 DEF C

\* Two disjoint sets are summed one after the other.
LEMMA SumDisjoint ==
  ASSUME NEW S, IsFiniteSet(S), NEW T, IsFiniteSet(T), S \cap T = {}, NEW f,
         \A x \in S \cup T : f[x] \in Nat
  PROVE  Sum(f, S \cup T) = Sum(f, S) + Sum(f, T)
<1> DEFINE C == {U \in SUBSET T : Sum(f, S \cup U) = Sum(f, S) + Sum(f, U)}
<1>1. ASSUME NEW U \in SUBSET T, \A V \in SUBSET U : V # U => V \in C
      PROVE  U \in C
  <2>1. CASE U = {}
    <3>1. S \cup U = S /\ Sum(f, U) = 0
      BY <2>1, SumEmpty
    <3>2. Sum(f, S) \in Nat
      BY SumNat
    <3>3. Sum(f, S \cup U) = Sum(f, S)
      BY <3>1, Zenon
    <3>4. Sum(f, S \cup U) = Sum(f, S) + Sum(f, U)
      BY <3>1, <3>2, <3>3
    <3> QED BY <3>4
  <2>2. CASE U # {}
    <3>1. PICK x : x \in U
      BY <2>2
    <3> DEFINE V == U \ {x}
               W == S \cup V
    <3>2. V \in C /\ V \cup {x} = U /\ x \notin V /\ W \cup {x} = S \cup U /\ x \notin W
      BY <1>1, <3>1
    <3>3. IsFiniteSet(V) /\ IsFiniteSet(W)
      BY FS_Subset, FS_Union
    <3>4. Sum(f, W) = Sum(f, S) + Sum(f, V)
      BY <3>2
    <3>5. /\ \A y \in V \cup {x} : f[y] \in Nat
          /\ \A y \in W \cup {x} : f[y] \in Nat
      BY <3>1
    <3> HIDE DEF V, W
    <3>6. Sum(f, V \cup {x}) = f[x] + Sum(f, V) /\ Sum(f, W \cup {x}) = f[x] + Sum(f, W)
      BY <3>2, <3>3, <3>5, SumAdd
    <3>7. f[x] \in Nat /\ Sum(f, V) \in Nat /\ Sum(f, S) \in Nat
      BY <3>3, <3>5, SumNat
    <3>8. Sum(f, U) = f[x] + Sum(f, V) /\ Sum(f, S \cup U) = f[x] + Sum(f, W)
      BY <3>2, <3>6, Zenon
    <3>9. Sum(f, S \cup U) = Sum(f, S) + Sum(f, U)
      BY <3>4, <3>7, <3>8
    <3> QED BY <3>9
  <2> QED BY <2>1, <2>2
<1> HIDE DEF C
<1>2. T \in C
  BY <1>1, FiniteSetInduction
<1> QED BY <1>2 DEF C

\* One term changes.
LEMMA SumUpdate ==
  ASSUME NEW S, IsFiniteSet(S), NEW f, NEW g, NEW x \in S,
         \A y \in S : f[y] \in Nat /\ g[y] \in Nat, \A y \in S : y # x => g[y] = f[y]
  PROVE  Sum(g, S) + f[x] = Sum(f, S) + g[x]
<1> DEFINE T == S \ {x}
<1>1. IsFiniteSet(T) /\ \A y \in T : f[y] = g[y] /\ f[y] \in Nat
  BY FS_Subset
<1>2. Sum(f, S) = f[x] + Sum(f, T) /\ Sum(g, S) = g[x] + Sum(g, T)
  BY SumRemove
<1> HIDE DEF T
<1>3. Sum(f, T) = Sum(g, T)
  BY <1>1, SumSame
<1>4. Sum(f, T) \in Nat
  BY <1>1, SumNat
<1> QED BY <1>2, <1>3, <1>4

\* Summing over indices is summing over what they name, when no two name the same; the
\* name 0 stands for nothing.
LEMMA SumImage ==
  ASSUME NEW K, IsFiniteSet(K), NEW r, NEW f, NEW b,
         \A k \in K : r[k] # 0 => f[r[k]] \in Nat,
         \A k \in K : b[k] = IF r[k] = 0 THEN 0 ELSE f[r[k]],
         \A j, k \in K : r[j] = r[k] /\ r[j] # 0 => j = k
  PROVE  LET R == {r[k] : k \in K} \ {0}
         IN  IsFiniteSet(R) /\ Sum(b, K) = Sum(f, R) /\ Sum(b, K) \in Nat
<1> DEFINE R(U) == {r[k] : k \in U} \ {0}
           C == {U \in SUBSET K : IsFiniteSet(R(U)) /\ Sum(b, U) = Sum(f, R(U)) /\ Sum(b, U) \in Nat}
<1>1. ASSUME NEW U \in SUBSET K, \A V \in SUBSET U : V # U => V \in C
      PROVE  U \in C
  <2>1. CASE U = {}
    <3>1. R(U) = {}
      BY <2>1
    <3> QED BY <2>1, <3>1, SumEmpty, FS_EmptySet
  <2>2. CASE U # {}
    <3>1. PICK x : x \in U
      BY <2>2
    <3> DEFINE V == U \ {x}
    <3>2. V \in C /\ V \cup {x} = U /\ x \notin V
      BY <1>1, <3>1
    <3>3. IsFiniteSet(V) /\ \A y \in V \cup {x} : b[y] \in Nat
      BY <3>1, FS_Subset
    <3>4. IsFiniteSet(R(V)) /\ Sum(b, V) = Sum(f, R(V)) /\ Sum(b, V) \in Nat
      BY <3>2
    <3>5. Sum(b, V \cup {x}) = b[x] + Sum(b, V)
      BY <3>2, <3>3, SumAdd
    <3>6. Sum(b, U) = b[x] + Sum(b, V)
      BY <3>2, <3>5
    <3>7. CASE r[x] = 0
      <4>1. R(U) = R(V) /\ b[x] = 0
        BY <3>1, <3>7
      <4>2. Sum(b, U) = Sum(b, V)
        BY <3>4, <3>6, <4>1
      <4>3. IsFiniteSet(R(U)) /\ Sum(b, U) = Sum(f, R(U)) /\ Sum(b, U) \in Nat
        BY <3>4, <4>1, <4>2, Zenon
      <4> QED BY <4>3
    <3>8. CASE r[x] # 0
      <4>1. R(U) = R(V) \cup {r[x]} /\ r[x] \notin R(V) /\ b[x] = f[r[x]] /\ b[x] \in Nat
        BY <3>1, <3>8
      <4>2. \A y \in R(V) \cup {r[x]} : f[y] \in Nat
        BY <3>1, <3>8
      <4> DEFINE Q == R(V)
      <4>3. IsFiniteSet(Q) /\ r[x] \notin Q /\ \A y \in Q \cup {r[x]} : f[y] \in Nat
        BY <3>4, <4>1, <4>2
      <4> HIDE DEF Q
      <4>4. Sum(f, Q \cup {r[x]}) = f[r[x]] + Sum(f, Q) /\ IsFiniteSet(Q \cup {r[x]})
        BY <4>3, SumAdd, FS_AddElement
      <4>5. Sum(f, R(U)) = f[r[x]] + Sum(f, R(V)) /\ IsFiniteSet(R(U))
        BY <4>1, <4>4, Zenon DEF Q
      <4>6. Sum(b, U) = Sum(f, R(U)) /\ Sum(b, U) \in Nat
        <5> HIDE DEF R
        <5> QED BY <3>4, <3>6, <4>1, <4>5
      <4> QED BY <4>5, <4>6
    <3> QED BY <3>7, <3>8
  <2> QED BY <2>1, <2>2
<1> HIDE DEF C
<1>2. K \in C
  BY <1>1, FiniteSetInduction
<1> QED BY <1>2 DEF C

\* The sum of zeros.
LEMMA SumZero ==
  ASSUME NEW S, IsFiniteSet(S), NEW f, \A x \in S : f[x] = 0
  PROVE  Sum(f, S) = 0
<1> DEFINE C == {T \in SUBSET S : Sum(f, T) = 0}
<1>1. ASSUME NEW T \in SUBSET S, \A U \in SUBSET T : U # T => U \in C
      PROVE  T \in C
  <2>1. IsFiniteSet(T)
    BY FS_Subset
  <2>2. CASE T = {}
    BY <2>2, SumEmpty
  <2>3. CASE T # {}
    <3>1. Pick(T) \in T
      BY <2>3 DEF Pick
    <3>2. Sum(f, T \ {Pick(T)}) = 0 /\ f[Pick(T)] = 0
      BY <1>1, <3>1
    <3>3. Sum(f, T) = f[Pick(T)] + Sum(f, T \ {Pick(T)})
      BY <2>1, <2>3, SumEquation
    <3>4. Sum(f, T) = 0
      BY <3>2, <3>3
    <3> QED BY <3>4
  <2> QED BY <2>2, <2>3
<1> HIDE DEF C
<1>2. S \in C
  BY <1>1, FiniteSetInduction
<1> QED BY <1>2 DEF C

-----------------------------------------------------------------------------
(* Arithmetic and sequences.                                                *)

\* The larger of two numbers.
LEMMA MaxOfTwo ==
  ASSUME NEW a \in Int, NEW b \in Int
  PROVE  Max({a, b}) = IF a >= b THEN a ELSE b
BY DEF Max

\* A non-empty finite set of integers has a maximum.
LEMMA MaxOfSet ==
  ASSUME NEW S, IsFiniteSet(S), S \subseteq Int, S # {}
  PROVE  Max(S) \in S /\ \A y \in S : y <= Max(S)
<1> DEFINE C == {T \in SUBSET S : T # {} => \E x \in T : \A y \in T : y <= x}
<1>1. ASSUME NEW T \in SUBSET S, \A U \in SUBSET T : U # T => U \in C
      PROVE  T \in C
  <2> SUFFICES ASSUME T # {} PROVE \E x \in T : \A y \in T : y <= x
    OBVIOUS
  <2>1. PICK z : z \in T
    OBVIOUS
  <2>2. T \ {z} \in C /\ z \in Int
    BY <1>1, <2>1
  <2>3. CASE T \ {z} = {}
    BY <2>1, <2>2, <2>3
  <2>4. CASE T \ {z} # {}
    <3>1. PICK x \in T \ {z} : \A y \in T \ {z} : y <= x
      BY <2>2, <2>4
    <3>2. x \in Int /\ \A y \in T : y \in Int
      OBVIOUS
    <3>3. CASE z <= x
      BY <3>1, <3>2, <3>3
    <3>4. CASE ~(z <= x)
      BY <2>1, <2>2, <3>1, <3>2, <3>4
    <3> QED BY <3>3, <3>4
  <2> QED BY <2>3, <2>4
<1> HIDE DEF C
<1>2. S \in C
  BY <1>1, FiniteSetInduction
<1>3. \E x \in S : \A y \in S : x >= y
  BY <1>2 DEF C
<1> QED BY <1>3 DEF Max

\* The smaller of two numbers.
LEMMA MinOfTwo ==
  ASSUME NEW a \in Int, NEW b \in Int
  PROVE  Min({a, b}) = IF a <= b THEN a ELSE b
BY DEF Min

\* Quotient and remainder.
LEMMA DivFacts ==
  ASSUME NEW a \in Nat, NEW b \in Nat \ {0}
  PROVE  /\ a \div b \in Nat
         /\ b * (a \div b) <= a
         /\ a < b * (a \div b) + b
OBVIOUS

\* A product grows with its factor.
LEMMA TimesMonotone ==
  ASSUME NEW a \in Nat, NEW b \in Nat, NEW c \in Nat
  PROVE  a <= b => c * a <= c * b
OBVIOUS

\* A factor cancels, up to less than one multiple.
LEMMA TimesCancel ==
  ASSUME NEW a \in Nat, NEW b \in Nat, NEW c \in Nat \ {0}
  PROVE  c * a < c * b + c => a <= b
OBVIOUS

\* One more multiple.
LEMMA TimesOne ==
  ASSUME NEW a \in Nat, NEW b \in Nat
  PROVE b * (a + 1) = b * a + b
OBVIOUS

\* A sequence without its first element.
LEMMA TailFacts ==
  ASSUME NEW S, NEW s \in Seq(S), s # <<>>
  PROVE  /\ Len(s) \in Nat \ {0} /\ Head(s) = s[1] /\ Head(s) \in S
         /\ Tail(s) \in Seq(S) /\ Len(Tail(s)) = Len(s) - 1
         /\ DOMAIN s = 1..Len(s) /\ DOMAIN Tail(s) = 1..(Len(s) - 1)
         /\ \A i \in DOMAIN Tail(s) : Tail(s)[i] = s[i + 1]
<1>1. /\ Head(s) \in S /\ Tail(s) \in Seq(S) /\ Len(Tail(s)) = Len(s) - 1
      /\ \A i \in 1..Len(Tail(s)) : Tail(s)[i] = s[i + 1]
  BY HeadTailProperties
<1>2. Len(s) \in Nat \ {0}
  BY EmptySeq
<1>3. DOMAIN s = 1..Len(s) /\ DOMAIN Tail(s) = 1..Len(Tail(s))
  BY <1>1, LenProperties
<1> QED BY <1>1, <1>2, <1>3

\* A sequence with one more element.
LEMMA AppendFacts ==
  ASSUME NEW S, NEW s \in Seq(S), NEW x \in S
  PROVE  /\ Append(s, x) \in Seq(S) /\ Len(Append(s, x)) = Len(s) + 1 /\ Len(s) \in Nat
         /\ DOMAIN s = 1..Len(s) /\ DOMAIN Append(s, x) = 1..(Len(s) + 1)
         /\ \A i \in DOMAIN s : Append(s, x)[i] = s[i]
         /\ Append(s, x)[Len(s) + 1] = x
<1>1. /\ Append(s, x) \in Seq(S) /\ Len(Append(s, x)) = Len(s) + 1
      /\ \A i \in 1..Len(s) : Append(s, x)[i] = s[i]
      /\ Append(s, x)[Len(s) + 1] = x
  BY AppendProperties
<1>2. DOMAIN s = 1..Len(s) /\ Len(s) \in Nat /\ DOMAIN Append(s, x) = 1..Len(Append(s, x))
  BY <1>1, LenProperties
<1> QED BY <1>1, <1>2

\* What RemoveAt drops is the element between its two parts.
LEMMA PartsOfRemove ==
  ASSUME NEW s, NEW i, NEW p, p = i - 1, NEW k, k = i + 1
  PROVE  RemoveAt(s, i) = SubSeq(s, 1, p) \o SubSeq(s, k, Len(s))
BY DEF RemoveAt

\* A sequence without its element at position p + 1.
LEMMA RemoveFacts ==
  ASSUME NEW S, NEW s \in Seq(S), NEW p \in 0..(Len(s) - 1)
  PROVE  /\ RemoveAt(s, p + 1) \in Seq(S) /\ Len(s) \in Nat \ {0}
         /\ Len(RemoveAt(s, p + 1)) = Len(s) - 1
         /\ \A i \in 1..(Len(s) - 1) : RemoveAt(s, p + 1)[i] = IF i <= p THEN s[i] ELSE s[i + 1]
<1> DEFINE n == Len(s)
           a == SubSeq(s, 1, p)
           c == SubSeq(s, p + 2, n)
<1>1. n \in Nat /\ \A i \in 1..n : s[i] \in S
  BY LenProperties, ElementOfSeq
<1>2. p \in Nat /\ p < n
  BY <1>1
<1>3. /\ a \in Seq(S) /\ Len(a) = p /\ \A i \in 1..p : a[i] = s[i]
  <2>1. \A i \in 1..p : s[i] \in S
    BY <1>1, <1>2
  <2>2. /\ a \in Seq(S) /\ Len(a) = IF 1 <= p THEN p - 1 + 1 ELSE 0
        /\ \A i \in 1..(p - 1 + 1) : a[i] = s[1 + i - 1]
    BY <1>2, <2>1, SubSeqProperties
  <2> QED BY <1>2, <2>2
<1>4. /\ c \in Seq(S) /\ Len(c) = n - p - 1 /\ \A i \in 1..(n - p - 1) : c[i] = s[p + 1 + i]
  <2>1. \A i \in (p + 2)..n : s[i] \in S
    BY <1>1, <1>2
  <2>2. /\ c \in Seq(S) /\ Len(c) = IF p + 2 <= n THEN n - (p + 2) + 1 ELSE 0
        /\ \A i \in 1..(n - (p + 2) + 1) : c[i] = s[(p + 2) + i - 1]
    BY <1>1, <1>2, <2>1, SubSeqProperties
  <2>3. Len(c) = n - p - 1
    BY <1>1, <1>2, <2>2
  <2>4. ASSUME NEW i \in 1..(n - p - 1) PROVE c[i] = s[p + 1 + i]
    <3>1. i \in 1..(n - (p + 2) + 1) /\ (p + 2) + i - 1 = p + 1 + i
      BY <1>1, <1>2
    <3> QED BY <2>2, <3>1
  <2> QED BY <2>2, <2>3, <2>4
<1>5. RemoveAt(s, p + 1) = a \o c
  <2>1. ASSUME NEW q, q = p + 1, NEW k, k = p + 2
        PROVE  RemoveAt(s, q) = SubSeq(s, 1, p) \o SubSeq(s, k, Len(s))
    <3>1. p = q - 1 /\ k = q + 1
      BY <1>2, <2>1
    <3> QED BY <3>1, PartsOfRemove
  <2> QED BY <2>1
<1> HIDE DEF a, c, n
<1>6. /\ a \o c \in Seq(S) /\ Len(a \o c) = n - 1
      /\ \A i \in 1..(n - 1) : (a \o c)[i] = IF i <= p THEN a[i] ELSE c[i - p]
  <2>1. /\ a \o c \in Seq(S) /\ Len(a \o c) = Len(a) + Len(c)
        /\ \A i \in 1..(Len(a) + Len(c)) : (a \o c)[i] = IF i <= Len(a) THEN a[i] ELSE c[i - Len(a)]
    BY <1>3, <1>4, ConcatProperties
  <2>2. Len(a) + Len(c) = n - 1 /\ Len(a) = p
    BY <1>1, <1>2, <1>3, <1>4
  <2> QED BY <2>1, <2>2
<1>7. ASSUME NEW i \in 1..(n - 1)
      PROVE  (a \o c)[i] = IF i <= p THEN s[i] ELSE s[i + 1]
  <2>0. (a \o c)[i] = IF i <= p THEN a[i] ELSE c[i - p]
    BY <1>6
  <2>1. CASE i <= p
    <3>1. a[i] = s[i]
      BY <1>1, <1>2, <1>3, <2>1
    <3> QED BY <2>0, <2>1, <3>1
  <2>2. CASE i > p
    <3>1. i - p \in 1..(n - p - 1) /\ p + 1 + (i - p) = i + 1 /\ ~(i <= p)
      BY <1>1, <1>2, <2>2
    <3>2. c[i - p] = s[i + 1]
      BY <1>4, <3>1
    <3> QED BY <2>0, <3>1, <3>2
  <2>3. i <= p \/ i > p
    BY <1>1, <1>2
  <2> QED BY <2>1, <2>2, <2>3, Zenon
<1>8. n \in Nat \ {0}
  BY <1>1, <1>2
<1> QED BY <1>5, <1>6, <1>7, <1>8, Zenon DEF n

\* An element that occurs once is removed from its place, and the others move up.
LEMMA RemoveFirstFacts ==
  ASSUME NEW S, NEW s \in Seq(S), NEW q \in DOMAIN s,
         \A i, j \in DOMAIN s : s[i] = s[j] => i = j
  PROVE  LET r == RemoveFirst(s, s[q])
         IN  /\ r \in Seq(S) /\ Len(s) \in Nat /\ Len(r) = Len(s) - 1
             /\ DOMAIN s = 1..Len(s) /\ DOMAIN r = 1..(Len(s) - 1)
             /\ \A i \in DOMAIN r : r[i] = IF i < q THEN s[i] ELSE s[i + 1]
<1> DEFINE e == s[q]
           I == {i \in 1..Len(s) : s[i] = e}
           p == q - 1
<1>1. Len(s) \in Nat /\ DOMAIN s = 1..Len(s)
  BY LenProperties
<1>2. q \in Int /\ p \in 0..(Len(s) - 1) /\ p + 1 = q
  BY <1>1
<1>3. I = {q}
  BY <1>1
<1>4. Min({q}) = q
  BY <1>2 DEF Min
<1>5. SelectInSeq(s, LAMBDA v : v = e) = q
  <2>1. SelectInSeq(s, LAMBDA v : v = e) = IF I # {} THEN Min(I) ELSE 0
    BY DEF SelectInSeq
  <2> HIDE DEF I
  <2> QED BY <1>3, <1>4, <2>1
<1>6. RemoveFirst(s, e) = RemoveAt(s, q)
  <2>1. \E i \in 1..Len(s) : s[i] = e
    BY <1>1
  <2> QED BY <1>5, <2>1 DEF RemoveFirst
<1> HIDE DEF p, e
<1>7. /\ RemoveAt(s, p + 1) \in Seq(S) /\ Len(RemoveAt(s, p + 1)) = Len(s) - 1
      /\ \A i \in 1..(Len(s) - 1) : RemoveAt(s, p + 1)[i] = IF i <= p THEN s[i] ELSE s[i + 1]
  BY <1>2, RemoveFacts
<1> DEFINE r == RemoveAt(s, q)
<1>8. /\ r \in Seq(S) /\ Len(r) = Len(s) - 1
      /\ \A i \in 1..(Len(s) - 1) : r[i] = IF i <= p THEN s[i] ELSE s[i + 1]
  BY <1>2, <1>7, Zenon
<1> HIDE DEF r
<1>9. DOMAIN r = 1..(Len(s) - 1)
  BY <1>8, LenProperties
<1>10. \A i \in DOMAIN r : r[i] = IF i < q THEN s[i] ELSE s[i + 1]
  <2> SUFFICES ASSUME NEW i \in DOMAIN r PROVE r[i] = IF i < q THEN s[i] ELSE s[i + 1]
    OBVIOUS
  <2>1. i \in Int /\ (i <= p <=> i < q)
    BY <1>1, <1>2, <1>9
  <2> QED BY <1>8, <1>9, <2>1
<1> QED BY <1>1, <1>6, <1>8, <1>9, <1>10 DEF e, r


-----------------------------------------------------------------------------
(* Folds over sequences.  FoldLeft is a recursion over the sets of         *)
(* positions that takes away the greatest one.                             *)

\* What is left of a set of positions without the greatest one.
LEMMA GreatestRemoved ==
  ASSUME NEW n \in Nat, NEW s \in SUBSET (1..n), s # {}
  PROVE  /\ Max(s) \in s /\ s \ {Max(s)} \in SUBSET (1..n) /\ s \ {Max(s)} # s
         /\ IsFiniteSet(s) /\ Cardinality(s) \in Nat
         /\ Cardinality(s \ {Max(s)}) = Cardinality(s) - 1
         /\ \A y \in s : y <= Max(s)
<1>0. IsFiniteSet(1..n)
  BY FS_Interval
<1>1. IsFiniteSet(s) /\ Cardinality(s) \in Nat
  BY <1>0, FS_Subset, FS_CardinalityType
<1>2. s \subseteq Int
  OBVIOUS
<1>3. Max(s) \in s /\ \A y \in s : y <= Max(s)
  BY <1>1, <1>2, MaxOfSet
<1> QED BY <1>1, <1>3, FS_RemoveElement

\* g is the fold over the positions 1..n from b on, one step[<<s, a>>] per position.
FoldOf(g, n, b, step) ==
  g = [s \in SUBSET (1..n) |-> IF s = {} THEN b ELSE step[<<s, g[s \ {Max(s)}]>>]]

\* Each step leads from A[s without its greatest element] into A[s].
StepsIn(n, A, step) ==
  \A s \in SUBSET (1..n) : s # {} => \A a \in A[s \ {Max(s)}] : step[<<s, a>>] \in A[s]

\* The recursion has a solution, whose value for a set of positions s is in A[s].
LEMMA FoldSolution ==
  ASSUME NEW n \in Nat, NEW A, NEW b, b \in A[{}], NEW step, StepsIn(n, A, step)
  PROVE  \E g : FoldOf(g, n, b, step) /\ \A s \in SUBSET (1..n) : g[s] \in A[s]
<1> DEFINE K == 1..n
           Turn(g, s) == IF s = {} THEN b ELSE step[<<s, g[s \ {Max(s)}]>>]
           Upto(g, m) == /\ g = [s \in SUBSET K |-> g[s]]
                         /\ \A s \in SUBSET K : Cardinality(s) <= m => g[s] = Turn(g, s) /\ g[s] \in A[s]
           C == {m \in Nat : \E g : Upto(g, m)}
<1>0. IsFiniteSet(K) /\ Cardinality(K) \in Nat
      /\ \A s \in SUBSET K : IsFiniteSet(s) /\ Cardinality(s) \in Nat /\ Cardinality(s) <= Cardinality(K)
  <2>1. IsFiniteSet(K)
    BY FS_Interval
  <2> HIDE DEF K
  <2> QED BY <2>1, FS_Subset, FS_CardinalityType
<1>1. ASSUME NEW s \in SUBSET K, s # {}
      PROVE  s \ {Max(s)} \in SUBSET K /\ Cardinality(s \ {Max(s)}) = Cardinality(s) - 1
  BY <1>1, GreatestRemoved
<1>a. \A s \in SUBSET K : s # {} => \A a \in A[s \ {Max(s)}] : step[<<s, a>>] \in A[s]
  BY DEF StepsIn
<1> HIDE DEF K
<1>2. 0 \in C
  <2> DEFINE g == [s \in SUBSET K |-> b]
  <2>1. \A s \in SUBSET K : Cardinality(s) <= 0 => s = {}
    BY <1>0, FS_EmptySet
  <2>2. Upto(g, 0)
    BY <2>1
  <2> HIDE DEF Upto
  <2> QED BY <2>2
<1>3. ASSUME NEW m \in Nat, m \in C PROVE m + 1 \in C
  <2>1. PICK g : Upto(g, m)
    BY <1>3
  <2> DEFINE h == [s \in SUBSET K |-> IF Cardinality(s) <= m THEN g[s] ELSE Turn(g, s)]
  <2>2. ASSUME NEW s \in SUBSET K, Cardinality(s) <= m + 1 PROVE h[s] = Turn(h, s) /\ h[s] \in A[s]
    <3>1. h[s] = Turn(g, s)
      BY <2>1
    <3>2. CASE s = {}
      BY <3>1, <3>2
    <3>3. CASE s # {}
      <4> DEFINE t == s \ {Max(s)}
      <4>1. t \in SUBSET K /\ Cardinality(t) <= m
        <5>1. t \in SUBSET K /\ Cardinality(t) = Cardinality(s) - 1
          BY <1>1, <3>3, Zenon
        <5>2. Cardinality(s) \in Nat
          BY <1>0
        <5> HIDE DEF t
        <5> QED BY <2>2, <5>1, <5>2
      <4>2. h[t] = g[t] /\ g[t] \in A[t]
        BY <2>1, <4>1
      <4> HIDE DEF h
      <4>3. Turn(h, s) = step[<<s, h[t]>>]
        BY <3>3
      <4>4. Turn(g, s) = step[<<s, g[t]>>]
        BY <3>3
      <4>5. step[<<s, g[t]>>] \in A[s]
        BY <1>a, <3>3, <4>2
      <4> HIDE DEF t
      <4> QED BY <3>1, <4>2, <4>3, <4>4, <4>5
    <3> QED BY <3>2, <3>3
  <2>3. h = [s \in SUBSET K |-> h[s]]
    OBVIOUS
  <2> HIDE DEF h, Turn
  <2>4. Upto(h, m + 1)
    BY <2>2, <2>3
  <2> HIDE DEF Upto
  <2>5. m + 1 \in Nat
    OBVIOUS
  <2> QED BY <2>4, <2>5
<1>4. \A m \in Nat : m \in C
  <2> HIDE DEF C
  <2> QED BY <1>2, <1>3, NatSetInduction
<1>5. PICK g : Upto(g, Cardinality(K))
  <2> HIDE DEF Upto
  <2>1. Cardinality(K) \in C
    BY <1>0, <1>4
  <2> QED BY <2>1
<1>6. \A s \in SUBSET K : g[s] = Turn(g, s) /\ g[s] \in A[s]
  <2> HIDE DEF Turn
  <2> QED BY <1>0, <1>5
<1>7. g = [s \in SUBSET K |-> g[s]]
  BY <1>5
<1>8. g = [s \in SUBSET K |-> Turn(g, s)]
  <2> HIDE DEF Turn
  <2> QED BY <1>6, <1>7
<1> QED BY <1>6, <1>8 DEF K, FoldOf

\* What every step of the recursion keeps holds at its end.
LEMMA FoldInvariant ==
  ASSUME NEW n \in Nat, NEW A, NEW h, h[{}] \in A[{}],
         \A s \in SUBSET (1..n) : s # {} /\ h[s \ {Max(s)}] \in A[s \ {Max(s)}] => h[s] \in A[s]
  PROVE  h[1..n] \in A[1..n]
<1> DEFINE C == {s \in SUBSET (1..n) : h[s] \in A[s]}
<1>1. ASSUME NEW s \in SUBSET (1..n), \A u \in SUBSET s : u # s => u \in C
      PROVE  s \in C
  <2>1. CASE s = {}
    BY <2>1
  <2>2. CASE s # {}
    <3>1. s \ {Max(s)} \in SUBSET s /\ s \ {Max(s)} # s
      BY <2>2, GreatestRemoved, Zenon
    <3>2. h[s \ {Max(s)}] \in A[s \ {Max(s)}]
      BY <1>1, <3>1
    <3> QED BY <2>2, <3>2
  <2> QED BY <2>1, <2>2
<1> DEFINE K == 1..n
<1>2. IsFiniteSet(K)
  BY FS_Interval
<1>3. \A s \in SUBSET K : (\A u \in SUBSET s : u # s => u \in C) => s \in C
  BY <1>1
<1> HIDE DEF C, K
<1>4. K \in C
  BY <1>2, <1>3, FiniteSetInduction
<1> QED BY <1>4 DEF C, K

-----------------------------------------------------------------------------
(* Ranks in a finite set with a strict total order, a set of pairs.        *)

\* order is a strict total order on S.
StrictOrder(S, order) ==
  /\ \A x \in S : <<x, x>> \notin order
  /\ \A x, y \in S : x # y => <<x, y>> \in order \/ <<y, x>> \in order
  /\ \A x, y, z \in S : <<x, y>> \in order /\ <<y, z>> \in order => <<x, z>> \in order

\* A non-empty finite set has a greatest element.
LEMMA GreatestExists ==
  ASSUME NEW S, IsFiniteSet(S), NEW order, StrictOrder(S, order), S # {}
  PROVE  \E m \in S : \A y \in S : y # m => <<y, m>> \in order
<1> DEFINE C == {T \in SUBSET S : T # {} => \E m \in T : \A y \in T : y # m => <<y, m>> \in order}
<1>1. ASSUME NEW T \in SUBSET S, \A U \in SUBSET T : U # T => U \in C
      PROVE  T \in C
  <2>1. CASE T = {}
    BY <2>1
  <2>2. CASE T # {}
    <3>1. PICK x \in T : TRUE
      BY <2>2
    <3> DEFINE U == T \ {x}
    <3>2. U \in C
      BY <1>1
    <3>3. CASE U = {}
      BY <3>1, <3>3
    <3>4. CASE U # {}
      <4>1. PICK m \in U : \A y \in U : y # m => <<y, m>> \in order
        BY <3>2, <3>4
      <4>2. x \in S /\ m \in S /\ x # m /\ U \subseteq S
        BY <3>1, <4>1
      <4>3. CASE <<x, m>> \in order
        BY <4>1, <4>3
      <4>4. CASE <<m, x>> \in order
        <5>1. ASSUME NEW y \in T, y # x PROVE <<y, x>> \in order
          <6>1. y \in U /\ y \in S
            BY <5>1
          <6> QED BY <4>1, <4>2, <4>4, <6>1 DEF StrictOrder
        <5> QED BY <3>1, <5>1
      <4> QED BY <4>2, <4>3, <4>4 DEF StrictOrder
    <3> QED BY <3>3, <3>4
  <2> QED BY <2>1, <2>2
<1> HIDE DEF C
<1>2. S \in C
  BY <1>1, FiniteSetInduction
<1> QED BY <1>2 DEF C

\* Every rank from 0 on is taken: the k-th element has k - 1 elements before it.
LEMMA RankExists ==
  ASSUME NEW S, IsFiniteSet(S), NEW order, StrictOrder(S, order)
  PROVE  \A k \in 1..Cardinality(S) :
           \E x \in S : Cardinality({y \in S : <<y, x>> \in order}) = k - 1
<1> DEFINE Below(T, x) == {y \in T : <<y, x>> \in order}
           C == {T \in SUBSET S : \A k \in 1..Cardinality(T) :
                   \E x \in T : Cardinality(Below(T, x)) = k - 1}
<1>0. \A T \in SUBSET S : IsFiniteSet(T) /\ Cardinality(T) \in Nat
  BY FS_Subset, FS_CardinalityType
<1>1. ASSUME NEW T \in SUBSET S, \A U \in SUBSET T : U # T => U \in C
      PROVE  T \in C
  <2>1. CASE T = {}
    BY <2>1, FS_EmptySet
  <2>2. CASE T # {}
    <3>0. StrictOrder(T, order) /\ IsFiniteSet(T)
      BY <1>0 DEF StrictOrder
    <3>1. PICK m \in T : \A y \in T : y # m => <<y, m>> \in order
      BY <2>2, <3>0, GreatestExists
    <3> DEFINE U == T \ {m}
    <3>2. U \in C
      BY <1>1, <3>1
    <3>3. Cardinality(U) = Cardinality(T) - 1 /\ Cardinality(T) \in Nat /\ Cardinality(U) \in Nat
      BY <1>0, <3>0, <3>1, FS_RemoveElement
    <3>4. Below(T, m) = U
      BY <3>0, <3>1 DEF StrictOrder
    <3>5. \A x \in U : Below(T, x) = Below(U, x)
      <4>1. \A x \in U : <<m, x>> \notin order
        BY <3>0, <3>1 DEF StrictOrder
      <4> QED BY <4>1
    <3>6. ASSUME NEW k \in 1..Cardinality(T)
          PROVE  \E x \in T : Cardinality(Below(T, x)) = k - 1
      <4>1. CASE k = Cardinality(T)
        <5>1. Cardinality(Below(T, m)) = k - 1
          <6> HIDE DEF Below, U
          <6> QED BY <3>3, <3>4, <4>1
        <5> QED BY <3>1, <5>1
      <4>2. CASE k # Cardinality(T)
        <5>1. k \in 1..Cardinality(U)
          <6> HIDE DEF U
          <6> QED BY <3>3, <3>6, <4>2
        <5>2. PICK x \in U : Cardinality(Below(U, x)) = k - 1
          BY <3>2, <5>1
        <5> QED BY <3>5, <5>2
      <4> QED BY <4>1, <4>2
    <3> HIDE DEF Below
    <3> QED BY <3>6
  <2> QED BY <2>1, <2>2
<1>2. S \in C
  <2> HIDE DEF C
  <2> QED BY <1>1, FiniteSetInduction
<1> QED BY <1>2

\* An element with fewer elements before it comes first.
LEMMA RankOrder ==
  ASSUME NEW S, IsFiniteSet(S), NEW order, StrictOrder(S, order), NEW a \in S, NEW b \in S,
         Cardinality({y \in S : <<y, a>> \in order}) < Cardinality({y \in S : <<y, b>> \in order})
  PROVE  <<a, b>> \in order
<1> DEFINE Below(x) == {y \in S : <<y, x>> \in order}
<1>1. IsFiniteSet(Below(a)) /\ Cardinality(Below(a)) \in Nat /\ Cardinality(Below(b)) \in Nat
  BY FS_Subset, FS_CardinalityType
<1>2. CASE a = b
  BY <1>1, <1>2
<1>3. CASE <<b, a>> \in order
  <2>1. Below(b) \in SUBSET Below(a)
    BY <1>3 DEF StrictOrder
  <2>2. Cardinality(Below(b)) <= Cardinality(Below(a))
    BY <1>1, <2>1, FS_Subset
  <2> QED BY <1>1, <2>2
<1> QED BY <1>2, <1>3 DEF StrictOrder

\* A ranked set is a sequence of its elements in the order given.
LEMMA RankedFacts ==
  ASSUME NEW S, IsFiniteSet(S), NEW order, StrictOrder(S, order)
  PROVE  LET r == Ranked(S, order)
         IN  /\ Cardinality(S) \in Nat /\ r \in [1..Cardinality(S) -> S]
             /\ \A i, j \in 1..Cardinality(S) : i < j => <<r[i], r[j]>> \in order
<1> DEFINE r == Ranked(S, order)
           n == Cardinality(S)
           Rank(x) == Cardinality({y \in S : <<y, x>> \in order})
<1>1. n \in Nat
  BY FS_CardinalityType
<1>2. r = [k \in 1..n |-> CHOOSE x \in S : Rank(x) = k - 1]
  BY DEF Ranked
<1>3. ASSUME NEW k \in 1..n PROVE r[k] \in S /\ Rank(r[k]) = k - 1
  <2>1. \E x \in S : Rank(x) = k - 1
    BY RankExists
  <2> HIDE DEF Rank, r
  <2>2. r[k] = CHOOSE x \in S : Rank(x) = k - 1
    BY <1>2
  <2> QED BY <2>1, <2>2
<1>4. r \in [1..n -> S]
  <2> HIDE DEF Rank, r
  <2> QED BY <1>2, <1>3
<1>5. ASSUME NEW i \in 1..n, NEW j \in 1..n, i < j PROVE <<r[i], r[j]>> \in order
  <2>1. r[i] \in S /\ r[j] \in S /\ Rank(r[i]) < Rank(r[j])
    <3> HIDE DEF Rank, r, n
    <3> QED BY <1>1, <1>3, <1>5
  <2> HIDE DEF r
  <2> QED BY <2>1, RankOrder
<1> QED BY <1>1, <1>4, <1>5

\* The ascending sequence of a finite set of integers.
LEMMA AscendingFacts ==
  ASSUME NEW S, IsFiniteSet(S), S \subseteq Int
  PROVE  LET r == Ascending(S)
         IN  /\ Cardinality(S) \in Nat /\ r \in [1..Cardinality(S) -> S]
             /\ \A i, j \in 1..Cardinality(S) : i < j => r[i] < r[j]
<1> DEFINE order == {x \in S \X S : x[1] < x[2]}
           r == Ranked(S, order)
           n == Cardinality(S)
<1>1. \A a, b \in S : <<a, b>> \in order <=> a < b
  OBVIOUS
<1>2. StrictOrder(S, order)
  <2>1. \A a \in S : a \in Int
    OBVIOUS
  <2> HIDE DEF order
  <2>2. \A a \in S : <<a, a>> \notin order
    BY <1>1, <2>1
  <2>3. \A a, b \in S : a # b => <<a, b>> \in order \/ <<b, a>> \in order
    BY <1>1, <2>1
  <2>4. ASSUME NEW a \in S, NEW b \in S, NEW c \in S, <<a, b>> \in order, <<b, c>> \in order
        PROVE  <<a, c>> \in order
    <3>1. a < b /\ b < c
      BY <1>1, <2>4
    <3>2. a < c
      BY <2>1, <3>1
    <3> QED BY <1>1, <3>2
  <2> QED BY <2>2, <2>3, <2>4 DEF StrictOrder
<1>3. Ascending(S) = r
  BY DEF Ascending
<1>4. n \in Nat /\ r \in [1..n -> S] /\ \A i, j \in 1..n : i < j => <<r[i], r[j]>> \in order
  <2> HIDE DEF order
  <2> QED BY <1>2, RankedFacts
<1>5. \A i, j \in 1..n : i < j => r[i] < r[j]
  <2> HIDE DEF order, r, n
  <2> QED BY <1>1, <1>4
<1> HIDE DEF r
<1> QED BY <1>3, <1>4, <1>5

\* The elements of a sequence at a set of positions, in order.
LEMMA AtFacts ==
  ASSUME NEW E, NEW s \in Seq(E), NEW I \in SUBSET DOMAIN s
  PROVE  LET t == At(s, I)
             n == Cardinality(I)
         IN  /\ n \in Nat /\ DOMAIN t = 1..n /\ Len(t) = n /\ t \in Seq(E)
             /\ I # {} => t # <<>>
             /\ \E pos \in [1..n -> I] : /\ \A k \in 1..n : t[k] = s[pos[k]]
                                         /\ \A i, j \in 1..n : i < j => pos[i] < pos[j]
<1> DEFINE t == At(s, I)
           n == Cardinality(I)
           pos == Ascending(I)
<1>1. I \in SUBSET (1..Len(s)) /\ Len(s) \in Nat
  OBVIOUS
<1>2. IsFiniteSet(I) /\ I \subseteq Int
  <2>1. IsFiniteSet(1..Len(s))
    BY <1>1, FS_Interval
  <2>2. IsFiniteSet(I)
    BY <1>1, <2>1, FS_Subset
  <2> QED BY <1>1, <2>2
<1>3. n \in Nat /\ pos \in [1..n -> I] /\ \A i, j \in 1..n : i < j => pos[i] < pos[j]
  BY <1>2, AscendingFacts
<1>4. t = [k \in DOMAIN pos |-> s[pos[k]]]
  BY DEF At
<1>5. I # {} => n # 0
  BY <1>2, FS_EmptySet
<1>6. \A i \in I : s[i] \in E
  OBVIOUS
<1> HIDE DEF t, n, pos
<1>7. DOMAIN t = 1..n /\ \A k \in 1..n : t[k] = s[pos[k]] /\ t[k] \in E
  BY <1>3, <1>4, <1>6
<1>8. t = [k \in 1..n |-> t[k]]
  BY <1>3, <1>4
<1>9. t \in Seq(E) /\ Len(t) = n
  <2>1. t \in [1..n -> E]
    BY <1>7, <1>8
  <2>2. t \in Seq(E)
    BY <1>3, <2>1
  <2> QED BY <1>3, <1>7, <2>2, LenProperties
<1>10. I # {} => t # <<>>
  BY <1>3, <1>5, <1>9
<1> QED BY <1>3, <1>7, <1>9, <1>10 DEF t, n

\* The concatenation of sequences over E is one, and is not empty unless all of them are.
LEMMA ConcatFacts ==
  ASSUME NEW E, NEW n \in Nat, NEW ss \in [1..n -> Seq(E)]
  PROVE  /\ Concat(ss) \in Seq(E)
         /\ (\E i \in 1..n : ss[i] # <<>>) => Concat(ss) # <<>>
<1> DEFINE K == 1..n
           Good(s) == {t \in Seq(E) : (\E i \in s : ss[i] # <<>>) => t # <<>>}
           A == [s \in SUBSET K |-> Good(s)]
           step == [x \in (SUBSET K) \X Seq(E) |-> x[2] \o ss[Max(x[1])]]
           Loop(g) == g = [s \in SUBSET K |-> IF s = {} THEN <<>> ELSE g[s \ {Max(s)}] \o ss[Max(s)]]
           iter == CHOOSE g : Loop(g)
<1>1. Concat(ss) = iter[K]
  BY DEF Concat, FoldLeft, MapThenFoldSet
<1>2. <<>> \in A[{}]
  OBVIOUS
<1>3. ASSUME NEW s \in SUBSET K, s # {}, NEW a, a \in Good(s \ {Max(s)})
      PROVE  a \o ss[Max(s)] \in Good(s)
  <2>1. Max(s) \in s
    BY <1>3, GreatestRemoved
  <2>2. Max(s) \in K
    BY <2>1
  <2> DEFINE b == ss[Max(s)]
  <2>3. a \in Seq(E) /\ b \in Seq(E)
    BY <1>3, <2>2
  <2>4. a \o b \in Seq(E) /\ (a \o b = <<>> => a = <<>> /\ b = <<>>)
    <3> HIDE DEF b
    <3> QED BY <2>3, ConcatProperties, EmptySeq
  <2>5. ASSUME NEW i \in s, ss[i] # <<>> PROVE a \o b # <<>>
    <3>1. CASE i = Max(s)
      BY <2>4, <2>5, <3>1
    <3>2. CASE i # Max(s)
      BY <1>3, <2>4, <2>5, <3>2
    <3> QED BY <3>1, <3>2
  <2> QED BY <2>4, <2>5
<1>4. StepsIn(n, A, step)
  <2> SUFFICES ASSUME NEW s \in SUBSET K, s # {}, NEW a \in A[s \ {Max(s)}]
               PROVE  step[<<s, a>>] \in A[s]
    BY DEF StepsIn
  <2>1. s \ {Max(s)} \in SUBSET K
    OBVIOUS
  <2>2. a \in Good(s \ {Max(s)}) /\ a \in Seq(E)
    BY <2>1
  <2>3. step[<<s, a>>] = a \o ss[Max(s)]
    BY <2>2
  <2> QED BY <1>3, <2>2, <2>3
<1>5. PICK g : FoldOf(g, n, <<>>, step) /\ \A s \in SUBSET K : g[s] \in A[s]
  <2> HIDE DEF A, step
  <2> QED BY <1>2, <1>4, FoldSolution, Zenon
<1>6. Loop(g)
  <2>1. ASSUME NEW s \in SUBSET K, s # {}
        PROVE  step[<<s, g[s \ {Max(s)}]>>] = g[s \ {Max(s)}] \o ss[Max(s)]
    <3>1. g[s \ {Max(s)}] \in Seq(E)
      BY <1>5
    <3> QED BY <3>1
  <2> HIDE DEF step
  <2> QED BY <1>5, <2>1 DEF FoldOf
<1>7. Loop(iter)
  <2> HIDE DEF Loop
  <2> QED BY <1>6
<1> HIDE DEF iter
<1>8. iter[{}] \in A[{}]
  BY <1>2, <1>7
<1>9. \A s \in SUBSET K : s # {} /\ iter[s \ {Max(s)}] \in A[s \ {Max(s)}] => iter[s] \in A[s]
  <2> SUFFICES ASSUME NEW s \in SUBSET K, s # {}, iter[s \ {Max(s)}] \in A[s \ {Max(s)}]
               PROVE  iter[s] \in A[s]
    OBVIOUS
  <2>1. iter[s \ {Max(s)}] \in Good(s \ {Max(s)})
    OBVIOUS
  <2>2. iter[s] = iter[s \ {Max(s)}] \o ss[Max(s)]
    BY <1>7
  <2>3. iter[s] \in Good(s)
    <3> HIDE DEF Good
    <3> QED BY <1>3, <2>1, <2>2
  <2> QED BY <2>3
<1>10. iter[K] \in A[K]
  <2> HIDE DEF A
  <2> QED BY <1>8, <1>9, FoldInvariant
<1> QED BY <1>1, <1>10

-----------------------------------------------------------------------------
(* Folds as paths: the values a fold passes through, one per position.     *)

\* The first i positions, and what is left of them without the greatest one.
LEMMA FirstPositions ==
  ASSUME NEW n \in Nat, NEW i \in 1..n
  PROVE  /\ 1..i \in SUBSET (1..n) /\ 1..i # {} /\ Max(1..i) = i /\ (1..i) \ {Max(1..i)} = 1..(i - 1)
<1>1. 1..i \in SUBSET (1..n) /\ i \in 1..i /\ 1..i # {}
  OBVIOUS
<1>2. Max(1..i) \in 1..i /\ \A y \in 1..i : y <= Max(1..i)
  <2> DEFINE s == 1..i
  <2>1. s \in SUBSET (1..n) /\ s # {}
    BY <1>1
  <2> HIDE DEF s
  <2>2. Max(s) \in s /\ \A y \in s : y <= Max(s)
    BY <2>1, GreatestRemoved
  <2> QED BY <2>2 DEF s
<1> DEFINE m == Max(1..i)
<1> HIDE DEF m
<1>3. m = i
  <2>1. m \in 1..i /\ i <= m
    BY <1>1, <1>2 DEF m
  <2> QED BY <2>1
<1> QED BY <1>1, <1>3 DEF m

\* g takes the step of the greatest position after the others.
PathOf(g, n, b, step) ==
  g = [s \in SUBSET (1..n) |-> IF s = {} THEN b ELSE step[<<Max(s), g[s \ {Max(s)}]>>]]

\* A fold whose steps stay in a set U has a solution in U.
LEMMA PathExists ==
  ASSUME NEW n \in Nat, NEW U, NEW b \in U, NEW step,
         \A i \in 1..n, a \in U : step[<<i, a>>] \in U
  PROVE  \E g : PathOf(g, n, b, step) /\ \A s \in SUBSET (1..n) : g[s] \in U
<1> DEFINE K == 1..n
           A == [s \in SUBSET K |-> U]
           turn == [x \in (SUBSET K) \X U |-> step[<<Max(x[1]), x[2]>>]]
<1>1. ASSUME NEW s \in SUBSET K, s # {}
      PROVE  Max(s) \in K /\ s \ {Max(s)} \in SUBSET K
  BY <1>1, GreatestRemoved
<1>2. StepsIn(n, A, turn)
  <2> SUFFICES ASSUME NEW s \in SUBSET K, s # {}, NEW a \in A[s \ {Max(s)}]
               PROVE  turn[<<s, a>>] \in A[s]
    BY DEF StepsIn
  <2>1. a \in U /\ Max(s) \in K
    BY <1>1
  <2>2. turn[<<s, a>>] = step[<<Max(s), a>>]
    BY <2>1
  <2> HIDE DEF turn
  <2> QED BY <2>1, <2>2
<1>3. b \in A[{}]
  OBVIOUS
<1>4. PICK g : FoldOf(g, n, b, turn) /\ \A s \in SUBSET (1..n) : g[s] \in A[s]
  <2> HIDE DEF A, turn
  <2> QED BY <1>2, <1>3, FoldSolution, Zenon
<1>5. \A s \in SUBSET K : g[s] \in U
  BY <1>4
<1>6. PathOf(g, n, b, step)
  <2>1. ASSUME NEW s \in SUBSET K, s # {}
        PROVE  turn[<<s, g[s \ {Max(s)}]>>] = step[<<Max(s), g[s \ {Max(s)}]>>]
    <3>1. g[s \ {Max(s)}] \in U
      BY <1>1, <1>5, <2>1
    <3> QED BY <3>1
  <2> HIDE DEF turn
  <2> QED BY <1>4, <2>1 DEF FoldOf, PathOf
<1> QED BY <1>5, <1>6

\* The values of a path for the first positions: one step each.
LEMMA PathSteps ==
  ASSUME NEW n \in Nat, NEW b, NEW step, NEW g, PathOf(g, n, b, step)
  PROVE  /\ g[{}] = b
         /\ \A i \in 1..n : g[1..i] = step[<<i, g[1..(i - 1)]>>]
<1> DEFINE K == 1..n
<1>1. {} \in SUBSET K
  OBVIOUS
<1>2. g[{}] = b
  BY <1>1 DEF PathOf
<1>3. ASSUME NEW i \in 1..n PROVE g[1..i] = step[<<i, g[1..(i - 1)]>>]
  <2> DEFINE s == 1..i
             r == 1..(i - 1)
  <2>1. s \in SUBSET K /\ s # {} /\ Max(s) = i /\ s \ {Max(s)} = r
    BY FirstPositions
  <2> HIDE DEF s, r, K
  <2>2. g[s] = step[<<Max(s), g[s \ {Max(s)}]>>]
    BY <2>1 DEF PathOf, K
  <2> QED BY <2>1, <2>2 DEF s, r
<1> QED BY <1>2, <1>3

\* Two paths of the same steps agree on the first positions.
StepsAlong(F, n, b, step) == F[0] = b /\ \A i \in 1..n : F[i] = step[<<i, F[i - 1]>>]
AgreeTo(F, G, n) == \A i \in 0..n : F[i] = G[i]
LEMMA PathsAgree ==
  ASSUME NEW n \in Nat, NEW b, NEW step, NEW F, NEW G, StepsAlong(F, n, b, step), StepsAlong(G, n, b, step)
  PROVE  AgreeTo(F, G, n)
<1> USE DEF StepsAlong, AgreeTo
<1> DEFINE C == {i \in Nat : i <= n => F[i] = G[i]}
<1>1. 0 \in C
  OBVIOUS
<1>2. ASSUME NEW i \in Nat, i \in C PROVE i + 1 \in C
  <2> SUFFICES ASSUME i + 1 <= n PROVE F[i + 1] = G[i + 1]
    OBVIOUS
  <2>1. F[i] = G[i] /\ i + 1 \in 1..n /\ (i + 1) - 1 = i
    BY <1>2
  <2> QED BY <2>1
<1>3. \A i \in Nat : i \in C
  <2> HIDE DEF C
  <2> QED BY <1>1, <1>2, NatSetInduction
<1> QED BY <1>3

\* Concat appends the sequences one after the other.
ConcatStays(U, n, ss) == \A i \in 1..n, a \in U : a \o ss[i] \in U
ConcatAlong(F, U, n, ss) ==
  /\ F \in [0..n -> U] /\ F[0] = <<>> /\ Concat(ss) = F[n]
  /\ \A i \in 1..n : F[i] = F[i - 1] \o ss[i]
LEMMA ConcatPath ==
  ASSUME NEW n \in Nat, NEW ss, DOMAIN ss = 1..n, NEW U, <<>> \in U, ConcatStays(U, n, ss)
  PROVE  \E F : ConcatAlong(F, U, n, ss)
<1> USE DEF ConcatStays, ConcatAlong
<1> SUFFICES ASSUME NEW b \in U, b = <<>> PROVE \E F : ConcatAlong(F, U, n, ss)
  OBVIOUS
<1> DEFINE K == 1..n
           step == [x \in K \X U |-> x[2] \o ss[x[1]]]
           Loop(g) == g = [s \in SUBSET K |-> IF s = {} THEN b ELSE g[s \ {Max(s)}] \o ss[Max(s)]]
           iter == CHOOSE g : Loop(g)
<1>0. DOMAIN ss = K
  OBVIOUS
<1>1. Concat(ss) = iter[K]
  BY <1>0 DEF Concat, FoldLeft, MapThenFoldSet
<1>2. \A i \in K, a \in U : step[<<i, a>>] = a \o ss[i] /\ step[<<i, a>>] \in U
  OBVIOUS
<1>3. PICK g : PathOf(g, n, b, step) /\ \A s \in SUBSET K : g[s] \in U
  <2> HIDE DEF step
  <2> QED BY <1>2, PathExists
<1>4. \A s \in SUBSET K : s # {} => Max(s) \in K /\ s \ {Max(s)} \in SUBSET K
  BY GreatestRemoved
<1>5. Loop(g)
  <2>1. ASSUME NEW s \in SUBSET K, s # {}
        PROVE  step[<<Max(s), g[s \ {Max(s)}]>>] = g[s \ {Max(s)}] \o ss[Max(s)]
    BY <1>2, <1>3, <1>4, <2>1
  <2> HIDE DEF step
  <2> QED BY <1>3, <2>1 DEF PathOf
<1>6. Loop(iter)
  <2> HIDE DEF Loop
  <2> QED BY <1>5
<1> HIDE DEF iter
<1>7. iter[{}] = b /\ \A s \in SUBSET K : s # {} => iter[s] = iter[s \ {Max(s)}] \o ss[Max(s)]
  BY <1>6
<1> DEFINE F == [i \in 0..n |-> iter[1..i]]
<1>8. \A i \in 1..n : iter[1..i] = iter[1..(i - 1)] \o ss[i]
  BY <1>7, FirstPositions
<1>9. 1..0 = {}
  OBVIOUS
<1> DEFINE C == {i \in Nat : i <= n => iter[1..i] \in U}
<1>10. 0 \in C
  BY <1>7, <1>9
<1>11. ASSUME NEW i \in Nat, i \in C PROVE i + 1 \in C
  <2> SUFFICES ASSUME i + 1 <= n PROVE iter[1..(i + 1)] \in U
    OBVIOUS
  <2> DEFINE j == i + 1
  <2>1. j \in 1..n /\ j - 1 = i /\ iter[1..i] \in U
    BY <1>11
  <2> HIDE DEF j
  <2>2. iter[1..j] = iter[1..i] \o ss[j]
    BY <1>8, <2>1
  <2> QED BY <2>1, <2>2 DEF j
<1>12. \A i \in Nat : i \in C
  <2> HIDE DEF C
  <2> QED BY <1>10, <1>11, NatSetInduction
<1>13. F \in [0..n -> U] /\ F[0] = b /\ F[n] = iter[K]
  BY <1>7, <1>9, <1>12
<1>14. ASSUME NEW i \in 1..n PROVE F[i] = F[i - 1] \o ss[i]
  <2>1. i - 1 \in 0..n /\ i \in 0..n
    OBVIOUS
  <2>2. F[i] = iter[1..i] /\ F[i - 1] = iter[1..(i - 1)]
    BY <2>1
  <2> QED BY <1>8, <2>2
<1> HIDE DEF F
<1> QED BY <1>1, <1>13, <1>14

\* The concatenation of no sequence is empty.
LEMMA ConcatNone ==
  ASSUME NEW ss, ss = <<>>
  PROVE  Concat(ss) = <<>>
<1>1. DOMAIN ss = 1..0 /\ 0 \in Nat
  OBVIOUS
<1> DEFINE U == {<<>>}
<1>2. <<>> \in U
  OBVIOUS
<1>3. ConcatStays(U, 0, ss)
  BY DEF ConcatStays
<1> HIDE DEF U
<1>4. PICK F : ConcatAlong(F, U, 0, ss)
  BY <1>1, <1>2, <1>3, ConcatPath
<1> QED BY <1>4 DEF ConcatAlong

\* One more sequence is appended to the concatenation of the ones before it.
LEMMA ConcatLast ==
  ASSUME NEW E, NEW n \in Nat, NEW ss \in [1..n -> Seq(E)], NEW m, m = n + 1,
         NEW tt \in [1..m -> Seq(E)], \A i \in 1..n : tt[i] = ss[i]
  PROVE  Concat(tt) = Concat(ss) \o tt[m] /\ Concat(ss) \in Seq(E)
<1> DEFINE U == Seq(E)
           step == [x \in (1..n) \X U |-> x[2] \o ss[x[1]]]
<1>0. <<>> \in U
  OBVIOUS
<1>a. \A p \in U, q \in U : p \o q \in U
  BY ConcatProperties
<1>b. DOMAIN ss = 1..n /\ DOMAIN tt = 1..m /\ m \in Nat
  OBVIOUS
<1>c. (\A i \in 1..n : ss[i] \in U) /\ (\A i \in 1..m : tt[i] \in U)
  OBVIOUS
<1> HIDE DEF U
<1>1. PICK F : ConcatAlong(F, U, n, ss)
  <2>1. ConcatStays(U, n, ss)
    BY <1>a, <1>c DEF ConcatStays
  <2> QED BY <1>0, <1>b, <2>1, ConcatPath
<1>2. PICK G : ConcatAlong(G, U, m, tt)
  <2>1. ConcatStays(U, m, tt)
    BY <1>a, <1>c DEF ConcatStays
  <2> QED BY <1>0, <1>b, <2>1, ConcatPath
<1> USE DEF ConcatAlong
<1>3. ASSUME NEW i \in 1..n
      PROVE  F[i] = step[<<i, F[i - 1]>>] /\ G[i] = step[<<i, G[i - 1]>>]
  <2>1. i - 1 \in 0..n /\ i - 1 \in 0..m /\ i \in 1..m
    OBVIOUS
  <2>2. F[i - 1] \in U /\ G[i - 1] \in U
    BY <1>1, <1>2, <2>1
  <2>3. step[<<i, F[i - 1]>>] = F[i - 1] \o ss[i] /\ step[<<i, G[i - 1]>>] = G[i - 1] \o ss[i]
    BY <2>2
  <2> HIDE DEF step
  <2> QED BY <1>1, <1>2, <2>1, <2>3
<1>4. \A i \in 0..n : F[i] = G[i]
  <2> DEFINE b == <<>>
  <2>1. F[0] = b /\ G[0] = b
    BY <1>1, <1>2
  <2> HIDE DEF step, b
  <2>2. StepsAlong(F, n, b, step)
    BY <1>3, <2>1 DEF StepsAlong
  <2>3. StepsAlong(G, n, b, step)
    BY <1>3, <2>1 DEF StepsAlong
  <2>4. AgreeTo(F, G, n)
    BY <2>2, <2>3, PathsAgree
  <2> QED BY <2>4 DEF AgreeTo
<1>5. G[m] = G[n] \o tt[m]
  <2>1. m \in 1..m /\ m - 1 = n
    OBVIOUS
  <2> QED BY <1>2, <2>1
<1>6. F[n] \in U /\ n \in 0..n
  BY <1>1
<1> QED BY <1>1, <1>2, <1>4, <1>5, <1>6 DEF U

\* Every element of a ranked set has its place.
LEMMA RankedOnto ==
  ASSUME NEW S, IsFiniteSet(S), NEW order, StrictOrder(S, order), NEW x \in S
  PROVE  \E k \in 1..Cardinality(S) : Ranked(S, order)[k] = x
<1> DEFINE Below(y) == {z \in S : <<z, y>> \in order}
           n == Cardinality(S)
           r == Ranked(S, order)
           k == Cardinality(Below(x)) + 1
<1>1. n \in Nat /\ r \in [1..n -> S]
  BY RankedFacts
<1>2. IsFiniteSet(Below(x)) /\ Cardinality(Below(x)) \in Nat
  BY FS_Subset, FS_CardinalityType
<1>3. Cardinality(Below(x)) < n
  <2>1. Below(x) \subseteq S \ {x}
    BY DEF StrictOrder
  <2>2. IsFiniteSet(S \ {x}) /\ Cardinality(S \ {x}) = n - 1
    BY FS_RemoveElement
  <2>3. Cardinality(Below(x)) <= Cardinality(S \ {x})
    BY <2>1, <2>2, FS_Subset
  <2> HIDE DEF Below, n
  <2> QED BY <1>1, <1>2, <2>2, <2>3
<1>4. k \in 1..n /\ k - 1 = Cardinality(Below(x))
  BY <1>1, <1>2, <1>3
<1>5. r = [j \in 1..n |-> CHOOSE y \in S : Cardinality(Below(y)) = j - 1]
  BY DEF Ranked
<1> HIDE DEF r, n
<1>6. r[k] = CHOOSE y \in S : Cardinality(Below(y)) = k - 1
  BY <1>4, <1>5
<1> HIDE DEF k
<1>7. r[k] \in S /\ Cardinality(Below(r[k])) = Cardinality(Below(x))
  <2> HIDE DEF Below
  <2> QED BY <1>4, <1>6
<1> DEFINE y == r[k]
<1> HIDE DEF y
<1>8. y \in S /\ IsFiniteSet(Below(y)) /\ Cardinality(Below(y)) = Cardinality(Below(x))
  BY <1>7, FS_Subset DEF y
<1>9. ASSUME NEW a \in S, NEW c \in S, <<a, c>> \in order PROVE Cardinality(Below(a)) # Cardinality(Below(c))
  <2>1. Below(a) \subseteq Below(c) \ {a} /\ a \in Below(c)
    BY <1>9 DEF StrictOrder
  <2>2. IsFiniteSet(Below(c)) /\ IsFiniteSet(Below(a)) /\ Cardinality(Below(c)) \in Nat /\ Cardinality(Below(a)) \in Nat
    BY FS_Subset, FS_CardinalityType
  <2>3. IsFiniteSet(Below(c) \ {a}) /\ Cardinality(Below(c) \ {a}) = Cardinality(Below(c)) - 1
    BY <2>1, <2>2, FS_RemoveElement
  <2>4. Cardinality(Below(a)) <= Cardinality(Below(c) \ {a})
    BY <2>1, <2>3, FS_Subset
  <2> HIDE DEF Below
  <2> QED BY <2>2, <2>3, <2>4
<1>10. y = x
  <2> HIDE DEF Below
  <2>1. y # x => <<y, x>> \in order \/ <<x, y>> \in order
    BY <1>8 DEF StrictOrder
  <2> QED BY <1>8, <1>9, <2>1
<1> QED BY <1>4, <1>10 DEF y, r, n
=============================================================================
