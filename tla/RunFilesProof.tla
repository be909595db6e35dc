----------------------------- MODULE RunFilesProof -----------------------------
(***************************************************************************)
(* What the data operators of the out-of-core partition keep, for every    *)
(* input: run files are only appended to, what was written is read back as *)
(* words, merged children cover the leaders that have points, and the      *)
(* batches of a level scan list every record of every run once, in order.  *)
(***************************************************************************)
EXTENDS RbcPartition, DataTheorems
-----------------------------------------------------------------------------
(* Words, extents and runs. *)

Words == Seq(Nat)
Extents == [offset : Nat, len : Nat]
ExtentIn(file, e) == e \in Extents /\ e.offset + 1 + e.len <= Len(file) /\ file[e.offset + 1] = e.len
\* g is f with something appended.
Grows(f, g) == Len(f) <= Len(g) /\ \A i \in 1..Len(f) : g[i] = f[i]
\* A run of one extent, as the writers make them.
RunRecords == [len : Nat, extents : Seq(Extents)]
RunIn(file, r) == Len(r.extents) = 1 /\ r.extents[1].len = r.len /\ ExtentIn(file, r.extents[1])
RunsIn(file, runs) == runs \in Seq(RunRecords) /\ \A i \in DOMAIN runs : RunIn(file, runs[i])

\* Growing is a preorder.
LEMMA GrowsFacts ==
  ASSUME NEW f \in Words, NEW g \in Words, NEW h \in Words
  PROVE  Grows(f, f) /\ (Grows(f, g) /\ Grows(g, h) => Grows(f, h))
BY DEF Grows, Words

\* What lies in a file lies in the grown file.
LEMMA ExtentKept ==
  ASSUME NEW f \in Words, NEW g \in Words, Grows(f, g), NEW e, ExtentIn(f, e)
  PROVE  ExtentIn(g, e)
<1>1. e.offset + 1 \in 1..Len(f) /\ Len(f) \in Nat /\ Len(g) \in Nat /\ e.offset \in Nat /\ e.len \in Nat
  BY DEF ExtentIn, Extents, Words
<1> QED BY <1>1 DEF ExtentIn, Grows

\* The runs of a file are runs of the grown file.
LEMMA RunsKept ==
  ASSUME NEW f \in Words, NEW g \in Words, Grows(f, g), NEW runs, RunsIn(f, runs)
  PROVE  RunsIn(g, runs)
BY ExtentKept DEF RunsIn, RunIn

\* A run is read as words.
LEMMA ReadRunWords ==
  ASSUME NEW file \in Words, NEW e, ExtentIn(file, e)
  PROVE  ReadRun(file, e) \in Words
<1> DEFINE a == e.offset + 2
           b == e.offset + 1 + e.len
<1>1. a \in Int /\ b \in Int /\ 1 <= a /\ b <= Len(file) /\ Len(file) \in Nat
  BY DEF ExtentIn, Extents, Words
<1>2. ReadRun(file, e) = SubSeq(file, a, b)
  BY DEF ReadRun, ExtentIn
<1> HIDE DEF a, b
<1>3. \A i \in a..b : file[i] \in Nat
  <2> SUFFICES ASSUME NEW i \in a..b PROVE file[i] \in Nat
    OBVIOUS
  <2>1. i \in 1..Len(file)
    BY <1>1
  <2> QED BY <2>1 DEF Words
<1>4. SubSeq(file, a, b) \in Seq(Nat)
  BY <1>1, <1>3, SubSeqProperties
<1> QED BY <1>2, <1>4 DEF Words

\* A chain of extents is read as words.
LEMMA ReadChainWords ==
  ASSUME NEW file \in Words, NEW n \in Nat, NEW es, DOMAIN es = 1..n, \A i \in 1..n : ExtentIn(file, es[i])
  PROVE  ReadChain(file, es) \in Words
<1> DEFINE ss == [i \in 1..n |-> ReadRun(file, es[i])]
<1>1. ss \in [1..n -> Seq(Nat)]
  BY ReadRunWords DEF Words
<1>2. ReadChain(file, es) = Concat(ss)
  BY DEF ReadChain
<1> HIDE DEF ss
<1> QED BY <1>1, <1>2, ConcatFacts DEF Words

\* The points of a run.
LEMMA RunWords ==
  ASSUME NEW file \in Words, NEW runs, RunsIn(file, runs), NEW r \in DOMAIN runs
  PROVE  ReadChain(file, runs[r].extents) \in Words
<1>1. RunIn(file, runs[r]) /\ runs[r] \in RunRecords
  BY DEF RunsIn
<1> DEFINE es == runs[r].extents
<1>2. DOMAIN es = 1..1 /\ \A i \in 1..1 : ExtentIn(file, es[i])
  BY <1>1 DEF RunIn, RunRecords
<1> HIDE DEF es
<1>3. ReadChain(file, es) \in Words
  BY <1>2, ReadChainWords
<1> QED BY <1>3 DEF es

\* Appending an encoded list of points.
LEMMA EncodedFacts ==
  ASSUME NEW file \in Words, NEW pts \in Words
  PROVE  /\ file \o Encoded(pts) \in Words /\ Grows(file, file \o Encoded(pts))
         /\ ExtentIn(file \o Encoded(pts), ExtentAt(file, pts))
         /\ ExtentAt(file, pts) \in Extents /\ ExtentAt(file, pts).len = Len(pts)
<1> DEFINE h == <<Len(pts)>>
           c == Encoded(pts)
           g == file \o c
<1>0. h \in Seq(Nat) /\ pts \in Seq(Nat) /\ file \in Seq(Nat)
  BY DEF Words
<1>1. Len(h) = 1 /\ h[1] = Len(pts) /\ Len(pts) \in Nat /\ Len(file) \in Nat
  BY DEF Words
<1>2. c = h \o pts
  BY DEF Encoded
<1> HIDE DEF h, c
<1>3. c \in Seq(Nat) /\ Len(c) = 1 + Len(pts) /\ c[1] = Len(pts)
  <2>1. h \o pts \in Seq(Nat)
    BY <1>0, ConcatProperties
  <2>2. Len(h \o pts) = Len(h) + Len(pts)
    BY <1>0
  <2>3. (h \o pts)[1] = h[1]
    BY <1>0, <1>1
  <2> QED BY <1>1, <1>2, <2>1, <2>2, <2>3
<1>4. g \in Seq(Nat) /\ Len(g) = Len(file) + 1 + Len(pts)
  <2>0. c \in Seq(Nat)
    BY <1>3
  <2>1. g \in Seq(Nat)
    BY <1>0, <2>0, ConcatProperties
  <2>2. Len(g) = Len(file) + Len(c)
    BY <1>0, <2>0
  <2> QED BY <1>1, <1>3, <2>1, <2>2
<1>5. \A i \in 1..Len(file) + Len(c) : g[i] = IF i <= Len(file) THEN file[i] ELSE c[i - Len(file)]
  BY <1>3, ConcatProperties DEF Words
<1> HIDE DEF g
<1>6. g[Len(file) + 1] = Len(pts)
  <2>1. Len(file) + 1 \in 1..Len(file) + Len(c) /\ (Len(file) + 1) - Len(file) = 1 /\ ~(Len(file) + 1 <= Len(file))
    BY <1>1, <1>3
  <2> QED BY <1>3, <1>5, <2>1
<1>7. Grows(file, g)
  <2>1. \A i \in 1..Len(file) : i \in 1..Len(file) + Len(c)
    BY <1>1, <1>3
  <2> QED BY <1>1, <1>3, <1>4, <1>5, <2>1 DEF Grows
<1>8. ExtentAt(file, pts) \in Extents /\ ExtentAt(file, pts).len = Len(pts) /\ ExtentAt(file, pts).offset = Len(file)
  BY <1>1 DEF ExtentAt, Extents
<1>9. ExtentIn(g, ExtentAt(file, pts))
  BY <1>1, <1>4, <1>6, <1>8 DEF ExtentIn
<1> QED BY <1>4, <1>7, <1>8, <1>9 DEF g, c, Words

\* Writing runs one after the other.
RunsFrom(b, ss) == FoldLeft(AddRun, b, ss)
RunsFromStays(U, n, ss) == \A i \in 1..n, a \in U : AddRun(a, ss[i]) \in U
RunsFromAlong(F, U, n, b, ss) ==
  /\ F \in [0..n -> U] /\ F[0] = b /\ RunsFrom(b, ss) = F[n]
  /\ \A i \in 1..n : F[i] = AddRun(F[i - 1], ss[i])
LEMMA RunsFromPath ==
  ASSUME NEW n \in Nat, NEW ss, DOMAIN ss = 1..n, NEW U, NEW b \in U, RunsFromStays(U, n, ss)
  PROVE  \E F : RunsFromAlong(F, U, n, b, ss)
<1> USE DEF RunsFromStays, RunsFromAlong
<1> DEFINE K == 1..n
           step == [x \in K \X U |-> AddRun(x[2], ss[x[1]])]
           Loop(g) == g = [s \in SUBSET K |-> IF s = {} THEN b ELSE AddRun(g[s \ {Max(s)}], ss[Max(s)])]
           iter == CHOOSE g : Loop(g)
<1>0. DOMAIN ss = K
  OBVIOUS
<1>1. RunsFrom(b, ss) = iter[K]
  BY <1>0 DEF RunsFrom, FoldLeft, MapThenFoldSet
<1>2. \A i \in K, a \in U : step[<<i, a>>] = AddRun(a, ss[i]) /\ step[<<i, a>>] \in U
  OBVIOUS
<1>3. PICK g : PathOf(g, n, b, step) /\ \A s \in SUBSET K : g[s] \in U
  <2> HIDE DEF step
  <2> QED BY <1>2, PathExists
<1>4. \A s \in SUBSET K : s # {} => Max(s) \in K /\ s \ {Max(s)} \in SUBSET K
  BY GreatestRemoved
<1>5. Loop(g)
  <2>1. ASSUME NEW s \in SUBSET K, s # {}
        PROVE  step[<<Max(s), g[s \ {Max(s)}]>>] = AddRun(g[s \ {Max(s)}], ss[Max(s)])
    BY <1>2, <1>3, <1>4, <2>1
  <2> HIDE DEF step
  <2> QED BY <1>3, <2>1 DEF PathOf
<1>6. Loop(iter)
  <2> HIDE DEF Loop
  <2> QED BY <1>5
<1> HIDE DEF iter
<1>7. iter[{}] = b /\ \A s \in SUBSET K : s # {} => iter[s] = AddRun(iter[s \ {Max(s)}], ss[Max(s)])
  BY <1>6
<1> DEFINE F == [i \in 0..n |-> iter[1..i]]
<1>8. \A i \in 1..n : iter[1..i] = AddRun(iter[1..(i - 1)], ss[i])
  BY <1>7, FirstPositions
<1>9. 1..0 = {}
  OBVIOUS
<1> DEFINE C == {i \in Nat : i <= n => iter[1..i] \in U}
<1>10. 0 \in C
  BY <1>7, <1>9
<1>11. ASSUME NEW i \in Nat, i \in C PROVE i + 1 \in C
  <2> SUFFICES ASSUME i + 1 <= n PROVE iter[1..(i + 1)] \in U
    OBVIOUS
  <2> DEFINE j == i + 1
  <2>1. j \in 1..n /\ j - 1 = i /\ iter[1..i] \in U
    BY <1>11
  <2> HIDE DEF j
  <2>2. iter[1..j] = AddRun(iter[1..i], ss[j])
    BY <1>8, <2>1
  <2> QED BY <2>1, <2>2 DEF j
<1>12. \A i \in Nat : i \in C
  <2> HIDE DEF C
  <2> QED BY <1>10, <1>11, NatSetInduction
<1>13. F \in [0..n -> U] /\ F[0] = b /\ F[n] = iter[K]
  BY <1>7, <1>9, <1>12
<1>14. ASSUME NEW i \in 1..n PROVE F[i] = AddRun(F[i - 1], ss[i])
  <2>1. i - 1 \in 0..n /\ i \in 0..n
    OBVIOUS
  <2>2. F[i] = iter[1..i] /\ F[i - 1] = iter[1..(i - 1)]
    BY <2>1
  <2> QED BY <1>8, <2>2
<1> HIDE DEF F
<1> QED BY <1>1, <1>13, <1>14

\* The runs that are written are in the grown file.
LEMMA WriteRunsFacts ==
  ASSUME NEW file \in Words, NEW clusters \in Seq(Words)
  PROVE  LET w == WriteRuns(file, clusters)
         IN  w.file \in Words /\ Grows(file, w.file) /\ RunsIn(w.file, w.runs)
<1> DEFINE n == Len(clusters)
           b == [file |-> file, runs |-> <<>>]
           T == [file : Words, runs : Seq(RunRecords)]
           U == {acc \in T : Grows(file, acc.file) /\ RunsIn(acc.file, acc.runs)}
<1>1. n \in Nat /\ DOMAIN clusters = 1..n /\ \A i \in 1..n : clusters[i] \in Words
  OBVIOUS
<1>2. b \in U
  <2>1. <<>> \in Seq(RunRecords)
    OBVIOUS
  <2>2. Grows(file, file)
    BY GrowsFacts
  <2>3. RunsIn(file, <<>>)
    BY <2>1 DEF RunsIn
  <2> QED BY <2>1, <2>2, <2>3
<1>3. ASSUME NEW a \in U, NEW c \in Words PROVE AddRun(a, c) \in U
  <2> DEFINE g == a.file \o Encoded(c)
             e == ExtentAt(a.file, c)
             r == [len |-> Len(c), extents |-> <<e>>]
             rs == Append(a.runs, r)
  <2>0. a.file \in Words /\ a.runs \in Seq(RunRecords) /\ Grows(file, a.file) /\ RunsIn(a.file, a.runs)
    OBVIOUS
  <2>1. g \in Words /\ Grows(a.file, g) /\ ExtentIn(g, e) /\ e \in Extents /\ e.len = Len(c)
    BY <2>0, EncodedFacts
  <2>2. Grows(file, g)
    BY <2>0, <2>1, GrowsFacts
  <2>3. RunsIn(g, a.runs)
    BY <2>0, <2>1, RunsKept
  <2>e. AddRun(a, c) = [file |-> g, runs |-> rs]
    BY DEF AddRun
  <2> HIDE DEF g, e
  <2>4. r \in RunRecords /\ RunIn(g, r)
    <3>1. <<e>> \in Seq(Extents) /\ Len(<<e>>) = 1 /\ <<e>>[1] = e
      BY <2>1
    <3>2. Len(c) \in Nat
      BY DEF Words
    <3>3. r.len = Len(c) /\ r.extents = <<e>>
      OBVIOUS
    <3> QED BY <2>1, <3>1, <3>2, <3>3 DEF RunRecords, RunIn
  <2> HIDE DEF r
  <2>5. rs \in Seq(RunRecords) /\ DOMAIN a.runs = 1..Len(a.runs) /\ DOMAIN rs = 1..(Len(a.runs) + 1)
        /\ (\A i \in DOMAIN a.runs : rs[i] = a.runs[i]) /\ rs[Len(a.runs) + 1] = r /\ Len(a.runs) \in Nat
    BY <2>0, <2>4, AppendFacts
  <2> HIDE DEF rs
  <2>6. RunsIn(g, rs)
    <3> SUFFICES ASSUME NEW i \in DOMAIN rs PROVE RunIn(g, rs[i])
      BY <2>5 DEF RunsIn
    <3>1. CASE i \in DOMAIN a.runs
      BY <2>3, <2>5, <3>1 DEF RunsIn
    <3>2. CASE i \notin DOMAIN a.runs
      <4>1. i = Len(a.runs) + 1
        BY <2>5, <3>2
      <4> QED BY <2>4, <2>5, <4>1
    <3> QED BY <3>1, <3>2
  <2>7. [file |-> g, runs |-> rs] \in U
    BY <2>1, <2>2, <2>5, <2>6
  <2> QED BY <2>e, <2>7
<1> HIDE DEF U
<1>4. RunsFromStays(U, n, clusters)
  BY <1>1, <1>3 DEF RunsFromStays
<1> HIDE DEF b, n
<1>5. PICK F : RunsFromAlong(F, U, n, b, clusters)
  BY <1>1, <1>2, <1>4, RunsFromPath
<1>6. WriteRuns(file, clusters) = RunsFrom(b, clusters)
  BY DEF WriteRuns, RunsFrom, b
<1>7. WriteRuns(file, clusters) \in U
  <2>1. n \in 0..n
    BY <1>1
  <2> QED BY <1>5, <1>6, <2>1 DEF RunsFromAlong
<1> QED BY <1>7 DEF U
\* The start of the read that holds an extent.
LEMMA ReadStartNat ==
  ASSUME NEW reads, \A q \in reads : q.start \in Nat, NEW r \in reads
  PROVE  ReadStart(reads, r) \in Nat
<1> DEFINE starts == {q.start : q \in reads}
           P(s) == s <= r.start /\ \A q \in reads : q.start < s => q.end < s
           T == {s \in starts : P(s)}
<1>1. starts \subseteq Nat /\ r.start \in starts /\ r.start \in Nat
  OBVIOUS
<1>2. PICK s \in starts : \A t \in starts : s <= t
  <2> HIDE DEF starts
  <2> QED BY <1>1, LeastNat
<1>3. s \in T
  <2>1. s <= r.start /\ s \in Nat
    BY <1>1, <1>2
  <2>2. ASSUME NEW q \in reads PROVE ~(q.start < s)
    BY <1>1, <1>2, <2>1
  <2> QED BY <2>1, <2>2
<1>4. T \subseteq 0..r.start /\ T \subseteq Int
  BY <1>1
<1>5. ReadStart(reads, r) = Max(T)
  BY DEF ReadStart
<1> HIDE DEF T
<1>6. IsFiniteSet(0..r.start)
  BY <1>1, FS_Interval
<1>7. IsFiniteSet(T)
  BY <1>4, <1>6, FS_Subset
<1>8. T # {}
  BY <1>3
<1>9. Max(T) \in T
  BY <1>4, <1>7, <1>8, MaxOfSet
<1>10. Max(T) \in 0..r.start
  BY <1>4, <1>9
<1> DEFINE m == Max(T)
<1> HIDE DEF m
<1>11. m \in Nat
  BY <1>1, <1>10 DEF m
<1> QED BY <1>5, <1>11 DEF m

\* The only read of a run of one extent.
LEMMA ReadOrderFacts ==
  ASSUME NEW file \in Words, NEW runs, RunsIn(file, runs), NEW r \in DOMAIN runs
  PROVE  LET order == ReadOrder(ExtentReads(runs), r)
         IN  \E n \in Nat : DOMAIN order = 1..n /\ \A i \in 1..n : order[i].ext \in DOMAIN runs[r].extents
<1> DEFINE reads == ExtentReads(runs)
           own == {q \in reads : q.run = r}
           order == {p \in own \X own : \/ ReadStart(reads, p[1]) < ReadStart(reads, p[2])
                                        \/ /\ ReadStart(reads, p[1]) = ReadStart(reads, p[2])
                                           /\ p[1].ext < p[2].ext}
           e == [run |-> r, ext |-> 1, start |-> runs[r].extents[1].offset,
                 end |-> runs[r].extents[1].offset + 1 + runs[r].extents[1].len]
<1>1. ASSUME NEW q \in reads
      PROVE  /\ \E s \in DOMAIN runs : \E x \in DOMAIN runs[s].extents :
                  q = [run |-> s, ext |-> x, start |-> runs[s].extents[x].offset,
                       end |-> runs[s].extents[x].offset + 1 + runs[s].extents[x].len]
  BY DEF ExtentReads
<1>2. \A s \in DOMAIN runs : DOMAIN runs[s].extents = {1} /\ runs[s].extents[1] \in Extents
  <2> SUFFICES ASSUME NEW s \in DOMAIN runs PROVE DOMAIN runs[s].extents = {1} /\ runs[s].extents[1] \in Extents
    OBVIOUS
  <2>1. runs[s] \in RunRecords /\ Len(runs[s].extents) = 1
    BY DEF RunsIn, RunIn
  <2>2. runs[s].extents \in Seq(Extents)
    BY <2>1 DEF RunRecords
  <2> QED BY <2>1, <2>2
<1>3. \A q \in reads : q.start \in Nat /\ q.ext = 1 /\ q.run \in DOMAIN runs
  <2> SUFFICES ASSUME NEW q \in reads PROVE q.start \in Nat /\ q.ext = 1 /\ q.run \in DOMAIN runs
    OBVIOUS
  <2>1. PICK s \in DOMAIN runs : \E x \in DOMAIN runs[s].extents :
                  q = [run |-> s, ext |-> x, start |-> runs[s].extents[x].offset,
                       end |-> runs[s].extents[x].offset + 1 + runs[s].extents[x].len]
    BY <1>1
  <2>2. q = [run |-> s, ext |-> 1, start |-> runs[s].extents[1].offset,
             end |-> runs[s].extents[1].offset + 1 + runs[s].extents[1].len]
    BY <1>2, <2>1
  <2> QED BY <1>2, <2>2 DEF Extents
<1>4. own \subseteq {e}
  <2> SUFFICES ASSUME NEW q \in own PROVE q = e
    OBVIOUS
  <2>1. PICK s \in DOMAIN runs : \E x \in DOMAIN runs[s].extents :
                  q = [run |-> s, ext |-> x, start |-> runs[s].extents[x].offset,
                       end |-> runs[s].extents[x].offset + 1 + runs[s].extents[x].len]
    BY <1>1
  <2>2. q = [run |-> s, ext |-> 1, start |-> runs[s].extents[1].offset,
             end |-> runs[s].extents[1].offset + 1 + runs[s].extents[1].len]
    BY <1>2, <2>1
  <2>3. s = r
    BY <2>2
  <2> QED BY <2>2, <2>3
<1>5. ReadOrder(reads, r) = Ranked(own, order)
  BY DEF ReadOrder
<1> HIDE DEF reads, e
<1>6. \A q \in own : q \in reads /\ ReadStart(reads, q) \in Nat /\ q.ext = 1
  BY <1>3, ReadStartNat
<1>7. \A p \in order : FALSE
  <2> SUFFICES ASSUME NEW p \in order PROVE FALSE
    OBVIOUS
  <2>1. p[1] = e /\ p[2] = e /\ p[1] \in own
    BY <1>4
  <2> QED BY <1>6, <2>1
<1>8. IsFiniteSet(own)
  BY <1>4, FS_Singleton, FS_Subset
<1>9. StrictOrder(own, order)
  <2>1. \A x, y \in own : x = y
    BY <1>4
  <2> HIDE DEF order, own
  <2> QED BY <1>7, <2>1 DEF StrictOrder
<1>10. \A q \in own : q.ext \in DOMAIN runs[r].extents
  BY <1>2, <1>6
<1> HIDE DEF own, order
<1> DEFINE n == Cardinality(own)
           k == Ranked(own, order)
<1>11. n \in Nat /\ k \in [1..n -> own]
  BY <1>8, <1>9, RankedFacts
<1> HIDE DEF n, k
<1>12. DOMAIN k = 1..n /\ \A i \in 1..n : k[i].ext \in DOMAIN runs[r].extents
  BY <1>10, <1>11
<1> QED BY <1>5, <1>11, <1>12 DEF k, reads

\* Batched reads give words, run by run.
LEMMA ReadBatchedWords ==
  ASSUME NEW file \in Words, NEW runs, RunsIn(file, runs)
  PROVE  ReadBatched(file, runs) \in Seq(Words) /\ Len(ReadBatched(file, runs)) = Len(runs)
<1> DEFINE n == Len(runs)
           order(r) == ReadOrder(ExtentReads(runs), r)
           es(r) == [i \in DOMAIN order(r) |-> runs[r].extents[order(r)[i].ext]]
<1>1. n \in Nat /\ DOMAIN runs = 1..n
  BY DEF RunsIn
<1>2. ASSUME NEW r \in DOMAIN runs PROVE ReadChain(file, es(r)) \in Words
  <2>1. PICK m \in Nat : DOMAIN order(r) = 1..m /\ \A i \in 1..m : order(r)[i].ext \in DOMAIN runs[r].extents
    BY ReadOrderFacts
  <2>2. RunIn(file, runs[r]) /\ runs[r] \in RunRecords
    BY DEF RunsIn
  <2>3. \A x \in DOMAIN runs[r].extents : ExtentIn(file, runs[r].extents[x])
    <3>1. DOMAIN runs[r].extents = {1}
      BY <2>2 DEF RunIn, RunRecords
    <3> QED BY <2>2, <3>1 DEF RunIn
  <2> HIDE DEF order
  <2>4. DOMAIN es(r) = 1..m /\ \A i \in 1..m : ExtentIn(file, es(r)[i])
    BY <2>1, <2>3
  <2> HIDE DEF es
  <2> QED BY <2>1, <2>4, ReadChainWords
<1>3. ReadBatched(file, runs) = [r \in DOMAIN runs |-> ReadChain(file, es(r))]
  BY DEF ReadBatched
<1> HIDE DEF es, n
<1>4. ReadBatched(file, runs) \in [1..n -> Words]
  BY <1>1, <1>2, <1>3
<1> QED BY <1>1, <1>4 DEF n
-----------------------------------------------------------------------------
(* The merge of small clusters. *)

Merges(L) == [kids : Seq(1..L), len : Nat]
Accs(L) == [done : Seq(Merges(L)), small : Merges(L)]
Holds(g, l) == \E i \in 1..Len(g.kids) : g.kids[i] = l
HeldBy(done, l) == \E d \in 1..Len(done) : Holds(done[d], l)
HeldIn(acc, l) == Holds(acc.small, l) \/ HeldBy(acc.done, l)

\* Joined clusters hold what either held.
LEMMA JoinFacts ==
  ASSUME NEW L \in Nat, NEW a \in Merges(L), NEW b \in Merges(L)
  PROVE  /\ Join(a, b) \in Merges(L)
         /\ \A l : Holds(a, l) \/ Holds(b, l) => Holds(Join(a, b), l)
<1> DEFINE p == a.kids
           q == b.kids
           r == p \o q
<1>1. p \in Seq(1..L) /\ q \in Seq(1..L) /\ a.len \in Nat /\ b.len \in Nat
  BY DEF Merges
<1>2. Join(a, b).kids = r /\ Join(a, b) = [kids |-> r, len |-> a.len + b.len]
  BY DEF Join
<1> HIDE DEF p, q
<1>3. r \in Seq(1..L)
  BY <1>1, ConcatProperties
<1>4. Len(r) = Len(p) + Len(q) /\ Len(p) \in Nat /\ Len(q) \in Nat
  BY <1>1
<1>5. \A i \in 1..Len(p) : i \in 1..Len(r) /\ r[i] = p[i]
  BY <1>1, <1>4, ConcatProperties
<1>6. \A i \in 1..Len(q) : Len(p) + i \in 1..Len(r) /\ r[Len(p) + i] = q[i]
  <2> SUFFICES ASSUME NEW i \in 1..Len(q) PROVE Len(p) + i \in 1..Len(r) /\ r[Len(p) + i] = q[i]
    OBVIOUS
  <2> DEFINE j == Len(p) + i
  <2>1. j \in 1..Len(p) + Len(q) /\ ~(j <= Len(p)) /\ j - Len(p) = i
    BY <1>4
  <2> HIDE DEF j
  <2>2. r[j] = IF j <= Len(p) THEN p[j] ELSE q[j - Len(p)]
    BY <1>1, <2>1, ConcatProperties
  <2>3. j \in 1..Len(r) /\ r[j] = q[i]
    BY <1>4, <2>1, <2>2
  <2> QED BY <2>3 DEF j
<1> HIDE DEF r
<1>7. Join(a, b) \in Merges(L)
  BY <1>1, <1>2, <1>3 DEF Merges
<1>8. ASSUME NEW l, Holds(a, l) PROVE Holds(Join(a, b), l)
  BY <1>2, <1>5, <1>8 DEF Holds, p
<1>9. ASSUME NEW l, Holds(b, l) PROVE Holds(Join(a, b), l)
  <2>1. PICK i \in 1..Len(q) : q[i] = l
    BY <1>9 DEF Holds, q
  <2>2. r[Len(p) + i] = l /\ Len(p) + i \in 1..Len(r)
    BY <1>6, <2>1
  <2> QED BY <1>2, <2>2 DEF Holds
<1> QED BY <1>7, <1>8, <1>9

\* One more group at the end.
LEMMA AppendHolds ==
  ASSUME NEW L \in Nat, NEW done \in Seq(Merges(L)), NEW g \in Merges(L)
  PROVE  /\ Append(done, g) \in Seq(Merges(L))
         /\ \A l : HeldBy(done, l) \/ Holds(g, l) => HeldBy(Append(done, g), l)
<1> DEFINE n == Len(done)
           r == Append(done, g)
<1>1. r \in Seq(Merges(L)) /\ Len(r) = n + 1 /\ n \in Nat /\ DOMAIN done = 1..n
      /\ (\A i \in DOMAIN done : r[i] = done[i]) /\ r[n + 1] = g
  BY AppendFacts
<1> HIDE DEF r
<1>2. ASSUME NEW l, HeldBy(done, l) PROVE HeldBy(r, l)
  BY <1>1, <1>2 DEF HeldBy
<1>3. ASSUME NEW l, Holds(g, l) PROVE HeldBy(r, l)
  <2>1. n + 1 \in 1..Len(r)
    BY <1>1
  <2> QED BY <1>1, <1>3, <2>1 DEF HeldBy
<1> QED BY <1>1, <1>2, <1>3 DEF r

\* A cluster is added: what was held is held, and the cluster too.
LEMMA AddClusterFacts ==
  ASSUME NEW L \in Nat, NEW acc \in Accs(L), NEW c \in Merges(L), NEW cmin \in Nat, NEW cmax \in Nat
  PROVE  /\ AddCluster(acc, c, cmin, cmax) \in Accs(L)
         /\ \A l : HeldIn(acc, l) \/ Holds(c, l) => HeldIn(AddCluster(acc, c, cmin, cmax), l)
<1> DEFINE s == acc.small
           d == acc.done
           r == AddCluster(acc, c, cmin, cmax)
           big == c.len >= cmin
           some == s # None
           fits == s.len + c.len <= cmax
<1>0. s \in Merges(L) /\ d \in Seq(Merges(L)) /\ c.len \in Nat /\ s.len \in Nat
  BY DEF Accs, Merges
<1>n. None \in Merges(L) /\ \A l : ~Holds(None, l)
  <2>1. <<>> \in Seq(1..L) /\ Len(<<>>) = 0
    OBVIOUS
  <2>2. None.kids = <<>>
    BY DEF None
  <2> QED BY <2>1, <2>2 DEF None, Merges, Holds
<1>1. CASE big /\ some /\ fits
  <2>1. r = [done |-> Append(d, Join(c, s)), small |-> None]
    BY <1>0, <1>1 DEF AddCluster
  <2> HIDE DEF r, s, d
  <2>2. Join(c, s) \in Merges(L) /\ \A l : Holds(c, l) \/ Holds(s, l) => Holds(Join(c, s), l)
    BY <1>0, JoinFacts
  <2> DEFINE j == Join(c, s)
  <2> HIDE DEF j
  <2>3. Append(d, j) \in Seq(Merges(L)) /\ \A l : HeldBy(d, l) \/ Holds(j, l) => HeldBy(Append(d, j), l)
    BY <1>0, <2>2, AppendHolds DEF j
  <2>4. r \in Accs(L) /\ r.done = Append(d, j) /\ r.small = None
    BY <1>n, <2>1, <2>3 DEF Accs, j
  <2> QED BY <2>2, <2>3, <2>4 DEF HeldIn, r, s, d, j
<1>2. CASE big /\ some /\ ~fits
  <2>1. r = [done |-> d \o <<s, c>>, small |-> None]
    BY <1>0, <1>2 DEF AddCluster
  <2>2. d \o <<s, c>> = Append(Append(d, s), c)
    BY <1>0
  <2> HIDE DEF r, s, d
  <2> DEFINE j == Append(d, s)
  <2>3. j \in Seq(Merges(L)) /\ \A l : HeldBy(d, l) \/ Holds(s, l) => HeldBy(j, l)
    BY <1>0, AppendHolds
  <2> HIDE DEF j
  <2>4. Append(j, c) \in Seq(Merges(L)) /\ \A l : HeldBy(j, l) \/ Holds(c, l) => HeldBy(Append(j, c), l)
    BY <1>0, <2>3, AppendHolds
  <2>5. r \in Accs(L) /\ r.done = Append(j, c) /\ r.small = None
    BY <1>n, <2>1, <2>2, <2>4 DEF Accs, j
  <2> QED BY <2>3, <2>4, <2>5 DEF HeldIn, r, s, d
<1>3. CASE big /\ ~some
  <2>1. r = [done |-> Append(d, c), small |-> None]
    BY <1>0, <1>3 DEF AddCluster
  <2>2. \A l : ~Holds(s, l)
    BY <1>3, <1>n
  <2> HIDE DEF r, s, d
  <2>3. Append(d, c) \in Seq(Merges(L)) /\ \A l : HeldBy(d, l) \/ Holds(c, l) => HeldBy(Append(d, c), l)
    BY <1>0, AppendHolds
  <2>4. r \in Accs(L) /\ r.done = Append(d, c) /\ r.small = None
    BY <1>n, <2>1, <2>3 DEF Accs
  <2> QED BY <2>2, <2>3, <2>4 DEF HeldIn, r, s, d
<1>4. CASE ~big /\ (fits \/ ~some)
  <2>1. r = [done |-> d, small |-> Join(s, c)]
    BY <1>0, <1>4 DEF AddCluster
  <2> HIDE DEF r, s, d
  <2>2. Join(s, c) \in Merges(L) /\ \A l : Holds(s, l) \/ Holds(c, l) => Holds(Join(s, c), l)
    BY <1>0, JoinFacts
  <2>4. r \in Accs(L) /\ r.done = d /\ r.small = Join(s, c)
    BY <1>0, <2>1, <2>2 DEF Accs
  <2> QED BY <2>2, <2>4 DEF HeldIn, r, s, d
<1>5. CASE ~big /\ ~fits /\ some
  <2>1. r = [done |-> Append(d, s), small |-> c]
    BY <1>0, <1>5 DEF AddCluster
  <2> HIDE DEF r, s, d
  <2>3. Append(d, s) \in Seq(Merges(L)) /\ \A l : HeldBy(d, l) \/ Holds(s, l) => HeldBy(Append(d, s), l)
    BY <1>0, AppendHolds
  <2>4. r \in Accs(L) /\ r.done = Append(d, s) /\ r.small = c
    BY <2>1, <2>3 DEF Accs
  <2> QED BY <2>3, <2>4 DEF HeldIn, r, s, d
<1> QED BY <1>1, <1>2, <1>3, <1>4, <1>5

\* The rest is added: every cluster that was held is in a group.
LEMMA AddRestFacts ==
  ASSUME NEW L \in Nat, NEW acc \in Accs(L), NEW cmax \in Nat
  PROVE  /\ AddRest(acc, cmax) \in Seq(Merges(L))
         /\ \A l : HeldIn(acc, l) => HeldBy(AddRest(acc, cmax), l)
<1> DEFINE s == acc.small
           d == acc.done
           r == AddRest(acc, cmax)
           some == s # None
           fits == d # <<>> /\ Last(d).len + s.len <= cmax
<1>0. s \in Merges(L) /\ d \in Seq(Merges(L))
  BY DEF Accs, Merges
<1>n. \A l : ~Holds(None, l)
  <2>1. Len(<<>>) = 0
    OBVIOUS
  <2>2. None.kids = <<>>
    BY DEF None
  <2> QED BY <2>1, <2>2 DEF Holds
<1>1. CASE ~some
  <2>1. r = d
    BY <1>1 DEF AddRest
  <2>2. \A l : ~Holds(s, l)
    BY <1>1, <1>n
  <2> QED BY <1>0, <2>1, <2>2 DEF HeldIn
<1>2. CASE some /\ fits
  <2> DEFINE n == Len(d)
             f == Front(d)
             z == Last(d)
             j == Join(z, s)
  <2>1. r = Append(f, j)
    BY <1>2 DEF AddRest
  <2>2. n \in Nat \ {0} /\ z \in Merges(L) /\ z = d[n]
    BY <1>0, <1>2 DEF Last
  <2>3. f \in Seq(Merges(L)) /\ Len(f) = n - 1 /\ \A i \in 1..(n - 1) : f[i] = d[i]
    <3>1. f = SubSeq(d, 1, n - 1)
      BY DEF Front
    <3>2. n - 1 \in Int /\ 1 \in Int /\ \A i \in 1..(n - 1) : d[i] \in Merges(L)
      BY <1>0, <2>2
    <3> QED BY <2>2, <3>1, <3>2, SubSeqProperties
  <2> HIDE DEF r, s, d, f, z, n
  <2>4. j \in Merges(L) /\ \A l : Holds(z, l) \/ Holds(s, l) => Holds(j, l)
    BY <1>0, <2>2, JoinFacts
  <2> HIDE DEF j
  <2>5. Append(f, j) \in Seq(Merges(L)) /\ \A l : HeldBy(f, l) \/ Holds(j, l) => HeldBy(Append(f, j), l)
    BY <2>3, <2>4, AppendHolds
  <2>6. ASSUME NEW l, HeldBy(d, l) PROVE HeldBy(f, l) \/ Holds(z, l)
    <3>1. PICK i \in 1..n : Holds(d[i], l)
      BY <2>6 DEF HeldBy, n
    <3>2. CASE i = n
      BY <2>2, <3>1, <3>2
    <3>3. CASE i # n
      <4>1. i \in 1..(n - 1)
        BY <2>2, <3>3
      <4> QED BY <2>3, <3>1, <4>1 DEF HeldBy
    <3> QED BY <3>2, <3>3
  <2> QED BY <2>1, <2>4, <2>5, <2>6 DEF HeldIn, r, s, d
<1>3. CASE some /\ ~fits
  <2>1. r = Append(d, s)
    BY <1>3 DEF AddRest
  <2> HIDE DEF r, s, d
  <2>2. Append(d, s) \in Seq(Merges(L)) /\ \A l : HeldBy(d, l) \/ Holds(s, l) => HeldBy(Append(d, s), l)
    BY <1>0, AppendHolds
  <2> QED BY <2>1, <2>2 DEF HeldIn, r, s, d
<1> QED BY <1>1, <1>2, <1>3

\* The clusters that have points, smallest first, each of them once.
LEMMA BySizeFacts ==
  ASSUME NEW L \in Nat, NEW counts \in [1..L -> Nat]
  PROVE  LET filled == {c \in DOMAIN counts : counts[c] > 0}
             n == Cardinality(filled)
         IN  /\ n \in Nat /\ BySize(counts) \in [1..n -> filled]
             /\ \A c \in 1..L : counts[c] > 0 => \E k \in 1..n : BySize(counts)[k] = c
<1> DEFINE filled == {c \in DOMAIN counts : counts[c] > 0}
           order == {p \in filled \X filled : \/ counts[p[1]] < counts[p[2]]
                                              \/ counts[p[1]] = counts[p[2]] /\ p[1] < p[2]}
           n == Cardinality(filled)
<1>1. filled \subseteq 1..L
  OBVIOUS
<1>2. IsFiniteSet(1..L)
  BY FS_Interval
<1>3. IsFiniteSet(filled)
  BY <1>1, <1>2, FS_Subset
<1>4. StrictOrder(filled, order)
  <2>1. \A x \in filled : counts[x] \in Nat /\ x \in Nat
    OBVIOUS
  <2>2. \A x, y \in filled : <<x, y>> \in order <=> counts[x] < counts[y] \/ (counts[x] = counts[y] /\ x < y)
    OBVIOUS
  <2> HIDE DEF filled, order
  <2>3. \A x \in filled : <<x, x>> \notin order
    BY <2>1, <2>2
  <2>4. \A x, y \in filled : x # y => <<x, y>> \in order \/ <<y, x>> \in order
    BY <2>1, <2>2
  <2>5. ASSUME NEW x \in filled, NEW y \in filled, NEW z \in filled, <<x, y>> \in order, <<y, z>> \in order
        PROVE  <<x, z>> \in order
    <3>1. \A a, b, c, i, j, k \in Nat :
             (a < b \/ (a = b /\ i < j)) /\ (b < c \/ (b = c /\ j < k)) => a < c \/ (a = c /\ i < k)
      OBVIOUS
    <3>2. counts[x] < counts[y] \/ (counts[x] = counts[y] /\ x < y)
      BY <2>2, <2>5
    <3>3. counts[y] < counts[z] \/ (counts[y] = counts[z] /\ y < z)
      BY <2>2, <2>5
    <3>4. counts[x] < counts[z] \/ (counts[x] = counts[z] /\ x < z)
      BY <2>1, <3>1, <3>2, <3>3
    <3> QED BY <2>2, <3>4
  <2> QED BY <2>3, <2>4, <2>5 DEF StrictOrder
<1>5. BySize(counts) = Ranked(filled, order)
  BY DEF BySize
<1>6. \A c \in 1..L : counts[c] > 0 => c \in filled
  OBVIOUS
<1> HIDE DEF filled, order
<1>7. n \in Nat /\ Ranked(filled, order) \in [1..n -> filled]
  BY <1>3, <1>4, RankedFacts
<1>8. \A c \in filled : \E k \in 1..n : Ranked(filled, order)[k] = c
  BY <1>3, <1>4, RankedOnto
<1> HIDE DEF n
<1>9. \A c \in 1..L : counts[c] > 0 => \E k \in 1..n : BySize(counts)[k] = c
  BY <1>5, <1>6, <1>8
<1> QED BY <1>5, <1>7, <1>9 DEF filled, n

\* Adding the clusters one after the other.
MergedFrom(b, ss, counts, cmin, cmax) == FoldLeft(LAMBDA acc, c : AddNext(acc, counts, c, cmin, cmax), b, ss)
MergedFromStays(U, n, ss, counts, cmin, cmax) == \A i \in 1..n, a \in U : AddNext(a, counts, ss[i], cmin, cmax) \in U
MergedFromAlong(F, U, n, b, ss, counts, cmin, cmax) ==
  /\ F \in [0..n -> U] /\ F[0] = b /\ MergedFrom(b, ss, counts, cmin, cmax) = F[n]
  /\ \A i \in 1..n : F[i] = AddNext(F[i - 1], counts, ss[i], cmin, cmax)
LEMMA MergedFromPath ==
  ASSUME NEW counts, NEW cmin, NEW cmax, NEW n \in Nat, NEW ss, DOMAIN ss = 1..n, NEW U, NEW b \in U,
         MergedFromStays(U, n, ss, counts, cmin, cmax)
  PROVE  \E F : MergedFromAlong(F, U, n, b, ss, counts, cmin, cmax)
<1> USE DEF MergedFromStays, MergedFromAlong
<1> DEFINE K == 1..n
           step == [x \in K \X U |-> AddNext(x[2], counts, ss[x[1]], cmin, cmax)]
           Loop(g) == g = [s \in SUBSET K |-> IF s = {} THEN b ELSE AddNext(g[s \ {Max(s)}], counts, ss[Max(s)], cmin, cmax)]
           iter == CHOOSE g : Loop(g)
<1>0. DOMAIN ss = K
  OBVIOUS
<1>1. MergedFrom(b, ss, counts, cmin, cmax) = iter[K]
  BY <1>0 DEF MergedFrom, FoldLeft, MapThenFoldSet
<1>2. \A i \in K, a \in U : step[<<i, a>>] = AddNext(a, counts, ss[i], cmin, cmax) /\ step[<<i, a>>] \in U
  OBVIOUS
<1>3. PICK g : PathOf(g, n, b, step) /\ \A s \in SUBSET K : g[s] \in U
  <2> HIDE DEF step
  <2> QED BY <1>2, PathExists
<1>4. \A s \in SUBSET K : s # {} => Max(s) \in K /\ s \ {Max(s)} \in SUBSET K
  BY GreatestRemoved
<1>5. Loop(g)
  <2>1. ASSUME NEW s \in SUBSET K, s # {}
        PROVE  step[<<Max(s), g[s \ {Max(s)}]>>] = AddNext(g[s \ {Max(s)}], counts, ss[Max(s)], cmin, cmax)
    BY <1>2, <1>3, <1>4, <2>1
  <2> HIDE DEF step
  <2> QED BY <1>3, <2>1 DEF PathOf
<1>6. Loop(iter)
  <2> HIDE DEF Loop
  <2> QED BY <1>5
<1> HIDE DEF iter
<1>7. iter[{}] = b /\ \A s \in SUBSET K : s # {} => iter[s] = AddNext(iter[s \ {Max(s)}], counts, ss[Max(s)], cmin, cmax)
  BY <1>6
<1> DEFINE F == [i \in 0..n |-> iter[1..i]]
<1>8. \A i \in 1..n : iter[1..i] = AddNext(iter[1..(i - 1)], counts, ss[i], cmin, cmax)
  BY <1>7, FirstPositions
<1>9. 1..0 = {}
  OBVIOUS
<1> DEFINE C == {i \in Nat : i <= n => iter[1..i] \in U}
<1>10. 0 \in C
  BY <1>7, <1>9
<1>11. ASSUME NEW i \in Nat, i \in C PROVE i + 1 \in C
  <2> SUFFICES ASSUME i + 1 <= n PROVE iter[1..(i + 1)] \in U
    OBVIOUS
  <2> DEFINE j == i + 1
  <2>1. j \in 1..n /\ j - 1 = i /\ iter[1..i] \in U
    BY <1>11
  <2> HIDE DEF j
  <2>2. iter[1..j] = AddNext(iter[1..i], counts, ss[j], cmin, cmax)
    BY <1>8, <2>1
  <2> QED BY <2>1, <2>2 DEF j
<1>12. \A i \in Nat : i \in C
  <2> HIDE DEF C
  <2> QED BY <1>10, <1>11, NatSetInduction
<1>13. F \in [0..n -> U] /\ F[0] = b /\ F[n] = iter[K]
  BY <1>7, <1>9, <1>12
<1>14. ASSUME NEW i \in 1..n PROVE F[i] = AddNext(F[i - 1], counts, ss[i], cmin, cmax)
  <2>1. i - 1 \in 0..n /\ i \in 0..n
    OBVIOUS
  <2>2. F[i] = iter[1..i] /\ F[i - 1] = iter[1..(i - 1)]
    BY <2>1
  <2> QED BY <1>8, <2>2
<1> HIDE DEF F
<1> QED BY <1>1, <1>13, <1>14

\* The plan of a merge: every cluster that has points is in a group.
LEMMA MergePlanFacts ==
  ASSUME NEW L \in Nat, NEW counts \in [1..L -> Nat], NEW cmin \in Nat, NEW cmax \in Nat
  PROVE  /\ MergePlan(counts, cmin, cmax) \in Seq(Merges(L))
         /\ \A c \in 1..L : counts[c] > 0 => HeldBy(MergePlan(counts, cmin, cmax), c)
<1> DEFINE filled == {c \in DOMAIN counts : counts[c] > 0}
           n == Cardinality(filled)
           ss == BySize(counts)
           U == Accs(L)
           b == [done |-> <<>>, small |-> None]
<1>1. n \in Nat /\ ss \in [1..n -> filled] /\ \A c \in 1..L : counts[c] > 0 => \E k \in 1..n : ss[k] = c
  BY BySizeFacts
<1>2. \A i \in 1..n : ss[i] \in 1..L
  BY <1>1
<1>3. DOMAIN ss = 1..n
  BY <1>1
<1> HIDE DEF n, ss, filled
<1>4. b \in U
  <2>1. <<>> \in Seq(Merges(L)) /\ <<>> \in Seq(1..L) /\ 0 \in Nat
    OBVIOUS
  <2> QED BY <2>1 DEF Accs, Merges, None
<1>5. ASSUME NEW c \in 1..L, NEW a \in U
      PROVE  /\ AddNext(a, counts, c, cmin, cmax) \in U
             /\ \A l : HeldIn(a, l) \/ l = c => HeldIn(AddNext(a, counts, c, cmin, cmax), l)
  <2> DEFINE g == [kids |-> <<c>>, len |-> counts[c]]
  <2>1. g \in Merges(L) /\ Holds(g, c)
    <3>1. <<c>> \in Seq(1..L) /\ Len(<<c>>) = 1 /\ <<c>>[1] = c /\ g.kids = <<c>>
      OBVIOUS
    <3>2. counts[c] \in Nat
      OBVIOUS
    <3> QED BY <3>1, <3>2 DEF Merges, Holds
  <2>2. AddNext(a, counts, c, cmin, cmax) = AddCluster(a, g, cmin, cmax)
    BY DEF AddNext
  <2> HIDE DEF g
  <2>3. AddCluster(a, g, cmin, cmax) \in Accs(L)
    BY <2>1, AddClusterFacts
  <2>4. \A l : HeldIn(a, l) \/ Holds(g, l) => HeldIn(AddCluster(a, g, cmin, cmax), l)
    BY <2>1, AddClusterFacts
  <2> QED BY <2>1, <2>2, <2>3, <2>4
<1>6. MergedFromStays(U, n, ss, counts, cmin, cmax)
  BY <1>2, <1>5 DEF MergedFromStays
<1> HIDE DEF b, U
<1>7. PICK F : MergedFromAlong(F, U, n, b, ss, counts, cmin, cmax)
  BY <1>1, <1>3, <1>4, <1>6, MergedFromPath
<1>8. MergePlan(counts, cmin, cmax) = AddRest(F[n], cmax)
  <2>1. MergePlan(counts, cmin, cmax) = AddRest(MergedFrom(b, ss, counts, cmin, cmax), cmax)
    BY DEF MergePlan, MergeInOrder, MergedFrom, b, ss
  <2>2. MergedFrom(b, ss, counts, cmin, cmax) = F[n]
    BY <1>7 DEF MergedFromAlong
  <2> QED BY <2>1, <2>2
<1> DEFINE C == {i \in Nat : i <= n => \A k \in 1..i : HeldIn(F[i], ss[k])}
<1>9. 0 \in C
  OBVIOUS
<1>10. ASSUME NEW i \in Nat, i \in C PROVE i + 1 \in C
  <2> SUFFICES ASSUME i + 1 <= n PROVE \A k \in 1..(i + 1) : HeldIn(F[i + 1], ss[k])
    OBVIOUS
  <2> DEFINE j == i + 1
  <2>1. j \in 1..n /\ j - 1 = i /\ i \in 0..n /\ \A k \in 1..i : HeldIn(F[i], ss[k])
    BY <1>1, <1>10
  <2>2. \A k \in 1..j : k \in 1..i \/ k = j
    OBVIOUS
  <2> HIDE DEF j
  <2>3. F[j] = AddNext(F[i], counts, ss[j], cmin, cmax) /\ F[i] \in U
    BY <1>7, <2>1 DEF MergedFromAlong
  <2>4. \A l : HeldIn(F[i], l) \/ l = ss[j] => HeldIn(AddNext(F[i], counts, ss[j], cmin, cmax), l)
    BY <1>2, <1>5, <2>1, <2>3
  <2>5. \A k \in 1..j : HeldIn(F[j], ss[k])
    BY <2>1, <2>2, <2>3, <2>4
  <2> QED BY <2>5 DEF j
<1>11. \A i \in Nat : i \in C
  <2> HIDE DEF C
  <2> QED BY <1>9, <1>10, NatSetInduction
<1>12. F[n] \in Accs(L) /\ \A k \in 1..n : HeldIn(F[n], ss[k])
  <2>1. n \in 0..n
    BY <1>1
  <2>2. F[n] \in Accs(L)
    BY <1>7, <2>1 DEF MergedFromAlong, U
  <2> QED BY <1>1, <1>11, <2>2
<1> DEFINE acc == F[n]
<1> HIDE DEF acc
<1>13. AddRest(acc, cmax) \in Seq(Merges(L)) /\ \A l : HeldIn(acc, l) => HeldBy(AddRest(acc, cmax), l)
  BY <1>12, AddRestFacts DEF acc
<1> QED BY <1>1, <1>8, <1>12, <1>13 DEF acc
-----------------------------------------------------------------------------
(* Assignments: one list of leaders per point. *)

RecsFor(recs, pts, L) == recs \in Seq(Seq(1..L)) /\ Len(recs) = Len(pts)

\* The clusters of an assignment, and their sizes.
LEMMA ClustersFacts ==
  ASSUME NEW L \in Nat, NEW pts \in Words, NEW recs, RecsFor(recs, pts, L)
  PROVE  /\ ClustersOf(pts, recs, L) \in Seq(Words) /\ Len(ClustersOf(pts, recs, L)) = L
         /\ RawCounts(pts, recs, L) \in [1..L -> Nat]
         /\ \A i \in 1..Len(pts) : \A k \in 1..Len(recs[i]) : RawCounts(pts, recs, L)[recs[i][k]] > 0
<1> DEFINE I(l) == {i \in DOMAIN pts : Contains(recs[i], l)}
           c == ClustersOf(pts, recs, L)
<1>1. c = [l \in 1..L |-> At(pts, I(l))]
  BY DEF ClustersOf
<1>2. ASSUME NEW l \in 1..L
      PROVE  /\ At(pts, I(l)) \in Words /\ Len(At(pts, I(l))) \in Nat
             /\ I(l) # {} => Len(At(pts, I(l))) > 0
  <2> DEFINE J == I(l)
             t == At(pts, J)
  <2>1. J \in SUBSET DOMAIN pts /\ pts \in Seq(Nat)
    BY DEF Words
  <2> HIDE DEF J
  <2>2. t \in Seq(Nat) /\ (J # {} => t # <<>>)
    BY <2>1, AtFacts
  <2> HIDE DEF t
  <2>3. t \in Words /\ Len(t) \in Nat /\ (J # {} => Len(t) > 0)
    BY <2>2 DEF Words
  <2> QED BY <2>3 DEF t, J
<1>3. c \in [1..L -> Words]
  BY <1>1, <1>2
<1>4. RawCounts(pts, recs, L) = [l \in 1..L |-> Len(c[l])]
  BY DEF RawCounts
<1>5. \A l \in 1..L : c[l] = At(pts, I(l))
  BY <1>1
<1>6. RawCounts(pts, recs, L) \in [1..L -> Nat]
  BY <1>2, <1>4, <1>5
<1>7. ASSUME NEW i \in 1..Len(pts), NEW k \in 1..Len(recs[i])
      PROVE  RawCounts(pts, recs, L)[recs[i][k]] > 0
  <2> DEFINE l == recs[i][k]
  <2>1. i \in DOMAIN pts /\ recs[i] \in Seq(1..L)
    BY DEF RecsFor, Words
  <2>2. l \in 1..L
    BY <2>1
  <2>3. i \in I(l)
    BY <2>1 DEF Contains
  <2> HIDE DEF l, I, c
  <2>4. Len(c[l]) > 0
    BY <1>2, <1>5, <2>2, <2>3
  <2> QED BY <1>4, <2>2, <2>4 DEF l
<1> HIDE DEF c
<1>8. c \in Seq(Words) /\ Len(c) = L
  BY <1>3
<1> QED BY <1>6, <1>7, <1>8 DEF c

\* A record is decoded as it was encoded.
LEMMA RecordRoundTrip ==
  ASSUME NEW L \in Nat, NEW x \in Seq(1..L), NEW cap \in Int
  PROVE  DecodeRecord(EncodeRecord(x, cap)) = x
<1> DEFINE n == Len(x)
           k == cap - n
           pad == [i \in 1..k |-> 1]
           y == x \o pad
<1>0. x \in Seq(Nat) /\ n \in Nat
  OBVIOUS
<1>1. DecodeRecord(EncodeRecord(x, cap)) = SubSeq(y, 1, n)
  BY DEF DecodeRecord, EncodeRecord
<1>2. pad \in Seq(Nat)
  <2>1. CASE k \in Nat
    BY <2>1
  <2>2. CASE k \notin Nat
    <3>1. 1..k = 1..0
      BY <1>0, <2>2
    <3>2. pad = [i \in 1..0 |-> 1]
      BY <3>1
    <3>3. [i \in 1..0 |-> 1] \in Seq(Nat)
      OBVIOUS
    <3> QED BY <3>2, <3>3
  <2> QED BY <2>1, <2>2
<1> HIDE DEF pad
<1>3. \A i \in 1..n : y[i] = x[i]
  <2>1. Len(pad) \in Nat
    BY <1>2
  <2>2. \A i \in 1..n + Len(pad) : y[i] = IF i <= n THEN x[i] ELSE pad[i - n]
    BY <1>0, <1>2, ConcatProperties
  <2> QED BY <1>0, <2>1, <2>2
<1> HIDE DEF y
<1>4. \A i \in 1..n : y[i] \in 1..L
  BY <1>3
<1> DEFINE z == SubSeq(y, 1, n)
<1>5. z \in Seq(1..L) /\ Len(z) = n /\ \A i \in 1..n : z[i] = y[i]
  <2>1. z \in Seq(1..L)
    BY <1>0, <1>4, SubSeqProperties
  <2>2. Len(z) = IF 1 <= n THEN n - 1 + 1 ELSE 0
    BY <1>0, <1>4, SubSeqProperties
  <2>3. \A i \in 1..n - 1 + 1 : z[i] = y[1 + i - 1]
    BY <1>0, <1>4, SubSeqProperties
  <2>4. ASSUME NEW i \in 1..n PROVE z[i] = y[i]
    <3>1. i \in 1..n - 1 + 1 /\ 1 + i - 1 = i
      BY <1>0
    <3> QED BY <2>3, <3>1
  <2> QED BY <1>0, <2>1, <2>2, <2>4
<1> HIDE DEF z, n
<1>6. z = x
  BY <1>3, <1>5, SeqEqual DEF n
<1> QED BY <1>1, <1>6 DEF z

\* The groups that a record goes to.
LEMMA TargetsFacts ==
  ASSUME NEW L \in Nat, NEW groups \in Seq(Merges(L)), NEW rec \in Seq(1..L),
         \A k \in 1..Len(rec) : HeldBy(groups, rec[k])
  PROVE  \E n \in Nat : Targets(rec, groups) \in [1..n -> 1..Len(groups)]
<1> DEFINE first == {i \in DOMAIN rec : \A j \in 1..(i - 1) : GroupOf(groups, rec[j]) # GroupOf(groups, rec[i])}
           chosen == At(rec, first)
           n == Cardinality(first)
<1>1. ASSUME NEW k \in 1..Len(rec) PROVE GroupOf(groups, rec[k]) \in 1..Len(groups)
  <2>1. DOMAIN groups = 1..Len(groups)
    OBVIOUS
  <2>2. PICK g \in 1..Len(groups) : Holds(groups[g], rec[k])
    BY DEF HeldBy
  <2>3. Contains(groups[g].kids, rec[k])
    BY <2>2 DEF Holds, Contains
  <2> QED BY <2>1, <2>3 DEF GroupOf
<1>2. first \in SUBSET DOMAIN rec
  OBVIOUS
<1>3. Targets(rec, groups) = [k \in DOMAIN chosen |-> GroupOf(groups, chosen[k])]
  BY DEF Targets
<1> HIDE DEF first
<1>4. n \in Nat /\ DOMAIN chosen = 1..n
  BY <1>2, AtFacts
<1>5. PICK pos \in [1..n -> first] : \A k \in 1..n : chosen[k] = rec[pos[k]]
  BY <1>2, AtFacts
<1> HIDE DEF chosen, n
<1>6. \A k \in 1..n : GroupOf(groups, chosen[k]) \in 1..Len(groups)
  <2> SUFFICES ASSUME NEW k \in 1..n PROVE GroupOf(groups, chosen[k]) \in 1..Len(groups)
    OBVIOUS
  <2>1. pos[k] \in 1..Len(rec)
    BY <1>2, <1>5
  <2> QED BY <1>1, <1>5, <2>1
<1> QED BY <1>3, <1>4, <1>6
-----------------------------------------------------------------------------
(* Materialization: the merged children are buffered and appended to the   *)
(* run file.                                                               *)

KidRecords == [buf : Words, extents : Seq(Extents)]
Mats(G) == [file : Words, kids : [1..G -> KidRecords]]
KidIn(file, kid) == \A x \in 1..Len(kid.extents) : ExtentIn(file, kid.extents[x])
MatsFrom(f, G) == {m \in Mats(G) : Grows(f, m.file) /\ \A g \in 1..G : KidIn(m.file, m.kids[g])}

\* A child is written out.
LEMMA FlushChildFacts ==
  ASSUME NEW G \in Nat, NEW f \in Words, NEW m \in MatsFrom(f, G), NEW g \in 1..G
  PROVE  FlushChild(m, g) \in MatsFrom(f, G)
<1>0. /\ m.file \in Words /\ m.kids \in [1..G -> KidRecords] /\ Grows(f, m.file)
      /\ \A h \in 1..G : KidIn(m.file, m.kids[h])
  BY DEF MatsFrom, Mats
<1> DEFINE kid == m.kids[g]
           file == m.file \o Encoded(kid.buf)
           e == ExtentAt(m.file, kid.buf)
           ks == kid.extents
           xs == Append(ks, e)
           new == [buf |-> <<>>, extents |-> xs]
           kids == [m.kids EXCEPT ![g] = new]
<1>1. kid \in KidRecords /\ kid.buf \in Words /\ kid.extents \in Seq(Extents)
  BY <1>0 DEF KidRecords
<1>2. CASE kid.buf = <<>>
  BY <1>2 DEF FlushChild
<1>3. CASE kid.buf # <<>>
  <2>1. FlushChild(m, g) = [file |-> file, kids |-> kids]
    BY <1>3 DEF FlushChild
  <2>2. file \in Words /\ Grows(m.file, file) /\ ExtentIn(file, e) /\ e \in Extents
    BY <1>0, <1>1, EncodedFacts
  <2>3. Grows(f, file)
    BY <1>0, <2>2, GrowsFacts
  <2> HIDE DEF file, e
  <2>k. ks \in Seq(Extents) /\ e \in Extents
    BY <1>1, <2>2
  <2> HIDE DEF ks
  <2>4. xs \in Seq(Extents) /\ Len(xs) = Len(ks) + 1 /\ Len(ks) \in Nat
        /\ DOMAIN ks = 1..Len(ks) /\ (\A i \in DOMAIN ks : xs[i] = ks[i]) /\ xs[Len(ks) + 1] = e
    BY <2>k, AppendFacts
  <2> HIDE DEF xs
  <2>5. new \in KidRecords /\ new.extents = xs
    <3>1. <<>> \in Words
      BY DEF Words
    <3> QED BY <2>4, <3>1 DEF KidRecords
  <2> HIDE DEF new
  <2>6. kids \in [1..G -> KidRecords] /\ kids[g] = new /\ \A h \in 1..G : h # g => kids[h] = m.kids[h]
    BY <1>0, <2>5
  <2>7. ASSUME NEW h \in 1..G PROVE KidIn(file, kids[h])
    <3>1. \A x \in 1..Len(m.kids[h].extents) : ExtentIn(file, m.kids[h].extents[x])
      BY <1>0, <2>2, ExtentKept DEF KidIn
    <3>2. CASE h # g
      BY <2>6, <3>1, <3>2 DEF KidIn
    <3>3. CASE h = g
      <4> SUFFICES ASSUME NEW x \in 1..Len(xs) PROVE ExtentIn(file, xs[x])
        BY <2>5, <2>6, <3>3 DEF KidIn
      <4>1. CASE x \in 1..Len(ks)
        BY <2>4, <3>1, <3>3, <4>1 DEF ks
      <4>2. CASE x \notin 1..Len(ks)
        <5>1. x = Len(ks) + 1
          BY <2>4, <4>2
        <5> QED BY <2>2, <2>4, <5>1
      <4> QED BY <4>1, <4>2
    <3> QED BY <3>2, <3>3
  <2> HIDE DEF kids
  <2>8. [file |-> file, kids |-> kids] \in MatsFrom(f, G)
    BY <2>2, <2>3, <2>6, <2>7 DEF MatsFrom, Mats
  <2> QED BY <2>1, <2>8
<1> QED BY <1>2, <1>3

\* A point is pushed to a child.
LEMMA PushPointFacts ==
  ASSUME NEW G \in Nat, NEW f \in Words, NEW m \in MatsFrom(f, G), NEW g \in 1..G,
         NEW point \in Nat, NEW inline, NEW cap
  PROVE  PushPoint(m, g, point, inline, cap) \in MatsFrom(f, G)
<1>0. /\ m.file \in Words /\ m.kids \in [1..G -> KidRecords] /\ Grows(f, m.file)
      /\ \A h \in 1..G : KidIn(m.file, m.kids[h]) /\ m \in Mats(G)
  BY DEF MatsFrom, Mats
<1> DEFINE kid == m.kids[g]
           new == [kid EXCEPT !.buf = Append(@, point)]
           n == [m EXCEPT !.kids[g].buf = Append(@, point)]
<1>1. kid \in KidRecords /\ kid.buf \in Seq(Nat) /\ kid.extents \in Seq(Extents)
  BY <1>0 DEF KidRecords, Words
<1>2. new \in KidRecords /\ new.extents = kid.extents
  <2>1. Append(kid.buf, point) \in Words
    BY <1>1, AppendFacts DEF Words
  <2>2. new = [kid EXCEPT !.buf = Append(kid.buf, point)]
    BY <1>1 DEF KidRecords
  <2> QED BY <1>1, <2>1, <2>2 DEF KidRecords
<1>3. n \in Mats(G) /\ n.file = m.file /\ n.kids = [m.kids EXCEPT ![g] = new]
  <2>1. n.file = m.file /\ n.kids = [m.kids EXCEPT ![g] = new] /\ n = [m EXCEPT !.kids = [m.kids EXCEPT ![g] = new]]
    BY <1>0 DEF Mats
  <2> HIDE DEF n, new
  <2>2. [m.kids EXCEPT ![g] = new] \in [1..G -> KidRecords]
    BY <1>0, <1>2
  <2> QED BY <1>0, <2>1, <2>2 DEF Mats
<1> HIDE DEF n, new
<1>4. \A h \in 1..G : n.kids[h].extents = m.kids[h].extents
  BY <1>0, <1>2, <1>3
<1>5. n \in MatsFrom(f, G)
  BY <1>0, <1>3, <1>4 DEF MatsFrom, KidIn
<1>6. FlushChild(n, g) \in MatsFrom(f, G)
  BY <1>5, FlushChildFacts
<1>7. PushPoint(m, g, point, inline, cap) = n \/ PushPoint(m, g, point, inline, cap) = FlushChild(n, g)
  BY DEF PushPoint, FlushFull, n
<1> QED BY <1>5, <1>6, <1>7

\* A point goes to the children of its record.
PushedTo(b, ss, point, groups, cap, limit) == FoldLeft(LAMBDA n, g : PushPoint(n, g, point, groups[g].len <= limit, cap), b, ss)
PushedToStays(U, n, ss, point, groups, cap, limit) == \A i \in 1..n, a \in U : PushPoint(a, ss[i], point, groups[ss[i]].len <= limit, cap) \in U
PushedToAlong(F, U, n, b, ss, point, groups, cap, limit) ==
  /\ F \in [0..n -> U] /\ F[0] = b /\ PushedTo(b, ss, point, groups, cap, limit) = F[n]
  /\ \A i \in 1..n : F[i] = PushPoint(F[i - 1], ss[i], point, groups[ss[i]].len <= limit, cap)
LEMMA PushedToPath ==
  ASSUME NEW point, NEW groups, NEW cap, NEW limit, NEW n \in Nat, NEW ss, DOMAIN ss = 1..n, NEW U,
         NEW b \in U, PushedToStays(U, n, ss, point, groups, cap, limit)
  PROVE  \E F : PushedToAlong(F, U, n, b, ss, point, groups, cap, limit)
<1> USE DEF PushedToStays, PushedToAlong
<1> DEFINE K == 1..n
           step == [x \in K \X U |-> PushPoint(x[2], ss[x[1]], point, groups[ss[x[1]]].len <= limit, cap)]
           Loop(g) == g = [s \in SUBSET K |-> IF s = {} THEN b ELSE PushPoint(g[s \ {Max(s)}], ss[Max(s)], point, groups[ss[Max(s)]].len <= limit, cap)]
           iter == CHOOSE g : Loop(g)
<1>0. DOMAIN ss = K
  OBVIOUS
<1>1. PushedTo(b, ss, point, groups, cap, limit) = iter[K]
  BY <1>0 DEF PushedTo, FoldLeft, MapThenFoldSet
<1>2. \A i \in K, a \in U : step[<<i, a>>] = PushPoint(a, ss[i], point, groups[ss[i]].len <= limit, cap) /\ step[<<i, a>>] \in U
  OBVIOUS
<1>3. PICK g : PathOf(g, n, b, step) /\ \A s \in SUBSET K : g[s] \in U
  <2> HIDE DEF step
  <2> QED BY <1>2, PathExists
<1>4. \A s \in SUBSET K : s # {} => Max(s) \in K /\ s \ {Max(s)} \in SUBSET K
  BY GreatestRemoved
<1>5. Loop(g)
  <2>1. ASSUME NEW s \in SUBSET K, s # {}
        PROVE  step[<<Max(s), g[s \ {Max(s)}]>>] = PushPoint(g[s \ {Max(s)}], ss[Max(s)], point, groups[ss[Max(s)]].len <= limit, cap)
    BY <1>2, <1>3, <1>4, <2>1
  <2> HIDE DEF step
  <2> QED BY <1>3, <2>1 DEF PathOf
<1>6. Loop(iter)
  <2> HIDE DEF Loop
  <2> QED BY <1>5
<1> HIDE DEF iter
<1>7. iter[{}] = b /\ \A s \in SUBSET K : s # {} => iter[s] = PushPoint(iter[s \ {Max(s)}], ss[Max(s)], point, groups[ss[Max(s)]].len <= limit, cap)
  BY <1>6
<1> DEFINE F == [i \in 0..n |-> iter[1..i]]
<1>8. \A i \in 1..n : iter[1..i] = PushPoint(iter[1..(i - 1)], ss[i], point, groups[ss[i]].len <= limit, cap)
  BY <1>7, FirstPositions
<1>9. 1..0 = {}
  OBVIOUS
<1> DEFINE C == {i \in Nat : i <= n => iter[1..i] \in U}
<1>10. 0 \in C
  BY <1>7, <1>9
<1>11. ASSUME NEW i \in Nat, i \in C PROVE i + 1 \in C
  <2> SUFFICES ASSUME i + 1 <= n PROVE iter[1..(i + 1)] \in U
    OBVIOUS
  <2> DEFINE j == i + 1
  <2>1. j \in 1..n /\ j - 1 = i /\ iter[1..i] \in U
    BY <1>11
  <2> HIDE DEF j
  <2>2. iter[1..j] = PushPoint(iter[1..i], ss[j], point, groups[ss[j]].len <= limit, cap)
    BY <1>8, <2>1
  <2> QED BY <2>1, <2>2 DEF j
<1>12. \A i \in Nat : i \in C
  <2> HIDE DEF C
  <2> QED BY <1>10, <1>11, NatSetInduction
<1>13. F \in [0..n -> U] /\ F[0] = b /\ F[n] = iter[K]
  BY <1>7, <1>9, <1>12
<1>14. ASSUME NEW i \in 1..n PROVE F[i] = PushPoint(F[i - 1], ss[i], point, groups[ss[i]].len <= limit, cap)
  <2>1. i - 1 \in 0..n /\ i \in 0..n
    OBVIOUS
  <2>2. F[i] = iter[1..i] /\ F[i - 1] = iter[1..(i - 1)]
    BY <2>1
  <2> QED BY <1>8, <2>2
<1> HIDE DEF F
<1> QED BY <1>1, <1>13, <1>14

\* The record of a point is pushed.
LEMMA PushRecordFacts ==
  ASSUME NEW L \in Nat, NEW f \in Words, NEW groups \in Seq(Merges(L)), NEW m \in MatsFrom(f, Len(groups)),
         NEW n \in Nat, NEW targets \in [1..n -> 1..Len(groups)], NEW point \in Nat, NEW cap, NEW limit
  PROVE  PushRecord(m, point, targets, groups, cap, limit) \in MatsFrom(f, Len(groups))
<1> DEFINE U == MatsFrom(f, Len(groups))
<1>1. Len(groups) \in Nat /\ DOMAIN targets = 1..n
  OBVIOUS
<1>2. ASSUME NEW i \in 1..n, NEW a \in U
      PROVE  PushPoint(a, targets[i], point, groups[targets[i]].len <= limit, cap) \in U
  <2>1. targets[i] \in 1..Len(groups)
    OBVIOUS
  <2> QED BY <1>1, <2>1, PushPointFacts
<1> HIDE DEF U
<1>3. PushedToStays(U, n, targets, point, groups, cap, limit)
  BY <1>2 DEF PushedToStays
<1>4. m \in U
  BY DEF U
<1>5. PICK F : PushedToAlong(F, U, n, m, targets, point, groups, cap, limit)
  BY <1>1, <1>3, <1>4, PushedToPath
<1>6. PushRecord(m, point, targets, groups, cap, limit) = PushedTo(m, targets, point, groups, cap, limit)
  BY DEF PushRecord, PushedTo
<1>7. n \in 0..n
  OBVIOUS
<1>8. PushedTo(m, targets, point, groups, cap, limit) \in U
  BY <1>5, <1>7 DEF PushedToAlong
<1> QED BY <1>6, <1>8 DEF U

\* The records of all points are pushed, in the order of the points.
PushedAll(b, ss, points, recs, cap, groups, limit) == FoldLeft(LAMBDA m, i : PushRecord(m, points[i], Targets(recs[i], groups), groups, cap, limit), b, ss)
PushedAllStays(U, n, ss, points, recs, cap, groups, limit) == \A i \in 1..n, a \in U : PushRecord(a, points[ss[i]], Targets(recs[ss[i]], groups), groups, cap, limit) \in U
PushedAllAlong(F, U, n, b, ss, points, recs, cap, groups, limit) ==
  /\ F \in [0..n -> U] /\ F[0] = b /\ PushedAll(b, ss, points, recs, cap, groups, limit) = F[n]
  /\ \A i \in 1..n : F[i] = PushRecord(F[i - 1], points[ss[i]], Targets(recs[ss[i]], groups), groups, cap, limit)
LEMMA PushedAllPath ==
  ASSUME NEW points, NEW recs, NEW cap, NEW groups, NEW limit, NEW n \in Nat, NEW ss, DOMAIN ss = 1..n, NEW U,
         NEW b \in U, PushedAllStays(U, n, ss, points, recs, cap, groups, limit)
  PROVE  \E F : PushedAllAlong(F, U, n, b, ss, points, recs, cap, groups, limit)
<1> USE DEF PushedAllStays, PushedAllAlong
<1> DEFINE K == 1..n
           step == [x \in K \X U |-> PushRecord(x[2], points[ss[x[1]]], Targets(recs[ss[x[1]]], groups), groups, cap, limit)]
           Loop(g) == g = [s \in SUBSET K |-> IF s = {} THEN b ELSE PushRecord(g[s \ {Max(s)}], points[ss[Max(s)]], Targets(recs[ss[Max(s)]], groups), groups, cap, limit)]
           iter == CHOOSE g : Loop(g)
<1>0. DOMAIN ss = K
  OBVIOUS
<1>1. PushedAll(b, ss, points, recs, cap, groups, limit) = iter[K]
  BY <1>0 DEF PushedAll, FoldLeft, MapThenFoldSet
<1>2. \A i \in K, a \in U : step[<<i, a>>] = PushRecord(a, points[ss[i]], Targets(recs[ss[i]], groups), groups, cap, limit) /\ step[<<i, a>>] \in U
  OBVIOUS
<1>3. PICK g : PathOf(g, n, b, step) /\ \A s \in SUBSET K : g[s] \in U
  <2> HIDE DEF step
  <2> QED BY <1>2, PathExists
<1>4. \A s \in SUBSET K : s # {} => Max(s) \in K /\ s \ {Max(s)} \in SUBSET K
  BY GreatestRemoved
<1>5. Loop(g)
  <2>1. ASSUME NEW s \in SUBSET K, s # {}
        PROVE  step[<<Max(s), g[s \ {Max(s)}]>>] = PushRecord(g[s \ {Max(s)}], points[ss[Max(s)]], Targets(recs[ss[Max(s)]], groups), groups, cap, limit)
    BY <1>2, <1>3, <1>4, <2>1
  <2> HIDE DEF step
  <2> QED BY <1>3, <2>1 DEF PathOf
<1>6. Loop(iter)
  <2> HIDE DEF Loop
  <2> QED BY <1>5
<1> HIDE DEF iter
<1>7. iter[{}] = b /\ \A s \in SUBSET K : s # {} => iter[s] = PushRecord(iter[s \ {Max(s)}], points[ss[Max(s)]], Targets(recs[ss[Max(s)]], groups), groups, cap, limit)
  BY <1>6
<1> DEFINE F == [i \in 0..n |-> iter[1..i]]
<1>8. \A i \in 1..n : iter[1..i] = PushRecord(iter[1..(i - 1)], points[ss[i]], Targets(recs[ss[i]], groups), groups, cap, limit)
  BY <1>7, FirstPositions
<1>9. 1..0 = {}
  OBVIOUS
<1> DEFINE C == {i \in Nat : i <= n => iter[1..i] \in U}
<1>10. 0 \in C
  BY <1>7, <1>9
<1>11. ASSUME NEW i \in Nat, i \in C PROVE i + 1 \in C
  <2> SUFFICES ASSUME i + 1 <= n PROVE iter[1..(i + 1)] \in U
    OBVIOUS
  <2> DEFINE j == i + 1
  <2>1. j \in 1..n /\ j - 1 = i /\ iter[1..i] \in U
    BY <1>11
  <2> HIDE DEF j
  <2>2. iter[1..j] = PushRecord(iter[1..i], points[ss[j]], Targets(recs[ss[j]], groups), groups, cap, limit)
    BY <1>8, <2>1
  <2> QED BY <2>1, <2>2 DEF j
<1>12. \A i \in Nat : i \in C
  <2> HIDE DEF C
  <2> QED BY <1>10, <1>11, NatSetInduction
<1>13. F \in [0..n -> U] /\ F[0] = b /\ F[n] = iter[K]
  BY <1>7, <1>9, <1>12
<1>14. ASSUME NEW i \in 1..n PROVE F[i] = PushRecord(F[i - 1], points[ss[i]], Targets(recs[ss[i]], groups), groups, cap, limit)
  <2>1. i - 1 \in 0..n /\ i \in 0..n
    OBVIOUS
  <2>2. F[i] = iter[1..i] /\ F[i - 1] = iter[1..(i - 1)]
    BY <2>1
  <2> QED BY <1>8, <2>2
<1> HIDE DEF F
<1> QED BY <1>1, <1>13, <1>14

\* The children that are not kept in memory are written out.
FlushedAll(b, ss, groups, limit) == FoldLeft(LAMBDA n, g : FlushUnlessInline(n, g, groups, limit), b, ss)
FlushedAllStays(U, n, ss, groups, limit) == \A i \in 1..n, a \in U : FlushUnlessInline(a, ss[i], groups, limit) \in U
FlushedAllAlong(F, U, n, b, ss, groups, limit) ==
  /\ F \in [0..n -> U] /\ F[0] = b /\ FlushedAll(b, ss, groups, limit) = F[n]
  /\ \A i \in 1..n : F[i] = FlushUnlessInline(F[i - 1], ss[i], groups, limit)
LEMMA FlushedAllPath ==
  ASSUME NEW groups, NEW limit, NEW n \in Nat, NEW ss, DOMAIN ss = 1..n, NEW U, NEW b \in U,
         FlushedAllStays(U, n, ss, groups, limit)
  PROVE  \E F : FlushedAllAlong(F, U, n, b, ss, groups, limit)
<1> USE DEF FlushedAllStays, FlushedAllAlong
<1> DEFINE K == 1..n
           step == [x \in K \X U |-> FlushUnlessInline(x[2], ss[x[1]], groups, limit)]
           Loop(g) == g = [s \in SUBSET K |-> IF s = {} THEN b ELSE FlushUnlessInline(g[s \ {Max(s)}], ss[Max(s)], groups, limit)]
           iter == CHOOSE g : Loop(g)
<1>0. DOMAIN ss = K
  OBVIOUS
<1>1. FlushedAll(b, ss, groups, limit) = iter[K]
  BY <1>0 DEF FlushedAll, FoldLeft, MapThenFoldSet
<1>2. \A i \in K, a \in U : step[<<i, a>>] = FlushUnlessInline(a, ss[i], groups, limit) /\ step[<<i, a>>] \in U
  OBVIOUS
<1>3. PICK g : PathOf(g, n, b, step) /\ \A s \in SUBSET K : g[s] \in U
  <2> HIDE DEF step
  <2> QED BY <1>2, PathExists
<1>4. \A s \in SUBSET K : s # {} => Max(s) \in K /\ s \ {Max(s)} \in SUBSET K
  BY GreatestRemoved
<1>5. Loop(g)
  <2>1. ASSUME NEW s \in SUBSET K, s # {}
        PROVE  step[<<Max(s), g[s \ {Max(s)}]>>] = FlushUnlessInline(g[s \ {Max(s)}], ss[Max(s)], groups, limit)
    BY <1>2, <1>3, <1>4, <2>1
  <2> HIDE DEF step
  <2> QED BY <1>3, <2>1 DEF PathOf
<1>6. Loop(iter)
  <2> HIDE DEF Loop
  <2> QED BY <1>5
<1> HIDE DEF iter
<1>7. iter[{}] = b /\ \A s \in SUBSET K : s # {} => iter[s] = FlushUnlessInline(iter[s \ {Max(s)}], ss[Max(s)], groups, limit)
  BY <1>6
<1> DEFINE F == [i \in 0..n |-> iter[1..i]]
<1>8. \A i \in 1..n : iter[1..i] = FlushUnlessInline(iter[1..(i - 1)], ss[i], groups, limit)
  BY <1>7, FirstPositions
<1>9. 1..0 = {}
  OBVIOUS
<1> DEFINE C == {i \in Nat : i <= n => iter[1..i] \in U}
<1>10. 0 \in C
  BY <1>7, <1>9
<1>11. ASSUME NEW i \in Nat, i \in C PROVE i + 1 \in C
  <2> SUFFICES ASSUME i + 1 <= n PROVE iter[1..(i + 1)] \in U
    OBVIOUS
  <2> DEFINE j == i + 1
  <2>1. j \in 1..n /\ j - 1 = i /\ iter[1..i] \in U
    BY <1>11
  <2> HIDE DEF j
  <2>2. iter[1..j] = FlushUnlessInline(iter[1..i], ss[j], groups, limit)
    BY <1>8, <2>1
  <2> QED BY <2>1, <2>2 DEF j
<1>12. \A i \in Nat : i \in C
  <2> HIDE DEF C
  <2> QED BY <1>10, <1>11, NatSetInduction
<1>13. F \in [0..n -> U] /\ F[0] = b /\ F[n] = iter[K]
  BY <1>7, <1>9, <1>12
<1>14. ASSUME NEW i \in 1..n PROVE F[i] = FlushUnlessInline(F[i - 1], ss[i], groups, limit)
  <2>1. i - 1 \in 0..n /\ i \in 0..n
    OBVIOUS
  <2>2. F[i] = iter[1..i] /\ F[i - 1] = iter[1..(i - 1)]
    BY <2>1
  <2> QED BY <1>8, <2>2
<1> HIDE DEF F
<1> QED BY <1>1, <1>13, <1>14

\* Materialization keeps words in the file, which only grows, and its extents in bounds.
LEMMA MaterializeFacts ==
  ASSUME NEW L \in Nat, NEW file \in Words, NEW pts \in Words, NEW groups \in Seq(Merges(L)), NEW recs,
         \A i \in 1..Len(pts) : recs[i] \in Seq(1..L) /\ \A k \in 1..Len(recs[i]) : HeldBy(groups, recs[i][k]),
         NEW fanout, NEW limit
  PROVE  Materialize(file, pts, recs, fanout, groups, limit) \in MatsFrom(file, Len(groups))
<1> DEFINE G == Len(groups)
           U == MatsFrom(file, G)
           cap == Max({BufferPoints, RecordCap(fanout)})
           n == Len(pts)
           ss == [i \in DOMAIN pts |-> i]
           hh == [g \in DOMAIN groups |-> g]
           b == NoChildren(file, groups)
           p == Pushed(file, pts, recs, cap, groups, limit)
<1>1. G \in Nat /\ n \in Nat /\ DOMAIN pts = 1..n /\ DOMAIN groups = 1..G /\ \A i \in 1..n : pts[i] \in Nat
  BY DEF Words
<1>2. DOMAIN ss = 1..n /\ (\A i \in 1..n : ss[i] = i) /\ DOMAIN hh = 1..G /\ \A i \in 1..G : hh[i] = i
  BY <1>1
<1>3. b \in U
  <2> DEFINE kid == [buf |-> <<>>, extents |-> <<>>]
  <2>1. kid \in KidRecords /\ kid.extents = <<>>
    <3>1. <<>> \in Words /\ <<>> \in Seq(Extents)
      BY DEF Words
    <3> QED BY <3>1 DEF KidRecords
  <2>2. b = [file |-> file, kids |-> [g \in 1..G |-> kid]]
    BY <1>1 DEF NoChildren
  <2> HIDE DEF kid, b
  <2>3. b.file = file /\ b.kids \in [1..G -> KidRecords] /\ b \in Mats(G) /\ \A g \in 1..G : b.kids[g] = kid
    BY <2>1, <2>2 DEF Mats
  <2>4. Len(<<>>) = 0
    OBVIOUS
  <2>5. \A g \in 1..G : KidIn(file, b.kids[g])
    BY <2>1, <2>3, <2>4 DEF KidIn
  <2> QED BY <2>3, <2>5, GrowsFacts DEF MatsFrom
<1> HIDE DEF cap
<1>4. ASSUME NEW i \in 1..n, NEW a \in U
      PROVE  PushRecord(a, pts[ss[i]], Targets(recs[ss[i]], groups), groups, cap, limit) \in U
  <2>1. PICK k \in Nat : Targets(recs[i], groups) \in [1..k -> 1..Len(groups)]
    BY TargetsFacts
  <2>2. PushRecord(a, pts[i], Targets(recs[i], groups), groups, cap, limit) \in U
    BY <1>1, <2>1, PushRecordFacts
  <2> QED BY <1>2, <2>2
<1>5. ASSUME NEW i \in 1..G, NEW a \in U PROVE FlushUnlessInline(a, hh[i], groups, limit) \in U
  <2>1. FlushChild(a, i) \in U
    BY <1>1, FlushChildFacts
  <2> QED BY <1>2, <2>1 DEF FlushUnlessInline
<1>6. p = PushedAll(b, ss, pts, recs, cap, groups, limit)
  BY DEF Pushed, PushedAll
<1>7. Materialize(file, pts, recs, fanout, groups, limit) = FlushedAll(p, hh, groups, limit)
  BY DEF Materialize, FlushRest, FlushedAll, cap
<1> HIDE DEF ss, hh, b, p, U
<1>8. PushedAllStays(U, n, ss, pts, recs, cap, groups, limit)
  BY <1>4 DEF PushedAllStays
<1>9. FlushedAllStays(U, G, hh, groups, limit)
  BY <1>5 DEF FlushedAllStays
<1> HIDE DEF n, G
<1>10. PICK F : PushedAllAlong(F, U, n, b, ss, pts, recs, cap, groups, limit)
  BY <1>1, <1>2, <1>3, <1>8, PushedAllPath
<1>11. p \in U
  <2>1. n \in 0..n
    BY <1>1
  <2> QED BY <1>6, <1>10, <2>1 DEF PushedAllAlong
<1>12. PICK H : FlushedAllAlong(H, U, G, p, hh, groups, limit)
  BY <1>1, <1>2, <1>9, <1>11, FlushedAllPath
<1>13. FlushedAll(p, hh, groups, limit) \in U
  <2>1. G \in 0..G
    BY <1>1
  <2> QED BY <1>12, <2>1 DEF FlushedAllAlong
<1> QED BY <1>7, <1>13 DEF U, G
\* Sorted and without repetitions, a list of points is one.
LEMMA SortDedupWords ==
  ASSUME NEW s \in Words
  PROVE  SortDedup(s) \in Words
<1> DEFINE S == ToSet(s)
           r == Ascending(S)
           n == Cardinality(S)
<1>1. Len(s) \in Nat /\ DOMAIN s = 1..Len(s) /\ \A i \in DOMAIN s : s[i] \in Nat
  BY DEF Words
<1>2. IsFiniteSet(DOMAIN s)
  BY <1>1, FS_Interval
<1>3. S = {s[i] : i \in DOMAIN s}
  BY DEF ToSet
<1>4. IsFiniteSet(S) /\ S \subseteq Nat /\ S \subseteq Int
  <2> DEFINE J == DOMAIN s
             f == [i \in J |-> s[i]]
  <2>1. f \in Surjection(J, S)
    BY <1>3 DEF Surjection
  <2>2. IsFiniteSet(S)
    <3> HIDE DEF f, J, S
    <3> QED BY <1>2, <2>1, FS_Surjection DEF J
  <2> QED BY <1>1, <1>3, <2>2
<1> HIDE DEF S
<1>5. n \in Nat /\ r \in [1..n -> S]
  BY <1>4, AscendingFacts
<1> HIDE DEF n, r
<1>6. r \in [1..n -> Nat]
  BY <1>4, <1>5
<1>7. r \in Seq(Nat)
  BY <1>5, <1>6
<1> QED BY <1>7 DEF SortDedup, Words, r, S

\* The same where duplicates are only removed at some depths.
LEMMA DedupWords ==
  ASSUME NEW s \in Words, NEW depth, NEW fanout
  PROVE  Dedup(s, depth, fanout) \in Words
BY SortDedupWords DEF Dedup

\* The points of a merged child.
LEMMA ChildPointsWords ==
  ASSUME NEW G \in Nat, NEW f \in Words, NEW m \in MatsFrom(f, G), NEW g \in 1..G
  PROVE  ChildPoints(m, g) \in Words
<1> DEFINE es == m.kids[g].extents
<1>1. m.file \in Words /\ m.kids[g] \in KidRecords /\ KidIn(m.file, m.kids[g])
  BY DEF MatsFrom, Mats
<1>2. m.kids[g].buf \in Words /\ es \in Seq(Extents)
  BY <1>1 DEF KidRecords
<1>3. \A x \in 1..Len(es) : ExtentIn(m.file, es[x])
  BY <1>1 DEF KidIn
<1>4. ChildPoints(m, g) = m.kids[g].buf \/ ChildPoints(m, g) = ReadChain(m.file, es)
  BY DEF ChildPoints
<1> HIDE DEF es
<1>5. Len(es) \in Nat /\ DOMAIN es = 1..Len(es)
  BY <1>2
<1>6. ReadChain(m.file, es) \in Words
  BY <1>1, <1>3, <1>5, ReadChainWords
<1> QED BY <1>2, <1>4, <1>6

\* The small and the large ones of a list of clusters.
LEMMA SmallLarge ==
  ASSUME NEW clusters \in Seq(Words), NEW cmax
  PROVE  Small(clusters, cmax) \in Seq(Words) /\ Large(clusters, cmax) \in Seq(Words)
<1> DEFINE I == {i \in DOMAIN clusters : Len(clusters[i]) <= cmax}
           J == {i \in DOMAIN clusters : Len(clusters[i]) > cmax}
<1>1. I \in SUBSET DOMAIN clusters /\ J \in SUBSET DOMAIN clusters
  OBVIOUS
<1>2. Small(clusters, cmax) = At(clusters, I) /\ Large(clusters, cmax) = At(clusters, J)
  BY DEF Small, Large
<1> HIDE DEF I, J
<1>3. At(clusters, I) \in Seq(Words)
  BY <1>1, AtFacts
<1>4. At(clusters, J) \in Seq(Words)
  BY <1>1, AtFacts
<1> QED BY <1>2, <1>3, <1>4

\* Merged clusters are lists of points.
LEMMA MergeClustersWords ==
  ASSUME NEW clusters \in Seq(Words), NEW cmin \in Nat, NEW cmax \in Nat
  PROVE  MergeClusters(clusters, cmin, cmax) \in Seq(Words)
<1> DEFINE L == Len(clusters)
           counts == [c \in DOMAIN clusters |-> Len(clusters[c])]
           plan == MergePlan(counts, cmin, cmax)
           one(g) == [i \in DOMAIN plan[g].kids |-> clusters[plan[g].kids[i]]]
<1>1. L \in Nat /\ DOMAIN clusters = 1..L /\ \A i \in 1..L : clusters[i] \in Words
  OBVIOUS
<1>2. counts \in [1..L -> Nat]
  BY <1>1 DEF Words
<1>3. MergeClusters(clusters, cmin, cmax) = [g \in DOMAIN plan |-> Concat(one(g))]
  BY DEF MergeClusters, Merged
<1> HIDE DEF counts
<1>4. plan \in Seq(Merges(L))
  BY <1>1, <1>2, MergePlanFacts
<1> HIDE DEF plan
<1>5. Len(plan) \in Nat /\ DOMAIN plan = 1..Len(plan)
  BY <1>4
<1>6. ASSUME NEW g \in DOMAIN plan PROVE Concat(one(g)) \in Words
  <2>1. plan[g] \in Merges(L)
    BY <1>4
  <2> DEFINE ks == plan[g].kids
             n == Len(ks)
             ss == one(g)
  <2>2. ks \in Seq(1..L)
    BY <2>1 DEF Merges
  <2>3. n \in Nat /\ DOMAIN ks = 1..n /\ \A i \in 1..n : ks[i] \in 1..L
    BY <2>2
  <2>4. ss \in [1..n -> Seq(Nat)]
    BY <1>1, <2>3 DEF Words
  <2> HIDE DEF ss, n, L, ks
  <2>5. Concat(ss) \in Seq(Nat)
    BY <2>3, <2>4, ConcatFacts
  <2> QED BY <2>5 DEF ss, Words
<1> HIDE DEF one, L
<1>7. [g \in DOMAIN plan |-> Concat(one(g))] \in [1..Len(plan) -> Words]
  BY <1>5, <1>6
<1> QED BY <1>3, <1>5, <1>7
-----------------------------------------------------------------------------
(* The splits of the root, of a run of a level and of a cluster. *)

\* The cap of a record is a number.
LEMMA RecordCapInt ==
  ASSUME NEW fanout \in Nat
  PROVE  RecordCap(fanout) \in Int
<1> DEFINE a == Max({fanout, 1})
<1>1. a \in Int
  BY MaxOfTwo
<1> HIDE DEF a
<1>2. Min({a, 32}) \in Int
  BY <1>1, MinOfTwo
<1> QED BY <1>2 DEF RecordCap, a

\* What the materialization of a successful assignment gives.
LEMMA AssignedFacts ==
  ASSUME NEW file \in Words, NEW pts \in Words, NEW L \in Nat, NEW recs, RecsFor(recs, pts, L),
         NEW fanout, NEW cmin \in Nat, NEW cmax \in Nat, NEW rs, \A i \in 1..Len(pts) : rs[i] = recs[i]
  PROVE  LET groups == MergePlan(RawCounts(pts, recs, L), cmin, cmax)
         IN  /\ Len(groups) \in Nat
             /\ Materialize(file, pts, rs, fanout, groups, cmax) \in MatsFrom(file, Len(groups))
<1> DEFINE counts == RawCounts(pts, recs, L)
           groups == MergePlan(counts, cmin, cmax)
<1>1. counts \in [1..L -> Nat] /\ \A i \in 1..Len(pts) : \A k \in 1..Len(recs[i]) : counts[recs[i][k]] > 0
  BY ClustersFacts
<1> HIDE DEF counts
<1>2. groups \in Seq(Merges(L)) /\ \A c \in 1..L : counts[c] > 0 => HeldBy(groups, c)
  BY <1>1, MergePlanFacts
<1> HIDE DEF groups
<1>3. ASSUME NEW i \in 1..Len(pts)
      PROVE  rs[i] \in Seq(1..L) /\ \A k \in 1..Len(rs[i]) : HeldBy(groups, rs[i][k])
  <2>1. recs[i] \in Seq(1..L)
    BY DEF RecsFor, Words
  <2>2. ASSUME NEW k \in 1..Len(recs[i]) PROVE HeldBy(groups, recs[i][k])
    <3>1. recs[i][k] \in 1..L
      BY <2>1
    <3> QED BY <1>1, <1>2, <3>1
  <2> QED BY <2>1, <2>2
<1>4. Materialize(file, pts, rs, fanout, groups, cmax) \in MatsFrom(file, Len(groups))
  BY <1>2, <1>3, MaterializeFacts
<1>5. Len(groups) \in Nat
  BY <1>2
<1> QED BY <1>4, <1>5 DEF groups, counts

\* The parameters of a build.
LEMMA ParamFacts ==
  ASSUME NEW k \in Keys
  PROVE  /\ Param[k].cmax \in Nat \ {0} /\ Param[k].cmin \in Nat /\ Param[k].fanout \in Nat
         /\ Param[k].leaders \in Nat /\ RecsFor(Param[k].recs, Points, Param[k].leaders)
         /\ Points \in Words
BY PartitionAssumption DEF RecsFor, Words

\* The split of the root: the file grows, the runs are in it, the leaves are lists.
SplitIn(file, s) ==
  s.file \in Words /\ Grows(file, s.file) /\ RunsIn(s.file, s.runs) /\ s.leaves \in Seq(Words)
LEMMA RootSplitFacts ==
  ASSUME NEW k \in Keys, NEW file \in Words
  PROVE  SplitIn(file, RootSplit(k, file))
<1> DEFINE p == Param[k]
           groups == RootGroups(p)
           m == RootMaterialized(p, groups, file)
           s == RootSplit(k, file)
<1>0. /\ p.cmax \in Nat \ {0} /\ p.cmin \in Nat /\ p.fanout \in Nat /\ p.leaders \in Nat
      /\ RecsFor(p.recs, Points, p.leaders) /\ Points \in Words
  BY ParamFacts
<1>1. CASE Len(Points) <= p.cmax \/ Len(groups) <= 1
  <2>1. s.file = file /\ s.runs = <<>> /\ s.leaves = <<Points>>
    BY <1>1 DEF RootSplit
  <2>2. <<Points>> \in Seq(Words) /\ <<>> \in Seq(RunRecords)
    BY <1>0
  <2>3. RunsIn(file, <<>>)
    BY <2>2 DEF RunsIn
  <2> QED BY <2>1, <2>2, <2>3, GrowsFacts DEF SplitIn
<1>2. CASE ~(Len(Points) <= p.cmax \/ Len(groups) <= 1)
  <2> DEFINE rs == [i \in DOMAIN p.recs |-> DecodeRecord(EncodeRecord(p.recs[i], RecordCap(p.fanout)))]
             G == Len(groups)
             kids == Children(m)
             w == WriteRuns(m.file, Large(kids, p.cmax))
  <2>1. s = RootOf(m, p)
    BY <1>2 DEF RootSplit
  <2>2. ASSUME NEW i \in 1..Len(Points) PROVE rs[i] = p.recs[i]
    <3>1. i \in DOMAIN p.recs /\ p.recs[i] \in Seq(1..p.leaders)
      BY <1>0 DEF RecsFor, Words
    <3>2. RecordCap(p.fanout) \in Int
      BY <1>0, RecordCapInt
    <3>3. DecodeRecord(EncodeRecord(p.recs[i], RecordCap(p.fanout))) = p.recs[i]
      BY <1>0, <3>1, <3>2, RecordRoundTrip
    <3> QED BY <3>1, <3>3
  <2>3. m = Materialize(file, Points, rs, p.fanout, groups, p.cmax)
    BY DEF RootMaterialized
  <2>4. groups = MergePlan(RawCounts(Points, p.recs, p.leaders), p.cmin, p.cmax)
    BY DEF RootGroups
  <2> HIDE DEF rs, p, groups
  <2>5. G \in Nat /\ Materialize(file, Points, rs, p.fanout, groups, p.cmax) \in MatsFrom(file, G)
    BY <1>0, <2>2, <2>4, AssignedFacts
  <2> HIDE DEF G, m
  <2>6. m \in MatsFrom(file, G)
    BY <2>3, <2>5
  <2>7. m.file \in Words /\ Grows(file, m.file) /\ DOMAIN m.kids = 1..G
    BY <2>6 DEF MatsFrom, Mats
  <2>8. kids \in Seq(Words)
    <3>1. kids = [g \in 1..G |-> SortDedup(ChildPoints(m, g))]
      BY <2>7 DEF Children
    <3>2. \A g \in 1..G : SortDedup(ChildPoints(m, g)) \in Words
      BY <2>5, <2>6, ChildPointsWords, SortDedupWords
    <3> HIDE DEF kids
    <3>3. kids \in [1..G -> Words]
      BY <3>1, <3>2
    <3> QED BY <2>5, <3>3
  <2>9. s = [file |-> w.file, runs |-> w.runs, leaves |-> Small(kids, p.cmax)]
    BY <2>1 DEF RootOf, RootRuns, Handed
  <2> HIDE DEF kids
  <2>10. Small(kids, p.cmax) \in Seq(Words) /\ Large(kids, p.cmax) \in Seq(Words)
    BY <2>8, SmallLarge
  <2>11. w.file \in Words /\ Grows(m.file, w.file) /\ RunsIn(w.file, w.runs)
    BY <2>7, <2>10, WriteRunsFacts
  <2> HIDE DEF w, s
  <2>12. Grows(file, w.file)
    BY <2>7, <2>11, GrowsFacts
  <2> QED BY <2>9, <2>10, <2>11, <2>12 DEF SplitIn, s
<1> QED BY <1>1, <1>2
\* The leaders a list of points may get.
LEMMA AssignmentsFacts ==
  ASSUME NEW pts, NEW a \in Assignments(pts)
  PROVE  a.leaders \in Nat /\ a.fanout \in Nat /\ RecsFor(a.recs, pts, a.leaders)
BY DEF Assignments, RecsFor

\* The split of a run of a level, from the records of its segments.
LEMMA RunSplitFacts ==
  ASSUME build.key \in Keys, NEW file \in Words, NEW pts \in Words, NEW a \in Assignments(pts), NEW records,
         \A i \in 1..Len(pts) : i \in DOMAIN records /\ records[i][2] = i, NEW depth
  PROVE  LET s == RunSplit(file, pts, a, records, depth)
         IN  s.file \in Words /\ Grows(file, s.file) /\ s.kids \in Seq(Words)
<1> DEFINE rs == SpooledRecords(a, records)
           groups == MergePlan(RawCounts(pts, a.recs, a.leaders), Cmin, Cmax)
           G == Len(groups)
           m == Materialize(file, pts, rs, a.fanout, groups, Cmax)
           s == RunSplit(file, pts, a, records, depth)
           kids == [g \in DOMAIN m.kids |-> Dedup(ChildPoints(m, g), depth, a.fanout)]
<1>0. Cmax \in Nat /\ Cmin \in Nat
  BY ParamFacts DEF Cmax, Cmin
<1>1. a.leaders \in Nat /\ a.fanout \in Nat /\ RecsFor(a.recs, pts, a.leaders)
  BY AssignmentsFacts
<1>2. ASSUME NEW i \in 1..Len(pts) PROVE rs[i] = a.recs[i]
  <2>1. i \in DOMAIN records /\ records[i][2] = i /\ a.recs[i] \in Seq(1..a.leaders)
    BY <1>1 DEF RecsFor, Words
  <2>2. RecordCap(a.fanout) \in Int
    BY <1>1, RecordCapInt
  <2>3. DecodeRecord(EncodeRecord(a.recs[i], RecordCap(a.fanout))) = a.recs[i]
    BY <1>1, <2>1, <2>2, RecordRoundTrip
  <2> QED BY <2>1, <2>3 DEF SpooledRecords
<1>3. s = [file |-> m.file, kids |-> kids]
  BY DEF RunSplit, RunChildren
<1> HIDE DEF rs, s
<1>4. G \in Nat /\ m \in MatsFrom(file, G)
  BY <1>0, <1>1, <1>2, AssignedFacts
<1> HIDE DEF m, G
<1>5. m.file \in Words /\ Grows(file, m.file) /\ DOMAIN m.kids = 1..G
  BY <1>4 DEF MatsFrom, Mats
<1>6. \A g \in 1..G : Dedup(ChildPoints(m, g), depth, a.fanout) \in Words
  BY <1>4, ChildPointsWords, DedupWords
<1>7. kids \in [1..G -> Words]
  BY <1>5, <1>6
<1> HIDE DEF kids
<1>8. kids \in Seq(Words)
  BY <1>4, <1>7
<1> QED BY <1>3, <1>5, <1>8 DEF s

\* The clusters that a cluster of the recursion is separated into.
LEMMA SeparatedFacts ==
  ASSUME build.key \in Keys, NEW node, node.pts \in Words, NEW a \in Assignments(node.pts)
  PROVE  Separated(node, a) \in Seq(Words)
<1> DEFINE c == ClustersOf(node.pts, a.recs, a.leaders)
           m == MergeClusters(c, Cmin, Cmax)
<1>0. Cmax \in Nat /\ Cmin \in Nat
  BY ParamFacts DEF Cmax, Cmin
<1>1. a.leaders \in Nat /\ RecsFor(a.recs, node.pts, a.leaders)
  BY AssignmentsFacts
<1>2. c \in Seq(Words)
  BY <1>1, ClustersFacts
<1> HIDE DEF c
<1>3. m \in Seq(Words)
  BY <1>0, <1>2, MergeClustersWords
<1>4. Separated(node, a) = [g \in DOMAIN m |-> Dedup(m[g], node.depth, Fanout)]
  BY DEF Separated, DedupedAt, c
<1> HIDE DEF m
<1>5. \A g \in 1..Len(m) : Dedup(m[g], node.depth, Fanout) \in Words
  BY <1>3, DedupWords
<1> DEFINE r == Separated(node, a)
<1> HIDE DEF r
<1>6. Len(m) \in Nat /\ DOMAIN m = 1..Len(m)
  BY <1>3
<1>7. r \in [1..Len(m) -> Words]
  BY <1>4, <1>5, <1>6 DEF r
<1>8. r \in Seq(Words)
  BY <1>6, <1>7
<1> QED BY <1>8 DEF r
-----------------------------------------------------------------------------
(* The heads of the runs of a level, from batch to batch. *)

Heads(runs) == {h \in [1..Len(runs) -> Nat] : \A r \in 1..Len(runs) : 1 <= h[r] /\ h[r] <= Len(runs[r]) + 1}
Onward(n, h, g) == \A r \in 1..n : h[r] <= g[r]
Further(n, h, g) == \E r \in 1..n : h[r] < g[r]
FirstHeads(runs) == [r \in 1..Len(runs) |-> 1]

\* One distinct point leaves the heap: no head goes back, and one goes on if there is a point.
LEMMA PopPointFacts ==
  ASSUME NEW runs \in Seq(Words), NEW h \in Heads(runs)
  PROVE  LET g == PopPoint(runs, h)
         IN  /\ g \in Heads(runs) /\ Onward(Len(runs), h, g)
             /\ HeadPoints(runs, h) # {} => Further(Len(runs), h, g)
<1> DEFINE n == Len(runs)
           P == HeadPoints(runs, h)
           g == PopPoint(runs, h)
<1>1. n \in Nat /\ DOMAIN runs = 1..n /\ h \in [1..n -> Nat]
  BY DEF Heads
<1>2. \A r \in 1..n : /\ 1 <= h[r] /\ h[r] <= Len(runs[r]) + 1 /\ h[r] \in Nat /\ Len(runs[r]) \in Nat
                      /\ runs[r] \in Seq(Nat)
  <2> SUFFICES ASSUME NEW r \in 1..n
               PROVE  /\ 1 <= h[r] /\ h[r] <= Len(runs[r]) + 1 /\ h[r] \in Nat /\ Len(runs[r]) \in Nat
                      /\ runs[r] \in Seq(Nat)
    OBVIOUS
  <2>1. runs[r] \in Words
    BY <1>1
  <2>2. runs[r] \in Seq(Nat) /\ Len(runs[r]) \in Nat
    BY <2>1 DEF Words
  <2> QED BY <1>1, <2>2 DEF Heads
<1>3. CASE P = {}
  BY <1>1, <1>2, <1>3 DEF PopPoint, Onward
<1>4. CASE P # {}
  <2> DEFINE p == Min(P)
  <2>1. g = [r \in 1..n |-> IF h[r] <= Len(runs[r]) /\ runs[r][h[r]] = p THEN h[r] + 1 ELSE h[r]]
    BY <1>1, <1>4 DEF PopPoint, Advance
  <2>2. P \subseteq Nat
    <3> SUFFICES ASSUME NEW r \in 1..n, h[r] <= Len(runs[r]) PROVE runs[r][h[r]] \in Nat
      BY <1>1 DEF HeadPoints
    <3> QED BY <1>2
  <2>3. \E x \in P : \A y \in P : x <= y
    <3> HIDE DEF P
    <3> QED BY <1>4, <2>2, LeastNat
  <2>4. p \in P
    <3> HIDE DEF P
    <3> QED BY <2>3 DEF Min
  <2>5. PICK q \in 1..n : h[q] <= Len(runs[q]) /\ runs[q][h[q]] = p
    <3> HIDE DEF p
    <3> QED BY <1>1, <2>4 DEF HeadPoints
  <2> HIDE DEF g, p, P
  <2>6. \A r \in 1..n : g[r] = h[r] \/ (g[r] = h[r] + 1 /\ h[r] <= Len(runs[r]))
    BY <2>1
  <2>7. g[q] = h[q] + 1
    BY <2>1, <2>5
  <2>8. g \in [1..n -> Nat]
    BY <1>1, <1>2, <2>1
  <2>9. g \in Heads(runs)
    <3> SUFFICES ASSUME NEW r \in 1..n PROVE 1 <= g[r] /\ g[r] <= Len(runs[r]) + 1
      BY <2>8 DEF Heads
    <3> QED BY <1>2, <2>6
  <2>10. Onward(n, h, g)
    BY <1>2, <2>6 DEF Onward
  <2>11. h[q] < g[q]
    BY <1>2, <2>7
  <2>12. Further(n, h, g)
    BY <2>11 DEF Further
  <2> QED BY <2>9, <2>10, <2>12 DEF g
<1> QED BY <1>3, <1>4

\* Several points leave the heap.
PopMany(b, ss, runs) == FoldLeft(LAMBDA h, i : PopPoint(runs, h), b, ss)
PopManyStays(U, n, ss, runs) == \A i \in 1..n, a \in U : PopPoint(runs, a) \in U
PopManyAlong(F, U, n, b, ss, runs) ==
  /\ F \in [0..n -> U] /\ F[0] = b /\ PopMany(b, ss, runs) = F[n]
  /\ \A i \in 1..n : F[i] = PopPoint(runs, F[i - 1])
LEMMA PopManyPath ==
  ASSUME NEW runs, NEW n \in Nat, NEW ss, DOMAIN ss = 1..n, NEW U, NEW b \in U, PopManyStays(U, n, ss, runs)
  PROVE  \E F : PopManyAlong(F, U, n, b, ss, runs)
<1> USE DEF PopManyStays, PopManyAlong
<1> DEFINE K == 1..n
           step == [x \in K \X U |-> PopPoint(runs, x[2])]
           Loop(g) == g = [s \in SUBSET K |-> IF s = {} THEN b ELSE PopPoint(runs, g[s \ {Max(s)}])]
           iter == CHOOSE g : Loop(g)
<1>0. DOMAIN ss = K
  OBVIOUS
<1>1. PopMany(b, ss, runs) = iter[K]
  BY <1>0 DEF PopMany, FoldLeft, MapThenFoldSet
<1>2. \A i \in K, a \in U : step[<<i, a>>] = PopPoint(runs, a) /\ step[<<i, a>>] \in U
  OBVIOUS
<1>3. PICK g : PathOf(g, n, b, step) /\ \A s \in SUBSET K : g[s] \in U
  <2> HIDE DEF step
  <2> QED BY <1>2, PathExists
<1>4. \A s \in SUBSET K : s # {} => Max(s) \in K /\ s \ {Max(s)} \in SUBSET K
  BY GreatestRemoved
<1>5. Loop(g)
  <2>1. ASSUME NEW s \in SUBSET K, s # {}
        PROVE  step[<<Max(s), g[s \ {Max(s)}]>>] = PopPoint(runs, g[s \ {Max(s)}])
    BY <1>2, <1>3, <1>4, <2>1
  <2> HIDE DEF step
  <2> QED BY <1>3, <2>1 DEF PathOf
<1>6. Loop(iter)
  <2> HIDE DEF Loop
  <2> QED BY <1>5
<1> HIDE DEF iter
<1>7. iter[{}] = b /\ \A s \in SUBSET K : s # {} => iter[s] = PopPoint(runs, iter[s \ {Max(s)}])
  BY <1>6
<1> DEFINE F == [i \in 0..n |-> iter[1..i]]
<1>8. \A i \in 1..n : iter[1..i] = PopPoint(runs, iter[1..(i - 1)])
  BY <1>7, FirstPositions
<1>9. 1..0 = {}
  OBVIOUS
<1> DEFINE C == {i \in Nat : i <= n => iter[1..i] \in U}
<1>10. 0 \in C
  BY <1>7, <1>9
<1>11. ASSUME NEW i \in Nat, i \in C PROVE i + 1 \in C
  <2> SUFFICES ASSUME i + 1 <= n PROVE iter[1..(i + 1)] \in U
    OBVIOUS
  <2> DEFINE j == i + 1
  <2>1. j \in 1..n /\ j - 1 = i /\ iter[1..i] \in U
    BY <1>11
  <2> HIDE DEF j
  <2>2. iter[1..j] = PopPoint(runs, iter[1..i])
    BY <1>8, <2>1
  <2> QED BY <2>1, <2>2 DEF j
<1>12. \A i \in Nat : i \in C
  <2> HIDE DEF C
  <2> QED BY <1>10, <1>11, NatSetInduction
<1>13. F \in [0..n -> U] /\ F[0] = b /\ F[n] = iter[K]
  BY <1>7, <1>9, <1>12
<1>14. ASSUME NEW i \in 1..n PROVE F[i] = PopPoint(runs, F[i - 1])
  <2>1. i - 1 \in 0..n /\ i \in 0..n
    OBVIOUS
  <2>2. F[i] = iter[1..i] /\ F[i - 1] = iter[1..(i - 1)]
    BY <2>1
  <2> QED BY <1>8, <2>2
<1> HIDE DEF F
<1> QED BY <1>1, <1>13, <1>14

\* The same for the points of one batch.
LEMMA NextHeadsFacts ==
  ASSUME NEW runs \in Seq(Words), NEW h \in Heads(runs), NEW max \in Nat
  PROVE  LET g == NextHeads(runs, h, max)
         IN  /\ g \in Heads(runs) /\ Onward(Len(runs), h, g)
             /\ HeadPoints(runs, h) # {} => Further(Len(runs), h, g)
<1> DEFINE n == Len(runs)
           m == Max({max, 1})
           ss == [i \in 1..m |-> i]
           U == Heads(runs)
           g == NextHeads(runs, h, max)
<1>1. n \in Nat /\ m \in Nat \ {0}
  <2>1. m = IF max >= 1 THEN max ELSE 1
    BY MaxOfTwo
  <2> HIDE DEF m
  <2> QED BY <2>1
<1> HIDE DEF m
<1>2. DOMAIN ss = 1..m
  OBVIOUS
<1>3. g = PopMany(h, ss, runs)
  BY DEF NextHeads, PopMany, m
<1> HIDE DEF ss
<1>4. PopManyStays(U, m, ss, runs)
  BY PopPointFacts DEF PopManyStays
<1> HIDE DEF U, g
<1>5. PICK F : PopManyAlong(F, U, m, h, ss, runs)
  <2>1. h \in U /\ m \in Nat
    BY <1>1 DEF U
  <2> QED BY <1>2, <1>4, <2>1, PopManyPath
<1>6. F[0] = h /\ g = F[m] /\ (\A i \in 0..m : F[i] \in U) /\ \A i \in 1..m : F[i] = PopPoint(runs, F[i - 1])
  BY <1>3, <1>5 DEF PopManyAlong
<1>7. ASSUME NEW i \in 1..m PROVE Onward(n, F[i - 1], F[i])
  <2>0. i - 1 \in 0..m
    BY <1>1
  <2>1. F[i - 1] \in Heads(runs)
    BY <1>6, <2>0 DEF U
  <2> QED BY <1>6, <2>1, PopPointFacts
<1>8. \A i \in 0..m : \A r \in 1..n : F[i][r] \in Nat
  BY <1>6 DEF U, Heads
<1> DEFINE C == {i \in Nat : i <= m => Onward(n, h, F[i])}
           D == {i \in Nat : i <= m /\ i >= 1 => Further(n, h, F[i])}
<1>9. \A i \in Nat : i \in C
  <2>1. 0 \in C
    <3>1. \A r \in 1..n : h[r] \in Nat
      BY DEF Heads
    <3> QED BY <1>6, <3>1 DEF Onward
  <2>2. ASSUME NEW i \in Nat, i \in C PROVE i + 1 \in C
    <3> SUFFICES ASSUME i + 1 <= m PROVE Onward(n, h, F[i + 1])
      OBVIOUS
    <3> DEFINE j == i + 1
    <3>1. j \in 1..m /\ j - 1 = i /\ i \in 0..m /\ j \in 0..m /\ Onward(n, h, F[i])
      BY <1>1, <2>2
    <3> HIDE DEF j
    <3>2. Onward(n, F[i], F[j])
      BY <1>7, <3>1
    <3>3. \A r \in 1..n : F[i][r] \in Nat /\ F[j][r] \in Nat /\ h[r] \in Nat
      BY <1>8, <3>1 DEF Heads
    <3>4. Onward(n, h, F[j])
      BY <3>1, <3>2, <3>3 DEF Onward
    <3> QED BY <3>4 DEF j
  <2> HIDE DEF C
  <2> QED BY <2>1, <2>2, NatSetInduction
<1>10. ASSUME HeadPoints(runs, h) # {} PROVE \A i \in Nat : i \in D
  <2>1. 0 \in D
    OBVIOUS
  <2>2. ASSUME NEW i \in Nat, i \in D PROVE i + 1 \in D
    <3> SUFFICES ASSUME i + 1 <= m PROVE Further(n, h, F[i + 1])
      OBVIOUS
    <3> DEFINE j == i + 1
    <3>1. j \in 1..m /\ j - 1 = i /\ i \in 0..m /\ j \in 0..m /\ (i >= 1 => Further(n, h, F[i]))
      BY <1>1, <2>2
    <3>0. i = 0 => j = 1
      OBVIOUS
    <3> HIDE DEF j
    <3>2. CASE i = 0
      <4>1. F[j] = PopPoint(runs, h)
        BY <1>6, <3>0, <3>1, <3>2
      <4>2. Further(n, h, F[j])
        BY <1>10, <4>1, PopPointFacts
      <4> QED BY <4>2 DEF j
    <3>3. CASE i # 0
      <4>1. PICK r \in 1..n : h[r] < F[i][r]
        BY <3>1, <3>3 DEF Further
      <4>2. F[i][r] <= F[j][r]
        BY <1>7, <3>1 DEF Onward
      <4>3. F[i][r] \in Nat /\ F[j][r] \in Nat /\ h[r] \in Nat
        BY <1>8, <3>1 DEF Heads
      <4>4. h[r] < F[j][r]
        BY <4>1, <4>2, <4>3
      <4>5. Further(n, h, F[j])
        BY <4>4 DEF Further
      <4> QED BY <4>5 DEF j
    <3> QED BY <3>2, <3>3
  <2> HIDE DEF D
  <2> QED BY <2>1, <2>2, NatSetInduction
<1>11. Onward(n, h, F[m]) /\ (HeadPoints(runs, h) # {} => Further(n, h, F[m]))
  <2>1. m \in C
    BY <1>1, <1>9
  <2>2. HeadPoints(runs, h) # {} => m \in D
    BY <1>1, <1>10
  <2>3. m <= m /\ m >= 1
    BY <1>1
  <2> QED BY <2>1, <2>2, <2>3
<1>12. F[m] \in U
  BY <1>1, <1>6
<1> QED BY <1>6, <1>11, <1>12 DEF g, U
\* A level has finitely many records.
LEMMA OccurrencesFinite ==
  ASSUME NEW runs \in Seq(Words)
  PROVE  /\ IsFiniteSet(Occurrences(runs)) /\ Cardinality(Occurrences(runs)) \in Nat
         /\ \A r \in 1..Len(runs) : \A i \in 1..Len(runs[r]) : <<r, i>> \in Occurrences(runs)
<1> DEFINE n == Len(runs)
           D == 1..n
           One(r) == {<<r, i>> : i \in DOMAIN runs[r]}
           f == [r \in D |-> One(r)]
           S == {One(r) : r \in D}
<1>1. n \in Nat /\ DOMAIN runs = D /\ \A r \in D : runs[r] \in Words
  OBVIOUS
<1>2. \A r \in D : Len(runs[r]) \in Nat /\ DOMAIN runs[r] = 1..Len(runs[r])
  BY <1>1 DEF Words
<1>3. Occurrences(runs) = UNION S
  BY <1>1 DEF Occurrences
<1>4. ASSUME NEW r \in D PROVE IsFiniteSet(One(r))
  <2> DEFINE J == DOMAIN runs[r]
             g == [i \in J |-> <<r, i>>]
             T == One(r)
  <2>1. J = 1..Len(runs[r])
    BY <1>2
  <2>2. IsFiniteSet(1..Len(runs[r]))
    BY <1>2, FS_Interval
  <2>3. g \in Surjection(J, T)
    BY DEF Surjection
  <2> HIDE DEF g, J, T
  <2>4. IsFiniteSet(T)
    BY <2>1, <2>2, <2>3, FS_Surjection
  <2> QED BY <2>4 DEF T
<1>5. IsFiniteSet(S)
  <2>1. f \in Surjection(D, S)
    BY DEF Surjection
  <2>2. IsFiniteSet(D)
    BY <1>1, FS_Interval
  <2> HIDE DEF f, D, S
  <2> QED BY <2>1, <2>2, FS_Surjection
<1>6. \A T \in S : IsFiniteSet(T)
  BY <1>4
<1>7. \A r \in D : \A i \in 1..Len(runs[r]) : <<r, i>> \in UNION S
  BY <1>2
<1> HIDE DEF S
<1>8. IsFiniteSet(UNION S)
  BY <1>5, <1>6, FS_UNION
<1> QED BY <1>3, <1>7, <1>8, FS_CardinalityType

\* The heads after each batch.
LEMMA HeadsOfFacts ==
  ASSUME NEW runs \in Seq(Words)
  PROVE  LET N == Cardinality(Occurrences(runs))
             hs == HeadsOf(runs)
         IN  /\ hs \in [0..N -> Heads(runs)] /\ hs[0] = FirstHeads(runs)
             /\ \A b \in 1..N : hs[b] = NextHeads(runs, hs[b - 1], BatchPoints)
<1> DEFINE N == Cardinality(Occurrences(runs))
           K == 1..N
           U == Heads(runs)
           h0 == FirstHeads(runs)
           step == [x \in K \X U |-> NextHeads(runs, x[2], BatchPoints)]
           Loop(f) == f = [b \in 0..N |-> IF b = 0 THEN h0 ELSE NextHeads(runs, f[b - 1], BatchPoints)]
<1>1. N \in Nat /\ DOMAIN runs = 1..Len(runs) /\ BatchPoints \in Nat
  BY OccurrencesFinite, ScanAssumption
<1>2. h0 \in U
  <2>1. \A r \in 1..Len(runs) : Len(runs[r]) \in Nat
    BY DEF Words
  <2>2. h0 \in [1..Len(runs) -> Nat] /\ \A r \in 1..Len(runs) : h0[r] = 1
    BY DEF FirstHeads
  <2> HIDE DEF h0
  <2> QED BY <2>1, <2>2 DEF Heads
<1>3. HeadsOf(runs) = CHOOSE f : Loop(f)
  <2>1. [r \in DOMAIN runs |-> 1] = h0
    BY <1>1 DEF FirstHeads
  <2> QED BY <2>1 DEF HeadsOf
<1> HIDE DEF N, h0
<1>4. \A i \in K, a \in U : step[<<i, a>>] = NextHeads(runs, a, BatchPoints) /\ step[<<i, a>>] \in U
  BY <1>1, NextHeadsFacts
<1> HIDE DEF U
<1>5. PICK g : PathOf(g, N, h0, step) /\ \A s \in SUBSET (1..N) : g[s] \in U
  <2>1. \A i \in 1..N, a \in U : step[<<i, a>>] \in U
    BY <1>4
  <2> HIDE DEF step
  <2> QED BY <1>1, <1>2, <2>1, PathExists
<1>6. g[{}] = h0 /\ \A i \in 1..N : g[1..i] = step[<<i, g[1..(i - 1)]>>]
  <2>1. PathOf(g, N, h0, step)
    BY <1>5
  <2> HIDE DEF step
  <2> QED BY <1>1, <2>1, PathSteps
<1> DEFINE f == [b \in 0..N |-> g[1..b]]
<1>7. ASSUME NEW b \in 0..N PROVE f[b] \in U
  <2>1. 1..b \in SUBSET (1..N)
    BY <1>1
  <2> QED BY <1>5, <2>1
<1>8. f[0] = h0
  <2>1. 1..0 = {} /\ 0 \in 0..N
    BY <1>1
  <2> QED BY <1>6, <2>1
<1>9. ASSUME NEW b \in 1..N PROVE f[b] = NextHeads(runs, f[b - 1], BatchPoints)
  <2>1. b - 1 \in 0..N /\ b \in 0..N
    BY <1>1
  <2>2. f[b - 1] = g[1..(b - 1)] /\ f[b] = g[1..b] /\ f[b - 1] \in U
    BY <1>7, <2>1
  <2> HIDE DEF f, step
  <2> QED BY <1>4, <1>6, <2>2
<1>10. Loop(f)
  <2>1. DOMAIN f = 0..N /\ f = [b \in 0..N |-> f[b]]
    OBVIOUS
  <2>2. \A b \in 0..N : b # 0 => b \in 1..N
    BY <1>1
  <2> HIDE DEF f
  <2> QED BY <1>8, <1>9, <2>1, <2>2
<1> DEFINE hs == HeadsOf(runs)
<1>11. Loop(hs)
  <2> HIDE DEF Loop, f
  <2>1. \E x : Loop(x)
    BY <1>10
  <2> QED BY <1>3, <2>1
<1> HIDE DEF hs, f
<1>12. hs[0] = h0 /\ \A b \in 1..N : hs[b] = NextHeads(runs, hs[b - 1], BatchPoints)
  <2>1. 0 \in 0..N /\ \A b \in 1..N : b \in 0..N /\ b # 0
    BY <1>1
  <2> QED BY <1>11, <2>1
<1> DEFINE C == {b \in Nat : b <= N => hs[b] \in U}
<1>13. \A b \in Nat : b \in C
  <2>1. 0 \in C
    BY <1>2, <1>12
  <2>2. ASSUME NEW b \in Nat, b \in C PROVE b + 1 \in C
    <3> SUFFICES ASSUME b + 1 <= N PROVE hs[b + 1] \in U
      OBVIOUS
    <3> DEFINE c == b + 1
    <3>1. c \in 1..N /\ c - 1 = b /\ hs[b] \in U
      BY <1>1, <2>2
    <3> HIDE DEF c
    <3>2. hs[c] = NextHeads(runs, hs[b], BatchPoints)
      BY <1>12, <3>1
    <3>3. hs[c] \in U
      BY <1>4, <3>1, <3>2
    <3> QED BY <3>3 DEF c
  <2> HIDE DEF C
  <2> QED BY <2>1, <2>2, NatSetInduction
<1>14. hs \in [0..N -> U]
  <2>1. hs = [b \in 0..N |-> IF b = 0 THEN h0 ELSE NextHeads(runs, hs[b - 1], BatchPoints)]
    BY <1>11
  <2>2. \A b \in 0..N : hs[b] \in U
    BY <1>13
  <2> QED BY <2>1, <2>2
<1> QED BY <1>12, <1>14 DEF hs, U, h0, N
\* The records that lie before the heads.
Consumed(runs, h) == {o \in Occurrences(runs) : o[2] < h[o[1]]}

\* More records lie before heads that went on.
LEMMA ConsumedGrows ==
  ASSUME NEW runs \in Seq(Words), NEW h \in Heads(runs), NEW g \in Heads(runs),
         Onward(Len(runs), h, g), Further(Len(runs), h, g)
  PROVE  /\ Cardinality(Consumed(runs, h)) \in Nat /\ Cardinality(Consumed(runs, g)) \in Nat
         /\ Cardinality(Consumed(runs, h)) < Cardinality(Consumed(runs, g))
<1> DEFINE n == Len(runs)
           O == Occurrences(runs)
           A == Consumed(runs, h)
           B == Consumed(runs, g)
<1>0. IsFiniteSet(O) /\ \A r \in 1..n : \A i \in 1..Len(runs[r]) : <<r, i>> \in O
  BY OccurrencesFinite
<1>1. \A o \in O : \E r \in 1..n : \E i \in Nat : o = <<r, i>>
  <2> SUFFICES ASSUME NEW r \in 1..n, NEW i \in DOMAIN runs[r] PROVE i \in Nat
    BY DEF Occurrences
  <2>1. runs[r] \in Words
    OBVIOUS
  <2> QED BY <2>1 DEF Words
<1>2. \A r \in 1..n : h[r] \in Nat /\ g[r] \in Nat /\ h[r] <= g[r] /\ 1 <= h[r] /\ g[r] <= Len(runs[r]) + 1
  BY DEF Heads, Onward
<1>3. A \subseteq O /\ B \subseteq O
  BY DEF Consumed
<1>4. A \subseteq B
  <2> SUFFICES ASSUME NEW o \in A PROVE o \in B
    OBVIOUS
  <2>1. o \in O /\ o[2] < h[o[1]]
    BY DEF Consumed
  <2>2. PICK r \in 1..n, i \in Nat : o = <<r, i>>
    BY <1>1, <2>1
  <2>3. o[1] = r /\ o[2] = i
    BY <2>2
  <2>4. i < g[r]
    BY <1>2, <2>1, <2>3
  <2> QED BY <2>1, <2>3, <2>4 DEF Consumed
<1>5. A # B
  <2>1. PICK r \in 1..n : h[r] < g[r]
    BY DEF Further
  <2>2. Len(runs[r]) \in Nat
    <3>1. runs[r] \in Words
      OBVIOUS
    <3> QED BY <3>1 DEF Words
  <2>3. h[r] \in 1..Len(runs[r])
    BY <1>2, <2>1, <2>2
  <2> DEFINE o == <<r, h[r]>>
  <2>4. o \in O /\ o[1] = r /\ o[2] = h[r]
    BY <1>0, <2>3
  <2> HIDE DEF o
  <2>5. o \in B
    BY <2>1, <2>4 DEF Consumed
  <2>6. ~(h[r] < h[r])
    BY <1>2
  <2>7. o \notin A
    BY <2>4, <2>6 DEF Consumed
  <2> QED BY <2>5, <2>7
<1> HIDE DEF A, B, O
<1>6. IsFiniteSet(A) /\ IsFiniteSet(B)
  BY <1>0, <1>3, FS_Subset
<1>7. Cardinality(A) <= Cardinality(B) /\ (Cardinality(B) = Cardinality(A) => B = A)
  BY <1>4, <1>6, FS_Subset
<1>8. Cardinality(A) \in Nat /\ Cardinality(B) \in Nat
  BY <1>6, FS_CardinalityType
<1> QED BY <1>5, <1>7, <1>8 DEF A, B

\* No point is left: every head is behind the last record of its run.
LEMMA NoHeadPoints ==
  ASSUME NEW runs \in Seq(Words), NEW h \in Heads(runs), HeadPoints(runs, h) = {}
  PROVE  \A r \in 1..Len(runs) : h[r] = Len(runs[r]) + 1
<1> SUFFICES ASSUME NEW r \in 1..Len(runs) PROVE h[r] = Len(runs[r]) + 1
  OBVIOUS
<1>1. DOMAIN runs = 1..Len(runs) /\ runs[r] \in Words
  OBVIOUS
<1>2. Len(runs[r]) \in Nat
  BY <1>1 DEF Words
<1>3. ~(h[r] <= Len(runs[r]))
  BY <1>1 DEF HeadPoints
<1>4. h[r] \in Nat /\ h[r] <= Len(runs[r]) + 1
  BY DEF Heads
<1> QED BY <1>2, <1>3, <1>4

\* The heap is empty after at most as many batches as there are records.
LEMMA HeapEnds ==
  ASSUME NEW runs \in Seq(Words)
  PROVE  \E e \in 0..Cardinality(Occurrences(runs)) : HeadPoints(runs, HeadsOf(runs)[e]) = {}
<1> DEFINE N == Cardinality(Occurrences(runs))
           hs == HeadsOf(runs)
           O == Occurrences(runs)
           Gone(e) == HeadPoints(runs, hs[e]) = {}
           Size(b) == Cardinality(Consumed(runs, hs[b]))
           C == {b \in Nat : b <= N => (\E e \in 0..b : Gone(e)) \/ (Size(b) \in Nat /\ Size(b) >= b)}
<1>1. /\ hs \in [0..N -> Heads(runs)]
      /\ \A b \in 1..N : hs[b] = NextHeads(runs, hs[b - 1], BatchPoints)
  BY HeadsOfFacts
<1>2. N \in Nat /\ IsFiniteSet(O) /\ BatchPoints \in Nat
  BY OccurrencesFinite, ScanAssumption
<1> HIDE DEF hs, N
<1>3. \A b \in 0..N : IsFiniteSet(Consumed(runs, hs[b])) /\ Size(b) \in Nat
  <2> SUFFICES ASSUME NEW b \in 0..N PROVE IsFiniteSet(Consumed(runs, hs[b])) /\ Size(b) \in Nat
    OBVIOUS
  <2>1. Consumed(runs, hs[b]) \in SUBSET O
    BY DEF Consumed
  <2>2. IsFiniteSet(Consumed(runs, hs[b]))
    BY <1>2, <2>1, FS_Subset
  <2> QED BY <2>2, FS_CardinalityType
<1>4. 0 \in C
  BY <1>2, <1>3
<1>5. ASSUME NEW b \in Nat, b \in C PROVE b + 1 \in C
  <2> DEFINE c == b + 1
  <2> SUFFICES ASSUME c <= N PROVE (\E e \in 0..c : Gone(e)) \/ (Size(c) \in Nat /\ Size(c) >= c)
    OBVIOUS
  <2>1. c \in 1..N /\ c \in 0..N /\ c - 1 = b /\ b \in 0..N /\ b <= N
    BY <1>2
  <2>2. CASE \E e \in 0..b : Gone(e)
    <3>1. PICK e \in 0..b : Gone(e)
      BY <2>2
    <3>2. e \in 0..c
      OBVIOUS
    <3> QED BY <3>1, <3>2
  <2>3. CASE ~\E e \in 0..b : Gone(e)
    <3>1. Size(b) \in Nat /\ Size(b) >= b
      BY <1>5, <2>1, <2>3
    <3>2. ~Gone(b)
      <4>1. b \in 0..b
        OBVIOUS
      <4> QED BY <2>3, <4>1
    <3> HIDE DEF c
    <3>3. hs[b] \in Heads(runs) /\ hs[c] = NextHeads(runs, hs[b], BatchPoints)
      BY <1>1, <2>1
    <3>4. hs[c] \in Heads(runs) /\ Onward(Len(runs), hs[b], hs[c]) /\ Further(Len(runs), hs[b], hs[c])
      BY <1>2, <3>2, <3>3, NextHeadsFacts
    <3>5. Size(b) < Size(c) /\ Size(c) \in Nat
      BY <3>3, <3>4, ConsumedGrows
    <3>6. Size(c) >= c
      <4> HIDE DEF Size
      <4> QED BY <3>1, <3>5 DEF c
    <3> QED BY <3>5, <3>6
  <2> QED BY <2>2, <2>3
<1>6. N \in C
  <2>1. \A b \in Nat : b \in C
    <3> HIDE DEF C
    <3> QED BY <1>4, <1>5, NatSetInduction
  <2> QED BY <1>2, <2>1
<1>7. (\E e \in 0..N : Gone(e)) \/ (Size(N) \in Nat /\ Size(N) >= N)
  BY <1>2, <1>6
<1>8. ASSUME Size(N) >= N PROVE Gone(N)
  <2> DEFINE h == hs[N]
             A == Consumed(runs, h)
  <2>1. h \in Heads(runs) /\ N \in 0..N
    BY <1>1, <1>2
  <2>2. A \in SUBSET O
    BY DEF Consumed
  <2>3. Cardinality(A) \in Nat /\ Cardinality(A) >= Cardinality(O)
    BY <1>3, <1>8, <2>1 DEF N
  <2>4. Cardinality(O) \in Nat
    BY <1>2 DEF N
  <2> HIDE DEF h
  <2>5. A = O
    <3> HIDE DEF A, O
    <3>1. Cardinality(A) <= Cardinality(O) /\ (Cardinality(O) = Cardinality(A) => O = A)
      BY <1>2, <2>2, FS_Subset
    <3> QED BY <2>3, <2>4, <3>1
  <2>6. ASSUME NEW r \in DOMAIN runs, h[r] <= Len(runs[r]) PROVE FALSE
    <3>1. h[r] \in Nat /\ 1 <= h[r] /\ Len(runs[r]) \in Nat
      <4>1. runs[r] \in Words
        OBVIOUS
      <4> QED BY <2>1, <4>1 DEF Heads, Words
    <3>2. h[r] \in 1..Len(runs[r])
      BY <2>6, <3>1
    <3> DEFINE o == <<r, h[r]>>
    <3>3. o \in O /\ o[1] = r /\ o[2] = h[r]
      BY <3>2, OccurrencesFinite
    <3> HIDE DEF o
    <3>4. ~(h[r] < h[r])
      BY <3>1
    <3> QED BY <2>5, <3>3, <3>4 DEF Consumed
  <2>7. HeadPoints(runs, h) = {}
    BY <2>6 DEF HeadPoints
  <2> QED BY <2>7 DEF h
<1> HIDE DEF Gone, Size
<1>9. N \in 0..N
  BY <1>2
<1>10. \E e \in 0..N : Gone(e)
  BY <1>7, <1>8, <1>9
<1> QED BY <1>10 DEF N, hs, Gone

\* The batches of a level take every head from the first record of its run behind the last.
HeadsAlong(hs, E, runs) ==
  /\ \A b \in 0..E : hs[b] \in Heads(runs)
  /\ \A r \in 1..Len(runs) : hs[0][r] = 1 /\ hs[E][r] = Len(runs[r]) + 1
  /\ \A b \in 1..E : Onward(Len(runs), hs[b - 1], hs[b])
LEMMA BatchesFacts ==
  ASSUME NEW runs \in Seq(Words)
  PROVE  LET hs == HeadsOf(runs)
             E == Len(BatchesOf(runs))
         IN  /\ E \in Nat /\ HeadsAlong(hs, E, runs) /\ DOMAIN BatchesOf(runs) = 1..E
             /\ \A b \in 1..E : BatchesOf(runs)[b] = BatchOutputs(hs[b - 1], hs[b])
<1> DEFINE hs == HeadsOf(runs)
           N == Cardinality(Occurrences(runs))
           T == {e \in DOMAIN hs : HeadPoints(runs, hs[e]) = {}}
           e == Min(T)
           B == BatchesOf(runs)
<1>1. /\ hs \in [0..N -> Heads(runs)] /\ hs[0] = FirstHeads(runs)
      /\ \A b \in 1..N : hs[b] = NextHeads(runs, hs[b - 1], BatchPoints)
  BY HeadsOfFacts
<1>2. N \in Nat /\ BatchPoints \in Nat
  BY OccurrencesFinite, ScanAssumption
<1>3. \E x \in 0..N : HeadPoints(runs, hs[x]) = {}
  BY HeapEnds
<1>4. B = [b \in 1..e |-> BatchOutputs(hs[b - 1], hs[b])]
  BY DEF BatchesOf
<1> HIDE DEF hs, N, B
<1>5. T \subseteq Nat /\ T # {}
  BY <1>1, <1>3
<1>6. e \in T
  <2> HIDE DEF T
  <2>1. \E x \in T : \A y \in T : x <= y
    BY <1>5, LeastNat
  <2> QED BY <2>1 DEF Min
<1> HIDE DEF e
<1>7. e \in 0..N /\ HeadPoints(runs, hs[e]) = {} /\ hs[e] \in Heads(runs)
  BY <1>1, <1>6
<1>8. e \in Nat /\ DOMAIN B = 1..e /\ Len(B) = e
  BY <1>4, <1>7
<1>9. \A b \in 1..e : B[b] = BatchOutputs(hs[b - 1], hs[b])
  BY <1>4
<1>10. HeadsAlong(hs, e, runs)
  <2>1. \A b \in 0..e : hs[b] \in Heads(runs)
    BY <1>1, <1>2, <1>7
  <2>2. ASSUME NEW b \in 1..e PROVE Onward(Len(runs), hs[b - 1], hs[b])
    <3>1. b \in 1..N /\ b - 1 \in 0..e
      BY <1>2, <1>7
    <3> QED BY <1>1, <1>2, <2>1, <3>1, NextHeadsFacts
  <2>3. \A r \in 1..Len(runs) : hs[0][r] = 1
    BY <1>1 DEF FirstHeads
  <2>4. \A r \in 1..Len(runs) : hs[e][r] = Len(runs[r]) + 1
    BY <1>7, NoHeadPoints
  <2> QED BY <2>1, <2>2, <2>3, <2>4 DEF HeadsAlong
<1> QED BY <1>8, <1>9, <1>10 DEF hs, B
-----------------------------------------------------------------------------
(* The spool: the records of a run are those of its segments. *)

Pairs == Nat \X Nat
Spools(n) == [spool : Seq(Pairs), segments : [1..n -> Seq(Extents)]]
SegmentsIn(spool, segs) == \A x \in 1..Len(segs) : segs[x].offset + segs[x].len <= Len(spool)
\* s holds the first k records of run r.
RecordsOf(s, r, k) == s \in Seq(Pairs) /\ Len(s) = k /\ \A i \in 1..k : s[i] = <<r, i>>
Spooled(w, n, h) ==
  /\ w \in Spools(n)
  /\ \A r \in 1..n : /\ SegmentsIn(w.spool, w.segments[r])
                     /\ RecordsOf(SegmentRecords(w.spool, w.segments[r]), r, h[r] - 1)
Piece(spool, e) == SubSeq(spool, e.offset + 1, e.offset + e.len)

\* A segment holds pairs.
LEMMA PieceFacts ==
  ASSUME NEW spool \in Seq(Pairs), NEW e \in Extents, e.offset + e.len <= Len(spool)
  PROVE  /\ Piece(spool, e) \in Seq(Pairs) /\ Len(Piece(spool, e)) = e.len
         /\ \A i \in 1..e.len : Piece(spool, e)[i] = spool[e.offset + i]
<1> DEFINE a == e.offset + 1
           b == e.offset + e.len
           t == SubSeq(spool, a, b)
<1>1. a \in Int /\ b \in Int /\ e.offset \in Nat /\ e.len \in Nat /\ Len(spool) \in Nat
  BY DEF Extents
<1>2. \A i \in a..b : spool[i] \in Pairs
  <2> SUFFICES ASSUME NEW i \in a..b PROVE spool[i] \in Pairs
    OBVIOUS
  <2>1. i \in 1..Len(spool)
    BY <1>1
  <2> QED BY <2>1
<1>3. b - a + 1 = e.len /\ (a <= b <=> e.len >= 1)
  BY <1>1, SMTT(30)
<1> HIDE DEF a, b
<1>4. t \in Seq(Pairs)
  BY <1>1, <1>2, SubSeqProperties
<1>5. Len(t) = IF a <= b THEN b - a + 1 ELSE 0
  BY <1>1, <1>2, SubSeqProperties
<1>6. \A i \in 1..b - a + 1 : t[i] = spool[a + i - 1]
  BY <1>1, <1>2, SubSeqProperties
<1> HIDE DEF t
<1>7. Len(t) = e.len
  BY <1>1, <1>3, <1>5
<1>8. ASSUME NEW i \in 1..e.len PROVE t[i] = spool[e.offset + i]
  <2>1. b - a + 1 = e.len
    BY <1>3
  <2>2. i \in 1..b - a + 1
    BY <2>1
  <2>3. a + i - 1 = e.offset + i
    BY <1>1 DEF a
  <2> QED BY <1>6, <2>2, <2>3
<1> QED BY <1>4, <1>7, <1>8 DEF Piece, t, a, b

\* Segments of a spool that has grown hold what they held.
LEMMA SegmentsKept ==
  ASSUME NEW spool \in Seq(Pairs), NEW more \in Seq(Pairs), NEW segs \in Seq(Extents), SegmentsIn(spool, segs)
  PROVE  /\ SegmentsIn(spool \o more, segs)
         /\ SegmentRecords(spool \o more, segs) = SegmentRecords(spool, segs)
<1> DEFINE g == spool \o more
           n == Len(segs)
<1>1. g \in Seq(Pairs)
  BY ConcatProperties
<1>2. Len(g) = Len(spool) + Len(more)
  OBVIOUS
<1>3. \A i \in 1..Len(spool) : g[i] = spool[i]
  BY ConcatProperties
<1>4. Len(spool) \in Nat /\ Len(more) \in Nat /\ n \in Nat /\ DOMAIN segs = 1..n
  OBVIOUS
<1>a. \A x \in 1..n : segs[x] \in Extents
  OBVIOUS
<1> HIDE DEF g, n
<1>5. \A x \in 1..n : segs[x] \in Extents /\ segs[x].offset \in Nat /\ segs[x].len \in Nat
  BY <1>a DEF Extents
<1>6. \A x \in 1..n : segs[x].offset + segs[x].len <= Len(spool) /\ segs[x].offset + segs[x].len <= Len(g)
  BY <1>2, <1>4, <1>5 DEF SegmentsIn, n
<1>7. ASSUME NEW x \in 1..n PROVE Piece(g, segs[x]) = Piece(spool, segs[x])
  <2> DEFINE e == segs[x]
             s == Piece(g, e)
             t == Piece(spool, e)
  <2>1. e \in Extents /\ e.offset \in Nat /\ e.len \in Nat
    BY <1>5
  <2>2. s \in Seq(Pairs) /\ Len(s) = e.len /\ \A i \in 1..e.len : s[i] = g[e.offset + i]
    BY <1>1, <1>6, <2>1, PieceFacts
  <2>3. t \in Seq(Pairs) /\ Len(t) = e.len /\ \A i \in 1..e.len : t[i] = spool[e.offset + i]
    BY <1>6, <2>1, PieceFacts
  <2>4. \A i \in 1..e.len : e.offset + i \in 1..Len(spool)
    BY <1>4, <1>6, <2>1
  <2> HIDE DEF e, s, t
  <2>5. \A i \in 1..Len(s) : s[i] = t[i]
    BY <1>3, <2>2, <2>3, <2>4
  <2>6. s = t
    BY <2>2, <2>3, <2>5, SeqEqual
  <2> QED BY <2>6 DEF s, t, e
<1>8. SegmentRecords(g, segs) = Concat([x \in 1..n |-> Piece(g, segs[x])])
  BY <1>4 DEF SegmentRecords, Piece
<1>9. SegmentRecords(spool, segs) = Concat([x \in 1..n |-> Piece(spool, segs[x])])
  BY <1>4 DEF SegmentRecords, Piece
<1>10. [x \in 1..n |-> Piece(g, segs[x])] = [x \in 1..n |-> Piece(spool, segs[x])]
  BY <1>7
<1>11. SegmentsIn(g, segs)
  BY <1>6 DEF SegmentsIn, n
<1> QED BY <1>8, <1>9, <1>10, <1>11 DEF g

\* One more segment, at the end of the spool.
LEMMA SegmentAdded ==
  ASSUME NEW spool \in Seq(Pairs), NEW more \in Seq(Pairs), NEW segs \in Seq(Extents), SegmentsIn(spool, segs),
         NEW e, e = [offset |-> Len(spool), len |-> Len(more)]
  PROVE  /\ Append(segs, e) \in Seq(Extents) /\ SegmentsIn(spool \o more, Append(segs, e))
         /\ SegmentRecords(spool, segs) \in Seq(Pairs)
         /\ SegmentRecords(spool \o more, Append(segs, e)) = SegmentRecords(spool, segs) \o more
<1> DEFINE g == spool \o more
           n == Len(segs)
           m == n + 1
           all == Append(segs, e)
           ss == [x \in 1..n |-> Piece(g, segs[x])]
           tt == [x \in 1..m |-> Piece(g, all[x])]
<1>1. g \in Seq(Pairs)
  BY ConcatProperties
<1>2. Len(g) = Len(spool) + Len(more)
  OBVIOUS
<1>3. \A i \in 1..Len(spool) + Len(more) : g[i] = IF i <= Len(spool) THEN spool[i] ELSE more[i - Len(spool)]
  BY ConcatProperties
<1>4. Len(spool) \in Nat /\ Len(more) \in Nat /\ n \in Nat /\ DOMAIN segs = 1..n
  OBVIOUS
<1>5. e \in Extents /\ e.offset = Len(spool) /\ e.len = Len(more)
  BY <1>4 DEF Extents
<1>6. /\ all \in Seq(Extents) /\ Len(all) = m /\ DOMAIN all = 1..m
      /\ (\A x \in 1..n : all[x] = segs[x]) /\ all[m] = e
  BY <1>4, <1>5, AppendFacts
<1>7. SegmentsIn(g, segs) /\ SegmentRecords(g, segs) = SegmentRecords(spool, segs)
  BY SegmentsKept
<1>8. SegmentRecords(g, segs) = Concat(ss)
  BY <1>4 DEF SegmentRecords, Piece
<1>9. SegmentRecords(g, all) = Concat(tt)
  BY <1>6 DEF SegmentRecords, Piece
<1> HIDE DEF g, all
<1>10. \A x \in 1..n : segs[x] \in Extents /\ segs[x].offset + segs[x].len <= Len(g)
  BY <1>4, <1>7 DEF SegmentsIn
<1>11. e.offset + e.len <= Len(g)
  BY <1>2, <1>4, <1>5
<1>12. \A x \in 1..n : Piece(g, segs[x]) \in Seq(Pairs)
  BY <1>1, <1>10, PieceFacts
<1>13. Piece(g, e) \in Seq(Pairs) /\ Len(Piece(g, e)) = e.len /\ \A i \in 1..e.len : Piece(g, e)[i] = g[e.offset + i]
  BY <1>1, <1>5, <1>11, PieceFacts
<1>14. Piece(g, e) = more
  <2> DEFINE p == Piece(g, e)
  <2>1. ASSUME NEW i \in 1..Len(more) PROVE g[Len(spool) + i] = more[i]
    <3> DEFINE j == Len(spool) + i
    <3>1. j \in 1..Len(spool) + Len(more) /\ ~(j <= Len(spool)) /\ j - Len(spool) = i
      BY <1>4
    <3> HIDE DEF j
    <3>2. g[j] = more[i]
      BY <1>3, <3>1
    <3> QED BY <3>2 DEF j
  <2>2. p \in Seq(Pairs) /\ Len(p) = Len(more) /\ \A i \in 1..Len(p) : p[i] = more[i]
    BY <1>5, <1>13, <2>1
  <2> HIDE DEF p
  <2>3. p = more
    BY <2>2, SeqEqual
  <2> QED BY <2>3 DEF p
<1> HIDE DEF m
<1>15. m = n + 1 /\ m \in 1..m /\ m \in Nat /\ \A x \in 1..m : x \in 1..n \/ x = m
  BY <1>4 DEF m
<1>16. ss \in [1..n -> Seq(Pairs)]
  BY <1>12
<1>17. tt \in [1..m -> Seq(Pairs)] /\ tt[m] = more /\ \A x \in 1..n : tt[x] = ss[x]
  <2>1. \A x \in 1..m : Piece(g, all[x]) \in Seq(Pairs)
    BY <1>6, <1>12, <1>13, <1>15
  <2>2. \A x \in 1..n : x \in 1..m
    BY <1>15, <1>4
  <2> QED BY <1>6, <1>14, <1>15, <2>1, <2>2
<1> HIDE DEF ss, tt, n
<1>18. Concat(tt) = Concat(ss) \o tt[m] /\ Concat(ss) \in Seq(Pairs)
  <2>1. n \in Nat
    BY <1>4
  <2>2. m = n + 1
    BY <1>15
  <2>3. tt \in [1..m -> Seq(Pairs)]
    BY <1>17
  <2>4. \A x \in 1..n : tt[x] = ss[x]
    BY <1>17
  <2> QED BY <1>16, <2>1, <2>2, <2>3, <2>4, ConcatLast, ZenonT(40)
<1>19. SegmentsIn(g, all)
  <2>1. \A x \in 1..m : all[x].offset + all[x].len <= Len(g)
    BY <1>6, <1>10, <1>11, <1>15
  <2> QED BY <1>6, <2>1 DEF SegmentsIn
<1> QED BY <1>6, <1>7, <1>8, <1>9, <1>17, <1>18, <1>19 DEF g, all

\* What an output of a batch is: k records of run r, from the i-th on.
OutputOf(out, r, i, k) ==
  out.run = r /\ out.records \in [1..k -> Nat] /\ \A j \in 1..k : out.records[j] = i + j - 1

\* An output is applied: its run has k more records in its segments, the others what they had.
LEMMA ApplyOutputFacts ==
  ASSUME NEW n \in Nat, NEW w \in Spools(n), NEW out, NEW r \in 1..n, NEW i \in Nat, NEW k \in Nat,
         OutputOf(out, r, i, k)
  PROVE  /\ ApplyOutput(w, out) \in Spools(n)
         /\ \A h \in [1..n -> Nat], g \in [1..n -> Nat] :
              /\ Spooled(w, n, h) /\ h[r] = i /\ i >= 1 /\ g[r] = i + k
              /\ \A q \in 1..n : q # r => g[q] = h[q]
              => Spooled(ApplyOutput(w, out), n, g)
<1> DEFINE recs == out.records
           more == [j \in DOMAIN recs |-> <<out.run, recs[j]>>]
           e == [offset |-> Len(w.spool), len |-> Len(recs)]
           segs == w.segments[r]
           spool == w.spool \o more
           segments == [w.segments EXCEPT ![r] = Append(segs, e)]
           v == ApplyOutput(w, out)
<1>1. recs \in [1..k -> Nat] /\ DOMAIN recs = 1..k /\ out.run = r /\ \A j \in 1..k : recs[j] = i + j - 1
  BY DEF OutputOf
<1>2. more \in Seq(Pairs) /\ Len(more) = k /\ \A j \in 1..k : more[j] = <<r, i + j - 1>>
  <2>1. \A j \in 1..k : <<r, recs[j]>> \in Pairs
    BY <1>1 DEF Pairs
  <2> QED BY <1>1, <2>1
<1>3. Len(recs) = k
  BY <1>1
<1>4. w.spool \in Seq(Pairs) /\ w.segments \in [1..n -> Seq(Extents)] /\ segs \in Seq(Extents)
  BY DEF Spools
<1>5. v = [spool |-> spool, segments |-> segments]
  BY <1>1 DEF ApplyOutput
<1>6. e \in Extents /\ e = [offset |-> Len(w.spool), len |-> Len(more)]
  BY <1>2, <1>3, <1>4 DEF Extents
<1> HIDE DEF more, e, v
<1>7. spool \in Seq(Pairs)
  BY <1>2, <1>4, ConcatProperties
<1>8. Append(segs, e) \in Seq(Extents)
  BY <1>4, <1>6, AppendFacts
<1>9. segments \in [1..n -> Seq(Extents)] /\ segments[r] = Append(segs, e) /\ \A q \in 1..n : q # r => segments[q] = w.segments[q]
  BY <1>4, <1>8
<1>10. v \in Spools(n) /\ v.spool = spool /\ v.segments = segments
  BY <1>5, <1>7, <1>9 DEF Spools
<1> HIDE DEF spool, segments, segs
<1>11. ASSUME NEW h \in [1..n -> Nat], NEW g \in [1..n -> Nat], Spooled(w, n, h), h[r] = i, i >= 1, g[r] = i + k,
              \A q \in 1..n : q # r => g[q] = h[q]
       PROVE  Spooled(v, n, g)
  <2>1. \A q \in 1..n : /\ SegmentsIn(w.spool, w.segments[q])
                        /\ RecordsOf(SegmentRecords(w.spool, w.segments[q]), q, h[q] - 1)
    BY <1>11 DEF Spooled
  <2>2. ASSUME NEW q \in 1..n, q # r
        PROVE  SegmentsIn(spool, segments[q]) /\ RecordsOf(SegmentRecords(spool, segments[q]), q, g[q] - 1)
    <3> DEFINE sq == w.segments[q]
    <3>1. sq \in Seq(Extents) /\ SegmentsIn(w.spool, sq)
      BY <1>4, <2>1
    <3> HIDE DEF sq
    <3>2. SegmentsIn(w.spool \o more, sq) /\ SegmentRecords(w.spool \o more, sq) = SegmentRecords(w.spool, sq)
      BY <1>2, <1>4, <3>1, SegmentsKept
    <3>3. segments[q] = sq /\ g[q] = h[q] /\ spool = w.spool \o more
      BY <1>9, <1>11, <2>2 DEF sq, spool
    <3> QED BY <2>1, <3>2, <3>3 DEF sq
  <2>3. SegmentsIn(spool, segments[r]) /\ RecordsOf(SegmentRecords(spool, segments[r]), r, g[r] - 1)
    <3> DEFINE old == SegmentRecords(w.spool, segs)
               new == SegmentRecords(spool, Append(segs, e))
    <3>1. SegmentsIn(w.spool, segs) /\ RecordsOf(old, r, i - 1)
      BY <1>11, <2>1 DEF segs
    <3>2. e = [offset |-> Len(w.spool), len |-> Len(more)]
      BY <1>6
    <3>3. SegmentsIn(spool, Append(segs, e)) /\ old \in Seq(Pairs) /\ new = old \o more
      BY <1>2, <1>4, <3>1, <3>2, SegmentAdded, ZenonT(40) DEF spool
    <3> HIDE DEF old, new
    <3>4. Len(old) = i - 1 /\ \A j \in 1..(i - 1) : old[j] = <<r, j>>
      BY <3>1 DEF RecordsOf
    <3>5. new \in Seq(Pairs)
      BY <1>2, <3>3, ConcatProperties
    <3>6. Len(new) = Len(old) + Len(more)
      <4>1. old \in Seq(Pairs) /\ more \in Seq(Pairs)
        BY <1>2, <3>3
      <4>2. Len(old \o more) = Len(old) + Len(more)
        BY <4>1
      <4> QED BY <3>3, <4>2
    <3>7. \A j \in 1..Len(old) + Len(more) : new[j] = IF j <= Len(old) THEN old[j] ELSE more[j - Len(old)]
      BY <1>2, <3>3, ConcatProperties
    <3>8. Len(new) = g[r] - 1 /\ g[r] - 1 = (i - 1) + k
      BY <1>2, <1>11, <3>4, <3>6
    <3>9. ASSUME NEW j \in 1..(g[r] - 1) PROVE new[j] = <<r, j>>
      <4>1. j \in 1..Len(old) + Len(more) /\ Len(old) = i - 1 /\ Len(more) = k
        BY <1>2, <3>4, <3>8
      <4>2. CASE j <= i - 1
        <5>1. j \in 1..(i - 1)
          BY <4>2
        <5> QED BY <3>4, <3>7, <4>1, <4>2, <5>1
      <4>3. CASE ~(j <= i - 1)
        <5> DEFINE p == j - (i - 1)
        <5>1. p \in 1..k /\ i + p - 1 = j
          BY <3>8, <4>3
        <5>2. new[j] = more[p]
          BY <3>7, <4>1, <4>3
        <5> HIDE DEF p
        <5> QED BY <1>2, <5>1, <5>2
      <4> QED BY <4>2, <4>3
    <3>10. RecordsOf(new, r, g[r] - 1)
      BY <3>5, <3>8, <3>9 DEF RecordsOf
    <3> QED BY <1>9, <3>3, <3>10 DEF new
  <2> QED BY <1>10, <2>2, <2>3 DEF Spooled
<1> QED BY <1>10, <1>11 DEF v

\* Every element of a set of numbers has its place in ascending order.
LEMMA AscendingOnto ==
  ASSUME NEW S, IsFiniteSet(S), S \subseteq Int, NEW x \in S
  PROVE  \E k \in 1..Cardinality(S) : Ascending(S)[k] = x
<1> DEFINE order == {p \in S \X S : p[1] < p[2]}
<1>1. \A a, b \in S : <<a, b>> \in order <=> a < b
  OBVIOUS
<1>2. StrictOrder(S, order)
  <2>1. \A a \in S : a \in Int
    OBVIOUS
  <2> HIDE DEF order
  <2>2. \A a \in S : <<a, a>> \notin order
    BY <1>1, <2>1
  <2>3. \A a, b \in S : a # b => <<a, b>> \in order \/ <<b, a>> \in order
    BY <1>1, <2>1
  <2>4. ASSUME NEW a \in S, NEW b \in S, NEW c \in S, <<a, b>> \in order, <<b, c>> \in order
        PROVE  <<a, c>> \in order
    <3>1. a < b /\ b < c
      BY <1>1, <2>4
    <3>2. a < c
      BY <2>1, <3>1
    <3> QED BY <1>1, <3>2
  <2> QED BY <2>2, <2>3, <2>4 DEF StrictOrder
<1>3. Ascending(S) = Ranked(S, order)
  BY DEF Ascending
<1> HIDE DEF order
<1> QED BY <1>2, <1>3, RankedOnto

\* The outputs of a batch: those of the runs whose heads went on, each once.
LEMMA BatchOutputsFacts ==
  ASSUME NEW n \in Nat, NEW h \in [1..n -> Nat], NEW g \in [1..n -> Nat]
  PROVE  \E K \in Nat : \E who \in [1..K -> 1..n] :
           /\ DOMAIN BatchOutputs(h, g) = 1..K
           /\ \A i, j \in 1..K : i < j => who[i] # who[j]
           /\ \A r \in 1..n : g[r] > h[r] => \E i \in 1..K : who[i] = r
           /\ \A i \in 1..K : /\ g[who[i]] > h[who[i]]
                              /\ OutputOf(BatchOutputs(h, g)[i], who[i], h[who[i]], g[who[i]] - h[who[i]])
<1> DEFINE S == {r \in DOMAIN h : g[r] > h[r]}
           K == Cardinality(S)
           who == Ascending(S)
           o == BatchOutputs(h, g)
<1>1. S \subseteq 1..n /\ S \subseteq Int
  OBVIOUS
<1>2. IsFiniteSet(1..n)
  BY FS_Interval
<1>3. IsFiniteSet(S)
  BY <1>1, <1>2, FS_Subset
<1>4. o = [i \in DOMAIN who |-> [run |-> who[i],
                                 records |-> [j \in 1..(g[who[i]] - h[who[i]]) |-> h[who[i]] + j - 1]]]
  BY DEF BatchOutputs
<1>5. \A r \in 1..n : g[r] > h[r] <=> r \in S
  OBVIOUS
<1> HIDE DEF S
<1>6. K \in Nat /\ who \in [1..K -> S] /\ \A i, j \in 1..K : i < j => who[i] < who[j]
  BY <1>1, <1>3, AscendingFacts
<1>7. \A r \in S : \E i \in 1..K : who[i] = r
  BY <1>1, <1>3, AscendingOnto
<1> HIDE DEF who, K, o
<1>8. who \in [1..K -> 1..n] /\ \A i \in 1..K : who[i] \in S /\ who[i] \in 1..n
  BY <1>1, <1>6
<1>9. \A i, j \in 1..K : i < j => who[i] # who[j]
  BY <1>6, <1>8
<1>10. ASSUME NEW i \in 1..K
       PROVE  g[who[i]] > h[who[i]] /\ OutputOf(o[i], who[i], h[who[i]], g[who[i]] - h[who[i]])
  <2> DEFINE r == who[i]
             a == h[r]
             k == g[r] - h[r]
             recs == [j \in 1..k |-> a + j - 1]
  <2>1. r \in 1..n /\ g[r] > h[r] /\ a \in Nat /\ g[r] \in Nat /\ k \in Nat
    BY <1>5, <1>8
  <2>2. o[i] = [run |-> r, records |-> recs]
    BY <1>4, <1>6
  <2> HIDE DEF r, a, k
  <2>3. recs \in [1..k -> Nat] /\ \A j \in 1..k : recs[j] = a + j - 1
    BY <2>1
  <2> HIDE DEF recs
  <2>4. OutputOf(o[i], r, a, k)
    BY <2>2, <2>3 DEF OutputOf
  <2> QED BY <2>1, <2>4 DEF r, a, k
<1>11. DOMAIN o = 1..K
  BY <1>4, <1>6
<1>12. \A r \in 1..n : g[r] > h[r] => \E i \in 1..K : who[i] = r
  BY <1>5, <1>7
<1> QED BY <1>6, <1>8, <1>9, <1>10, <1>11, <1>12 DEF o

\* The outputs of a batch are applied one after the other.
OutputsFrom(b, ss) == FoldLeft(ApplyOutput, b, ss)
OutputsFromStays(U, n, ss) == \A i \in 1..n, a \in U : ApplyOutput(a, ss[i]) \in U
OutputsFromAlong(F, U, n, b, ss) ==
  /\ F \in [0..n -> U] /\ F[0] = b /\ OutputsFrom(b, ss) = F[n]
  /\ \A i \in 1..n : F[i] = ApplyOutput(F[i - 1], ss[i])
LEMMA OutputsFromPath ==
  ASSUME NEW n \in Nat, NEW ss, DOMAIN ss = 1..n, NEW U, NEW b \in U, OutputsFromStays(U, n, ss)
  PROVE  \E F : OutputsFromAlong(F, U, n, b, ss)
<1> USE DEF OutputsFromStays, OutputsFromAlong
<1> DEFINE K == 1..n
           step == [x \in K \X U |-> ApplyOutput(x[2], ss[x[1]])]
           Loop(g) == g = [s \in SUBSET K |-> IF s = {} THEN b ELSE ApplyOutput(g[s \ {Max(s)}], ss[Max(s)])]
           iter == CHOOSE g : Loop(g)
<1>0. DOMAIN ss = K
  OBVIOUS
<1>1. OutputsFrom(b, ss) = iter[K]
  BY <1>0 DEF OutputsFrom, FoldLeft, MapThenFoldSet
<1>2. \A i \in K, a \in U : step[<<i, a>>] = ApplyOutput(a, ss[i]) /\ step[<<i, a>>] \in U
  OBVIOUS
<1>3. PICK g : PathOf(g, n, b, step) /\ \A s \in SUBSET K : g[s] \in U
  <2> HIDE DEF step
  <2> QED BY <1>2, PathExists
<1>4. \A s \in SUBSET K : s # {} => Max(s) \in K /\ s \ {Max(s)} \in SUBSET K
  BY GreatestRemoved
<1>5. Loop(g)
  <2>1. ASSUME NEW s \in SUBSET K, s # {}
        PROVE  step[<<Max(s), g[s \ {Max(s)}]>>] = ApplyOutput(g[s \ {Max(s)}], ss[Max(s)])
    BY <1>2, <1>3, <1>4, <2>1
  <2> HIDE DEF step
  <2> QED BY <1>3, <2>1 DEF PathOf
<1>6. Loop(iter)
  <2> HIDE DEF Loop
  <2> QED BY <1>5
<1> HIDE DEF iter
<1>7. iter[{}] = b /\ \A s \in SUBSET K : s # {} => iter[s] = ApplyOutput(iter[s \ {Max(s)}], ss[Max(s)])
  BY <1>6
<1> DEFINE F == [i \in 0..n |-> iter[1..i]]
<1>8. \A i \in 1..n : iter[1..i] = ApplyOutput(iter[1..(i - 1)], ss[i])
  BY <1>7, FirstPositions
<1>9. 1..0 = {}
  OBVIOUS
<1> DEFINE C == {i \in Nat : i <= n => iter[1..i] \in U}
<1>10. 0 \in C
  BY <1>7, <1>9
<1>11. ASSUME NEW i \in Nat, i \in C PROVE i + 1 \in C
  <2> SUFFICES ASSUME i + 1 <= n PROVE iter[1..(i + 1)] \in U
    OBVIOUS
  <2> DEFINE j == i + 1
  <2>1. j \in 1..n /\ j - 1 = i /\ iter[1..i] \in U
    BY <1>11
  <2> HIDE DEF j
  <2>2. iter[1..j] = ApplyOutput(iter[1..i], ss[j])
    BY <1>8, <2>1
  <2> QED BY <2>1, <2>2 DEF j
<1>12. \A i \in Nat : i \in C
  <2> HIDE DEF C
  <2> QED BY <1>10, <1>11, NatSetInduction
<1>13. F \in [0..n -> U] /\ F[0] = b /\ F[n] = iter[K]
  BY <1>7, <1>9, <1>12
<1>14. ASSUME NEW i \in 1..n PROVE F[i] = ApplyOutput(F[i - 1], ss[i])
  <2>1. i - 1 \in 0..n /\ i \in 0..n
    OBVIOUS
  <2>2. F[i] = iter[1..i] /\ F[i - 1] = iter[1..(i - 1)]
    BY <2>1
  <2> QED BY <1>8, <2>2
<1> HIDE DEF F
<1> QED BY <1>1, <1>13, <1>14

\* A batch is applied: every run has its records up to the new heads.
LEMMA BatchApplied ==
  ASSUME NEW n \in Nat, NEW h \in [1..n -> Nat], NEW g \in [1..n -> Nat], NEW w \in Spools(n)
  PROVE  /\ ApplyBatch(w, BatchOutputs(h, g)) \in Spools(n)
         /\ Spooled(w, n, h) /\ Onward(n, h, g) /\ (\A r \in 1..n : h[r] >= 1)
            => Spooled(ApplyBatch(w, BatchOutputs(h, g)), n, g)
<1> DEFINE o == BatchOutputs(h, g)
           U == Spools(n)
<1>1. PICK K \in Nat : \E who \in [1..K -> 1..n] :
           /\ DOMAIN o = 1..K
           /\ \A i, j \in 1..K : i < j => who[i] # who[j]
           /\ \A r \in 1..n : g[r] > h[r] => \E i \in 1..K : who[i] = r
           /\ \A i \in 1..K : /\ g[who[i]] > h[who[i]]
                              /\ OutputOf(o[i], who[i], h[who[i]], g[who[i]] - h[who[i]])
  BY BatchOutputsFacts
<1>2. PICK who \in [1..K -> 1..n] :
           /\ DOMAIN o = 1..K
           /\ \A i, j \in 1..K : i < j => who[i] # who[j]
           /\ \A r \in 1..n : g[r] > h[r] => \E i \in 1..K : who[i] = r
           /\ \A i \in 1..K : /\ g[who[i]] > h[who[i]]
                              /\ OutputOf(o[i], who[i], h[who[i]], g[who[i]] - h[who[i]])
  BY <1>1
<1> HIDE DEF o
<1>3. ASSUME NEW i \in 1..K, NEW a \in U
      PROVE  /\ ApplyOutput(a, o[i]) \in U
             /\ \A x \in [1..n -> Nat], y \in [1..n -> Nat] :
                  /\ Spooled(a, n, x) /\ x[who[i]] = h[who[i]] /\ h[who[i]] >= 1 /\ y[who[i]] = g[who[i]]
                  /\ \A q \in 1..n : q # who[i] => y[q] = x[q]
                  => Spooled(ApplyOutput(a, o[i]), n, y)
  <2> DEFINE r == who[i]
             s == h[r]
             k == g[r] - h[r]
  <2>1. r \in 1..n /\ s \in Nat /\ k \in Nat /\ s + k = g[r]
    <3>1. r \in 1..n /\ g[r] > h[r]
      BY <1>2
    <3> HIDE DEF r
    <3>2. h[r] \in Nat /\ g[r] \in Nat
      BY <3>1
    <3> QED BY <3>1, <3>2
  <2>2. OutputOf(o[i], r, s, k)
    BY <1>2
  <2> HIDE DEF r, s, k
  <2>3. /\ ApplyOutput(a, o[i]) \in U
        /\ \A x \in [1..n -> Nat], y \in [1..n -> Nat] :
             /\ Spooled(a, n, x) /\ x[r] = s /\ s >= 1 /\ y[r] = s + k
             /\ \A q \in 1..n : q # r => y[q] = x[q]
             => Spooled(ApplyOutput(a, o[i]), n, y)
    BY <2>1, <2>2, ApplyOutputFacts
  <2> QED BY <2>1, <2>3 DEF r, s
<1>4. OutputsFromStays(U, K, o)
  BY <1>3 DEF OutputsFromStays
<1>5. PICK F : OutputsFromAlong(F, U, K, w, o)
  BY <1>2, <1>4, OutputsFromPath
<1>6. /\ F \in [0..K -> U] /\ F[0] = w /\ OutputsFrom(w, o) = F[K]
      /\ \A i \in 1..K : F[i] = ApplyOutput(F[i - 1], o[i])
  BY <1>5 DEF OutputsFromAlong
<1>7. ApplyBatch(w, o) = F[K]
  BY <1>6 DEF ApplyBatch, OutputsFrom
<1>8. ASSUME Spooled(w, n, h), Onward(n, h, g), \A r \in 1..n : h[r] >= 1 PROVE Spooled(F[K], n, g)
  <2> DEFINE Mid(i) == [r \in 1..n |-> IF \E j \in 1..i : who[j] = r THEN g[r] ELSE h[r]]
             C == {i \in Nat : i <= K => Spooled(F[i], n, Mid(i))}
  <2>1. \A i \in Nat : Mid(i) \in [1..n -> Nat]
    OBVIOUS
  <2>2. Mid(0) = h
    OBVIOUS
  <2>3. 0 \in C
    BY <1>6, <1>8, <2>2
  <2>4. ASSUME NEW i \in Nat, i \in C PROVE i + 1 \in C
    <3> SUFFICES ASSUME i + 1 <= K PROVE Spooled(F[i + 1], n, Mid(i + 1))
      OBVIOUS
    <3> DEFINE m == i + 1
               x == Mid(i)
               y == Mid(m)
               r == who[m]
    <3>1. m \in 1..K /\ m - 1 = i /\ i \in 0..K /\ m \in Nat
      BY <1>1
    <3>2. Spooled(F[i], n, x)
      BY <2>4, <3>1
    <3>3. x \in [1..n -> Nat] /\ y \in [1..n -> Nat] /\ r \in 1..n
      BY <1>2, <2>1, <3>1
    <3>4. x[r] = h[r]
      <4>1. \A j \in 1..i : j \in 1..K /\ j < m
        BY <3>1
      <4>2. \A j \in 1..i : who[j] # r
        BY <1>2, <3>1, <4>1
      <4> QED BY <3>3, <4>2
    <3>5. y[r] = g[r]
      BY <3>1, <3>3
    <3>6. ASSUME NEW q \in 1..n, q # r PROVE y[q] = x[q]
      <4>1. \A j \in 1..m : j \in 1..i \/ j = m
        BY <3>1
      <4>2. \A j \in 1..i : j \in 1..m
        BY <3>1
      <4>3. (\E j \in 1..m : who[j] = q) <=> (\E j \in 1..i : who[j] = q)
        BY <3>6, <4>1, <4>2
      <4> HIDE DEF m
      <4> QED BY <4>3
    <3>7. F[m] = ApplyOutput(F[i], o[m]) /\ F[i] \in U
      BY <1>6, <3>1
    <3>8. h[r] >= 1
      BY <1>8, <3>3
    <3> HIDE DEF m, x, y, Mid
    <3>9. Spooled(ApplyOutput(F[i], o[m]), n, y)
      BY <1>3, <3>1, <3>2, <3>3, <3>4, <3>5, <3>6, <3>7, <3>8 DEF r
    <3> QED BY <3>7, <3>9 DEF m, y
  <2>5. \A i \in Nat : i \in C
    <3> HIDE DEF C
    <3> QED BY <2>3, <2>4, NatSetInduction
  <2>6. Spooled(F[K], n, Mid(K))
    <3> HIDE DEF Mid
    <3>1. K \in C
      <4> HIDE DEF C
      <4> QED BY <1>1, <2>5
    <3>2. K <= K
      BY <1>1
    <3> QED BY <3>1, <3>2
  <2>7. Mid(K) = g
    <3>1. ASSUME NEW r \in 1..n PROVE Mid(K)[r] = g[r]
      <4>1. CASE g[r] > h[r]
        BY <1>2, <4>1
      <4>2. CASE ~(g[r] > h[r])
        <5>1. g[r] = h[r]
          BY <1>8, <4>2 DEF Onward
        <5> QED BY <5>1
      <4> QED BY <4>1, <4>2
    <3>2. Mid(K) \in [1..n -> Nat]
      BY <2>1
    <3> HIDE DEF Mid
    <3> QED BY <3>1, <3>2
  <2> HIDE DEF Mid
  <2> QED BY <2>6, <2>7
<1> QED BY <1>6, <1>7, <1>8 DEF o

\* Batches are applied one after the other.
SpooledFrom(b, ss, batches) == FoldLeft(LAMBDA v, x : ApplyBatch(v, batches[x]), b, ss)
SpooledFromStays(U, n, ss, batches) == \A i \in 1..n, a \in U : ApplyBatch(a, batches[ss[i]]) \in U
SpooledFromAlong(F, U, n, b, ss, batches) ==
  /\ F \in [0..n -> U] /\ F[0] = b /\ SpooledFrom(b, ss, batches) = F[n]
  /\ \A i \in 1..n : F[i] = ApplyBatch(F[i - 1], batches[ss[i]])
LEMMA SpooledFromPath ==
  ASSUME NEW batches, NEW n \in Nat, NEW ss, DOMAIN ss = 1..n, NEW U, NEW b \in U, SpooledFromStays(U, n, ss, batches)
  PROVE  \E F : SpooledFromAlong(F, U, n, b, ss, batches)
<1> USE DEF SpooledFromStays, SpooledFromAlong
<1> DEFINE K == 1..n
           step == [x \in K \X U |-> ApplyBatch(x[2], batches[ss[x[1]]])]
           Loop(g) == g = [s \in SUBSET K |-> IF s = {} THEN b ELSE ApplyBatch(g[s \ {Max(s)}], batches[ss[Max(s)]])]
           iter == CHOOSE g : Loop(g)
<1>0. DOMAIN ss = K
  OBVIOUS
<1>1. SpooledFrom(b, ss, batches) = iter[K]
  BY <1>0 DEF SpooledFrom, FoldLeft, MapThenFoldSet
<1>2. \A i \in K, a \in U : step[<<i, a>>] = ApplyBatch(a, batches[ss[i]]) /\ step[<<i, a>>] \in U
  OBVIOUS
<1>3. PICK g : PathOf(g, n, b, step) /\ \A s \in SUBSET K : g[s] \in U
  <2> HIDE DEF step
  <2> QED BY <1>2, PathExists
<1>4. \A s \in SUBSET K : s # {} => Max(s) \in K /\ s \ {Max(s)} \in SUBSET K
  BY GreatestRemoved
<1>5. Loop(g)
  <2>1. ASSUME NEW s \in SUBSET K, s # {}
        PROVE  step[<<Max(s), g[s \ {Max(s)}]>>] = ApplyBatch(g[s \ {Max(s)}], batches[ss[Max(s)]])
    BY <1>2, <1>3, <1>4, <2>1
  <2> HIDE DEF step
  <2> QED BY <1>3, <2>1 DEF PathOf
<1>6. Loop(iter)
  <2> HIDE DEF Loop
  <2> QED BY <1>5
<1> HIDE DEF iter
<1>7. iter[{}] = b /\ \A s \in SUBSET K : s # {} => iter[s] = ApplyBatch(iter[s \ {Max(s)}], batches[ss[Max(s)]])
  BY <1>6
<1> DEFINE F == [i \in 0..n |-> iter[1..i]]
<1>8. \A i \in 1..n : iter[1..i] = ApplyBatch(iter[1..(i - 1)], batches[ss[i]])
  BY <1>7, FirstPositions
<1>9. 1..0 = {}
  OBVIOUS
<1> DEFINE C == {i \in Nat : i <= n => iter[1..i] \in U}
<1>10. 0 \in C
  BY <1>7, <1>9
<1>11. ASSUME NEW i \in Nat, i \in C PROVE i + 1 \in C
  <2> SUFFICES ASSUME i + 1 <= n PROVE iter[1..(i + 1)] \in U
    OBVIOUS
  <2> DEFINE j == i + 1
  <2>1. j \in 1..n /\ j - 1 = i /\ iter[1..i] \in U
    BY <1>11
  <2> HIDE DEF j
  <2>2. iter[1..j] = ApplyBatch(iter[1..i], batches[ss[j]])
    BY <1>8, <2>1
  <2> QED BY <2>1, <2>2 DEF j
<1>12. \A i \in Nat : i \in C
  <2> HIDE DEF C
  <2> QED BY <1>10, <1>11, NatSetInduction
<1>13. F \in [0..n -> U] /\ F[0] = b /\ F[n] = iter[K]
  BY <1>7, <1>9, <1>12
<1>14. ASSUME NEW i \in 1..n PROVE F[i] = ApplyBatch(F[i - 1], batches[ss[i]])
  <2>1. i - 1 \in 0..n /\ i \in 0..n
    OBVIOUS
  <2>2. F[i] = iter[1..i] /\ F[i - 1] = iter[1..(i - 1)]
    BY <2>1
  <2> QED BY <1>8, <2>2
<1> HIDE DEF F
<1> QED BY <1>1, <1>13, <1>14

\* Batches are applied in order: the records follow the heads.
LEMMA SpooledInOrderFacts ==
  ASSUME NEW runs \in Seq(Words), NEW a \in Nat, NEW k \in Nat, a + k <= Len(BatchesOf(runs)),
         NEW w, Spooled(w, Len(runs), HeadsOf(runs)[a]),
         NEW order, DOMAIN order = 1..k, \A i \in 1..k : order[i] = a + i
  PROVE  Spooled(SpooledInOrder(w, BatchesOf(runs), order), Len(runs), HeadsOf(runs)[a + k])
<1> DEFINE n == Len(runs)
           hs == HeadsOf(runs)
           B == BatchesOf(runs)
           E == Len(B)
           U == Spools(n)
<1>1. /\ E \in Nat /\ HeadsAlong(hs, E, runs)
      /\ \A b \in 1..E : B[b] = BatchOutputs(hs[b - 1], hs[b])
  BY BatchesFacts
<1>2. n \in Nat
  BY DEF Words
<1> HIDE DEF hs, B, E, n
<1>3. \A b \in 0..E : hs[b] \in [1..n -> Nat] /\ \A r \in 1..n : hs[b][r] >= 1
  BY <1>1 DEF HeadsAlong, Heads, n
<1>4. \A b \in 1..E : Onward(n, hs[b - 1], hs[b])
  BY <1>1 DEF HeadsAlong, n
<1>5. ASSUME NEW b \in 1..E, NEW v \in U
      PROVE  ApplyBatch(v, B[b]) \in U /\ (Spooled(v, n, hs[b - 1]) => Spooled(ApplyBatch(v, B[b]), n, hs[b]))
  <2> DEFINE h == hs[b - 1]
             g == hs[b]
  <2>1. h \in [1..n -> Nat] /\ g \in [1..n -> Nat] /\ \A r \in 1..n : h[r] >= 1
    <3>1. b - 1 \in 0..E /\ b \in 0..E
      BY <1>1
    <3> QED BY <1>3, <3>1
  <2>2. Onward(n, h, g) /\ B[b] = BatchOutputs(h, g)
    BY <1>1, <1>4
  <2> HIDE DEF h, g
  <2>3. /\ ApplyBatch(v, BatchOutputs(h, g)) \in U
        /\ Spooled(v, n, h) => Spooled(ApplyBatch(v, BatchOutputs(h, g)), n, g)
    BY <1>2, <2>1, <2>2, BatchApplied
  <2> QED BY <2>2, <2>3 DEF h, g
<1>6. ASSUME NEW i \in 1..k PROVE order[i] \in 1..E /\ order[i] = a + i
  BY <1>1, a + k <= E DEF E, B
<1>7. SpooledFromStays(U, k, order, B)
  BY <1>5, <1>6 DEF SpooledFromStays
<1>8. w \in U /\ Spooled(w, n, hs[a])
  BY DEF Spooled, hs, n
<1>9. PICK F : SpooledFromAlong(F, U, k, w, order, B)
  BY <1>7, <1>8, SpooledFromPath
<1>10. /\ F \in [0..k -> U] /\ F[0] = w /\ SpooledFrom(w, order, B) = F[k]
       /\ \A i \in 1..k : F[i] = ApplyBatch(F[i - 1], B[order[i]])
  BY <1>9 DEF SpooledFromAlong
<1>11. SpooledInOrder(w, B, order) = F[k]
  BY <1>10 DEF SpooledInOrder, SpooledFrom
<1> DEFINE C == {i \in Nat : i <= k => Spooled(F[i], n, hs[a + i])}
<1>12. 0 \in C
  <2>1. a + 0 = a
    OBVIOUS
  <2> QED BY <1>8, <1>10, <2>1
<1>13. ASSUME NEW i \in Nat, i \in C PROVE i + 1 \in C
  <2> SUFFICES ASSUME i + 1 <= k PROVE Spooled(F[i + 1], n, hs[a + (i + 1)])
    OBVIOUS
  <2> DEFINE m == i + 1
             b == order[m]
  <2>1. m \in 1..k /\ m - 1 = i /\ i \in 0..k
    OBVIOUS
  <2>2. b \in 1..E /\ b = a + m /\ b - 1 = a + i /\ a + (i + 1) = b
    BY <1>6, <2>1
  <2>3. Spooled(F[i], n, hs[b - 1])
    BY <1>13, <2>1, <2>2
  <2>4. F[m] = ApplyBatch(F[i], B[b]) /\ F[i] \in U
    BY <1>10, <2>1
  <2> HIDE DEF m, b
  <2>5. Spooled(ApplyBatch(F[i], B[b]), n, hs[b])
    BY <1>5, <2>2, <2>3, <2>4
  <2> QED BY <2>2, <2>4, <2>5 DEF m
<1>14. \A i \in Nat : i \in C
  <2> HIDE DEF C
  <2> QED BY <1>12, <1>13, NatSetInduction
<1>15. Spooled(F[k], n, hs[a + k])
  BY <1>14
<1> QED BY <1>11, <1>15 DEF n, hs, B

\* Nothing is spooled at the start.
LEMMA NothingSpooled ==
  ASSUME NEW runs \in Seq(Words)
  PROVE  Spooled([spool |-> <<>>, segments |-> [r \in DOMAIN runs |-> <<>>]], Len(runs), HeadsOf(runs)[0])
<1> DEFINE n == Len(runs)
           segments == [r \in DOMAIN runs |-> <<>>]
           w == [spool |-> <<>>, segments |-> segments]
           hs == HeadsOf(runs)
<1>1. n \in Nat /\ DOMAIN runs = 1..n
  BY DEF Words
<1>2. \A r \in 1..n : hs[0][r] = 1
  BY BatchesFacts DEF HeadsAlong
<1> HIDE DEF hs, n
<1>3. <<>> \in Seq(Pairs) /\ <<>> \in Seq(Extents) /\ Len(<<>>) = 0
  OBVIOUS
<1>4. segments \in [1..n -> Seq(Extents)] /\ \A r \in 1..n : segments[r] = <<>>
  BY <1>1, <1>3
<1> HIDE DEF segments
<1>5. w \in Spools(n) /\ w.spool = <<>> /\ w.segments = segments
  BY <1>3, <1>4 DEF Spools
<1> HIDE DEF w
<1>6. SegmentRecords(<<>>, <<>>) = <<>>
  <2> DEFINE ss == [i \in DOMAIN <<>> |-> SubSeq(<<>>, <<>>[i].offset + 1, <<>>[i].offset + <<>>[i].len)]
  <2>1. ss = <<>>
    OBVIOUS
  <2>2. SegmentRecords(<<>>, <<>>) = Concat(ss)
    BY DEF SegmentRecords
  <2> HIDE DEF ss
  <2> QED BY <2>1, <2>2, ConcatNone
<1>7. SegmentsIn(<<>>, <<>>)
  BY <1>3 DEF SegmentsIn
<1>8. \A r \in 1..n : RecordsOf(<<>>, r, hs[0][r] - 1)
  BY <1>2, <1>3 DEF RecordsOf
<1>9. Spooled(w, n, hs[0])
  BY <1>4, <1>5, <1>6, <1>7, <1>8 DEF Spooled
<1> QED BY <1>9 DEF w, segments, hs, n

\* Everything is spooled once every batch is applied.
LEMMA AllSpooled ==
  ASSUME NEW runs \in Seq(Words), NEW w, Spooled(w, Len(runs), HeadsOf(runs)[Len(BatchesOf(runs))]),
         NEW r \in DOMAIN runs
  PROVE  SegmentRecords(w.spool, w.segments[r]) = [i \in DOMAIN runs[r] |-> <<r, i>>]
<1> DEFINE n == Len(runs)
           E == Len(BatchesOf(runs))
           h == HeadsOf(runs)[E]
           s == SegmentRecords(w.spool, w.segments[r])
<1>1. r \in 1..n /\ runs[r] \in Seq(Nat) /\ Len(runs[r]) \in Nat /\ DOMAIN runs[r] = 1..Len(runs[r])
  BY DEF Words
<1>2. h[r] = Len(runs[r]) + 1
  BY <1>1, BatchesFacts DEF HeadsAlong
<1>3. RecordsOf(s, r, h[r] - 1)
  BY <1>1 DEF Spooled
<1> HIDE DEF h, s
<1>4. h[r] - 1 = Len(runs[r])
  BY <1>1, <1>2
<1>5. s \in Seq(Pairs) /\ Len(s) = Len(runs[r]) /\ \A i \in 1..Len(runs[r]) : s[i] = <<r, i>>
  BY <1>3, <1>4 DEF RecordsOf
<1>6. DOMAIN s = 1..Len(runs[r]) /\ s = [i \in 1..Len(runs[r]) |-> s[i]]
  BY <1>1, <1>5
<1>7. s = [i \in 1..Len(runs[r]) |-> <<r, i>>]
  BY <1>5, <1>6
<1> QED BY <1>1, <1>7 DEF s
=============================================================================
