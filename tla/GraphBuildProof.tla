--------------------------- MODULE GraphBuildProof ---------------------------
(***************************************************************************)
(* Proofs about GraphBuild, for every number of points, shard size, flush  *)
(* threshold, part size, set of configurations and sequence of runs.       *)
(*                                                                         *)
(* The argument: buffers, part files and segments hold candidates of their *)
(* own shard only, also the files an earlier run left; so grouping accepts *)
(* the manifest, every group reduces to one row per point of its range,    *)
(* and the groups, serial or in parallel chunks, continue each other where *)
(* the rows delivered so far end.  Hence no callback sees a row out of     *)
(* place, the pre-prune file has the shape its loader demands, and every   *)
(* point has its row when the build ends.                                  *)
(***************************************************************************)
EXTENDS GraphBuild, DataTheorems

(***************************************************************************)
(* The inductive invariant.                                                *)
(***************************************************************************)

\* The candidates of the points of one shard.
EdgesOf(s) == {e \in Edge : ShardOf(e.p) = s}

Segment == [shard : Shards, file : Nat, off : Nat, count : Nat, min : Points, max : Points]

\* The spill sink: the part files by shard and number, whoever wrote them.
FileMap == UNION {[K -> Seq(Edge)] : K \in SUBSET (Shards \X Nat)}
SinkType ==
  [buf : [Shards -> Seq(Edge)], writer : [Shards -> [file : Int, len : Nat]],
   next : [Shards -> Nat], parts : SUBSET (Shards \X Nat), manifest : Seq(Segment), files : FileMap]

\* Buffers and files hold candidates of their own shard only, a segment lies in its
\* shard, and its part is closed or the one that is open.
SegmentOK(d, g) ==
  /\ ShardOf(g.min) = g.shard /\ ShardOf(g.max) = g.shard
  /\ \/ <<g.shard, g.file>> \in d.parts
     \/ d.writer[g.shard] # NoPart /\ d.writer[g.shard].file = g.file
SinkOK(d) ==
  /\ \A s \in Shards : /\ d.buf[s] \in Seq(EdgesOf(s))
                       /\ d.writer[s] # NoPart => /\ d.writer[s].file \in Nat
                                                  /\ <<s, d.writer[s].file>> \in DOMAIN d.files
  /\ \A k \in DOMAIN d.files : d.files[k] \in Seq(EdgesOf(k[1]))
  /\ \A i \in DOMAIN d.manifest : SegmentOK(d, d.manifest[i])
GoodSinks == {d \in SinkType : SinkOK(d)}
\* A sink is a record, also when its files are gone.
Shape(d) ==
  /\ DOMAIN d = {"buf", "writer", "next", "parts", "manifest", "files"}
  /\ d = [x \in DOMAIN d |-> d[x]]
FilesOK(f) == f \in FileMap /\ \A k \in DOMAIN f : f[k] \in Seq(EdgesOf(k[1]))
Closed(d) == \A s \in Shards : d.writer[s] = NoPart

Row == [vid : Int, cands : Seq(Edge)]
\* The rows of consecutive points, from lo on.
RowsFrom(lo, rs) == rs \in Seq(Row) /\ \A k \in DOMAIN rs : rs[k].vid = lo + k - 1

\* A group of segments: the part of one shard of the sink d behind the first r points.
GroupIn(d, r, g) ==
  /\ g.lo \in Nat /\ g.hi \in Nat /\ g.lo < g.hi /\ r < g.hi /\ g.hi <= NumPoints
  /\ g.segs \in Seq(Segment)
  /\ \A i \in DOMAIN g.segs : /\ \A p \in Points : ShardOf(p) = g.segs[i].shard => p < g.hi
                              /\ <<g.segs[i].shard, g.segs[i].file>> \in d.parts
GroupOK(g) == GroupIn(sink, Resident, g)
\* A reduced part.
PartOK(a) ==
  /\ a.lo \in Nat /\ a.hi \in Nat /\ a.lo < a.hi /\ a.hi <= NumPoints
  /\ RowsFrom(a.lo, a.rows) /\ Len(a.rows) = a.hi - a.lo

Streaming == pc \in {"open", "stream", "finish_sink", "resident"}
Reducing == pc \in {"serial", "chunk", "replay"}
\* From the first leaf to the last row.
Building == pc \in {"stream", "finish_sink", "resident", "plan", "serial", "chunk", "replay"}
Phases == {"open", "stream", "finish_sink", "resident", "plan", "serial", "chunk", "replay",
           "epilogue", "post", "write", "finish", "remove", "flush", "done", "err"}

ConfigInv ==
  /\ cfg \in Configs /\ pc \in Phases /\ run \in 1..MaxRuns /\ fault \in BOOLEAN /\ open \in BOOLEAN
  /\ \A t \in temps : t[1] \in 1..run /\ t[2] \in Points

StreamInv ==
  /\ batch \in [DOMAIN Edges -> {"todo", "recorded", "inserted", "done"}]
  /\ res \in [Points -> Seq(Edge)] /\ rec \in [Points -> Seq(Edge)]

\* The sink is in order until its files may be removed; before the reduction it is closed.
SinkInv ==
  /\ Shape(sink) /\ FilesOK(sink.files)
  /\ pc = "open" \/ Building => sink \in GoodSinks
  /\ (pc \in {"resident", "plan"} \/ Reducing) /\ Resident < NumPoints => Closed(sink)

\* The groups and parts still to be delivered, in the order of their points and behind
\* the n rows that have been delivered.
List(s) == Len(s) \in Nat /\ s = [i \in 1..Len(s) |-> s[i]]
TodoFrom(d, r, q, n) ==
  /\ List(q)
  /\ \A i \in 1..Len(q) : GroupIn(d, r, q[i]) /\ n <= GroupStart(q[i], r)
  /\ \A i, j \in 1..Len(q) : i < j => q[i].hi <= q[j].lo
PartsFrom(a, n) ==
  /\ List(a)
  /\ \A i \in 1..Len(a) : PartOK(a[i]) /\ n <= a[i].lo
  /\ \A i, j \in 1..Len(a) : i < j => a[i].hi <= a[j].lo
Before(a, q, r) == \A i \in 1..Len(a), j \in 1..Len(q) : a[i].hi <= GroupStart(q[j], r)
TodoOK == TodoFrom(sink, Resident, todo, Len(out))
PartsOK == PartsFrom(parts, Len(out))
QueueInv ==
  Reducing =>
    /\ TodoOK /\ PartsOK /\ Before(parts, todo, Resident)
    /\ pc = "serial" => parts = <<>>
    /\ pc = "chunk" => cfg.par > 1
    /\ pc = "replay" => todo = <<>>

\* Rows come in point order; each phase ends with the rows it promises.
OutInv ==
  /\ RowsFrom(0, out) /\ Len(out) <= NumPoints
  /\ Streaming => out = <<>>
  /\ Streaming \/ pc = "plan" => parts = <<>>
  /\ pc = "plan" => Len(out) = Resident
  /\ Reducing \/ pc = "plan" => Resident < NumPoints
  /\ pc \in {"epilogue", "post"} /\ ~MetadataOnly => Len(out) = NumPoints

\* The pre-prune file of this run, once it is created.
PreType == [1..NumPoints -> {r \in Seq(Points) : Len(r) <= MaxDegree}]
PreInv ==
  cfg.mode = "final" /\ (Building \/ pc \in {"epilogue", "post"}) => pre \in PreType

\* The graph file is the one the run found until the run opens it.
GraphInv ==
  /\ pc = "open" => graph = old
  /\ cfg.mode # "direct" /\ (Building \/ pc \in {"epilogue", "post"}) => graph = old

IInv == ConfigInv /\ StreamInv /\ SinkInv /\ QueueInv /\ OutInv /\ PreInv /\ GraphInv
        /\ NoSpuriousError /\ RefusedKeepsGraph

(***************************************************************************)
(* Points, shards and subsequences.                                        *)
(***************************************************************************)

\* Points and shards are naturals, and there are finitely many.
LEMMA ShardFacts ==
  /\ NumPoints \in Nat /\ ShardPoints \in Nat \ {0} /\ Points \subseteq Nat
  /\ Shards \subseteq Nat /\ IsFiniteSet(Shards)
  /\ \A p \in Points : /\ p < NumPoints /\ ShardOf(p) \in Shards
                       /\ ShardPoints * ShardOf(p) <= p /\ p < ShardPoints * ShardOf(p) + ShardPoints
<1>1. NumPoints \in Nat /\ ShardPoints \in Nat \ {0}
  BY SpillAssumption
<1>2. Points \subseteq Nat /\ \A p \in Points : p < NumPoints /\ ShardOf(p) \in Shards
  BY <1>1 DEF Points, Shards
<1>3. ASSUME NEW p \in Points
      PROVE  /\ ShardOf(p) \in Nat /\ ShardOf(p) <= p
             /\ ShardPoints * ShardOf(p) <= p /\ p < ShardPoints * ShardOf(p) + ShardPoints
  <2> DEFINE q == p \div ShardPoints
  <2>1. q \in Nat /\ ShardPoints * q <= p /\ p < ShardPoints * q + ShardPoints
    BY <1>1, <1>2, DivFacts
  <2>2. \A a \in Nat \ {0}, b \in Nat : b <= a * b
    OBVIOUS
  <2>3. q <= ShardPoints * q
    BY <1>1, <2>1, <2>2
  <2>4. ShardOf(p) = q
    BY DEF ShardOf
  <2>5. ShardPoints * q \in Nat /\ p \in Nat
    BY <1>1, <1>2, <2>1
  <2> HIDE DEF q
  <2> QED BY <2>1, <2>3, <2>4, <2>5
<1>4. Shards \in SUBSET (0..NumPoints)
  <2>1. ASSUME NEW p \in Points PROVE ShardOf(p) \in 0..NumPoints
    BY <1>1, <1>2, <1>3
  <2> QED BY <2>1 DEF Shards
<1>5. IsFiniteSet(0..NumPoints)
  BY <1>1, FS_Interval
<1>6. Shards \subseteq Nat /\ IsFiniteSet(Shards)
  <2>1. IsFiniteSet(Shards)
    BY <1>4, <1>5, FS_Subset
  <2> QED BY <1>4, <2>1
<1> QED BY <1>1, <1>2, <1>3, <1>6

\* Sorting by point keeps the candidates within a set, and keeps some.
LEMMA SortFacts ==
  ASSUME NEW T \in SUBSET Edge, NEW es \in Seq(T)
  PROVE  SortByPoint(es) \in Seq(T) /\ (es # <<>> => SortByPoint(es) # <<>>)
<1> DEFINE I(i) == {j \in DOMAIN es : es[j].p = i - 1}
           ss == [i \in 1..NumPoints |-> At(es, I(i))]
<1>1. \A i \in 1..NumPoints : At(es, I(i)) \in Seq(T) /\ (I(i) # {} => At(es, I(i)) # <<>>)
  BY AtFacts
<1>2. ss \in [1..NumPoints -> Seq(T)] /\ NumPoints \in Nat
  BY <1>1, ShardFacts
<1>3. SortByPoint(es) = Concat(ss)
  BY DEF SortByPoint
<1>4. ASSUME es # <<>> PROVE \E i \in 1..NumPoints : ss[i] # <<>>
  <2>1. 1 \in DOMAIN es /\ es[1] \in Edge
    BY <1>4
  <2> DEFINE q == es[1].p + 1
  <2>2. es[1].p \in Points
    BY <2>1 DEF Edge
  <2>3. q \in 1..NumPoints /\ es[1].p = q - 1
    <3>1. \A x \in 0..(NumPoints - 1) : x + 1 \in 1..NumPoints /\ x = (x + 1) - 1
      BY SpillAssumption
    <3> QED BY <2>2, <3>1 DEF Points
  <2>4. 1 \in I(q)
    BY <2>1, <2>3
  <2> HIDE DEF q, I
  <2>5. I(q) # {}
    BY <2>4
  <2>6. ss[q] # <<>>
    BY <1>1, <2>3, <2>5
  <2> HIDE DEF ss
  <2> QED BY <2>3, <2>6
<1> HIDE DEF ss
<1> QED BY <1>2, <1>3, <1>4, ConcatFacts

\* The candidates of a shard are edges of points of that shard.
LEMMA EdgesOfFacts ==
  \A s : EdgesOf(s) \in SUBSET Edge /\ \A e \in EdgesOf(s) : e.p \in Points /\ ShardOf(e.p) = s
BY DEF EdgesOf, Edge

(***************************************************************************)
(* The sink.                                                               *)
(***************************************************************************)

\* The fields of a sink, and a sink put together from fields.
FieldTypes(d) ==
  /\ d.buf \in [Shards -> Seq(Edge)] /\ d.writer \in [Shards -> [file : Int, len : Nat]]
  /\ d.next \in [Shards -> Nat] /\ d.parts \in SUBSET (Shards \X Nat)
  /\ d.manifest \in Seq(Segment) /\ d.files \in FileMap

LEMMA SinkFields ==
  ASSUME NEW d \in GoodSinks
  PROVE  Shape(d) /\ FieldTypes(d) /\ SinkOK(d)
BY DEF GoodSinks, SinkType, Shape, FieldTypes

LEMMA SinkMade ==
  ASSUME NEW d, Shape(d), FieldTypes(d), SinkOK(d)
  PROVE  d \in GoodSinks
BY DEF GoodSinks, SinkType, Shape, FieldTypes

\* The files as a function; a file that is added or replaced.
LEMMA FileMapFacts ==
  /\ \A f \in FileMap : /\ DOMAIN f \in SUBSET (Shards \X Nat) /\ f = [k \in DOMAIN f |-> f[k]]
                        /\ \A k \in DOMAIN f : f[k] \in Seq(Edge)
  /\ \A f : f = [k \in DOMAIN f |-> f[k]] /\ DOMAIN f \in SUBSET (Shards \X Nat)
            /\ (\A k \in DOMAIN f : f[k] \in Seq(Edge)) => f \in FileMap
<1>1. ASSUME NEW f \in FileMap
      PROVE  /\ DOMAIN f \in SUBSET (Shards \X Nat) /\ f = [k \in DOMAIN f |-> f[k]]
             /\ \A k \in DOMAIN f : f[k] \in Seq(Edge)
  <2>1. PICK K \in SUBSET (Shards \X Nat) : f \in [K -> Seq(Edge)]
    BY DEF FileMap
  <2> QED BY <2>1
<1>2. ASSUME NEW f, f = [k \in DOMAIN f |-> f[k]], DOMAIN f \in SUBSET (Shards \X Nat),
             \A k \in DOMAIN f : f[k] \in Seq(Edge)
      PROVE  f \in FileMap
  <2> DEFINE K == DOMAIN f
  <2>1. f \in [K -> Seq(Edge)]
    <3> HIDE DEF K
    <3>1. f = [k \in K |-> f[k]] /\ \A k \in K : f[k] \in Seq(Edge)
      BY <1>2 DEF K
    <3> QED BY <3>1
  <2> HIDE DEF K
  <2>2. K \in SUBSET (Shards \X Nat)
    BY <1>2 DEF K
  <2> QED BY <2>1, <2>2 DEF FileMap
<1> QED BY <1>1, <1>2

\* finalize_part_writer closes the open part of a shard.
LEMMA FinalizeFacts ==
  ASSUME NEW d \in GoodSinks, NEW s \in Shards, d.writer[s] # NoPart
  PROVE  LET e == FinalizePart(d, s)
         IN  /\ e \in GoodSinks /\ e.writer[s] = NoPart
             /\ \A q \in Shards : q # s => e.writer[q] = d.writer[q]
             /\ e.buf = d.buf
<1> DEFINE e == FinalizePart(d, s)
<1>0. Shape(d) /\ FieldTypes(d) /\ SinkOK(d)
  BY SinkFields
<1>1. /\ e.buf = d.buf /\ e.files = d.files /\ e.manifest = d.manifest /\ e.next = d.next
      /\ e.writer = [d.writer EXCEPT ![s] = NoPart]
      /\ e.parts = d.parts \cup {<<s, d.writer[s].file>>}
  BY <1>0 DEF FinalizePart, Shape
<1>2. Shape(e)
  BY <1>0 DEF FinalizePart, Shape
<1> HIDE DEF e
<1>3. d.writer[s].file \in Nat
  BY <1>0 DEF SinkOK
<1>4. /\ e.writer[s] = NoPart /\ \A q \in Shards : q # s => e.writer[q] = d.writer[q]
      /\ e.writer \in [Shards -> [file : Int, len : Nat]]
  <2>1. NoPart \in [file : Int, len : Nat]
    BY DEF NoPart
  <2>2. d.writer \in [Shards -> [file : Int, len : Nat]]
    BY <1>0 DEF FieldTypes
  <2> HIDE DEF NoPart
  <2> QED BY <1>1, <2>1, <2>2
<1>5. FieldTypes(e)
  <2>1. e.parts \in SUBSET (Shards \X Nat)
    BY <1>0, <1>1, <1>3 DEF FieldTypes
  <2> QED BY <1>0, <1>1, <1>4, <2>1 DEF FieldTypes
<1>6. SinkOK(e)
  <2>1. ASSUME NEW i \in DOMAIN e.manifest PROVE SegmentOK(e, e.manifest[i])
    <3> DEFINE g == e.manifest[i]
    <3>1. SegmentOK(d, g) /\ g.shard \in Shards
      <4>1. g \in Segment
        BY <1>0, <1>1, <2>1 DEF FieldTypes
      <4> QED BY <1>0, <1>1, <2>1, <4>1 DEF SinkOK, Segment
    <3> HIDE DEF g
    <3>2. <<g.shard, g.file>> \in d.parts \/ (d.writer[g.shard] # NoPart /\ d.writer[g.shard].file = g.file)
      BY <3>1 DEF SegmentOK
    <3>3. <<g.shard, g.file>> \in e.parts \/ (e.writer[g.shard] # NoPart /\ e.writer[g.shard].file = g.file)
      <4>1. CASE g.shard = s
        BY <1>1, <3>2, <4>1
      <4>2. CASE g.shard # s
        BY <1>1, <1>4, <3>1, <3>2, <4>2
      <4> QED BY <4>1, <4>2
    <3> QED BY <3>1, <3>3 DEF SegmentOK, g
  <2>2. ASSUME NEW q \in Shards, e.writer[q] # NoPart
        PROVE  e.writer[q].file \in Nat /\ <<q, e.writer[q].file>> \in DOMAIN e.files
    <3>1. e.writer[q] = d.writer[q]
      BY <1>4, <2>2
    <3> QED BY <1>0, <1>1, <2>2, <3>1 DEF SinkOK
  <2> QED BY <1>0, <1>1, <2>1, <2>2 DEF SinkOK
<1>7. e \in GoodSinks
  BY <1>2, <1>5, <1>6, SinkMade
<1> QED BY <1>1, <1>4, <1>7 DEF e

\* A new part is opened for a shard that has none.
LEMMA CreateFacts ==
  ASSUME NEW d \in GoodSinks, NEW s \in Shards, d.writer[s] = NoPart
  PROVE  LET e == CreatePart(d, s)
         IN  e \in GoodSinks /\ e.buf = d.buf /\ e.writer[s] # NoPart
<1> DEFINE e == CreatePart(d, s)
           f == d.next[s]
           key == <<s, f>>
<1>0. Shape(d) /\ FieldTypes(d) /\ SinkOK(d)
  BY SinkFields
<1>1. /\ e.buf = d.buf /\ e.manifest = d.manifest /\ e.parts = d.parts
      /\ e.writer = [d.writer EXCEPT ![s] = [file |-> f, len |-> 0]]
      /\ e.next = [d.next EXCEPT ![s] = IF f < MaxPartId THEN f + 1 ELSE f]
      /\ e.files = WithFile(d.files, key, <<>>)
  BY <1>0 DEF CreatePart, Shape
<1>s. Shape(e)
  BY <1>0 DEF CreatePart, Shape
<1> HIDE DEF e
<1>2. f \in Nat
  BY <1>0 DEF FieldTypes
<1>3. e.next \in [Shards -> Nat]
  <2>1. (IF f < MaxPartId THEN f + 1 ELSE f) \in Nat
    BY <1>2
  <2> HIDE DEF f
  <2> QED BY <1>0, <1>1, <2>1 DEF FieldTypes
<1>4. /\ e.writer \in [Shards -> [file : Int, len : Nat]]
      /\ e.writer[s] = [file |-> f, len |-> 0] /\ \A q \in Shards : q # s => e.writer[q] = d.writer[q]
  <2>1. [file |-> f, len |-> 0] \in [file : Int, len : Nat]
    BY <1>2
  <2> HIDE DEF f
  <2> QED BY <1>0, <1>1, <2>1 DEF FieldTypes
<1>5. e.writer[s].file = f /\ e.writer[s] # NoPart
  BY <1>2, <1>4 DEF NoPart
<1> HIDE DEF f
<1>6. /\ DOMAIN e.files = DOMAIN d.files \cup {key} /\ e.files = [k \in DOMAIN e.files |-> e.files[k]]
      /\ e.files[key] = <<>> /\ \A k \in DOMAIN d.files : k # key => e.files[k] = d.files[k]
  BY <1>1 DEF WithFile
<1>7. DOMAIN d.files \in SUBSET (Shards \X Nat) /\ \A k \in DOMAIN d.files : d.files[k] \in Seq(EdgesOf(k[1]))
  BY <1>0, FileMapFacts DEF SinkOK, FieldTypes
<1>8. key \in Shards \X Nat
  BY <1>2
<1> HIDE DEF key
<1>9. ASSUME NEW k \in DOMAIN e.files PROVE e.files[k] \in Seq(EdgesOf(k[1])) /\ e.files[k] \in Seq(Edge)
  <2>1. CASE k = key
    <3>1. e.files[k] = <<>>
      BY <1>6, <2>1
    <3>2. \A S : <<>> \in Seq(S)
      OBVIOUS
    <3> HIDE DEF EdgesOf, Edge
    <3> QED BY <3>1, <3>2
  <2>2. CASE k # key
    <3>1. k \in DOMAIN d.files /\ e.files[k] = d.files[k]
      BY <1>6, <1>9, <2>2
    <3>2. d.files[k] \in Seq(Edge)
      BY <1>0, <3>1, FileMapFacts DEF FieldTypes
    <3> QED BY <1>7, <3>1, <3>2
  <2> QED BY <2>1, <2>2
<1>10. e.files \in FileMap
  <2>1. DOMAIN e.files \in SUBSET (Shards \X Nat)
    BY <1>6, <1>7, <1>8
  <2> QED BY <1>6, <1>9, <2>1, FileMapFacts
<1>11. SinkOK(e)
  <2>1. ASSUME NEW i \in DOMAIN e.manifest PROVE SegmentOK(e, e.manifest[i])
    <3> DEFINE g == e.manifest[i]
    <3>1. SegmentOK(d, g) /\ g.shard \in Shards
      <4>1. g \in Segment
        BY <1>0, <1>1, <2>1 DEF FieldTypes
      <4> QED BY <1>0, <1>1, <2>1, <4>1 DEF SinkOK, Segment
    <3> HIDE DEF g
    <3>2. <<g.shard, g.file>> \in d.parts \/ (d.writer[g.shard] # NoPart /\ d.writer[g.shard].file = g.file)
      BY <3>1 DEF SegmentOK
    <3>3. <<g.shard, g.file>> \in e.parts \/ (e.writer[g.shard] # NoPart /\ e.writer[g.shard].file = g.file)
      <4>1. CASE g.shard = s
        BY <1>1, <3>2, <4>1
      <4>2. CASE g.shard # s
        BY <1>1, <1>4, <3>1, <3>2, <4>2
      <4> QED BY <4>1, <4>2
    <3> QED BY <3>1, <3>3 DEF SegmentOK, g
  <2>2. ASSUME NEW q \in Shards, e.writer[q] # NoPart
        PROVE  e.writer[q].file \in Nat /\ <<q, e.writer[q].file>> \in DOMAIN e.files
    <3>1. CASE q = s
      BY <1>2, <1>5, <1>6, <3>1 DEF key
    <3>2. CASE q # s
      <4>1. e.writer[q] = d.writer[q]
        BY <1>4, <3>2
      <4> QED BY <1>0, <1>6, <2>2, <4>1 DEF SinkOK
    <3> QED BY <3>1, <3>2
  <2> QED BY <1>0, <1>1, <1>9, <2>1, <2>2 DEF SinkOK
<1>12. FieldTypes(e)
  BY <1>0, <1>1, <1>3, <1>4, <1>10 DEF FieldTypes
<1>13. e \in GoodSinks
  BY <1>s, <1>11, <1>12, SinkMade
<1> QED BY <1>1, <1>5, <1>13 DEF e

\* There is an open part with room for the records of a flush.
LEMMA EnsureFacts ==
  ASSUME NEW d \in GoodSinks, NEW s \in Shards, NEW n \in Nat
  PROVE  LET e == EnsurePart(d, s, n)
         IN  e \in GoodSinks /\ e.buf = d.buf /\ e.writer[s] # NoPart
<1>1. CASE d.writer[s] # NoPart /\ d.writer[s].len + n <= PartMaxRecords
  <2>1. ~(d.writer[s].len + n > PartMaxRecords)
    <3>1. d.writer[s].len \in Nat
      BY SinkFields DEF FieldTypes
    <3> QED BY <1>1, <3>1, SpillAssumption
  <2>2. EnsurePart(d, s, n) = d
    BY <1>1, <2>1 DEF EnsurePart
  <2> QED BY <1>1, <2>2
<1>2. CASE d.writer[s] # NoPart /\ ~(d.writer[s].len + n <= PartMaxRecords)
  <2> DEFINE f == FinalizePart(d, s)
  <2>1. f \in GoodSinks /\ f.buf = d.buf /\ f.writer[s] = NoPart
    BY <1>2, FinalizeFacts
  <2>2. d.writer[s].len + n > PartMaxRecords
    <3>1. d.writer[s].len \in Nat
      BY SinkFields DEF FieldTypes
    <3> QED BY <1>2, <3>1, SpillAssumption
  <2>3. EnsurePart(d, s, n) = CreatePart(f, s)
    BY <1>2, <2>2 DEF EnsurePart
  <2> HIDE DEF f
  <2> QED BY <2>1, <2>3, CreateFacts
<1>3. CASE d.writer[s] = NoPart
  <2>1. EnsurePart(d, s, n) = CreatePart(d, s)
    BY <1>3 DEF EnsurePart
  <2> QED BY <1>3, <2>1, CreateFacts
<1> QED BY <1>1, <1>2, <1>3

\* Appending a flush to the open part and to the manifest.
LEMMA PushFacts ==
  ASSUME NEW e \in GoodSinks, NEW s \in Shards, e.writer[s] # NoPart,
         NEW es \in Seq(EdgesOf(s)), es # <<>>
  PROVE  [PushRecords(e, s, es) EXCEPT
            !.writer[s].len = @ + Len(es),
            !.manifest = Append(@, [shard |-> s, file |-> e.writer[s].file, off |-> e.writer[s].len,
                                    count |-> Len(es), min |-> es[1].p, max |-> Last(es).p])] \in GoodSinks
<1> DEFINE f == e.writer[s].file
           key == <<s, f>>
           g == [shard |-> s, file |-> f, off |-> e.writer[s].len, count |-> Len(es), min |-> es[1].p, max |-> Last(es).p]
           d == PushRecords(e, s, es)
           h == [d EXCEPT !.writer[s].len = @ + Len(es), !.manifest = Append(@, g)]
<1>0. Shape(e) /\ FieldTypes(e) /\ SinkOK(e)
  BY SinkFields
<1>1. f \in Nat /\ key \in DOMAIN e.files /\ e.writer[s].len \in Nat
      /\ e.writer[s] = [file |-> f, len |-> e.writer[s].len]
  <2>1. e.writer[s] \in [file : Int, len : Nat]
    BY <1>0 DEF FieldTypes
  <2> QED BY <1>0, <2>1 DEF SinkOK
<1>2. /\ Shape(d) /\ d.buf = e.buf /\ d.manifest = e.manifest /\ d.parts = e.parts /\ d.next = e.next
      /\ d.writer = e.writer /\ d.files = [e.files EXCEPT ![key] = @ \o es]
  BY <1>0 DEF PushRecords, Shape
<1> HIDE DEF d, g
<1>3. /\ h.buf = e.buf /\ h.manifest = Append(e.manifest, g) /\ h.parts = e.parts /\ h.next = e.next
      /\ h.files = [e.files EXCEPT ![key] = @ \o es]
      /\ h.writer = [e.writer EXCEPT ![s].len = @ + Len(es)]
  BY <1>2 DEF Shape
<1>4. Shape(h)
  BY <1>2 DEF Shape
<1> HIDE DEF h
<1>5. Len(es) \in Nat \ {0} /\ es \in Seq(Edge) /\ es[1] \in EdgesOf(s) /\ Last(es) \in EdgesOf(s)
  <2>1. Len(es) \in Nat \ {0}
    BY EmptySeq
  <2>2. es[1] \in EdgesOf(s) /\ es[Len(es)] \in EdgesOf(s)
    BY <2>1, ElementOfSeq
  <2>3. \A i \in 1..Len(es) : es[i] \in Edge
    BY EdgesOfFacts, ElementOfSeq
  <2>4. es \in Seq(Edge)
    BY <2>1, <2>3, SeqDef
  <2> QED BY <2>1, <2>2, <2>4 DEF Last
<1>6. g \in Segment /\ ShardOf(g.min) = s /\ ShardOf(g.max) = s /\ g.shard = s /\ g.file = f
  <2>1. es[1].p \in Points /\ ShardOf(es[1].p) = s /\ Last(es).p \in Points /\ ShardOf(Last(es).p) = s
    BY <1>5, EdgesOfFacts
  <2> QED BY <1>1, <1>5, <2>1 DEF g, Segment
<1>7. /\ h.writer[s].file = f /\ \A q \in Shards : q # s => h.writer[q] = e.writer[q]
      /\ h.writer \in [Shards -> [file : Int, len : Nat]]
  <2> DEFINE x == e.writer[s]
             y == [x EXCEPT !.len = @ + Len(es)]
  <2>1. y \in [file : Int, len : Nat] /\ y.file = f
    <3>1. x \in [file : Int, len : Nat]
      BY <1>0 DEF FieldTypes
    <3> QED BY <1>5, <3>1
  <2>2. e.writer \in [Shards -> [file : Int, len : Nat]]
    BY <1>0 DEF FieldTypes
  <2>3. h.writer = [e.writer EXCEPT ![s] = y]
    BY <1>3, <2>2
  <2> HIDE DEF y, f
  <2> QED BY <2>1, <2>2, <2>3
<1>8. h.writer[s] # NoPart /\ h.writer[s].file = f
  <2>1. NoPart.file = -1
    BY DEF NoPart
  <2> QED BY <1>1, <1>7, <2>1
<1> HIDE DEF f
<1>9. /\ DOMAIN h.files = DOMAIN e.files /\ h.files = [k \in DOMAIN h.files |-> h.files[k]]
      /\ h.files[key] = e.files[key] \o es /\ \A k \in DOMAIN e.files : k # key => h.files[k] = e.files[k]
  <2>1. e.files = [k \in DOMAIN e.files |-> e.files[k]]
    BY <1>0, FileMapFacts DEF FieldTypes
  <2> HIDE DEF key
  <2> QED BY <1>1, <1>3, <2>1
<1>10. DOMAIN e.files \in SUBSET (Shards \X Nat) /\ \A k \in DOMAIN e.files : e.files[k] \in Seq(EdgesOf(k[1])) /\ e.files[k] \in Seq(Edge)
  BY <1>0, FileMapFacts DEF SinkOK, FieldTypes
<1>11. key[1] = s
  OBVIOUS
<1> HIDE DEF key
<1>12. ASSUME NEW k \in DOMAIN h.files PROVE h.files[k] \in Seq(EdgesOf(k[1])) /\ h.files[k] \in Seq(Edge)
  <2>1. CASE k = key
    <3>1. e.files[key] \in Seq(EdgesOf(s)) /\ e.files[key] \in Seq(Edge)
      BY <1>1, <1>10, <1>11
    <3>2. e.files[key] \o es \in Seq(EdgesOf(s)) /\ e.files[key] \o es \in Seq(Edge)
      BY <1>5, <3>1, ConcatProperties
    <3> QED BY <1>9, <1>11, <2>1, <3>2
  <2>2. CASE k # key
    BY <1>9, <1>10, <1>12, <2>2
  <2> QED BY <2>1, <2>2
<1>13. h.files \in FileMap
  BY <1>9, <1>10, <1>12, FileMapFacts
<1>14. h.manifest \in Seq(Segment) /\ \A i \in DOMAIN h.manifest : h.manifest[i] = g \/ (i \in DOMAIN e.manifest /\ h.manifest[i] = e.manifest[i])
  <2>1. e.manifest \in Seq(Segment)
    BY <1>0 DEF FieldTypes
  <2> QED BY <1>3, <1>6, <2>1
<1>15. SinkOK(h)
  <2>1. ASSUME NEW i \in DOMAIN h.manifest PROVE SegmentOK(h, h.manifest[i])
    <3>1. CASE h.manifest[i] = g
      <4>1. SegmentOK(h, g)
        BY <1>6, <1>8 DEF SegmentOK
      <4> QED BY <3>1, <4>1
    <3>2. CASE i \in DOMAIN e.manifest /\ h.manifest[i] = e.manifest[i]
      <4> DEFINE x == e.manifest[i]
      <4>1. SegmentOK(e, x) /\ x.shard \in Shards
        <5>1. x \in Segment
          BY <1>0, <3>2 DEF FieldTypes
        <5> QED BY <1>0, <3>2, <5>1 DEF SinkOK, Segment
      <4> HIDE DEF x
      <4>2. <<x.shard, x.file>> \in e.parts \/ (e.writer[x.shard] # NoPart /\ e.writer[x.shard].file = x.file)
        BY <4>1 DEF SegmentOK
      <4>3. <<x.shard, x.file>> \in h.parts \/ (h.writer[x.shard] # NoPart /\ h.writer[x.shard].file = x.file)
        <5>1. CASE x.shard = s
          BY <1>3, <1>8, <4>2, <5>1 DEF f
        <5>2. CASE x.shard # s
          BY <1>3, <1>7, <4>1, <4>2, <5>2
        <5> QED BY <5>1, <5>2
      <4> QED BY <3>2, <4>1, <4>3 DEF SegmentOK, x
    <3> QED BY <1>14, <3>1, <3>2
  <2>2. ASSUME NEW q \in Shards, h.writer[q] # NoPart
        PROVE  h.writer[q].file \in Nat /\ <<q, h.writer[q].file>> \in DOMAIN h.files
    <3>1. CASE q = s
      BY <1>1, <1>8, <1>9, <3>1 DEF key
    <3>2. CASE q # s
      <4>1. h.writer[q] = e.writer[q]
        BY <1>7, <3>2
      <4> QED BY <1>0, <1>9, <2>2, <4>1 DEF SinkOK
    <3> QED BY <3>1, <3>2
  <2> QED BY <1>0, <1>3, <1>12, <2>1, <2>2 DEF SinkOK
<1>16. FieldTypes(h)
  BY <1>0, <1>3, <1>7, <1>13, <1>14 DEF FieldTypes
<1>17. h \in GoodSinks
  BY <1>4, <1>15, <1>16, SinkMade
<1> QED BY <1>17 DEF h, d, g, f

\* Replacing one buffer.
LEMMA BufferFacts ==
  ASSUME NEW d \in GoodSinks, NEW s \in Shards, NEW b \in Seq(EdgesOf(s))
  PROVE  LET e == [d EXCEPT !.buf[s] = b]
         IN  e \in GoodSinks /\ e.buf[s] = b /\ e.writer = d.writer
             /\ \A q \in Shards : q # s => e.buf[q] = d.buf[q]
<1> DEFINE e == [d EXCEPT !.buf[s] = b]
<1>0. Shape(d) /\ FieldTypes(d) /\ SinkOK(d)
  BY SinkFields
<1>1. /\ Shape(e) /\ e.manifest = d.manifest /\ e.parts = d.parts /\ e.next = d.next
      /\ e.writer = d.writer /\ e.files = d.files /\ e.buf = [d.buf EXCEPT ![s] = b]
  BY <1>0 DEF Shape
<1> HIDE DEF e
<1>2. b \in Seq(Edge)
  <2>1. \A i \in 1..Len(b) : b[i] \in Edge
    BY EdgesOfFacts, ElementOfSeq
  <2>2. Len(b) \in Nat
    OBVIOUS
  <2> QED BY <2>1, <2>2, SeqDef
<1>3. /\ e.buf \in [Shards -> Seq(Edge)] /\ e.buf[s] = b
      /\ \A q \in Shards : q # s => e.buf[q] = d.buf[q]
  BY <1>0, <1>1, <1>2 DEF FieldTypes
<1>4. FieldTypes(e)
  BY <1>0, <1>1, <1>3 DEF FieldTypes
<1>5. SinkOK(e)
  <2>1. ASSUME NEW q \in Shards PROVE e.buf[q] \in Seq(EdgesOf(q))
    BY <1>0, <1>3 DEF SinkOK
  <2>2. ASSUME NEW i \in DOMAIN e.manifest PROVE SegmentOK(e, e.manifest[i])
    <3>1. SegmentOK(d, e.manifest[i])
      BY <1>0, <1>1 DEF SinkOK
    <3> QED BY <1>1, <3>1 DEF SegmentOK
  <2> QED BY <1>0, <1>1, <2>1, <2>2 DEF SinkOK
<1>6. e \in GoodSinks
  BY <1>1, <1>4, <1>5, SinkMade
<1> QED BY <1>1, <1>3, <1>6 DEF e

\* flush_shard_buffer_to_part keeps the sink in order.
LEMMA FlushFacts ==
  ASSUME NEW d \in GoodSinks, NEW s \in Shards
  PROVE  FlushShard(d, s) \in GoodSinks
<1>1. CASE d.buf[s] = <<>>
  BY <1>1 DEF FlushShard
<1>2. CASE d.buf[s] # <<>>
  <2> DEFINE staged == SortByPoint(d.buf[s])
             c == [d EXCEPT !.buf[s] = <<>>]
             e == EnsurePart(c, s, Len(staged))
  <2>1. d.buf[s] \in Seq(EdgesOf(s))
    BY SinkFields DEF SinkOK
  <2>2. staged \in Seq(EdgesOf(s)) /\ staged # <<>>
    <3> DEFINE T == EdgesOf(s)
    <3>1. T \in SUBSET Edge
      BY EdgesOfFacts
    <3> HIDE DEF T
    <3>2. d.buf[s] \in Seq(T)
      BY <2>1 DEF T
    <3> QED BY <1>2, <3>1, <3>2, SortFacts DEF T
  <2>3. c \in GoodSinks
    <3>1. <<>> \in Seq(EdgesOf(s))
      OBVIOUS
    <3> QED BY <3>1, BufferFacts
  <2> HIDE DEF staged, c
  <2>4. Len(staged) \in Nat
    BY <2>2
  <2>5. e \in GoodSinks /\ e.writer[s] # NoPart
    BY <2>3, <2>4, EnsureFacts
  <2> HIDE DEF e
  <2>6. [PushRecords(e, s, staged) EXCEPT
            !.writer[s].len = @ + Len(staged),
            !.manifest = Append(@, [shard |-> s, file |-> e.writer[s].file, off |-> e.writer[s].len,
                                    count |-> Len(staged), min |-> staged[1].p, max |-> Last(staged).p])] \in GoodSinks
    BY <2>2, <2>5, PushFacts
  <2> QED BY <1>2, <2>6 DEF FlushShard, staged, c, e
<1> QED BY <1>1, <1>2

\* One edge of flush_pending_edges.
LEMMA PushEdgeFacts ==
  ASSUME NEW d \in GoodSinks, NEW e \in Edge
  PROVE  PushEdge(d, e) \in GoodSinks
<1> DEFINE s == ShardOf(e.p)
           b == Append(d.buf[s], e)
           f == [d EXCEPT !.buf[s] = b]
<1>1. s \in Shards /\ e \in EdgesOf(s)
  <2>1. e.p \in Points
    BY DEF Edge
  <2> QED BY <2>1, ShardFacts DEF EdgesOf
<1>2. b \in Seq(EdgesOf(s))
  <2>1. d.buf[s] \in Seq(EdgesOf(s))
    BY <1>1, SinkFields DEF SinkOK
  <2> HIDE DEF s
  <2> QED BY <1>1, <2>1
<1>3. f \in GoodSinks
  <2> HIDE DEF b, s
  <2> QED BY <1>1, <1>2, BufferFacts
<1>4. FlushShard(f, s) \in GoodSinks
  <2> HIDE DEF f, s
  <2> QED BY <1>1, <1>3, FlushFacts
<1> QED BY <1>3, <1>4 DEF PushEdge

\* The elements of a finite set in some order.
LEMMA EnumFacts ==
  ASSUME NEW S, IsFiniteSet(S)
  PROVE  LET q == SetToSeq(S)
             n == Cardinality(S)
         IN  n \in Nat /\ q \in [1..n -> S] /\ \A x \in S : \E i \in 1..n : q[i] = x
<1> DEFINE q == SetToSeq(S)
           n == Cardinality(S)
           I == 1..n
<1>1. n \in Nat /\ ExistsBijection(I, S)
  BY FS_CardinalityType
<1>2. \E f \in [I -> S] : IsInjective(f)
  BY <1>1 DEF ExistsBijection, Bijection, Injection
<1>3. q \in [I -> S] /\ IsInjective(q)
  BY <1>2 DEF SetToSeq
<1>4. IsFiniteSet(I) /\ Cardinality(I) = n
  BY <1>1, FS_Interval
<1> HIDE DEF q, n, I
<1>5. q \in Injection(I, S)
  BY <1>3 DEF Injection
<1>6. q \in Surjection(I, S)
  BY <1>4, <1>5, FS_Injection DEF n
<1>7. \A x \in S : \E i \in I : q[i] = x
  BY <1>6 DEF Surjection
<1> QED BY <1>1, <1>3, <1>7 DEF q, n, I

\* flush_pending_edges keeps the sink in order.
LEMMA SinkFlushFacts ==
  ASSUME NEW d \in GoodSinks, NEW es \in Seq(Edge)
  PROVE  SinkFlush(d, es) \in GoodSinks
<1> DEFINE ss == SortByPoint(es)
           n == Len(ss)
           K == 1..n
           A == [s \in SUBSET K |-> GoodSinks]
           step == [x \in (SUBSET K) \X GoodSinks |-> PushEdge(x[2], ss[Max(x[1])])]
           Loop(g) == g = [s \in SUBSET K |-> IF s = {} THEN d ELSE PushEdge(g[s \ {Max(s)}], ss[Max(s)])]
           iter == CHOOSE g : Loop(g)
<1>0. ss \in Seq(Edge) /\ n \in Nat /\ DOMAIN ss = K
  BY SortFacts
<1>1. SinkFlush(d, es) = iter[K]
  <2> HIDE DEF ss
  <2>1. FoldLeft(PushEdge, d, ss) = iter[K]
    BY <1>0 DEF FoldLeft, MapThenFoldSet
  <2> QED BY <2>1 DEF SinkFlush, ss
<1> HIDE DEF ss, n
<1>2. d \in A[{}]
  OBVIOUS
<1>3. ASSUME NEW s \in SUBSET K, s # {}, NEW a \in GoodSinks
      PROVE  PushEdge(a, ss[Max(s)]) \in GoodSinks
  <2>1. Max(s) \in s
    BY <1>0, <1>3, GreatestRemoved
  <2>2. Max(s) \in DOMAIN ss
    BY <1>0, <2>1
  <2>3. ss[Max(s)] \in Edge
    BY <1>0, <2>2
  <2> QED BY <2>3, PushEdgeFacts
<1>4. StepsIn(n, A, step)
  <2> SUFFICES ASSUME NEW s \in SUBSET K, s # {}, NEW a \in A[s \ {Max(s)}]
               PROVE  step[<<s, a>>] \in A[s]
    BY DEF StepsIn
  <2>1. s \ {Max(s)} \in SUBSET K
    OBVIOUS
  <2>2. a \in GoodSinks
    BY <2>1
  <2>3. step[<<s, a>>] = PushEdge(a, ss[Max(s)])
    BY <2>2
  <2> QED BY <1>3, <2>2, <2>3
<1>5. PICK g : FoldOf(g, n, d, step) /\ \A s \in SUBSET K : g[s] \in A[s]
  <2> HIDE DEF A, step
  <2> QED BY <1>0, <1>2, <1>4, FoldSolution, Zenon
<1>6. Loop(g)
  <2>1. ASSUME NEW s \in SUBSET K, s # {}
        PROVE  step[<<s, g[s \ {Max(s)}]>>] = PushEdge(g[s \ {Max(s)}], ss[Max(s)])
    <3>1. g[s \ {Max(s)}] \in GoodSinks
      BY <1>5
    <3> QED BY <3>1
  <2> HIDE DEF step
  <2> QED BY <1>5, <2>1 DEF FoldOf
<1>7. Loop(iter)
  <2> HIDE DEF Loop
  <2> QED BY <1>6
<1> HIDE DEF iter
<1>8. iter[{}] \in A[{}]
  BY <1>2, <1>7
<1>9. \A s \in SUBSET K : s # {} /\ iter[s \ {Max(s)}] \in A[s \ {Max(s)}] => iter[s] \in A[s]
  <2> SUFFICES ASSUME NEW s \in SUBSET K, s # {}, iter[s \ {Max(s)}] \in A[s \ {Max(s)}]
               PROVE  iter[s] \in A[s]
    OBVIOUS
  <2>1. iter[s \ {Max(s)}] \in GoodSinks
    OBVIOUS
  <2>2. iter[s] = PushEdge(iter[s \ {Max(s)}], ss[Max(s)])
    BY <1>7
  <2>3. iter[s] \in GoodSinks
    BY <1>3, <2>1, <2>2
  <2> QED BY <2>3
<1>10. iter[K] \in A[K]
  <2> HIDE DEF A
  <2> QED BY <1>0, <1>8, <1>9, FoldInvariant
<1> QED BY <1>1, <1>10

\* flush_all_buffers_to_parts.
LEMMA FlushAllFacts ==
  ASSUME NEW d \in GoodSinks, NEW n \in Nat, NEW ss \in [1..n -> Shards]
  PROVE  FoldLeft(FlushShard, d, ss) \in GoodSinks
<1> DEFINE K == 1..n
           A == [s \in SUBSET K |-> GoodSinks]
           step == [x \in (SUBSET K) \X GoodSinks |-> FlushShard(x[2], ss[Max(x[1])])]
           Loop(g) == g = [s \in SUBSET K |-> IF s = {} THEN d ELSE FlushShard(g[s \ {Max(s)}], ss[Max(s)])]
           iter == CHOOSE g : Loop(g)
<1>1. FoldLeft(FlushShard, d, ss) = iter[K]
  BY DEF FoldLeft, MapThenFoldSet
<1>2. d \in A[{}]
  OBVIOUS
<1>3. ASSUME NEW s \in SUBSET K, s # {}, NEW a \in GoodSinks
      PROVE  FlushShard(a, ss[Max(s)]) \in GoodSinks
  <2>1. Max(s) \in s
    BY <1>3, GreatestRemoved
  <2>2. ss[Max(s)] \in Shards
    BY <2>1
  <2> QED BY <2>2, FlushFacts
<1>4. StepsIn(n, A, step)
  <2> SUFFICES ASSUME NEW s \in SUBSET K, s # {}, NEW a \in A[s \ {Max(s)}]
               PROVE  step[<<s, a>>] \in A[s]
    BY DEF StepsIn
  <2>1. s \ {Max(s)} \in SUBSET K
    OBVIOUS
  <2>2. a \in GoodSinks
    BY <2>1
  <2>3. step[<<s, a>>] = FlushShard(a, ss[Max(s)])
    BY <2>2
  <2> QED BY <1>3, <2>2, <2>3
<1>5. PICK g : FoldOf(g, n, d, step) /\ \A s \in SUBSET K : g[s] \in A[s]
  <2> HIDE DEF A, step
  <2> QED BY <1>2, <1>4, FoldSolution, Zenon
<1>6. Loop(g)
  <2>1. ASSUME NEW s \in SUBSET K, s # {}
        PROVE  step[<<s, g[s \ {Max(s)}]>>] = FlushShard(g[s \ {Max(s)}], ss[Max(s)])
    <3>1. g[s \ {Max(s)}] \in GoodSinks
      BY <1>5
    <3> QED BY <3>1
  <2> HIDE DEF step
  <2> QED BY <1>5, <2>1 DEF FoldOf
<1>7. Loop(iter)
  <2> HIDE DEF Loop
  <2> QED BY <1>6
<1> HIDE DEF iter
<1>8. iter[{}] \in A[{}]
  BY <1>2, <1>7
<1>9. \A s \in SUBSET K : s # {} /\ iter[s \ {Max(s)}] \in A[s \ {Max(s)}] => iter[s] \in A[s]
  <2> SUFFICES ASSUME NEW s \in SUBSET K, s # {}, iter[s \ {Max(s)}] \in A[s \ {Max(s)}]
               PROVE  iter[s] \in A[s]
    OBVIOUS
  <2>1. iter[s \ {Max(s)}] \in GoodSinks
    OBVIOUS
  <2>2. iter[s] = FlushShard(iter[s \ {Max(s)}], ss[Max(s)])
    BY <1>7
  <2>3. iter[s] \in GoodSinks
    BY <1>3, <2>1, <2>2
  <2> QED BY <2>3
<1>10. iter[K] \in A[K]
  <2> HIDE DEF A
  <2> QED BY <1>8, <1>9, FoldInvariant
<1> QED BY <1>1, <1>10

\* finish_part_writers closes the part of every shard it is given.
LEMMA CloseAllFacts ==
  ASSUME NEW d \in GoodSinks, NEW n \in Nat, NEW ss \in [1..n -> Shards]
  PROVE  LET e == FoldLeft(FinishPartWriter, d, ss)
         IN  e \in GoodSinks /\ \A i \in 1..n : e.writer[ss[i]] = NoPart
<1> DEFINE K == 1..n
           Good(s) == {f \in GoodSinks : \A i \in s : f.writer[ss[i]] = NoPart}
           A == [s \in SUBSET K |-> Good(s)]
           step == [x \in (SUBSET K) \X GoodSinks |-> FinishPartWriter(x[2], ss[Max(x[1])])]
           Loop(g) == g = [s \in SUBSET K |-> IF s = {} THEN d ELSE FinishPartWriter(g[s \ {Max(s)}], ss[Max(s)])]
           iter == CHOOSE g : Loop(g)
<1>1. FoldLeft(FinishPartWriter, d, ss) = iter[K]
  BY DEF FoldLeft, MapThenFoldSet
<1>2. d \in A[{}]
  OBVIOUS
<1>3. ASSUME NEW s \in SUBSET K, s # {}, NEW a \in Good(s \ {Max(s)})
      PROVE  FinishPartWriter(a, ss[Max(s)]) \in Good(s)
  <2>1. Max(s) \in s
    BY <1>3, GreatestRemoved
  <2> DEFINE x == ss[Max(s)]
             b == FinishPartWriter(a, x)
  <2>2. x \in Shards /\ \A i \in s : ss[i] \in Shards
    BY <2>1
  <2>3. a \in GoodSinks /\ \A i \in s : i # Max(s) => a.writer[ss[i]] = NoPart
    OBVIOUS
  <2> HIDE DEF x
  <2>4. b \in GoodSinks /\ b.writer[x] = NoPart /\ \A q \in Shards : q # x => b.writer[q] = a.writer[q]
    <3>1. CASE a.writer[x] = NoPart
      BY <2>3, <3>1 DEF FinishPartWriter
    <3>2. CASE a.writer[x] # NoPart
      <4>1. b = FinalizePart(a, x)
        BY <3>2 DEF FinishPartWriter
      <4> HIDE DEF b
      <4> QED BY <2>2, <2>3, <3>2, <4>1, FinalizeFacts
    <3> QED BY <3>1, <3>2
  <2> HIDE DEF b
  <2>5. ASSUME NEW i \in s PROVE b.writer[ss[i]] = NoPart
    <3>1. CASE ss[i] = x
      BY <2>4, <3>1
    <3>2. CASE ss[i] # x
      BY <2>2, <2>3, <2>4, <3>2 DEF x
    <3> QED BY <3>1, <3>2
  <2>6. b \in Good(s)
    BY <2>4, <2>5
  <2> QED BY <2>6 DEF b, x
<1>4. StepsIn(n, A, step)
  <2> SUFFICES ASSUME NEW s \in SUBSET K, s # {}, NEW a \in A[s \ {Max(s)}]
               PROVE  step[<<s, a>>] \in A[s]
    BY DEF StepsIn
  <2>1. s \ {Max(s)} \in SUBSET K
    OBVIOUS
  <2>2. a \in Good(s \ {Max(s)}) /\ a \in GoodSinks
    BY <2>1
  <2>3. step[<<s, a>>] = FinishPartWriter(a, ss[Max(s)])
    BY <2>2
  <2> HIDE DEF Good, step
  <2> QED BY <1>3, <2>2, <2>3
<1>5. PICK g : FoldOf(g, n, d, step) /\ \A s \in SUBSET K : g[s] \in A[s]
  <2> HIDE DEF A, step
  <2> QED BY <1>2, <1>4, FoldSolution, Zenon
<1>6. Loop(g)
  <2>1. ASSUME NEW s \in SUBSET K, s # {}
        PROVE  step[<<s, g[s \ {Max(s)}]>>] = FinishPartWriter(g[s \ {Max(s)}], ss[Max(s)])
    <3>1. g[s \ {Max(s)}] \in GoodSinks
      BY <1>5
    <3> QED BY <3>1
  <2> HIDE DEF step
  <2> QED BY <1>5, <2>1 DEF FoldOf
<1>7. Loop(iter)
  <2> HIDE DEF Loop
  <2> QED BY <1>6
<1> HIDE DEF iter
<1>8. iter[{}] \in A[{}]
  BY <1>2, <1>7
<1>9. \A s \in SUBSET K : s # {} /\ iter[s \ {Max(s)}] \in A[s \ {Max(s)}] => iter[s] \in A[s]
  <2> SUFFICES ASSUME NEW s \in SUBSET K, s # {}, iter[s \ {Max(s)}] \in A[s \ {Max(s)}]
               PROVE  iter[s] \in A[s]
    OBVIOUS
  <2>1. iter[s \ {Max(s)}] \in Good(s \ {Max(s)})
    OBVIOUS
  <2>2. iter[s] = FinishPartWriter(iter[s \ {Max(s)}], ss[Max(s)])
    BY <1>7
  <2>3. iter[s] \in Good(s)
    <3> HIDE DEF Good
    <3> QED BY <1>3, <2>1, <2>2
  <2> QED BY <2>3
<1>10. iter[K] \in A[K]
  <2> HIDE DEF A
  <2> QED BY <1>8, <1>9, FoldInvariant
<1> QED BY <1>1, <1>10

\* finish leaves every part closed.
LEMMA SinkFinishFacts ==
  ASSUME NEW d \in GoodSinks
  PROVE  SinkFinish(d) \in GoodSinks /\ Closed(SinkFinish(d))
<1> DEFINE q == SetToSeq(Shards)
           n == Cardinality(Shards)
           f == FoldLeft(FlushShard, d, q)
<1>1. n \in Nat /\ q \in [1..n -> Shards] /\ \A s \in Shards : \E i \in 1..n : q[i] = s
  BY ShardFacts, EnumFacts
<1> HIDE DEF q, n
<1>2. f \in GoodSinks
  BY <1>1, FlushAllFacts
<1> HIDE DEF f
<1>3. SinkFinish(d) = FoldLeft(FinishPartWriter, f, q)
  BY DEF SinkFinish, f, q
<1>4. SinkFinish(d) \in GoodSinks /\ \A i \in 1..n : SinkFinish(d).writer[q[i]] = NoPart
  BY <1>1, <1>2, <1>3, CloseAllFacts
<1> QED BY <1>1, <1>4 DEF Closed

\* A new sink over the files on disk.
LEMMA SinkCreateFacts ==
  ASSUME NEW files \in FileMap, \A k \in DOMAIN files : files[k] \in Seq(EdgesOf(k[1]))
  PROVE  SinkCreate(files) \in GoodSinks
<1> DEFINE d == SinkCreate(files)
<1>1. /\ Shape(d) /\ d.buf = [s \in Shards |-> <<>>] /\ d.writer = [s \in Shards |-> NoPart]
      /\ d.next = [s \in Shards |-> 0] /\ d.parts = {} /\ d.manifest = <<>> /\ d.files = files
  BY DEF SinkCreate, Shape
<1> HIDE DEF d
<1>2. NoPart \in [file : Int, len : Nat]
  BY DEF NoPart
<1>3. \A S : <<>> \in Seq(S)
  OBVIOUS
<1>4. FieldTypes(d)
  <2>1. d.buf \in [Shards -> Seq(Edge)] /\ d.manifest \in Seq(Segment)
    <3> HIDE DEF Edge, Segment
    <3> QED BY <1>1, <1>3
  <2>2. d.writer \in [Shards -> [file : Int, len : Nat]]
    BY <1>1, <1>2
  <2> QED BY <1>1, <2>1, <2>2 DEF FieldTypes
<1>5. SinkOK(d)
  <2>1. \A s \in Shards : d.buf[s] \in Seq(EdgesOf(s)) /\ d.writer[s] = NoPart
    BY <1>1, <1>3
  <2>2. DOMAIN d.manifest = {}
    BY <1>1
  <2> QED BY <1>1, <2>1, <2>2 DEF SinkOK
<1> QED BY <1>1, <1>4, <1>5, SinkMade DEF d

(***************************************************************************)
(* Rows.                                                                   *)
(***************************************************************************)

\* Rows of consecutive points, one sequence after another.
LEMMA RowsConcat ==
  ASSUME NEW a \in Int, NEW r, NEW s, RowsFrom(a, r), RowsFrom(a + Len(r), s)
  PROVE  RowsFrom(a, r \o s) /\ Len(r \o s) = Len(r) + Len(s) /\ Len(r) \in Nat /\ Len(s) \in Nat
<1>1. r \in Seq(Row) /\ s \in Seq(Row)
  BY DEF RowsFrom
<1>2. /\ r \o s \in Seq(Row) /\ Len(r \o s) = Len(r) + Len(s) /\ Len(r) \in Nat /\ Len(s) \in Nat
      /\ \A i \in 1..(Len(r) + Len(s)) : (r \o s)[i] = IF i <= Len(r) THEN r[i] ELSE s[i - Len(r)]
  BY <1>1, ConcatProperties
<1>3. /\ DOMAIN r = 1..Len(r) /\ DOMAIN s = 1..Len(s) /\ DOMAIN (r \o s) = 1..(Len(r) + Len(s))
  BY <1>1, <1>2, LenProperties
<1> DEFINE t == r \o s
           n == Len(r)
           m == Len(s)
<1>4. /\ \A k \in 1..n : r[k].vid = a + k - 1
      /\ \A k \in 1..m : s[k].vid = a + n + k - 1
  BY <1>3 DEF RowsFrom
<1>5. ASSUME NEW k \in 1..(n + m) PROVE t[k].vid = a + k - 1
  <2> HIDE DEF t
  <2>1. CASE k <= n
    <3>1. k \in 1..n /\ t[k] = r[k]
      BY <1>2, <2>1 DEF t
    <3> QED BY <1>4, <3>1
  <2>2. CASE ~(k <= n)
    <3> DEFINE j == k - n
    <3>1. j \in 1..m /\ a + n + j - 1 = a + k - 1 /\ t[k] = s[j]
      BY <1>2, <2>2 DEF t
    <3> HIDE DEF j, n
    <3> QED BY <1>4, <3>1
  <2> QED BY <2>1, <2>2
<1> QED BY <1>2, <1>3, <1>5 DEF RowsFrom

\* One reservoir per point of a range.
LEMMA RowsOfFacts ==
  ASSUME NEW lo \in Int, NEW hi \in Int, lo <= hi, NEW es \in Seq(Edge)
  PROVE  RowsFrom(lo, RowsOf(lo, hi, es)) /\ Len(RowsOf(lo, hi, es)) = hi - lo
<1> DEFINE n == hi - lo
           I(k) == {i \in DOMAIN es : es[i].p = lo + k - 1}
           c(k) == At(es, I(k))
           r == RowsOf(lo, hi, es)
<1>1. n \in Nat
  OBVIOUS
<1>2. \A k \in 1..n : c(k) \in Seq(Edge)
  BY AtFacts
<1>3. r = [k \in 1..n |-> [vid |-> lo + k - 1, cands |-> c(k)]]
  BY DEF RowsOf
<1> HIDE DEF c, r, n
<1>4. r \in [1..n -> Row] /\ \A k \in 1..n : r[k].vid = lo + k - 1
  <2>1. ASSUME NEW k \in 1..n PROVE r[k] \in Row /\ r[k].vid = lo + k - 1
    <3>1. lo + k - 1 \in Int
      BY <1>1
    <3> QED BY <1>2, <1>3, <3>1 DEF Row
  <2> QED BY <1>3, <2>1
<1>5. r \in Seq(Row)
  BY <1>1, <1>4
<1>6. DOMAIN r = 1..n /\ Len(r) = n
  BY <1>1, <1>4, <1>5, LenProperties
<1> QED BY <1>4, <1>5, <1>6 DEF RowsFrom, r, n

\* The rows of a part with the empty rows before it.
LEMMA EmitFacts ==
  ASSUME NEW a \in Nat, NEW part, PartOK(part), a <= part.lo
  PROVE  RowsFrom(a, EmitPart(a, part)) /\ Len(EmitPart(a, part)) = part.hi - a
<1> DEFINE e == EmptyRows(a, part.lo)
<1>1. part.lo \in Nat /\ part.hi \in Nat /\ RowsFrom(part.lo, part.rows) /\ Len(part.rows) = part.hi - part.lo
  BY DEF PartOK
<1>2. RowsFrom(a, e) /\ Len(e) = part.lo - a
  <2>1. <<>> \in Seq(Edge)
    OBVIOUS
  <2>2. a \in Int /\ part.lo \in Int /\ a <= part.lo
    BY <1>1
  <2>3. e = RowsOf(a, part.lo, <<>>)
    BY DEF EmptyRows
  <2> HIDE DEF e
  <2> QED BY <2>1, <2>2, <2>3, RowsOfFacts
<1> HIDE DEF e
<1>3. a \in Int /\ RowsFrom(a + Len(e), part.rows)
  <2>1. a + Len(e) = part.lo
    BY <1>1, <1>2
  <2> QED BY <1>1, <2>1
<1>4. RowsFrom(a, e \o part.rows) /\ Len(e \o part.rows) = Len(e) + Len(part.rows)
  BY <1>1, <1>2, <1>3, RowsConcat
<1>5. Len(e) + Len(part.rows) = part.hi - a
  BY <1>1, <1>2
<1> QED BY <1>4, <1>5 DEF EmitPart, e

(***************************************************************************)
(* Reading segments.                                                       *)
(***************************************************************************)

\* A segment holds candidates of its shard.
LEMMA ReadFacts ==
  ASSUME NEW d \in GoodSinks, NEW g \in Segment
  PROVE  ReadSegment(d, g) \in Seq(EdgesOf(g.shard))
<1> DEFINE f == FileOf(d, g.shard, g.file)
           key == <<g.shard, g.file>>
           m == g.off + 1
           n == Min({g.off + g.count, Len(f)})
<1>1. f \in Seq(EdgesOf(g.shard))
  <2>1. CASE key \in DOMAIN d.files
    <3>1. d.files[key] \in Seq(EdgesOf(key[1]))
      BY <2>1, SinkFields DEF SinkOK
    <3>2. key[1] = g.shard
      OBVIOUS
    <3> QED BY <2>1, <3>1, <3>2 DEF FileOf
  <2>2. CASE key \notin DOMAIN d.files
    <3>1. f = <<>>
      BY <2>2 DEF FileOf
    <3>2. <<>> \in Seq(EdgesOf(g.shard))
      OBVIOUS
    <3> QED BY <3>1, <3>2
  <2> QED BY <2>1, <2>2
<1> HIDE DEF f
<1>2. g.off \in Nat /\ g.count \in Nat /\ Len(f) \in Nat
  BY <1>1 DEF Segment
<1>3. n \in Int /\ n <= Len(f)
  BY <1>2, MinOfTwo, SMTT(30)
<1>4. m \in Int /\ m >= 1
  BY <1>2
<1> HIDE DEF m, n
<1>5. \A i \in m..n : f[i] \in EdgesOf(g.shard)
  <2>1. \A i \in m..n : i \in 1..Len(f)
    BY <1>2, <1>3, <1>4
  <2> QED BY <1>1, <2>1, ElementOfSeq
<1>6. SubSeq(f, m, n) \in Seq(EdgesOf(g.shard))
  BY <1>3, <1>4, <1>5, SubSeqProperties
<1> QED BY <1>6 DEF ReadSegment, f, m, n

\* The order of the segments.
LEMMA SegmentOrder ==
  ASSUME NEW a \in Segment, NEW b \in Segment
  PROVE  /\ SegmentLeq(a, a) /\ (SegmentLeq(a, b) \/ SegmentLeq(b, a))
         /\ \A c \in Segment : SegmentLeq(a, b) /\ SegmentLeq(b, c) => SegmentLeq(a, c)
<1>1. \A x \in Segment : x.min \in Int /\ x.file \in Int /\ x.off \in Int
  <2>1. ASSUME NEW x \in Segment PROVE x.min \in Int /\ x.file \in Int /\ x.off \in Int
    <3>1. x.min \in Points /\ x.file \in Nat /\ x.off \in Nat
      BY DEF Segment
    <3>2. x.min \in Nat
      BY <3>1, ShardFacts
    <3> QED BY <3>1, <3>2
  <2> QED BY <2>1
<1>2. SegmentLeq(a, a) /\ (SegmentLeq(a, b) \/ SegmentLeq(b, a))
  BY <1>1 DEF SegmentLeq
<1>3. ASSUME NEW c \in Segment, SegmentLeq(a, b), SegmentLeq(b, c) PROVE SegmentLeq(a, c)
  BY <1>1, <1>3 DEF SegmentLeq
<1> QED BY <1>2, <1>3

\* The segments of a shard are those of the manifest.
LEMMA SegmentsFacts ==
  ASSUME NEW d \in GoodSinks, NEW s
  PROVE  /\ SegmentsOf(d, s) \in Seq(Segment)
         /\ \A k \in DOMAIN SegmentsOf(d, s) : \E i \in DOMAIN d.manifest :
              d.manifest[i].shard = s /\ SegmentsOf(d, s)[k] = d.manifest[i]
<1> DEFINE m == d.manifest
           I == {i \in DOMAIN m : m[i].shard = s}
           order == {r \in I \X I : /\ SegmentLeq(m[r[1]], m[r[2]])
                                    /\ SegmentLeq(m[r[2]], m[r[1]]) => r[1] < r[2]}
           pos == Ranked(I, order)
           n == Cardinality(I)
           t == SegmentsOf(d, s)
<1>0. t = [k \in DOMAIN pos |-> m[pos[k]]]
  BY DEF SegmentsOf
<1>1. m \in Seq(Segment)
  BY SinkFields DEF FieldTypes
<1>2. DOMAIN m = 1..Len(m) /\ Len(m) \in Nat /\ \A i \in DOMAIN m : m[i] \in Segment
  BY <1>1
<1>3. \A i, j \in I : <<i, j>> \in order <=> SegmentLeq(m[i], m[j]) /\ (SegmentLeq(m[j], m[i]) => i < j)
  OBVIOUS
<1>4. \A i \in I : i \in Int /\ m[i] \in Segment
  BY <1>2
<1>5. IsFiniteSet(I)
  <2>0. \A b \in Nat : IsFiniteSet(1..b)
    BY FS_Interval
  <2>1. IsFiniteSet(1..Len(m))
    BY <1>2, <2>0
  <2>2. I \in SUBSET (1..Len(m))
    BY <1>2
  <2> QED BY <2>1, <2>2, FS_Subset
<1>6. \A i \in I : i \in DOMAIN m /\ m[i].shard = s
  OBVIOUS
<1> HIDE DEF m, I, order
<1>7. StrictOrder(I, order)
  <2>1. \A i \in I : <<i, i>> \notin order
    BY <1>3, <1>4, SegmentOrder
  <2>2. ASSUME NEW i \in I, NEW j \in I, i # j PROVE <<i, j>> \in order \/ <<j, i>> \in order
    <3>1. i < j \/ j < i
      BY <1>4, <2>2
    <3>2. SegmentLeq(m[i], m[j]) \/ SegmentLeq(m[j], m[i])
      BY <1>4, SegmentOrder
    <3> QED BY <1>3, <3>1, <3>2
  <2>3. ASSUME NEW i \in I, NEW j \in I, NEW k \in I, <<i, j>> \in order, <<j, k>> \in order
        PROVE  <<i, k>> \in order
    <3>1. /\ SegmentLeq(m[i], m[j]) /\ (SegmentLeq(m[j], m[i]) => i < j)
          /\ SegmentLeq(m[j], m[k]) /\ (SegmentLeq(m[k], m[j]) => j < k)
      BY <1>3, <2>3
    <3>2. SegmentLeq(m[i], m[k])
      BY <1>4, <3>1, SegmentOrder
    <3>3. ASSUME SegmentLeq(m[k], m[i]) PROVE i < k
      <4>1. SegmentLeq(m[k], m[j]) /\ SegmentLeq(m[j], m[i])
        BY <1>4, <3>1, <3>3, SegmentOrder
      <4> QED BY <1>4, <3>1, <4>1
    <3> QED BY <1>3, <3>2, <3>3
  <2> QED BY <2>1, <2>2, <2>3 DEF StrictOrder
<1>8. n \in Nat /\ pos \in [1..n -> I]
  BY <1>5, <1>7, RankedFacts
<1> HIDE DEF pos, n, t
<1>9. DOMAIN t = 1..n /\ \A k \in 1..n : pos[k] \in I /\ t[k] = m[pos[k]] /\ t[k] \in Segment
  BY <1>0, <1>4, <1>8
<1>10. t \in [1..n -> Segment]
  BY <1>0, <1>8, <1>9
<1>11. t \in Seq(Segment)
  BY <1>8, <1>10
<1>12. \A k \in DOMAIN t : \E i \in DOMAIN m : m[i].shard = s /\ t[k] = m[i]
  BY <1>6, <1>9
<1> QED BY <1>11, <1>12 DEF t, m

\* The points of a shard, as a range.
LEMMA ShardBounds ==
  ASSUME NEW s \in Shards
  PROVE  LET lo == s * ShardPoints
             hi == (s + 1) * ShardPoints
             top == Min({hi, NumPoints})
         IN  /\ lo \in Nat /\ hi \in Nat /\ top \in Nat /\ lo < top /\ top <= hi /\ top <= NumPoints
             /\ \A p \in Points : ShardOf(p) = s => lo <= p /\ p < top
             /\ \A r \in Shards : s < r => hi <= r * ShardPoints
<1> DEFINE lo == s * ShardPoints
           hi == (s + 1) * ShardPoints
           top == Min({hi, NumPoints})
<1>0. s \in Nat /\ ShardPoints \in Nat \ {0} /\ NumPoints \in Nat
  BY ShardFacts
<1>1. /\ \A a \in Nat, b \in Nat : a * b \in Nat /\ a * b = b * a /\ (a + 1) * b = b * a + b
      /\ \A a \in Nat, b \in Nat, c \in Nat : a < b => (a + 1) * c <= b * c
  <2>1. \A a \in Nat, b \in Nat : a * b \in Nat /\ a * b = b * a /\ (a + 1) * b = b * a + b
    OBVIOUS
  <2>2. ASSUME NEW a \in Nat, NEW b \in Nat, NEW c \in Nat, a < b PROVE (a + 1) * c <= b * c
    <3>1. a + 1 \in Nat /\ a + 1 <= b
      BY <2>2
    <3> DEFINE q == a + 1
    <3> HIDE DEF q
    <3>2. q \in Nat /\ q <= b
      BY <3>1 DEF q
    <3>3. c * q <= c * b /\ c * q = q * c /\ c * b = b * c
      BY <3>2, TimesMonotone
    <3>4. q * c <= b * c
      BY <3>3
    <3> QED BY <3>4 DEF q
  <2> QED BY <2>1, <2>2
<1>2. lo \in Nat /\ hi \in Nat /\ lo = ShardPoints * s /\ hi = ShardPoints * s + ShardPoints
  BY <1>0, <1>1
<1>3. \A r \in Shards : s < r => hi <= r * ShardPoints
  <2>1. \A r \in Shards : r \in Nat
    BY ShardFacts
  <2> QED BY <1>0, <1>1, <2>1
<1>4. \A p \in Points : ShardOf(p) = s => p \in Nat /\ lo <= p /\ p < hi /\ p < NumPoints
  <2> SUFFICES ASSUME NEW p \in Points, ShardOf(p) = s PROVE p \in Nat /\ lo <= p /\ p < hi /\ p < NumPoints
    OBVIOUS
  <2>1. ShardPoints * s <= p /\ p < ShardPoints * s + ShardPoints /\ p < NumPoints /\ p \in Nat
    BY ShardFacts
  <2> HIDE DEF lo, hi
  <2> QED BY <1>2, <2>1
<1>5. PICK p \in Points : ShardOf(p) = s
  BY DEF Shards
<1> HIDE DEF lo, hi
<1>6. top = IF hi <= NumPoints THEN hi ELSE NumPoints
  BY <1>0, <1>2, MinOfTwo
<1> HIDE DEF top
<1>7. p \in Nat /\ lo <= p /\ p < hi /\ p < NumPoints
  BY <1>4, <1>5
<1>8. top \in Nat /\ lo < top /\ top <= hi /\ top <= NumPoints
  BY <1>0, <1>2, <1>6, <1>7
<1>9. ASSUME NEW q \in Points, ShardOf(q) = s PROVE lo <= q /\ q < top
  <2>1. q \in Nat /\ lo <= q /\ q < hi /\ q < NumPoints
    BY <1>4, <1>9
  <2> QED BY <1>0, <1>2, <1>6, <2>1
<1> QED BY <1>2, <1>3, <1>8, <1>9 DEF lo, hi, top

\* The resident prefix is a prefix.
LEMMA ResidentFacts ==
  ASSUME cfg \in Configs
  PROVE  Resident \in Nat /\ Resident <= NumPoints
<1>1. cfg.resident \in 0..NumPoints /\ NumPoints \in Nat
  BY GraphBuildAssumption, SpillAssumption
<1> QED BY <1>1 DEF Resident

\* One segment group of the manifest.
OneGroup(d, s) ==
  [lo |-> s * ShardPoints, hi |-> Min({(s + 1) * ShardPoints, NumPoints}), segs |-> SegmentsOf(d, s)]

LEMMA OneGroupFacts ==
  ASSUME NEW d \in GoodSinks, Closed(d), NEW s \in Shards
  PROVE  LET g == OneGroup(d, s)
         IN  /\ g.lo \in Nat /\ g.hi \in Nat /\ g.lo < g.hi /\ g.hi <= NumPoints
             /\ g.segs \in Seq(Segment)
             /\ \A i \in DOMAIN g.segs :
                  /\ \A p \in Points : ShardOf(p) = g.segs[i].shard => p < g.hi
                  /\ <<g.segs[i].shard, g.segs[i].file>> \in d.parts
                  /\ g.lo <= g.segs[i].min /\ g.segs[i].max < g.hi
             /\ \A r \in Shards : s < r => g.hi <= OneGroup(d, r).lo
<1> DEFINE g == OneGroup(d, s)
           lo == s * ShardPoints
           hi == Min({(s + 1) * ShardPoints, NumPoints})
<1>1. g.lo = lo /\ g.hi = hi /\ g.segs = SegmentsOf(d, s)
  BY DEF OneGroup
<1>2. /\ lo \in Nat /\ hi \in Nat /\ lo < hi /\ hi <= NumPoints
      /\ \A p \in Points : ShardOf(p) = s => lo <= p /\ p < hi
  BY ShardBounds
<1>3. ASSUME NEW r \in Shards, s < r PROVE hi <= OneGroup(d, r).lo
  <2> DEFINE x == (s + 1) * ShardPoints
             y == r * ShardPoints
  <2>1. x \in Nat /\ hi <= x /\ x <= y
    BY <1>3, ShardBounds
  <2>2. y \in Nat
    BY ShardBounds
  <2>3. OneGroup(d, r).lo = y
    BY DEF OneGroup
  <2> HIDE DEF x, y, hi
  <2> QED BY <1>2, <2>1, <2>2, <2>3
<1> HIDE DEF lo, hi
<1>4. SegmentsOf(d, s) \in Seq(Segment)
  BY SegmentsFacts
<1> DEFINE segs == SegmentsOf(d, s)
<1>5. ASSUME NEW i \in DOMAIN segs
      PROVE  /\ segs[i].shard = s /\ <<segs[i].shard, segs[i].file>> \in d.parts
             /\ lo <= segs[i].min /\ segs[i].max < hi
  <2>1. PICK j \in DOMAIN d.manifest : d.manifest[j].shard = s /\ segs[i] = d.manifest[j]
    BY SegmentsFacts
  <2> DEFINE x == d.manifest[j]
  <2>2. SegmentOK(d, x)
    BY SinkFields DEF SinkOK
  <2>3. x \in Segment
    BY SinkFields DEF FieldTypes
  <2>4. x.min \in Points /\ x.max \in Points /\ x.shard = s
    BY <2>1, <2>3 DEF Segment
  <2> HIDE DEF x
  <2>5. ShardOf(x.min) = s /\ ShardOf(x.max) = s /\ <<x.shard, x.file>> \in d.parts
    BY <2>2, <2>4 DEF SegmentOK, Closed
  <2>6. segs[i] = x
    BY <2>1 DEF x
  <2> HIDE DEF segs
  <2> QED BY <1>2, <2>4, <2>5, <2>6
<1> HIDE DEF g, segs
<1>6. g.segs = segs
  BY <1>1 DEF segs
<1>7. \A i \in DOMAIN g.segs :
        /\ \A p \in Points : ShardOf(p) = g.segs[i].shard => p < g.hi
        /\ <<g.segs[i].shard, g.segs[i].file>> \in d.parts
        /\ g.lo <= g.segs[i].min /\ g.segs[i].max < g.hi
  BY <1>1, <1>2, <1>5, <1>6
<1>8. \A r \in Shards : s < r => g.hi <= OneGroup(d, r).lo
  BY <1>1, <1>3
<1> QED BY <1>1, <1>2, <1>4, <1>7, <1>8 DEF g

\* group_segments_by_shard answers with the groups in the order of their points.
LEMMA GroupsFacts ==
  ASSUME sink \in GoodSinks, Closed(sink), cfg \in Configs
  PROVE  LET a == ActiveGroups(Groups(sink).val, Resident)
         IN  /\ Groups(sink).ok /\ Len(a) \in Nat /\ a = [i \in 1..Len(a) |-> a[i]]
             /\ \A i \in 1..Len(a) : GroupOK(a[i])
             /\ \A i, j \in 1..Len(a) : i < j => a[i].hi <= a[j].lo
<1> DEFINE d == sink
           m == d.manifest
           S == {m[i].shard : i \in DOMAIN m}
           n == Cardinality(S)
           shards == Ascending(S)
           G == [i \in DOMAIN shards |-> OneGroup(d, shards[i])]
<1>1. S \subseteq Shards
  <2>1. m \in Seq(Segment)
    BY SinkFields DEF FieldTypes
  <2> HIDE DEF m
  <2>2. ASSUME NEW i \in DOMAIN m PROVE m[i].shard \in Shards
    <3>1. m[i] \in Segment
      BY <2>1
    <3> QED BY <3>1 DEF Segment
  <2> QED BY <2>2
<1>2. IsFiniteSet(S) /\ S \subseteq Int
  <2>1. IsFiniteSet(Shards) /\ Shards \subseteq Nat
    BY ShardFacts
  <2>2. IsFiniteSet(S)
    BY <1>1, <2>1, FS_Subset
  <2> HIDE DEF S
  <2> QED BY <1>1, <2>1, <2>2
<1>3. Groups(d) = IF \E i \in DOMAIN shards :
                       \/ shards[i] * ShardPoints >= NumPoints
                       \/ \E k \in DOMAIN OneGroup(d, shards[i]).segs :
                            \/ OneGroup(d, shards[i]).segs[k].min < OneGroup(d, shards[i]).lo
                            \/ OneGroup(d, shards[i]).segs[k].max >= OneGroup(d, shards[i]).hi
                  THEN Err ELSE Ok(G)
  BY DEF Groups, OneGroup
<1> HIDE DEF S, m
<1>4. n \in Nat /\ shards \in [1..n -> S] /\ \A i, j \in 1..n : i < j => shards[i] < shards[j]
  BY <1>2, AscendingFacts
<1> HIDE DEF n, shards
<1>5. ASSUME NEW i \in DOMAIN shards
      PROVE  /\ shards[i] \in Shards /\ ~(shards[i] * ShardPoints >= NumPoints)
             /\ \A k \in DOMAIN OneGroup(d, shards[i]).segs :
                  /\ ~(OneGroup(d, shards[i]).segs[k].min < OneGroup(d, shards[i]).lo)
                  /\ ~(OneGroup(d, shards[i]).segs[k].max >= OneGroup(d, shards[i]).hi)
  <2> DEFINE s == shards[i]
             g == OneGroup(d, s)
             x == s * ShardPoints
  <2>1. s \in Shards
    BY <1>1, <1>4
  <2> HIDE DEF s
  <2>2. x \in Nat /\ x < NumPoints
    <3> DEFINE y == Min({(s + 1) * ShardPoints, NumPoints})
    <3>1. x \in Nat /\ y \in Nat /\ x < y /\ y <= NumPoints
      BY <2>1, ShardBounds
    <3> HIDE DEF x, y
    <3> QED BY <3>1, ShardFacts
  <2>3. ASSUME NEW k \in DOMAIN g.segs
        PROVE  ~(g.segs[k].min < g.lo) /\ ~(g.segs[k].max >= g.hi)
    <3>1. g.lo \in Nat /\ g.hi \in Nat /\ g.segs \in Seq(Segment) /\ g.lo <= g.segs[k].min /\ g.segs[k].max < g.hi
      BY <2>1, OneGroupFacts
    <3>2. g.segs[k].min \in Nat /\ g.segs[k].max \in Nat
      <4>1. g.segs[k] \in Segment
        BY <3>1
      <4>2. g.segs[k].min \in Points /\ g.segs[k].max \in Points
        BY <4>1 DEF Segment
      <4> QED BY <4>2, ShardFacts
    <3> HIDE DEF g
    <3> QED BY <3>1, <3>2
  <2>4. ~(x >= NumPoints)
    <3> HIDE DEF x
    <3> QED BY <2>2, ShardFacts
  <2> HIDE DEF x, g
  <2> QED BY <2>1, <2>3, <2>4 DEF x, g, s
<1>6. Groups(d) = Ok(G)
  <2> HIDE DEF G
  <2> QED BY <1>3, <1>5
<1>7. Groups(d).ok /\ Groups(d).val = G
  BY <1>6 DEF Ok
<1> DEFINE E == {OneGroup(d, s) : s \in Shards}
<1>8. /\ DOMAIN G = 1..n /\ G \in [1..n -> E]
      /\ \A i \in 1..n : shards[i] \in Shards /\ G[i] = OneGroup(d, shards[i])
  <2>1. DOMAIN shards = 1..n
    BY <1>4
  <2> QED BY <1>5, <2>1
<1>9. G \in Seq(E)
  <2> HIDE DEF G, E
  <2> QED BY <1>4, <1>8
<1> HIDE DEF G, E
<1> DEFINE I == {i \in DOMAIN G : G[i].hi > Resident}
           a == At(G, I)
           q == Cardinality(I)
<1>10. /\ q \in Nat /\ DOMAIN a = 1..q /\ Len(a) = q /\ a \in Seq(E)
       /\ \E pos \in [1..q -> I] : /\ \A k \in 1..q : a[k] = G[pos[k]]
                                   /\ \A i, j \in 1..q : i < j => pos[i] < pos[j]
  <2>1. I \in SUBSET DOMAIN G
    OBVIOUS
  <2> HIDE DEF I
  <2> QED BY <1>9, <2>1, AtFacts, SMTT(30)
<1>11. PICK pos \in [1..q -> I] : /\ \A k \in 1..q : a[k] = G[pos[k]]
                                  /\ \A i, j \in 1..q : i < j => pos[i] < pos[j]
  BY <1>10
<1>12. ActiveGroups(Groups(d).val, Resident) = a
  BY <1>7 DEF ActiveGroups
<1>13. \A i \in I : i \in 1..n /\ G[i].hi > Resident
  BY <1>8
<1>14. a = [i \in 1..Len(a) |-> a[i]]
  <2> HIDE DEF a
  <2> QED BY <1>10
<1> HIDE DEF I, a, q
<1>15. ASSUME NEW k \in 1..q PROVE GroupOK(a[k])
  <2> DEFINE s == shards[pos[k]]
             g == OneGroup(d, s)
  <2>1. pos[k] \in 1..n /\ a[k] = G[pos[k]] /\ G[pos[k]].hi > Resident
    BY <1>11, <1>13
  <2>2. s \in Shards /\ a[k] = g
    BY <1>8, <2>1
  <2> HIDE DEF s
  <2>3. /\ g.lo \in Nat /\ g.hi \in Nat /\ g.lo < g.hi /\ g.hi <= NumPoints
        /\ g.segs \in Seq(Segment)
        /\ \A i \in DOMAIN g.segs :
             /\ \A p \in Points : ShardOf(p) = g.segs[i].shard => p < g.hi
             /\ <<g.segs[i].shard, g.segs[i].file>> \in d.parts
    BY <2>2, OneGroupFacts
  <2>4. Resident < g.hi
    <3>1. g.hi > Resident
      BY <2>1, <2>2
    <3> HIDE DEF g
    <3> QED BY <2>3, <3>1, ResidentFacts
  <2> HIDE DEF g
  <2>5. GroupOK(g)
    BY <2>3, <2>4 DEF GroupOK, GroupIn
  <2> QED BY <2>2, <2>5
<1>16. ASSUME NEW i \in 1..q, NEW j \in 1..q, i < j PROVE a[i].hi <= a[j].lo
  <2> DEFINE u == pos[i]
             v == pos[j]
  <2>1. u \in 1..n /\ v \in 1..n /\ u < v /\ a[i] = G[u] /\ a[j] = G[v]
    BY <1>11, <1>13, <1>16
  <2> HIDE DEF u, v
  <2>2. shards[u] < shards[v] /\ shards[u] \in Shards /\ shards[v] \in Shards
    BY <1>4, <1>8, <2>1
  <2>3. OneGroup(d, shards[u]).hi <= OneGroup(d, shards[v]).lo
    BY <2>2, OneGroupFacts
  <2> QED BY <1>8, <2>1, <2>3
<1> QED BY <1>7, <1>10, <1>12, <1>14, <1>15, <1>16

\* Where the points of a group begin that the resident prefix leaves.
LEMMA StartFacts ==
  ASSUME cfg \in Configs, NEW g, GroupOK(g)
  PROVE  /\ GroupStart(g, Resident) \in Nat /\ GroupStart(g, Resident) < g.hi
         /\ g.lo <= GroupStart(g, Resident) /\ GroupStart(g, Resident) \in Points
<1>1. g.lo \in Nat /\ g.hi \in Nat /\ g.lo < g.hi /\ Resident < g.hi /\ g.hi <= NumPoints
  BY DEF GroupOK, GroupIn
<1>2. Resident \in Nat /\ NumPoints \in Nat
  BY ResidentFacts, ShardFacts
<1>3. /\ GroupStart(g, Resident) \in Nat /\ GroupStart(g, Resident) < g.hi
      /\ g.lo <= GroupStart(g, Resident)
  BY <1>1, <1>2 DEF GroupStart
<1> QED BY <1>1, <1>2, <1>3 DEF Points

\* The candidates of the points before hi.
Below(hi) == {e \in Edge : e.p < hi}

\* The segments of a group hold candidates before its end.
LEMMA GroupRead ==
  ASSUME sink \in GoodSinks, NEW g, GroupOK(g), NEW i \in DOMAIN g.segs
  PROVE  ReadSegment(sink, g.segs[i]) \in Seq(Below(g.hi))
<1> DEFINE x == g.segs[i]
<1>1. x \in Segment
  <2>1. g.segs \in Seq(Segment)
    BY DEF GroupOK, GroupIn
  <2> QED BY <2>1
<1>2. \A p \in Points : ShardOf(p) = x.shard => p < g.hi
  BY DEF GroupOK, GroupIn
<1> HIDE DEF x
<1>3. ReadSegment(sink, x) \in Seq(EdgesOf(x.shard))
  BY <1>1, ReadFacts
<1>4. EdgesOf(x.shard) \subseteq Below(g.hi)
  <2>1. ASSUME NEW e \in EdgesOf(x.shard) PROVE e \in Below(g.hi)
    <3>1. e \in Edge /\ e.p \in Points /\ ShardOf(e.p) = x.shard
      BY EdgesOfFacts
    <3> QED BY <1>2, <3>1 DEF Below
  <2> QED BY <2>1
<1>5. ReadSegment(sink, x) \in Seq(Below(g.hi))
  BY <1>3, <1>4, SeqMonotonic
<1> QED BY <1>5 DEF x

\* A group that is present is reduced to the rows of its points.
LEMMA ReducedFacts ==
  ASSUME cfg \in Configs, NEW g, GroupOK(g), NEW es \in Seq(Below(g.hi)), NEW lo, lo = GroupStart(g, Resident)
  PROVE  /\ PartOK([lo |-> lo, hi |-> g.hi, rows |-> RowsOf(lo, g.hi, es)])
         /\ \A i \in DOMAIN es : ~(es[i].p >= g.hi)
<1>1. lo \in Nat /\ g.hi \in Nat /\ lo < g.hi /\ g.hi <= NumPoints
  BY StartFacts DEF GroupOK, GroupIn
<1>2. es \in Seq(Edge)
  <2>1. Below(g.hi) \subseteq Edge
    BY DEF Below
  <2> QED BY <2>1, SeqMonotonic
<1>3. RowsFrom(lo, RowsOf(lo, g.hi, es)) /\ Len(RowsOf(lo, g.hi, es)) = g.hi - lo
  <2>1. lo \in Int /\ g.hi \in Int /\ lo <= g.hi
    BY <1>1
  <2> QED BY <1>2, <2>1, RowsOfFacts
<1>4. ASSUME NEW i \in DOMAIN es PROVE ~(es[i].p >= g.hi)
  <2>1. es[i] \in Below(g.hi)
    OBVIOUS
  <2>2. es[i].p \in Points /\ es[i].p < g.hi
    BY <2>1 DEF Below, Edge
  <2>3. es[i].p \in Nat
    BY <2>2, ShardFacts
  <2> QED BY <1>1, <2>2, <2>3
<1> DEFINE rs == RowsOf(lo, g.hi, es)
<1> HIDE DEF rs
<1>5. PartOK([lo |-> lo, hi |-> g.hi, rows |-> rs])
  BY <1>1, <1>3 DEF PartOK, rs
<1> QED BY <1>4, <1>5 DEF rs

\* reduce_segment_group_in_range.
LEMMA ReduceGroupFacts ==
  ASSUME cfg \in Configs, sink \in GoodSinks, NEW g, GroupOK(g)
  PROVE  LET r == ReduceGroup(sink, GroupStart(g, Resident), g)
         IN  r.ok /\ PartOK(r.val) /\ r.val.lo = GroupStart(g, Resident) /\ r.val.hi = g.hi
<1> DEFINE lo == GroupStart(g, Resident)
           ss == [i \in DOMAIN g.segs |-> ReadSegment(sink, g.segs[i])]
           es == Concat(ss)
<1>1. g.segs \in Seq(Segment) /\ PartsPresent(sink, g)
  BY DEF GroupOK, GroupIn, PartsPresent
<1>2. es \in Seq(Below(g.hi))
  <2>1. ss \in [1..Len(g.segs) -> Seq(Below(g.hi))] /\ Len(g.segs) \in Nat
    BY <1>1, GroupRead
  <2> HIDE DEF ss
  <2> QED BY <2>1, ConcatFacts
<1> HIDE DEF lo, es
<1> DEFINE part == [lo |-> lo, hi |-> g.hi, rows |-> RowsOf(lo, g.hi, es)]
<1>3. PartOK(part) /\ \A i \in DOMAIN es : ~(es[i].p >= g.hi)
  BY <1>2, ReducedFacts DEF lo
<1>4. ReduceGroup(sink, lo, g) = Ok(part)
  BY <1>1, <1>3 DEF ReduceGroup, es
<1>5. part.lo = lo /\ part.hi = g.hi
  OBVIOUS
<1> HIDE DEF part
<1>6. Ok(part).ok /\ Ok(part).val = part
  BY DEF Ok
<1> QED BY <1>3, <1>4, <1>5, <1>6 DEF lo

\* reduce_segment_group_to_neighbor_part.
LEMMA ReduceToPartFacts ==
  ASSUME cfg \in Configs, sink \in GoodSinks, NEW g, GroupOK(g)
  PROVE  LET r == ReduceGroupToPart(sink, GroupStart(g, Resident), g)
         IN  r.ok /\ PartOK(r.val) /\ r.val.lo = GroupStart(g, Resident) /\ r.val.hi = g.hi
<1> DEFINE lo == GroupStart(g, Resident)
           upTo(s) == At(s, {i \in DOMAIN s : s[i].p < g.hi})
           ss == [i \in DOMAIN g.segs |-> upTo(ReadSegment(sink, g.segs[i]))]
           es == Concat(ss)
<1>1. g.segs \in Seq(Segment) /\ PartsPresent(sink, g)
  BY DEF GroupOK, GroupIn, PartsPresent
<1>2. es \in Seq(Below(g.hi))
  <2>1. ASSUME NEW s \in Seq(Below(g.hi)) PROVE upTo(s) \in Seq(Below(g.hi))
    BY AtFacts
  <2>2. \A i \in DOMAIN g.segs : upTo(ReadSegment(sink, g.segs[i])) \in Seq(Below(g.hi))
    <3> HIDE DEF upTo
    <3> QED BY <2>1, GroupRead
  <2> HIDE DEF upTo
  <2>3. ss \in [1..Len(g.segs) -> Seq(Below(g.hi))] /\ Len(g.segs) \in Nat
    BY <1>1, <2>2
  <2> HIDE DEF ss
  <2> QED BY <2>3, ConcatFacts
<1>3. lo \in Nat /\ g.hi \in Nat /\ ~(lo >= g.hi)
  <2>1. lo \in Nat /\ g.hi \in Nat /\ lo < g.hi
    BY StartFacts DEF GroupOK, GroupIn
  <2> HIDE DEF lo
  <2> QED BY <2>1
<1> HIDE DEF lo, es
<1> DEFINE part == [lo |-> lo, hi |-> g.hi, rows |-> RowsOf(lo, g.hi, es)]
<1>4. PartOK(part)
  BY <1>2, ReducedFacts DEF lo
<1>5. ReduceGroupToPart(sink, lo, g) = Ok(part)
  BY <1>1, <1>3 DEF ReduceGroupToPart, es
<1>6. part.lo = lo /\ part.hi = g.hi
  OBVIOUS
<1> HIDE DEF part
<1>7. Ok(part).ok /\ Ok(part).val = part
  BY DEF Ok
<1> QED BY <1>4, <1>5, <1>6, <1>7 DEF lo

(***************************************************************************)
(* Delivering rows.                                                        *)
(***************************************************************************)

\* The writer of the pre-prune file has not failed.
Written == {Ok(f) : f \in PreType}

\* The row of a point is written to the pre-prune file.
LEMMA WriteFixedFacts ==
  ASSUME NEW x \in Written, NEW r \in Row, r.vid \in Points
  PROVE  WriteFixed(x, r) \in Written
<1>0. PICK f \in PreType : x = Ok(f)
  BY DEF Written
<1>1. x.ok /\ x.val = f
  BY <1>0 DEF Ok
<1> DEFINE t == Targets(r.cands)
           n == Min({Len(t), MaxDegree})
           R == {y \in Seq(Points) : Len(y) <= MaxDegree}
<1>2. NumPoints \in Nat /\ MaxDegree \in Nat /\ r.vid \in Nat /\ r.vid < NumPoints
  <2>1. NumPoints \in Nat /\ MaxDegree \in Nat
    BY SpillAssumption, GraphBuildAssumption
  <2> QED BY <2>1 DEF Points
<1>3. t \in Seq(Points) /\ Len(t) \in Nat
  <2>1. r.cands \in Seq(Edge)
    BY DEF Row
  <2>2. ASSUME NEW i \in DOMAIN r.cands PROVE r.cands[i].c \in Points
    <3>1. r.cands[i] \in Edge
      BY <2>1
    <3> QED BY <3>1 DEF Edge
  <2>3. DOMAIN r.cands = 1..Len(r.cands) /\ Len(r.cands) \in Nat
    BY <2>1
  <2>4. t \in [1..Len(r.cands) -> Points]
    BY <2>2, <2>3 DEF Targets
  <2> HIDE DEF t
  <2>5. t \in Seq(Points)
    BY <2>3, <2>4
  <2> QED BY <2>5
<1> HIDE DEF t
<1>4. n \in Int /\ n <= Len(t) /\ n <= MaxDegree
  BY <1>2, <1>3, MinOfTwo
<1>a. n \in Nat
  BY <1>2, <1>3, MinOfTwo
<1> HIDE DEF n
<1>5. SubSeq(t, 1, n) \in Seq(Points) /\ Len(SubSeq(t, 1, n)) = n
  <2>1. \A i \in 1..n : t[i] \in Points
    <3>1. \A i \in 1..n : i \in 1..Len(t)
      BY <1>a, <1>3, <1>4
    <3> QED BY <1>3, <3>1, ElementOfSeq
  <2> QED BY <1>a, <2>1, SubSeqProperties
<1>6. Capped(t, MaxDegree) \in R
  BY <1>4, <1>5 DEF Capped, n
<1> DEFINE c == Capped(t, MaxDegree)
<1> HIDE DEF c
<1>7. DOMAIN f = 1..NumPoints /\ f \in [1..NumPoints -> R] /\ c \in R
  BY <1>6 DEF PreType, c
<1>8. Len(f) = NumPoints
  BY <1>2, <1>7
<1> DEFINE j == r.vid + 1
<1>9. j \in 1..NumPoints
  BY <1>2
<1> HIDE DEF j, R
<1>10. [f EXCEPT ![j] = c] \in [1..NumPoints -> R]
  BY <1>7, <1>9
<1>11. FixedWriteNode(f, r.vid, t, MaxDegree) = Ok([f EXCEPT ![j] = c])
  <2>1. ~(r.vid >= Len(f))
    BY <1>2, <1>8
  <2> QED BY <2>1 DEF FixedWriteNode, Ok, c, j
<1>12. WriteFixed(x, r) = Ok([f EXCEPT ![j] = c])
  BY <1>1, <1>11 DEF WriteFixed, t
<1> QED BY <1>10, <1>12 DEF Written, PreType, R

\* All of them are.
LEMMA FixedFold ==
  ASSUME NEW d \in Written, NEW ss \in Seq(Row), \A i \in DOMAIN ss : ss[i].vid \in Points
  PROVE  FoldLeft(WriteFixed, d, ss) \in Written
<1> DEFINE n == Len(ss)
           K == 1..n
           A == [s \in SUBSET K |-> Written]
           step == [x \in (SUBSET K) \X Written |-> WriteFixed(x[2], ss[Max(x[1])])]
           Loop(g) == g = [s \in SUBSET K |-> IF s = {} THEN d ELSE WriteFixed(g[s \ {Max(s)}], ss[Max(s)])]
           iter == CHOOSE g : Loop(g)
<1>0. n \in Nat /\ DOMAIN ss = K
  OBVIOUS
<1>1. FoldLeft(WriteFixed, d, ss) = iter[K]
  BY <1>0 DEF FoldLeft, MapThenFoldSet
<1> HIDE DEF n
<1>2. d \in A[{}]
  OBVIOUS
<1>3. ASSUME NEW s \in SUBSET K, s # {}, NEW a \in Written
      PROVE  WriteFixed(a, ss[Max(s)]) \in Written
  <2>1. Max(s) \in s
    BY <1>0, <1>3, GreatestRemoved
  <2>2. Max(s) \in DOMAIN ss
    BY <1>0, <2>1
  <2>3. ss[Max(s)] \in Row /\ ss[Max(s)].vid \in Points
    BY <1>0, <2>2
  <2> QED BY <2>3, WriteFixedFacts
<1>4. StepsIn(n, A, step)
  <2> SUFFICES ASSUME NEW s \in SUBSET K, s # {}, NEW a \in A[s \ {Max(s)}]
               PROVE  step[<<s, a>>] \in A[s]
    BY DEF StepsIn
  <2>1. s \ {Max(s)} \in SUBSET K
    OBVIOUS
  <2>2. a \in Written
    BY <2>1
  <2>3. step[<<s, a>>] = WriteFixed(a, ss[Max(s)])
    BY <2>2
  <2> QED BY <1>3, <2>2, <2>3
<1>5. PICK g : FoldOf(g, n, d, step) /\ \A s \in SUBSET K : g[s] \in A[s]
  <2> HIDE DEF A, step
  <2> QED BY <1>0, <1>2, <1>4, FoldSolution, Zenon
<1>6. Loop(g)
  <2>1. ASSUME NEW s \in SUBSET K, s # {}
        PROVE  step[<<s, g[s \ {Max(s)}]>>] = WriteFixed(g[s \ {Max(s)}], ss[Max(s)])
    <3>1. g[s \ {Max(s)}] \in Written
      BY <1>5
    <3> QED BY <3>1
  <2> HIDE DEF step
  <2> QED BY <1>5, <2>1 DEF FoldOf
<1>7. Loop(iter)
  <2> HIDE DEF Loop
  <2> QED BY <1>6
<1> HIDE DEF iter
<1>8. iter[{}] \in A[{}]
  BY <1>2, <1>7
<1>9. \A s \in SUBSET K : s # {} /\ iter[s \ {Max(s)}] \in A[s \ {Max(s)}] => iter[s] \in A[s]
  <2> SUFFICES ASSUME NEW s \in SUBSET K, s # {}, iter[s \ {Max(s)}] \in A[s \ {Max(s)}]
               PROVE  iter[s] \in A[s]
    OBVIOUS
  <2>1. iter[s \ {Max(s)}] \in Written
    OBVIOUS
  <2>2. iter[s] = WriteFixed(iter[s \ {Max(s)}], ss[Max(s)])
    BY <1>7
  <2>3. iter[s] \in Written
    BY <1>3, <2>1, <2>2
  <2> QED BY <2>3
<1>10. iter[K] \in A[K]
  <2> HIDE DEF A
  <2> QED BY <1>0, <1>8, <1>9, FoldInvariant
<1> QED BY <1>1, <1>10

\* What a delivery of rows may change, and how: the rows of the points up to n are out,
\* the pre-prune file keeps its shape, and the graph file is touched in direct mode only.
Delivered(n, q) ==
  /\ RowsFrom(0, out') /\ Len(out') = n /\ n \in Nat
  /\ pc' = q /\ (cfg.mode = "final" => pre' \in PreType) /\ (cfg.mode # "direct" => graph' = graph)
  /\ open' = open /\ rows' = rows

\* The callback of no mode refuses rows that come in point order.
LEMMA DeliverFacts ==
  ASSUME cfg \in Configs, RowsFrom(0, out), NEW rs, RowsFrom(Len(out), rs),
         Len(out) + Len(rs) <= NumPoints, cfg.mode = "final" => pre \in PreType,
         NEW q, Deliver(rs, q)
  PROVE  Delivered(Len(out) + Len(rs), q)
<1>1. RowsFrom(0, out \o rs) /\ Len(out \o rs) = Len(out) + Len(rs) /\ Len(out) \in Nat /\ Len(rs) \in Nat
  <2>1. 0 + Len(out) = Len(out)
    <3>1. out \in Seq(Row)
      BY DEF RowsFrom
    <3> QED BY <3>1
  <2>2. RowsFrom(0 + Len(out), rs)
    BY <2>1
  <2> QED BY <2>2, RowsConcat
<1>2. out' = out \o rs /\ open' = open /\ rows' = rows
  BY DEF Deliver
<1>3. \A i \in DOMAIN rs : rs[i].vid = Len(out) + i - 1
  BY DEF RowsFrom
<1> DEFINE fixedRows == FoldLeft(WriteFixed, Ok(pre), rs)
<1>4. CASE cfg.mode = "direct"
  <2>1. pc' = q
    BY <1>4 DEF Deliver
  <2> QED BY <1>1, <1>2, <1>4, <2>1 DEF Delivered
<1>5. CASE cfg.mode = "final"
  <2>1. fixedRows \in Written
    <3>1. rs \in Seq(Row) /\ Ok(pre) \in Written
      BY <1>5 DEF RowsFrom, Written
    <3>2. ASSUME NEW i \in DOMAIN rs PROVE rs[i].vid \in Points
      <4>1. i \in 1..Len(rs) /\ NumPoints \in Nat
        BY <3>1, SpillAssumption
      <4>2. Len(out) + i - 1 \in 0..(NumPoints - 1)
        BY <1>1, <4>1
      <4> QED BY <1>3, <4>2 DEF Points
    <3> QED BY <3>1, <3>2, FixedFold
  <2>2. fixedRows.ok /\ fixedRows.val \in PreType
    <3>1. PICK f \in PreType : fixedRows = Ok(f)
      BY <2>1 DEF Written
    <3> HIDE DEF fixedRows
    <3> QED BY <3>1 DEF Ok
  <2>3. /\ graph' = graph /\ pre' = IF fixedRows.ok THEN fixedRows.val ELSE pre
        /\ pc' = IF fixedRows.ok THEN q ELSE "err"
    BY <1>5 DEF Deliver
  <2> HIDE DEF fixedRows
  <2> QED BY <1>1, <1>2, <1>5, <2>2, <2>3 DEF Delivered
<1>6. CASE cfg.mode # "direct" /\ cfg.mode # "final"
  <2>1. graph' = graph /\ pc' = q
    BY <1>3, <1>6 DEF Deliver
  <2> QED BY <1>1, <1>2, <1>6, <2>1 DEF Delivered
<1> QED BY <1>4, <1>5, <1>6

\* The rows of the resident prefix.
LEMMA EmitResidentFacts ==
  ASSUME IInv, EmitResident
  PROVE  Delivered(Resident, IF Resident = NumPoints THEN "epilogue" ELSE "plan")
<1> DEFINE ss == [i \in 1..Resident |-> res[i - 1]]
           es == Concat(ss)
           rs == RowsOf(0, Resident, es)
<1>1. cfg \in Configs /\ out = <<>> /\ res \in [Points -> Seq(Edge)]
  BY DEF IInv, ConfigInv, OutInv, StreamInv, EmitResident, Streaming
<1>2. Resident \in Nat /\ Resident <= NumPoints /\ NumPoints \in Nat
  BY <1>1, ResidentFacts, SpillAssumption
<1>3. es \in Seq(Edge)
  <2>1. ASSUME NEW i \in 1..Resident PROVE ss[i] \in Seq(Edge)
    <3>1. i - 1 \in Points
      BY <1>2 DEF Points
    <3> QED BY <1>1, <3>1
  <2>2. ss \in [1..Resident -> Seq(Edge)]
    BY <2>1
  <2> HIDE DEF ss
  <2> QED BY <1>2, <2>2, ConcatFacts
<1> HIDE DEF es
<1>4. RowsFrom(0, rs) /\ Len(rs) = Resident
  <2>1. 0 \in Int /\ Resident \in Int /\ 0 <= Resident /\ Resident - 0 = Resident
    BY <1>2
  <2>2. RowsFrom(0, rs) /\ Len(rs) = Resident - 0
    BY <1>3, <2>1, RowsOfFacts
  <2> QED BY <2>1, <2>2
<1> HIDE DEF rs
<1>5. RowsFrom(0, out) /\ Len(out) = 0
  <2>1. Len(out) = 0
    BY <1>1
  <2> QED BY <2>1 DEF IInv, OutInv
<1>6. cfg.mode = "final" => pre \in PreType
  BY DEF IInv, PreInv, EmitResident, Building
<1> DEFINE q == IF Resident = NumPoints THEN "epilogue" ELSE "plan"
<1>7. Deliver(rs, q)
  BY DEF EmitResident, rs, es
<1> HIDE DEF q
<1>8. RowsFrom(Len(out), rs) /\ Len(out) + Len(rs) = Resident /\ Len(out) + Len(rs) <= NumPoints
  BY <1>2, <1>4, <1>5
<1>9. Delivered(Len(out) + Len(rs), q)
  BY <1>1, <1>5, <1>6, <1>7, <1>8, DeliverFacts
<1> QED BY <1>8, <1>9 DEF q

\* The rows of a part, and of the points before it.
LEMMA PartFacts ==
  ASSUME IInv, NEW a, PartOK(a), Len(out) <= a.lo, NEW q, Deliver(EmitPart(NextPoint, a), q),
         cfg.mode = "final" => pre \in PreType
  PROVE  Delivered(a.hi, q)
<1> DEFINE rs == EmitPart(NextPoint, a)
<1>1. cfg \in Configs /\ RowsFrom(0, out)
  BY DEF IInv, ConfigInv, OutInv
<1>2. NextPoint = Len(out) /\ Len(out) \in Nat
  <2>1. out \in Seq(Row)
    BY <1>1 DEF RowsFrom
  <2> QED BY <2>1 DEF NextPoint
<1>3. RowsFrom(Len(out), rs) /\ Len(rs) = a.hi - Len(out)
  <2>1. RowsFrom(NextPoint, rs) /\ Len(rs) = a.hi - NextPoint
    <3>1. NextPoint \in Nat /\ NextPoint <= a.lo
      BY <1>2
    <3> QED BY <3>1, EmitFacts
  <2> HIDE DEF rs
  <2> QED BY <1>2, <2>1
<1>4. a.hi \in Nat /\ a.hi <= NumPoints
  BY DEF PartOK
<1>5. Deliver(rs, q)
  OBVIOUS
<1> HIDE DEF rs
<1>6. Len(out) + Len(rs) = a.hi
  BY <1>2, <1>3, <1>4
<1>7. Delivered(Len(out) + Len(rs), q)
  BY <1>1, <1>3, <1>4, <1>5, <1>6, DeliverFacts
<1> QED BY <1>6, <1>7

\* One group of the serial reducer.
LEMMA ReduceSerialFacts ==
  ASSUME IInv, ReduceSerial
  PROVE  Delivered(todo[1].hi, "serial") /\ todo' = Tail(todo) /\ GroupOK(todo[1])
<1> DEFINE g == todo[1]
           part == ReduceGroup(sink, GroupStart(g, Resident), g)
<1>1. pc = "serial" /\ cfg \in Configs /\ sink \in GoodSinks /\ TodoOK
  BY DEF IInv, ReduceSerial, ConfigInv, SinkInv, QueueInv, Building, Reducing
<1>2. 1 \in 1..Len(todo)
  <2>1. todo # <<>> /\ Len(todo) \in Nat /\ todo = [i \in 1..Len(todo) |-> todo[i]]
    BY <1>1 DEF ReduceSerial, TodoOK, TodoFrom, List, GroupOK
  <2>2. CASE Len(todo) = 0
    <3>1. todo = [i \in 1..0 |-> todo[i]]
      BY <2>1, <2>2
    <3>2. [i \in 1..0 |-> todo[i]] = <<>>
      OBVIOUS
    <3> QED BY <2>1, <3>1, <3>2
  <2> QED BY <2>1, <2>2
<1>3. GroupOK(g) /\ Len(out) <= GroupStart(g, Resident)
  BY <1>1, <1>2 DEF TodoOK, TodoFrom, List, GroupOK
<1> HIDE DEF g
<1>4. part.ok /\ PartOK(part.val) /\ part.val.lo = GroupStart(g, Resident) /\ part.val.hi = g.hi
  BY <1>1, <1>3, ReduceGroupFacts
<1>5. Deliver(EmitPart(NextPoint, part.val), "serial") /\ todo' = Tail(todo)
  BY <1>4 DEF ReduceSerial, g
<1>6. cfg.mode = "final" => pre \in PreType
  BY <1>1 DEF IInv, PreInv, Building
<1> DEFINE a == part.val
<1>7. PartOK(a) /\ Len(out) <= a.lo /\ Deliver(EmitPart(NextPoint, a), "serial") /\ a.hi = g.hi
  BY <1>3, <1>4, <1>5
<1> HIDE DEF a
<1>8. Delivered(a.hi, "serial")
  BY <1>6, <1>7, PartFacts
<1> QED BY <1>3, <1>5, <1>7, <1>8 DEF g

\* One part of the replay.
LEMMA ReplayFacts ==
  ASSUME IInv, Replay
  PROVE  Delivered(parts[1].hi, "replay") /\ PartOK(parts[1])
<1> DEFINE a == parts[1]
<1>1. pc = "replay" /\ PartsOK /\ parts # <<>>
  BY DEF IInv, Replay, QueueInv, Reducing
<1>2. 1 \in 1..Len(parts)
  <2>1. Len(parts) \in Nat /\ parts = [i \in 1..Len(parts) |-> parts[i]]
    BY <1>1 DEF PartsOK, PartsFrom, List
  <2>2. CASE Len(parts) = 0
    <3>1. parts = [i \in 1..0 |-> parts[i]]
      BY <2>1, <2>2
    <3>2. [i \in 1..0 |-> parts[i]] = <<>>
      OBVIOUS
    <3> QED BY <1>1, <3>1, <3>2
  <2> QED BY <2>1, <2>2
<1>3. PartOK(a) /\ Len(out) <= a.lo
  BY <1>1, <1>2 DEF PartsOK, PartsFrom, List
<1>4. Deliver(EmitPart(NextPoint, a), "replay")
  BY DEF Replay
<1>5. cfg.mode = "final" => pre \in PreType
  BY <1>1 DEF IInv, PreInv, Building
<1> HIDE DEF a
<1>6. Delivered(a.hi, "replay")
  BY <1>3, <1>4, <1>5, PartFacts
<1> QED BY <1>3, <1>6 DEF a

\* The rows behind the last group.
LEMMA EmitTailFacts ==
  ASSUME IInv, EmitTail
  PROVE  Delivered(NumPoints, "epilogue")
<1> DEFINE rs == EmptyRows(NextPoint, NumPoints)
<1>1. cfg \in Configs /\ RowsFrom(0, out) /\ Len(out) <= NumPoints /\ NumPoints \in Nat
  BY SpillAssumption DEF IInv, ConfigInv, OutInv
<1>2. NextPoint = Len(out) /\ Len(out) \in Nat
  <2>1. out \in Seq(Row)
    BY <1>1 DEF RowsFrom
  <2> QED BY <2>1 DEF NextPoint
<1>3. RowsFrom(Len(out), rs) /\ Len(rs) = NumPoints - Len(out)
  <2>1. <<>> \in Seq(Edge)
    OBVIOUS
  <2>2. NextPoint \in Int /\ NumPoints \in Int /\ NextPoint <= NumPoints
    BY <1>1, <1>2
  <2>3. rs = RowsOf(NextPoint, NumPoints, <<>>)
    BY DEF EmptyRows
  <2> HIDE DEF rs
  <2>4. RowsFrom(NextPoint, rs) /\ Len(rs) = NumPoints - NextPoint
    BY <2>1, <2>2, <2>3, RowsOfFacts
  <2> QED BY <1>2, <2>4
<1>4. cfg.mode = "final" => pre \in PreType
  BY DEF IInv, PreInv, Building, EmitTail
<1>5. Deliver(rs, "epilogue")
  BY DEF EmitTail
<1> HIDE DEF rs
<1>6. Len(out) + Len(rs) = NumPoints /\ Len(out) + Len(rs) <= NumPoints
  BY <1>1, <1>2, <1>3
<1>7. Delivered(Len(out) + Len(rs), "epilogue")
  BY <1>1, <1>3, <1>4, <1>5, <1>6, DeliverFacts
<1> QED BY <1>6, <1>7

\* The rows of the recorder.
LEMMA RecordedFacts ==
  ASSUME IInv
  PROVE  RowsFrom(0, RecordedRows) /\ Len(RecordedRows) = NumPoints
<1> DEFINE r == RecordedRows
<1>1. rec \in [Points -> Seq(Edge)] /\ NumPoints \in Nat
  BY SpillAssumption DEF IInv, StreamInv
<1>2. r = [k \in 1..NumPoints |-> [vid |-> k - 1, cands |-> rec[k - 1]]]
  BY DEF RecordedRows
<1> HIDE DEF r
<1>3. ASSUME NEW k \in 1..NumPoints PROVE r[k] \in Row /\ r[k].vid = 0 + k - 1
  <2>1. k - 1 \in Points /\ k - 1 \in Int /\ 0 + k - 1 = k - 1
    BY <1>1 DEF Points
  <2>2. rec[k - 1] \in Seq(Edge)
    BY <1>1, <2>1
  <2> QED BY <1>2, <2>1, <2>2 DEF Row
<1>4. r \in [1..NumPoints -> Row]
  BY <1>2, <1>3
<1>5. r \in Seq(Row)
  BY <1>1, <1>4
<1>6. DOMAIN r = 1..NumPoints /\ Len(r) = NumPoints
  BY <1>1, <1>4, <1>5, LenProperties
<1> QED BY <1>3, <1>5, <1>6 DEF RowsFrom, r

(***************************************************************************)
(* Queues of groups and parts.                                             *)
(***************************************************************************)

\* A list is a sequence of its elements.
LEMMA ListFacts ==
  ASSUME NEW s, List(s)
  PROVE  /\ s \in Seq({s[i] : i \in 1..Len(s)}) /\ DOMAIN s = 1..Len(s)
         /\ Len(s) = 0 <=> s = <<>>
<1> DEFINE S == {s[i] : i \in 1..Len(s)}
           n == Len(s)
<1>1. n \in Nat /\ s = [i \in 1..n |-> s[i]]
  BY DEF List
<1>2. s \in [1..n -> S]
  BY <1>1
<1> HIDE DEF S
<1>3. s \in Seq(S)
  BY <1>1, <1>2
<1> QED BY <1>2, <1>3 DEF S

LEMMA SeqIsList ==
  ASSUME NEW S, NEW s \in Seq(S)
  PROVE  List(s)
BY DEF List

\* A list without its first m elements.
LEMMA DropFacts ==
  ASSUME NEW s, List(s), NEW m \in 0..Len(s)
  PROVE  LET t == SubSeq(s, m + 1, Len(s))
         IN  List(t) /\ Len(t) = Len(s) - m /\ \A i \in 1..Len(t) : m + i \in 1..Len(s) /\ t[i] = s[m + i]
<1> DEFINE S == {s[i] : i \in 1..Len(s)}
           n == Len(s)
           q == m + 1
           t == SubSeq(s, q, n)
<1>1. s \in Seq(S) /\ n \in Nat /\ m \in Nat /\ m <= n
  BY ListFacts DEF List
<1> HIDE DEF S
<1>2. q \in 1..(n + 1)
  BY <1>1
<1>3. /\ t \in Seq(S) /\ Len(t) = (IF q <= n THEN n - q + 1 ELSE 0)
      /\ \A i \in 1..(n - q + 1) : t[i] = s[q + i - 1]
  <2> HIDE DEF q
  <2>1. \A i \in q..n : s[i] \in S
    <3>1. \A i \in q..n : i \in 1..Len(s)
      BY <1>1, <1>2
    <3> QED BY <1>1, <3>1, ElementOfSeq
  <2>2. q \in Int /\ n \in Int /\ q >= 1
    BY <1>1, <1>2
  <2> HIDE DEF n
  <2> QED BY <1>1, <1>2, <2>1, <2>2, SubSeqProperties
<1>4. Len(t) = n - m
  <2> HIDE DEF t
  <2> QED BY <1>1, <1>3
<1>5. ASSUME NEW i \in 1..Len(t) PROVE m + i \in 1..n /\ t[i] = s[m + i]
  <2>1. i \in 1..(n - q + 1) /\ q + i - 1 = m + i /\ m + i \in 1..n
    <3> HIDE DEF t
    <3> QED BY <1>1, <1>4
  <2>2. t[i] = s[q + i - 1]
    BY <1>3, <2>1
  <2> QED BY <2>1, <2>2
<1>6. List(t)
  BY <1>3, SeqIsList
<1> QED BY <1>4, <1>5, <1>6

LEMMA TailIsDrop ==
  ASSUME NEW s, List(s), s # <<>>
  PROVE  /\ List(Tail(s)) /\ Len(Tail(s)) = Len(s) - 1 /\ 1 \in 1..Len(s)
         /\ \A i \in 1..Len(Tail(s)) : i + 1 \in 1..Len(s) /\ Tail(s)[i] = s[i + 1]
<1> DEFINE S == {s[i] : i \in 1..Len(s)}
<1>1. s \in Seq(S) /\ Len(s) \in Nat
  BY ListFacts DEF List
<1> HIDE DEF S
<1>2. /\ Tail(s) \in Seq(S) /\ Len(Tail(s)) = Len(s) - 1 /\ Len(s) \in Nat \ {0}
      /\ DOMAIN Tail(s) = 1..(Len(s) - 1)
      /\ \A i \in DOMAIN Tail(s) : Tail(s)[i] = s[i + 1]
  BY <1>1, TailFacts
<1>3. List(Tail(s))
  BY <1>2, SeqIsList
<1> QED BY <1>2, <1>3

\* Two lists after each other.
LEMMA JoinFacts ==
  ASSUME NEW s, List(s), NEW t, List(t)
  PROVE  /\ List(s \o t) /\ Len(s \o t) = Len(s) + Len(t)
         /\ \A i \in 1..Len(s) : (s \o t)[i] = s[i]
         /\ \A i \in 1..Len(t) : (s \o t)[Len(s) + i] = t[i]
         /\ \A i \in 1..(Len(s) + Len(t)) : i \in 1..Len(s) \/ i - Len(s) \in 1..Len(t)
<1> DEFINE S == {s[i] : i \in 1..Len(s)}
           T == {t[i] : i \in 1..Len(t)}
<1>1. s \in Seq(S) /\ t \in Seq(T) /\ Len(s) \in Nat /\ Len(t) \in Nat
  BY ListFacts DEF List
<1> HIDE DEF S, T
<1>2. s \in Seq(S \cup T) /\ t \in Seq(S \cup T)
  BY <1>1, SeqMonotonic
<1> DEFINE U == S \cup T
<1> HIDE DEF U
<1>3. /\ s \o t \in Seq(U) /\ Len(s \o t) = Len(s) + Len(t)
      /\ \A i \in 1..(Len(s) + Len(t)) : (s \o t)[i] = IF i <= Len(s) THEN s[i] ELSE t[i - Len(s)]
  BY <1>2, ConcatProperties DEF U
<1>4. List(s \o t)
  BY <1>3, SeqIsList
<1> DEFINE n == Len(s)
           m == Len(t)
           v == s \o t
<1> HIDE DEF n, m, v
<1>5. n \in Nat /\ m \in Nat /\ \A i \in 1..(n + m) : v[i] = IF i <= n THEN s[i] ELSE t[i - n]
  BY <1>1, <1>3 DEF n, m, v
<1>6. \A i \in 1..n : v[i] = s[i]
  BY <1>5
<1>7. ASSUME NEW i \in 1..m PROVE v[n + i] = t[i]
  <2> DEFINE j == n + i
  <2>1. j \in 1..(n + m) /\ ~(j <= n) /\ j - n = i
    BY <1>5
  <2> HIDE DEF j
  <2>2. v[j] = t[j - n]
    BY <1>5, <2>1
  <2>3. v[j] = t[i]
    BY <2>1, <2>2
  <2> QED BY <2>3 DEF j
<1>8. \A i \in 1..(n + m) : i \in 1..n \/ i - n \in 1..m
  BY <1>5
<1> QED BY <1>3, <1>4, <1>6, <1>7, <1>8 DEF n, m, v

\* A start between the ends of a group.
LEMMA StartBounds ==
  ASSUME NEW r \in Nat, NEW d, NEW g, GroupIn(d, r, g)
  PROVE  /\ GroupStart(g, r) \in Nat /\ g.lo <= GroupStart(g, r) /\ GroupStart(g, r) < g.hi
         /\ GroupStart(g, r) \in Points /\ r <= GroupStart(g, r) /\ g.hi \in Nat /\ g.lo \in Nat
<1>1. g.lo \in Nat /\ g.hi \in Nat /\ g.lo < g.hi /\ r < g.hi /\ g.hi <= NumPoints /\ NumPoints \in Nat
  BY SpillAssumption DEF GroupIn
<1>2. /\ GroupStart(g, r) \in Nat /\ g.lo <= GroupStart(g, r) /\ GroupStart(g, r) < g.hi
      /\ r <= GroupStart(g, r)
  BY <1>1 DEF GroupStart
<1> QED BY <1>1, <1>2 DEF Points

\* The groups after the first one start behind it.
LEMMA TodoTail ==
  ASSUME NEW r \in Nat, NEW d, NEW q, NEW n, TodoFrom(d, r, q, n), q # <<>>
  PROVE  TodoFrom(d, r, Tail(q), q[1].hi)
<1> DEFINE t == Tail(q)
<1>1. /\ List(q) /\ \A i \in 1..Len(q) : GroupIn(d, r, q[i])
      /\ \A i, j \in 1..Len(q) : i < j => q[i].hi <= q[j].lo
  BY DEF TodoFrom
<1>2. /\ List(t) /\ Len(t) = Len(q) - 1 /\ 1 \in 1..Len(q)
      /\ \A i \in 1..Len(t) : i + 1 \in 1..Len(q) /\ t[i] = q[i + 1]
  BY <1>1, TailIsDrop
<1> HIDE DEF t
<1>3. ASSUME NEW i \in 1..Len(t) PROVE GroupIn(d, r, t[i]) /\ q[1].hi <= GroupStart(t[i], r)
  <2> DEFINE k == i + 1
  <2>1. k \in 1..Len(q) /\ 1 < k /\ t[i] = q[k]
    BY <1>2
  <2> HIDE DEF k
  <2>2. GroupIn(d, r, q[k]) /\ GroupIn(d, r, q[1]) /\ q[1].hi <= q[k].lo
    BY <1>1, <1>2, <2>1
  <2>3. q[1].hi \in Nat /\ q[k].lo \in Nat /\ GroupStart(q[k], r) \in Nat /\ q[k].lo <= GroupStart(q[k], r)
    BY <2>2, StartBounds
  <2>4. q[1].hi <= GroupStart(q[k], r)
    BY <2>2, <2>3
  <2> QED BY <2>1, <2>2, <2>4
<1>4. ASSUME NEW i \in 1..Len(t), NEW j \in 1..Len(t), i < j PROVE t[i].hi <= t[j].lo
  <2> DEFINE k == i + 1
             l == j + 1
  <2>1. k \in 1..Len(q) /\ l \in 1..Len(q) /\ k < l /\ t[i] = q[k] /\ t[j] = q[l]
    BY <1>2, <1>4
  <2> HIDE DEF k, l
  <2> QED BY <1>1, <2>1
<1>5. TodoFrom(d, r, t, q[1].hi)
  BY <1>2, <1>3, <1>4 DEF TodoFrom
<1> QED BY <1>5 DEF t

\* A queue without its first m groups.
LEMMA TodoDrop ==
  ASSUME NEW r \in Nat, NEW d, NEW q, NEW n, TodoFrom(d, r, q, n), NEW m \in 0..Len(q)
  PROVE  TodoFrom(d, r, SubSeq(q, m + 1, Len(q)), n)
<1> DEFINE t == SubSeq(q, m + 1, Len(q))
<1>1. /\ List(q) /\ \A i \in 1..Len(q) : GroupIn(d, r, q[i]) /\ n <= GroupStart(q[i], r)
      /\ \A i, j \in 1..Len(q) : i < j => q[i].hi <= q[j].lo
  BY DEF TodoFrom
<1>2. List(t) /\ \A i \in 1..Len(t) : m + i \in 1..Len(q) /\ t[i] = q[m + i]
  BY <1>1, DropFacts
<1> HIDE DEF t
<1>3. \A i \in 1..Len(t) : GroupIn(d, r, t[i]) /\ n <= GroupStart(t[i], r)
  BY <1>1, <1>2
<1>4. ASSUME NEW i \in 1..Len(t), NEW j \in 1..Len(t), i < j PROVE t[i].hi <= t[j].lo
  <2> DEFINE k == m + i
             l == m + j
  <2>1. k \in 1..Len(q) /\ l \in 1..Len(q) /\ k < l /\ t[i] = q[k] /\ t[j] = q[l]
    BY <1>2, <1>4
  <2> HIDE DEF k, l
  <2> QED BY <1>1, <2>1
<1>5. TodoFrom(d, r, t, n)
  BY <1>2, <1>3, <1>4 DEF TodoFrom
<1> QED BY <1>5 DEF t

\* The parts after the first one start behind it.
LEMMA PartsTail ==
  ASSUME NEW a, NEW n, PartsFrom(a, n), a # <<>>
  PROVE  PartsFrom(Tail(a), a[1].hi)
<1> DEFINE t == Tail(a)
<1>1. /\ List(a) /\ \A i \in 1..Len(a) : PartOK(a[i])
      /\ \A i, j \in 1..Len(a) : i < j => a[i].hi <= a[j].lo
  BY DEF PartsFrom
<1>2. /\ List(t) /\ Len(t) = Len(a) - 1 /\ 1 \in 1..Len(a)
      /\ \A i \in 1..Len(t) : i + 1 \in 1..Len(a) /\ t[i] = a[i + 1]
  BY <1>1, TailIsDrop
<1> HIDE DEF t
<1>3. ASSUME NEW i \in 1..Len(t) PROVE PartOK(t[i]) /\ a[1].hi <= t[i].lo
  <2> DEFINE k == i + 1
  <2>1. k \in 1..Len(a) /\ 1 < k /\ t[i] = a[k]
    BY <1>2
  <2> HIDE DEF k
  <2> QED BY <1>1, <1>2, <2>1
<1>4. ASSUME NEW i \in 1..Len(t), NEW j \in 1..Len(t), i < j PROVE t[i].hi <= t[j].lo
  <2> DEFINE k == i + 1
             l == j + 1
  <2>1. k \in 1..Len(a) /\ l \in 1..Len(a) /\ k < l /\ t[i] = a[k] /\ t[j] = a[l]
    BY <1>2, <1>4
  <2> HIDE DEF k, l
  <2> QED BY <1>1, <2>1
<1>5. PartsFrom(t, a[1].hi)
  BY <1>2, <1>3, <1>4 DEF PartsFrom
<1> QED BY <1>5 DEF t

\* The parts of the first m groups join the queue of parts.
LEMMA PartsJoin ==
  ASSUME NEW r \in Nat, NEW d, NEW q, NEW n, TodoFrom(d, r, q, n), NEW a, PartsFrom(a, n), Before(a, q, r),
         NEW m \in 0..Len(q), NEW b, List(b), Len(b) = m,
         \A i \in 1..m : PartOK(b[i]) /\ b[i].lo = GroupStart(q[i], r) /\ b[i].hi = q[i].hi
  PROVE  PartsFrom(a \o b, n) /\ Before(a \o b, SubSeq(q, m + 1, Len(q)), r)
<1> DEFINE v == a \o b
           u == SubSeq(q, m + 1, Len(q))
           k == Len(a)
<1>1. /\ List(q) /\ \A i \in 1..Len(q) : GroupIn(d, r, q[i]) /\ n <= GroupStart(q[i], r)
      /\ \A i, j \in 1..Len(q) : i < j => q[i].hi <= q[j].lo
  BY DEF TodoFrom
<1>2. /\ List(a) /\ \A i \in 1..k : PartOK(a[i]) /\ n <= a[i].lo
      /\ \A i, j \in 1..k : i < j => a[i].hi <= a[j].lo
  BY DEF PartsFrom
<1>3. /\ List(v) /\ Len(v) = k + m
      /\ \A i \in 1..k : v[i] = a[i]
      /\ \A i \in 1..m : v[k + i] = b[i]
      /\ \A i \in 1..(k + m) : i \in 1..k \/ i - k \in 1..m
  BY <1>2, JoinFacts
<1>4. List(u) /\ \A i \in 1..Len(u) : m + i \in 1..Len(q) /\ u[i] = q[m + i]
  BY <1>1, DropFacts
<1>5. k \in Nat /\ m \in Nat /\ Len(q) \in Nat /\ m <= Len(q)
  BY <1>1, <1>2 DEF List
<1> HIDE DEF v, u, k
<1>6. ASSUME NEW i \in 1..m
      PROVE  /\ i \in 1..Len(q) /\ PartOK(b[i]) /\ b[i].lo = GroupStart(q[i], r) /\ b[i].hi = q[i].hi
             /\ n <= b[i].lo /\ q[i].lo <= b[i].lo /\ q[i].lo \in Nat /\ b[i].lo \in Nat /\ b[i].hi \in Nat
  <2>1. i \in 1..Len(q)
    BY <1>5
  <2>2. GroupIn(d, r, q[i]) /\ n <= GroupStart(q[i], r)
    BY <1>1, <2>1
  <2> QED BY <2>1, <2>2, StartBounds
<1>7. ASSUME NEW i \in 1..(k + m)
      PROVE  \/ i \in 1..k /\ v[i] = a[i]
             \/ \E j \in 1..m : v[i] = b[j] /\ i = k + j
  <2>1. CASE i \in 1..k
    BY <1>3, <2>1
  <2>2. CASE i - k \in 1..m
    <3> DEFINE j == i - k
    <3>1. j \in 1..m /\ i = k + j
      BY <1>5, <2>2
    <3> HIDE DEF j
    <3>2. v[k + j] = b[j]
      BY <1>3, <3>1
    <3> QED BY <3>1, <3>2
  <2> QED BY <1>3, <2>1, <2>2
<1>8. ASSUME NEW i \in 1..Len(v) PROVE PartOK(v[i]) /\ n <= v[i].lo
  <2>1. i \in 1..(k + m)
    BY <1>3
  <2>2. CASE i \in 1..k /\ v[i] = a[i]
    BY <1>2, <2>2
  <2>3. CASE \E j \in 1..m : v[i] = b[j] /\ i = k + j
    BY <1>6, <2>3
  <2> QED BY <1>7, <2>1, <2>2, <2>3
<1>9. ASSUME NEW i \in 1..Len(v), NEW j \in 1..Len(v), i < j PROVE v[i].hi <= v[j].lo
  <2>1. i \in 1..(k + m) /\ j \in 1..(k + m)
    BY <1>3
  <2>2. CASE j \in 1..k /\ v[j] = a[j]
    <3>1. i \in 1..k
      BY <1>5, <1>9, <2>2
    <3>2. v[i] = a[i]
      BY <1>3, <3>1
    <3> QED BY <1>2, <1>9, <2>2, <3>1, <3>2
  <2>3. CASE i \in 1..k /\ v[i] = a[i] /\ \E y \in 1..m : v[j] = b[y] /\ j = k + y
    <3>1. PICK y \in 1..m : v[j] = b[y]
      BY <2>3
    <3>2. y \in 1..Len(q) /\ b[y].lo = GroupStart(q[y], r)
      BY <1>6
    <3>3. a[i].hi <= GroupStart(q[y], r)
      BY <2>3, <3>2 DEF Before, k
    <3> QED BY <2>3, <3>1, <3>2, <3>3
  <2>4. CASE (\E x \in 1..m : v[i] = b[x] /\ i = k + x) /\ \E y \in 1..m : v[j] = b[y] /\ j = k + y
    <3>1. PICK x \in 1..m : v[i] = b[x] /\ i = k + x
      BY <2>4
    <3>2. PICK y \in 1..m : v[j] = b[y] /\ j = k + y
      BY <2>4
    <3>3. x < y
      BY <1>5, <1>9, <3>1, <3>2
    <3>4. x \in 1..Len(q) /\ y \in 1..Len(q) /\ b[x].hi = q[x].hi /\ q[y].lo <= b[y].lo
          /\ b[x].hi \in Nat /\ q[y].lo \in Nat /\ b[y].lo \in Nat
      BY <1>6
    <3>5. q[x].hi <= q[y].lo
      BY <1>1, <3>3, <3>4
    <3>6. b[x].hi <= b[y].lo
      BY <3>4, <3>5, SMTT(30)
    <3> QED BY <3>1, <3>2, <3>6
  <2> QED BY <1>7, <2>1, <2>2, <2>3, <2>4
<1>10. ASSUME NEW i \in 1..Len(v), NEW j \in 1..Len(u) PROVE v[i].hi <= GroupStart(u[j], r)
  <2> DEFINE y == m + j
  <2>1. y \in 1..Len(q) /\ u[j] = q[y] /\ \A x \in 1..m : x < y
    BY <1>4, <1>5
  <2> HIDE DEF y
  <2>2. i \in 1..(k + m)
    BY <1>3
  <2>3. CASE i \in 1..k /\ v[i] = a[i]
    <3>1. a[i].hi <= GroupStart(q[y], r)
      BY <2>1, <2>3 DEF Before, k
    <3> QED BY <2>1, <2>3, <3>1
  <2>4. CASE \E x \in 1..m : v[i] = b[x] /\ i = k + x
    <3>1. PICK x \in 1..m : v[i] = b[x]
      BY <2>4
    <3>2. x \in 1..Len(q) /\ b[x].hi = q[x].hi /\ b[x].hi \in Nat
      BY <1>6
    <3>3. q[x].hi <= q[y].lo
      BY <1>1, <2>1, <3>2
    <3>4. GroupIn(d, r, q[y])
      BY <1>1, <2>1
    <3>5. q[y].lo \in Nat /\ GroupStart(q[y], r) \in Nat /\ q[y].lo <= GroupStart(q[y], r)
      BY <3>4, StartBounds
    <3>6. b[x].hi <= GroupStart(q[y], r)
      BY <3>2, <3>3, <3>5
    <3> QED BY <2>1, <3>1, <3>6
  <2> QED BY <1>7, <2>2, <2>3, <2>4
<1>11. PartsFrom(v, n)
  BY <1>3, <1>8, <1>9 DEF PartsFrom
<1>12. Before(v, u, r)
  BY <1>10 DEF Before
<1> QED BY <1>11, <1>12 DEF v, u

\* A chunk of groups: only an I/O error stops it, and its parts join the queue.
LEMMA ReduceChunkFacts ==
  ASSUME IInv, ReduceChunk
  PROVE  /\ pc' \in {"chunk", "err"} /\ fault' \in BOOLEAN /\ (pc' = "err" => fault')
         /\ TodoFrom(sink, Resident, todo', Len(out))
         /\ pc' = "chunk" => PartsFrom(parts', Len(out)) /\ Before(parts', todo', Resident)
         /\ \A t \in temps' : t[1] \in 1..run /\ t[2] \in Points
<1> DEFINE r == Resident
           n == Len(out)
           chunk == ChunkOf(todo)
           m == Min({cfg.par, Len(todo)})
           red(i) == ReduceGroupToPart(sink, GroupStart(chunk[i], Resident), chunk[i])
           reduced == [i \in DOMAIN chunk |-> red(i)]
           b == [i \in DOMAIN chunk |-> reduced[i].val]
<1>1. pc = "chunk" /\ cfg \in Configs /\ sink \in GoodSinks /\ cfg.par > 1 /\ run \in 1..MaxRuns /\ fault \in BOOLEAN
  BY DEF IInv, ReduceChunk, ConfigInv, SinkInv, QueueInv, Building, Reducing
<1>2. TodoFrom(sink, r, todo, n) /\ PartsFrom(parts, n) /\ Before(parts, todo, r)
  BY <1>1 DEF IInv, QueueInv, Reducing, TodoOK, PartsOK
<1>3. r \in Nat /\ cfg.par \in Nat /\ MaxRuns \in Nat
  BY <1>1, ResidentFacts, GraphBuildAssumption
<1>4. List(todo) /\ Len(todo) \in Nat /\ todo # <<>>
  BY <1>2 DEF TodoFrom, List, ReduceChunk
<1>5. m \in 1..Len(todo)
  <2>1. Len(todo) # 0
    BY <1>4, ListFacts
  <2>2. m = IF cfg.par <= Len(todo) THEN cfg.par ELSE Len(todo)
    BY <1>3, <1>4, MinOfTwo
  <2> HIDE DEF m
  <2> QED BY <1>1, <1>3, <1>4, <2>1, <2>2
<1>6. List(chunk) /\ Len(chunk) = m /\ DOMAIN chunk = 1..m /\ \A i \in 1..m : chunk[i] = todo[i]
  <2> DEFINE S == {todo[i] : i \in 1..Len(todo)}
  <2>1. todo \in Seq(S)
    BY <1>4, ListFacts
  <2>2. chunk = SubSeq(todo, 1, m)
    BY DEF ChunkOf
  <2> HIDE DEF S, m, chunk
  <2>3. \A i \in 1..m : todo[i] \in S
    <3>1. \A i \in 1..m : i \in 1..Len(todo)
      BY <1>4, <1>5
    <3> QED BY <2>1, <3>1, ElementOfSeq
  <2>4. m \in Nat /\ 1 <= m
    BY <1>4, <1>5
  <2>5. /\ chunk \in Seq(S) /\ Len(chunk) = (IF 1 <= m THEN m - 1 + 1 ELSE 0)
        /\ \A i \in 1..(m - 1 + 1) : chunk[i] = todo[1 + i - 1]
    BY <2>2, <2>3, <2>4, SubSeqProperties
  <2>6. Len(chunk) = m /\ m - 1 + 1 = m
    BY <2>4, <2>5
  <2>7. ASSUME NEW i \in 1..m PROVE chunk[i] = todo[i]
    <3>1. 1 + i - 1 = i
      BY <2>4
    <3> QED BY <2>5, <2>6, <3>1
  <2>8. List(chunk) /\ DOMAIN chunk = 1..Len(chunk)
    BY <2>5, SeqIsList, LenProperties
  <2> QED BY <2>6, <2>7, <2>8
<1> HIDE DEF chunk, m
<1>7. ASSUME NEW i \in 1..m
      PROVE  /\ red(i).ok /\ PartOK(red(i).val) /\ red(i).val.lo = GroupStart(todo[i], r)
             /\ red(i).val.hi = todo[i].hi /\ GroupStart(todo[i], r) \in Points /\ chunk[i] = todo[i]
  <2> DEFINE g == chunk[i]
  <2>1. g = todo[i] /\ i \in 1..Len(todo)
    BY <1>4, <1>5, <1>6
  <2>2. GroupOK(g)
    BY <1>2, <2>1 DEF TodoFrom, GroupOK
  <2>3. GroupStart(g, r) \in Points
    BY <1>1, <2>2, StartFacts
  <2> HIDE DEF g
  <2>4. LET x == ReduceGroupToPart(sink, GroupStart(g, Resident), g)
        IN x.ok /\ PartOK(x.val) /\ x.val.lo = GroupStart(g, Resident) /\ x.val.hi = g.hi
    BY <1>1, <2>2, ReduceToPartFacts
  <2>5. red(i) = ReduceGroupToPart(sink, GroupStart(g, Resident), g)
    BY DEF g
  <2> HIDE DEF red
  <2> QED BY <2>1, <2>3, <2>4, <2>5 DEF g
<1> HIDE DEF red
<1>8. PICK failed \in SUBSET DOMAIN chunk :
        LET allOk == failed = {} /\ \A i \in DOMAIN chunk : reduced[i].ok
        IN /\ temps' = temps \cup {<<run, GroupStart(chunk[i], Resident)>> : i \in DOMAIN chunk}
           /\ fault' = (fault \/ failed # {})
           /\ pc' = IF allOk THEN "chunk" ELSE "err"
           /\ parts' = IF allOk THEN parts \o b ELSE parts
           /\ todo' = SubSeq(todo, Len(chunk) + 1, Len(todo))
  BY DEF ReduceChunk, chunk, red
<1>9. \A i \in DOMAIN chunk : reduced[i].ok
  BY <1>6, <1>7
<1>10. List(b) /\ Len(b) = m /\ \A i \in 1..m : PartOK(b[i]) /\ b[i].lo = GroupStart(todo[i], r) /\ b[i].hi = todo[i].hi
  <2>1. b = [i \in 1..m |-> red(i).val]
    BY <1>6
  <2> HIDE DEF b
  <2>2. \A i \in 1..m : b[i] = red(i).val
    BY <2>1
  <2>3. m \in Nat
    BY <1>4, <1>5
  <2>4. b \in [1..m -> {b[i] : i \in 1..m}]
    BY <2>1
  <2>5. b \in Seq({b[i] : i \in 1..m})
    BY <2>3, <2>4
  <2>6. List(b) /\ Len(b) = m
    BY <2>3, <2>4, <2>5, SeqIsList
  <2> QED BY <1>7, <2>2, <2>6
<1> HIDE DEF b, reduced
<1>11. todo' = SubSeq(todo, m + 1, Len(todo)) /\ fault' = (fault \/ failed # {})
       /\ pc' = (IF failed = {} THEN "chunk" ELSE "err") /\ (failed = {} => parts' = parts \o b)
       /\ temps' = temps \cup {<<run, GroupStart(chunk[i], Resident)>> : i \in DOMAIN chunk}
  BY <1>6, <1>8, <1>9
<1>12. m \in 0..Len(todo)
  BY <1>4, <1>5
<1>13. TodoFrom(sink, r, todo', n)
  BY <1>2, <1>3, <1>11, <1>12, TodoDrop
<1>14. PartsFrom(parts \o b, n) /\ Before(parts \o b, SubSeq(todo, m + 1, Len(todo)), r)
  BY <1>2, <1>3, <1>10, <1>12, PartsJoin
<1>15. ASSUME NEW t \in temps' PROVE t[1] \in 1..run /\ t[2] \in Points
  <2>1. CASE t \in temps
    BY <2>1 DEF IInv, ConfigInv
  <2>2. CASE t \in {<<run, GroupStart(chunk[i], Resident)>> : i \in DOMAIN chunk}
    <3>1. PICK i \in 1..m : t = <<run, GroupStart(chunk[i], Resident)>>
      BY <1>6, <2>2
    <3>2. run \in 1..run
      BY <1>1, <1>3
    <3> QED BY <1>7, <3>1, <3>2
  <2> QED BY <1>11, <2>1, <2>2
<1>16. pc' \in {"chunk", "err"} /\ fault' \in BOOLEAN /\ (pc' = "err" => fault')
  BY <1>1, <1>11
<1>17. pc' = "chunk" => PartsFrom(parts', n) /\ Before(parts', todo', r)
  BY <1>11, <1>14
<1> QED BY <1>13, <1>15, <1>16, <1>17

(***************************************************************************)
(* Steps.                                                                  *)
(***************************************************************************)

\* What depends on the configuration only.
LEMMA SameConfig ==
  ASSUME cfg' = cfg
  PROVE  /\ Resident' = Resident /\ MetadataOnly' = MetadataOnly /\ HasRecorder' = HasRecorder
         /\ BadHint' = BadHint /\ Edges' = Edges
BY DEF Resident, MetadataOnly, HasRecorder, BadHint, Edges

\* Steps that move to another phase and change nothing else.
Moves == OpenRefused \/ OpenRecorder \/ StreamDone \/ ChunksDone \/ PostRefused \/ FinishDirect
LEMMA MovesStep ==
  ASSUME IInv, Moves
  PROVE  IInv'
<1>1. /\ UNCHANGED <<cfg, batch, res, rec, sink, todo, parts, out, temps, pre, graph, open, rows, fault, run, old>>
  BY DEF Moves, OpenRefused, OpenRecorder, StreamDone, ChunksDone, PostRefused, FinishDirect, Refuse,
         stream, reduce, disk, fixed
<1>2. \/ pc = "open" /\ pc' = "err" /\ (cfg.clash \/ BadHint)
      \/ pc = "open" /\ pc' = "stream" /\ HasRecorder
      \/ pc = "stream" /\ pc' = "epilogue" /\ MetadataOnly
      \/ pc = "stream" /\ pc' = "resident" /\ Resident = NumPoints
      \/ pc = "stream" /\ pc' = "finish_sink"
      \/ pc = "chunk" /\ pc' = "replay" /\ todo = <<>>
      \/ pc = "post" /\ pc' = "err" /\ cfg.mode # "direct" /\ BadHint
      \/ pc = "post" /\ pc' = "finish" /\ cfg.mode = "direct"
  BY DEF Moves, OpenRefused, OpenRecorder, StreamDone, ChunksDone, PostRefused, FinishDirect, Refuse
<1>3. /\ Resident' = Resident /\ MetadataOnly' = MetadataOnly /\ HasRecorder' = HasRecorder
      /\ BadHint' = BadHint /\ Edges' = Edges
  BY <1>1, SameConfig
<1>4. ConfigInv' /\ StreamInv'
  BY <1>1, <1>2, <1>3 DEF IInv, ConfigInv, StreamInv, Phases
<1>5. SinkInv'
  <2>1. NumPoints \in Nat
    BY SpillAssumption
  <2> QED BY <1>1, <1>2, <1>3, <2>1 DEF IInv, SinkInv, Building, Reducing
<1>6. QueueInv'
  BY <1>1, <1>2, <1>3 DEF IInv, QueueInv, Reducing, TodoOK, PartsOK
<1>7. OutInv'
  BY <1>1, <1>2, <1>3 DEF IInv, OutInv, Reducing, Streaming
<1>8. PreInv' /\ GraphInv' /\ NoSpuriousError' /\ RefusedKeepsGraph'
  BY <1>1, <1>2, <1>3 DEF IInv, PreInv, GraphInv, NoSpuriousError, RefusedKeepsGraph, Building, HasRecorder, MetadataOnly, PreType
<1> QED BY <1>4, <1>5, <1>6, <1>7, <1>8 DEF IInv

\* Steps that open the output of the build.
LEMMA OpensStep ==
  ASSUME IInv, OpenDirect \/ OpenFinal
  PROVE  IInv'
<1>1. UNCHANGED <<cfg, batch, res, rec, sink, todo, parts, out, temps, rows, fault, run, old>>
  BY DEF OpenDirect, OpenFinal, stream, reduce, fixed
<1>2. pc = "open" /\ pc' = "stream" /\ open' \in BOOLEAN
  BY DEF OpenDirect, OpenFinal, IInv, ConfigInv
<1>3. \/ cfg.mode = "direct"
      \/ cfg.mode = "final" /\ graph' = graph /\ pre' \in PreType
  <2>1. CASE OpenDirect
    BY <2>1 DEF OpenDirect
  <2>2. CASE OpenFinal
    <3>1. cfg.mode = "final" /\ graph' = graph /\ pre' = [k \in 1..NumPoints |-> <<>>]
      BY <2>2 DEF OpenFinal, FixedCreate
    <3>2. <<>> \in {r \in Seq(Points) : Len(r) <= MaxDegree}
      <4>1. <<>> \in Seq(Points) /\ Len(<<>>) = 0
        OBVIOUS
      <4> QED BY <4>1, GraphBuildAssumption
    <3> DEFINE R == {r \in Seq(Points) : Len(r) <= MaxDegree}
    <3> HIDE DEF R
    <3>3. pre' \in [1..NumPoints -> R]
      BY <3>1, <3>2 DEF R
    <3> QED BY <3>1, <3>3 DEF PreType, R
  <2> QED BY <2>1, <2>2
<1>4. /\ Resident' = Resident /\ MetadataOnly' = MetadataOnly /\ HasRecorder' = HasRecorder
      /\ BadHint' = BadHint /\ Edges' = Edges
  BY <1>1, SameConfig
<1>5. ConfigInv' /\ StreamInv'
  BY <1>1, <1>2, <1>4 DEF IInv, ConfigInv, StreamInv, Phases
<1>6. SinkInv'
  BY <1>1, <1>2, <1>4 DEF IInv, SinkInv, Building, Reducing
<1>7. QueueInv' /\ OutInv'
  BY <1>1, <1>2, <1>4 DEF IInv, QueueInv, OutInv, Reducing, Streaming
<1>8. PreInv' /\ GraphInv' /\ NoSpuriousError' /\ RefusedKeepsGraph'
  BY <1>1, <1>2, <1>3, <1>4 DEF IInv, PreInv, GraphInv, NoSpuriousError, RefusedKeepsGraph, Building, PreType
<1> QED BY <1>5, <1>6, <1>7, <1>8 DEF IInv

\* Candidates of a batch are appended to the rows of points.
Appended(f, es, I) == [p \in Points |-> f[p] \o At(es, I[p])]
LEMMA AppendRows ==
  ASSUME NEW f \in [Points -> Seq(Edge)], NEW es \in Seq(Edge), NEW I \in [Points -> SUBSET DOMAIN es]
  PROVE  Appended(f, es, I) \in [Points -> Seq(Edge)]
<1>1. ASSUME NEW p \in Points PROVE f[p] \o At(es, I[p]) \in Seq(Edge)
  <2>1. I[p] \in SUBSET DOMAIN es /\ f[p] \in Seq(Edge)
    OBVIOUS
  <2>2. At(es, I[p]) \in Seq(Edge)
    BY <2>1, AtFacts
  <2> QED BY <2>1, <2>2, ConcatProperties
<1> QED BY <1>1 DEF Appended

\* A leaf flushes a batch: to the recorder, the reservoirs or the spill sink.
LEMMA FlushesStep ==
  ASSUME IInv, NEW b \in DOMAIN batch, Record(b) \/ InsertResident(b) \/ FlushSpill(b)
  PROVE  IInv'
<1> DEFINE es == Edges[b]
<1>1. UNCHANGED <<cfg, pc, todo, parts, out, temps, pre, graph, open, rows, fault, run, old>> /\ pc = "stream"
  BY DEF Record, InsertResident, FlushSpill, reduce, disk, fixed
<1>2. /\ batch \in [DOMAIN Edges -> {"todo", "recorded", "inserted", "done"}]
      /\ res \in [Points -> Seq(Edge)] /\ rec \in [Points -> Seq(Edge)]
      /\ cfg \in Configs /\ sink \in GoodSinks
  BY <1>1 DEF IInv, StreamInv, ConfigInv, SinkInv, Building
<1>3. es \in Seq(Edge)
  <2>1. cfg.leaves \in DOMAIN Leaves
    BY <1>2, GraphBuildAssumption
  <2>2. Edges \in Seq(Seq(Edge)) /\ b \in DOMAIN Edges
    BY <1>2, <2>1, GraphBuildAssumption DEF Edges
  <2> QED BY <2>2
<1>4. /\ Resident' = Resident /\ MetadataOnly' = MetadataOnly /\ HasRecorder' = HasRecorder
      /\ BadHint' = BadHint /\ Edges' = Edges
  BY <1>1, SameConfig
<1>5. batch' \in [DOMAIN Edges -> {"todo", "recorded", "inserted", "done"}]
  BY <1>2 DEF Record, InsertResident, FlushSpill
<1>6. rec' \in [Points -> Seq(Edge)]
  <2>1. CASE Record(b)
    <3> DEFINE I == [p \in Points |-> {i \in DOMAIN es : es[i].p = p}]
    <3>1. I \in [Points -> SUBSET DOMAIN es]
      OBVIOUS
    <3>2. rec' = rec \/ rec' = Appended(rec, es, I)
      BY <2>1 DEF Record, Appended
    <3> HIDE DEF I, es
    <3> QED BY <1>2, <1>3, <3>1, <3>2, AppendRows
  <2>2. CASE ~Record(b)
    BY <1>2, <2>2 DEF InsertResident, FlushSpill
  <2> QED BY <2>1, <2>2
<1>7. res' \in [Points -> Seq(Edge)]
  <2>1. CASE InsertResident(b)
    <3> DEFINE I == [p \in Points |-> {i \in DOMAIN es : es[i].p = p /\ IsResident(es[i])}]
    <3>1. I \in [Points -> SUBSET DOMAIN es]
      OBVIOUS
    <3>2. res' = Appended(res, es, I)
      BY <2>1 DEF InsertResident, Appended
    <3> HIDE DEF I, es
    <3> QED BY <1>2, <1>3, <3>1, <3>2, AppendRows
  <2>2. CASE ~InsertResident(b)
    BY <1>2, <2>2 DEF Record, FlushSpill
  <2> QED BY <2>1, <2>2
<1>8. sink' \in GoodSinks
  <2>1. CASE FlushSpill(b)
    <3> DEFINE I == {i \in DOMAIN es : ~IsResident(es[i])}
    <3>1. I \in SUBSET DOMAIN es
      OBVIOUS
    <3>2. sink' = SinkFlush(sink, At(es, I))
      BY <2>1 DEF FlushSpill, Spilled
    <3> HIDE DEF I, es
    <3>3. At(es, I) \in Seq(Edge)
      BY <1>3, <3>1, AtFacts
    <3> DEFINE t == At(es, I)
    <3> HIDE DEF t
    <3>4. SinkFlush(sink, t) \in GoodSinks
      BY <1>2, <3>3, SinkFlushFacts DEF t
    <3> QED BY <3>2, <3>4 DEF t
  <2>2. CASE ~FlushSpill(b)
    BY <1>2, <2>2 DEF Record, InsertResident
  <2> QED BY <2>1, <2>2
<1>9. Shape(sink') /\ FilesOK(sink'.files)
  BY <1>8, SinkFields DEF FieldTypes, SinkOK, FilesOK
<1>10. ConfigInv' /\ StreamInv'
  BY <1>1, <1>4, <1>5, <1>6, <1>7 DEF IInv, ConfigInv, StreamInv, Phases
<1>11. SinkInv'
  BY <1>1, <1>4, <1>8, <1>9 DEF SinkInv, Building, Reducing
<1>12. QueueInv' /\ OutInv'
  BY <1>1, <1>4 DEF IInv, QueueInv, OutInv, Reducing, Streaming
<1>13. PreInv' /\ GraphInv' /\ NoSpuriousError' /\ RefusedKeepsGraph'
  BY <1>1, <1>4 DEF IInv, PreInv, GraphInv, NoSpuriousError, RefusedKeepsGraph, Building, PreType
<1> QED BY <1>10, <1>11, <1>12, <1>13 DEF IInv

\* The sink is flushed and closed.
LEMMA FinishSinkStep ==
  ASSUME IInv, FinishSink
  PROVE  IInv'
<1>1. /\ UNCHANGED <<cfg, batch, res, rec, todo, parts, out, temps, pre, graph, open, rows, fault, run, old>>
      /\ pc = "finish_sink" /\ pc' = "resident" /\ sink' = SinkFinish(sink)
  BY DEF FinishSink, reduce, disk, fixed
<1>2. sink \in GoodSinks
  BY <1>1 DEF IInv, SinkInv, Building
<1>3. sink' \in GoodSinks /\ Closed(sink')
  BY <1>1, <1>2, SinkFinishFacts
<1>4. Shape(sink') /\ FilesOK(sink'.files)
  BY <1>3, SinkFields DEF FieldTypes, SinkOK, FilesOK
<1>5. /\ Resident' = Resident /\ MetadataOnly' = MetadataOnly /\ HasRecorder' = HasRecorder
      /\ BadHint' = BadHint /\ Edges' = Edges
  BY <1>1, SameConfig
<1>6. ConfigInv' /\ StreamInv'
  BY <1>1, <1>5 DEF IInv, ConfigInv, StreamInv, Phases
<1>7. SinkInv'
  BY <1>1, <1>3, <1>4, <1>5 DEF SinkInv, Building, Reducing
<1>8. QueueInv' /\ OutInv'
  BY <1>1, <1>5 DEF IInv, QueueInv, OutInv, Reducing, Streaming
<1>9. PreInv' /\ GraphInv' /\ NoSpuriousError' /\ RefusedKeepsGraph'
  BY <1>1, <1>5 DEF IInv, PreInv, GraphInv, NoSpuriousError, RefusedKeepsGraph, Building, PreType
<1> QED BY <1>6, <1>7, <1>8, <1>9 DEF IInv

\* The steps that deliver rows: what they keep.
Delivers(n, q) ==
  /\ Delivered(n, q) /\ n <= NumPoints
  /\ UNCHANGED <<cfg, batch, res, rec, sink, fault, run, old>> /\ temps' \subseteq temps
LEMMA DeliversStep ==
  ASSUME IInv, NEW n, NEW q, Delivers(n, q), Building,
         q \in {"plan", "serial", "replay", "epilogue"},
         q = "plan" => pc = "resident" /\ parts' = <<>> /\ n = Resident /\ Resident < NumPoints,
         q \in {"serial", "replay"} => Reducing,
         q = "epilogue" => n = NumPoints,
         QueueInv'
  PROVE  IInv'
<1>1. /\ UNCHANGED <<cfg, batch, res, rec, sink, fault, run, old, open>> /\ temps' \subseteq temps /\ pc' = q
      /\ RowsFrom(0, out') /\ Len(out') = n /\ n <= NumPoints
      /\ (cfg.mode = "final" => pre' \in PreType) /\ (cfg.mode # "direct" => graph' = graph)
  BY DEF Delivers, Delivered
<1>2. /\ Resident' = Resident /\ MetadataOnly' = MetadataOnly /\ HasRecorder' = HasRecorder
      /\ BadHint' = BadHint /\ Edges' = Edges
  BY <1>1, SameConfig
<1>3. ConfigInv' /\ StreamInv'
  BY <1>1, <1>2 DEF IInv, ConfigInv, StreamInv, Phases
<1>4. SinkInv'
  BY <1>1, <1>2 DEF IInv, SinkInv, Building, Reducing
<1>5. OutInv'
  <2>1. Reducing => Resident < NumPoints
    BY DEF IInv, OutInv
  <2>2. (RowsFrom(0, out))' /\ (Len(out) <= NumPoints)'
    BY <1>1 DEF RowsFrom, Row
  <2> QED BY <1>1, <1>2, <2>1, <2>2 DEF OutInv, Streaming, Reducing
<1>6. PreInv' /\ GraphInv' /\ NoSpuriousError' /\ RefusedKeepsGraph'
  BY <1>1, <1>2 DEF IInv, PreInv, GraphInv, NoSpuriousError, RefusedKeepsGraph, Building, PreType
<1> QED BY <1>3, <1>4, <1>5, <1>6 DEF IInv

LEMMA EmitResidentStep ==
  ASSUME IInv, EmitResident
  PROVE  IInv'
<1> DEFINE q == IF Resident = NumPoints THEN "epilogue" ELSE "plan"
<1>1. Resident \in Nat /\ Resident <= NumPoints /\ NumPoints \in Nat /\ parts = <<>>
  <2>1. cfg \in Configs /\ parts = <<>>
    BY DEF IInv, ConfigInv, OutInv, Streaming, EmitResident
  <2> QED BY <2>1, ResidentFacts, SpillAssumption
<1>2. UNCHANGED <<cfg, batch, res, rec, sink, fault, run, old, parts, temps>> /\ pc = "resident"
  BY DEF EmitResident, stream, fixed
<1>3. Delivers(Resident, q)
  <2>1. Delivered(Resident, q)
    BY EmitResidentFacts
  <2> HIDE DEF q
  <2> QED BY <1>1, <1>2, <2>1 DEF Delivers
<1>4. QueueInv' /\ Building
  <2>1. pc' = q
    BY <1>3 DEF Delivers, Delivered
  <2> QED BY <1>2, <2>1 DEF QueueInv, Reducing, Building
<1>5. /\ q \in {"plan", "serial", "replay", "epilogue"}
      /\ q = "plan" => pc = "resident" /\ parts' = <<>> /\ Resident = Resident /\ Resident < NumPoints
      /\ q \in {"serial", "replay"} => Reducing
      /\ q = "epilogue" => Resident = NumPoints
  BY <1>1, <1>2
<1> HIDE DEF q
<1> QED BY <1>3, <1>4, <1>5, DeliversStep

LEMMA PlanReduceStep ==
  ASSUME IInv, PlanReduce
  PROVE  IInv'
<1> DEFINE groups == Groups(sink)
           a == ActiveGroups(groups.val, Resident)
<1>1. UNCHANGED <<cfg, batch, res, rec, sink, parts, out, temps, pre, graph, open, rows, fault, run, old>> /\ pc = "plan"
  BY DEF PlanReduce, stream, disk, fixed
<1>2. /\ sink \in GoodSinks /\ Closed(sink) /\ cfg \in Configs /\ Resident < NumPoints
      /\ parts = <<>> /\ Len(out) = Resident
  BY <1>1 DEF IInv, SinkInv, OutInv, ConfigInv, Building
<1>3. /\ groups.ok /\ Len(a) \in Nat /\ a = [i \in 1..Len(a) |-> a[i]]
      /\ \A i \in 1..Len(a) : GroupOK(a[i])
      /\ \A i, j \in 1..Len(a) : i < j => a[i].hi <= a[j].lo
  BY <1>2, GroupsFacts
<1>4. todo' = a /\ pc' = IF Len(a) <= 1 \/ cfg.par <= 1 THEN "serial" ELSE "chunk"
  BY <1>3 DEF PlanReduce
<1> HIDE DEF a, groups
<1>5. Resident \in Nat
  BY <1>2, ResidentFacts
<1>6. TodoFrom(sink, Resident, a, Len(out))
  <2>1. ASSUME NEW i \in 1..Len(a) PROVE GroupIn(sink, Resident, a[i]) /\ Len(out) <= GroupStart(a[i], Resident)
    <3>1. GroupIn(sink, Resident, a[i])
      BY <1>3 DEF GroupOK
    <3>2. Resident <= GroupStart(a[i], Resident)
      BY <1>5, <3>1, StartBounds
    <3> QED BY <1>2, <3>1, <3>2
  <2> QED BY <1>3, <2>1 DEF TodoFrom, List
<1>7. PartsFrom(parts, Len(out)) /\ Before(parts, a, Resident)
  <2>1. Len(parts) = 0 /\ parts = [i \in 1..0 |-> parts[i]] /\ 1..0 = {}
    BY <1>2
  <2>2. List(parts) /\ \A i \in 1..Len(parts) : FALSE
    BY <2>1 DEF List
  <2> QED BY <2>2 DEF PartsFrom, Before
<1>8. cfg.par \in Nat
  BY <1>2, GraphBuildAssumption
<1>9. pc' \in {"serial", "chunk"} /\ (pc' = "chunk" => cfg.par > 1)
  BY <1>4, <1>8
<1>10. /\ Resident' = Resident /\ MetadataOnly' = MetadataOnly /\ HasRecorder' = HasRecorder
       /\ BadHint' = BadHint /\ Edges' = Edges
  BY <1>1, SameConfig
<1>11. ConfigInv' /\ StreamInv'
  BY <1>1, <1>9, <1>10 DEF IInv, ConfigInv, StreamInv, Phases
<1>12. SinkInv'
  BY <1>1, <1>2, <1>9, <1>10 DEF IInv, SinkInv, Building, Reducing
<1>13. QueueInv'
  <2>1. TodoFrom(sink', Resident', todo', Len(out')) /\ PartsFrom(parts', Len(out')) /\ Before(parts', todo', Resident')
    BY <1>1, <1>4, <1>6, <1>7, <1>10
  <2>2. TodoOK' /\ PartsOK' /\ Before(parts, todo, Resident)'
    BY <2>1 DEF TodoOK, PartsOK
  <2> QED BY <1>1, <1>2, <1>9, <2>2 DEF QueueInv
<1>14. OutInv'
  BY <1>1, <1>2, <1>9, <1>10 DEF IInv, OutInv, Reducing, Streaming
<1>15. PreInv' /\ GraphInv' /\ NoSpuriousError' /\ RefusedKeepsGraph'
  BY <1>1, <1>9, <1>10 DEF IInv, PreInv, GraphInv, NoSpuriousError, RefusedKeepsGraph, Building, PreType
<1> QED BY <1>11, <1>12, <1>13, <1>14, <1>15 DEF IInv

LEMMA ReduceSerialStep ==
  ASSUME IInv, ReduceSerial
  PROVE  IInv'
<1> DEFINE n == todo[1].hi
<1>1. UNCHANGED <<cfg, batch, res, rec, sink, fault, run, old, parts, temps>> /\ pc = "serial" /\ todo # <<>>
  BY DEF ReduceSerial, stream, fixed
<1>2. Delivered(n, "serial") /\ todo' = Tail(todo) /\ GroupOK(todo[1])
  BY ReduceSerialFacts
<1>3. n \in Nat /\ n <= NumPoints
  BY <1>2 DEF GroupOK, GroupIn
<1>4. TodoFrom(sink, Resident, todo, Len(out)) /\ parts = <<>> /\ cfg \in Configs
  BY <1>1 DEF IInv, QueueInv, TodoOK, Reducing, ConfigInv
<1>5. Resident \in Nat
  BY <1>4, ResidentFacts
<1>6. TodoFrom(sink, Resident, todo', n)
  BY <1>1, <1>2, <1>4, <1>5, TodoTail
<1> HIDE DEF n
<1>7. Delivers(n, "serial")
  BY <1>1, <1>2, <1>3 DEF Delivers
<1>8. pc' = "serial" /\ Len(out') = n
  BY <1>2 DEF Delivered
<1>9. Resident' = Resident
  BY <1>1, SameConfig
<1>10. QueueInv'
  <2>1. List(parts') /\ \A i \in 1..Len(parts') : FALSE
    <3>1. Len(parts') = 0 /\ parts' = [i \in 1..0 |-> parts'[i]] /\ 1..0 = {}
      BY <1>1, <1>4
    <3> QED BY <3>1 DEF List
  <2>2. PartsFrom(parts', Len(out')) /\ Before(parts', todo', Resident')
    BY <2>1 DEF PartsFrom, Before
  <2>3. TodoFrom(sink', Resident', todo', Len(out'))
    BY <1>1, <1>6, <1>8, <1>9
  <2>4. TodoOK' /\ PartsOK' /\ Before(parts, todo, Resident)'
    BY <2>2, <2>3 DEF TodoOK, PartsOK
  <2> QED BY <1>1, <1>4, <1>8, <2>4 DEF QueueInv
<1>11. Building /\ Reducing
  BY <1>1 DEF Building, Reducing
<1> DEFINE q == "serial"
<1>12. /\ q \in {"plan", "serial", "replay", "epilogue"}
       /\ q = "plan" => pc = "resident" /\ parts' = <<>> /\ n = Resident /\ Resident < NumPoints
       /\ q \in {"serial", "replay"} => Reducing
       /\ q = "epilogue" => n = NumPoints
       /\ Delivers(n, q)
  BY <1>7, <1>11
<1> HIDE DEF q
<1> QED BY <1>10, <1>11, <1>12, DeliversStep

LEMMA ReduceChunkStep ==
  ASSUME IInv, ReduceChunk
  PROVE  IInv'
<1>1. /\ UNCHANGED <<cfg, batch, res, rec, sink, out, pre, graph, open, rows, run, old>> /\ pc = "chunk"
  BY DEF ReduceChunk, stream
<1>2. /\ pc' \in {"chunk", "err"} /\ fault' \in BOOLEAN /\ (pc' = "err" => fault')
      /\ TodoFrom(sink, Resident, todo', Len(out))
      /\ pc' = "chunk" => PartsFrom(parts', Len(out)) /\ Before(parts', todo', Resident)
      /\ \A t \in temps' : t[1] \in 1..run /\ t[2] \in Points
  BY ReduceChunkFacts
<1>3. /\ Resident' = Resident /\ MetadataOnly' = MetadataOnly /\ HasRecorder' = HasRecorder
      /\ BadHint' = BadHint /\ Edges' = Edges
  BY <1>1, SameConfig
<1>4. ConfigInv' /\ StreamInv'
  BY <1>1, <1>2, <1>3 DEF IInv, ConfigInv, StreamInv, Phases
<1>5. SinkInv'
  BY <1>1, <1>2, <1>3 DEF IInv, SinkInv, Building, Reducing
<1>6. QueueInv'
  <2>1. CASE pc' = "err"
    BY <2>1 DEF QueueInv, Reducing
  <2>2. CASE pc' = "chunk"
    <3>1. /\ TodoFrom(sink', Resident', todo', Len(out')) /\ PartsFrom(parts', Len(out'))
          /\ Before(parts', todo', Resident')
      BY <1>1, <1>2, <1>3, <2>2
    <3>2. TodoOK' /\ PartsOK' /\ Before(parts, todo, Resident)'
      BY <3>1 DEF TodoOK, PartsOK
    <3>3. cfg'.par > 1
      BY <1>1 DEF IInv, QueueInv, Reducing
    <3> QED BY <2>2, <3>2, <3>3 DEF QueueInv
  <2> QED BY <1>2, <2>1, <2>2
<1>7. OutInv'
  BY <1>1, <1>2, <1>3 DEF IInv, OutInv, Reducing, Streaming
<1>8. PreInv' /\ GraphInv' /\ NoSpuriousError' /\ RefusedKeepsGraph'
  BY <1>1, <1>2, <1>3 DEF IInv, PreInv, GraphInv, NoSpuriousError, RefusedKeepsGraph, Building, PreType
<1> QED BY <1>4, <1>5, <1>6, <1>7, <1>8 DEF IInv

LEMMA ReplayStep ==
  ASSUME IInv, Replay
  PROVE  IInv'
<1> DEFINE n == parts[1].hi
<1>1. /\ UNCHANGED <<cfg, batch, res, rec, sink, fault, run, old, todo>> /\ pc = "replay" /\ parts # <<>>
      /\ parts' = Tail(parts) /\ temps' \subseteq temps
  BY DEF Replay, stream, fixed
<1>2. Delivered(n, "replay") /\ PartOK(parts[1])
  BY ReplayFacts
<1>3. n \in Nat /\ n <= NumPoints
  BY <1>2 DEF PartOK
<1>4. PartsFrom(parts, Len(out)) /\ todo = <<>>
  BY <1>1 DEF IInv, QueueInv, PartsOK, Reducing
<1>5. PartsFrom(parts', n)
  BY <1>1, <1>4, PartsTail
<1> HIDE DEF n
<1>6. Delivers(n, "replay")
  BY <1>1, <1>2, <1>3 DEF Delivers
<1>7. pc' = "replay" /\ Len(out') = n
  BY <1>2 DEF Delivered
<1>8. QueueInv'
  <2>1. List(todo') /\ \A i \in 1..Len(todo') : FALSE
    <3>1. Len(todo') = 0 /\ todo' = [i \in 1..0 |-> todo'[i]] /\ 1..0 = {}
      BY <1>1, <1>4
    <3> QED BY <3>1 DEF List
  <2>2. TodoFrom(sink', Resident', todo', Len(out')) /\ Before(parts', todo', Resident')
    BY <2>1 DEF TodoFrom, Before
  <2>3. PartsFrom(parts', Len(out'))
    BY <1>5, <1>7
  <2>4. TodoOK' /\ PartsOK' /\ Before(parts, todo, Resident)'
    BY <2>2, <2>3 DEF TodoOK, PartsOK
  <2> QED BY <1>1, <1>4, <1>7, <2>4 DEF QueueInv
<1>9. Building /\ Reducing
  BY <1>1 DEF Building, Reducing
<1> DEFINE q == "replay"
<1>10. /\ q \in {"plan", "serial", "replay", "epilogue"}
       /\ q = "plan" => pc = "resident" /\ parts' = <<>> /\ n = Resident /\ Resident < NumPoints
       /\ q \in {"serial", "replay"} => Reducing
       /\ q = "epilogue" => n = NumPoints
       /\ Delivers(n, q)
  BY <1>6, <1>9
<1> HIDE DEF q
<1> QED BY <1>8, <1>9, <1>10, DeliversStep

LEMMA EmitTailStep ==
  ASSUME IInv, EmitTail
  PROVE  IInv'
<1> DEFINE q == "epilogue"
           n == NumPoints
<1>1. UNCHANGED <<cfg, batch, res, rec, sink, fault, run, old, temps>> /\ pc \in {"serial", "replay"}
  BY DEF EmitTail, stream, fixed
<1>2. Delivered(n, q) /\ NumPoints \in Nat
  BY EmitTailFacts, SpillAssumption
<1>3. Delivers(n, q)
  BY <1>1, <1>2 DEF Delivers
<1>4. QueueInv' /\ Building
  <2>1. pc' = "epilogue"
    BY <1>2 DEF Delivered
  <2> QED BY <1>1, <2>1 DEF QueueInv, Reducing, Building
<1>5. /\ q \in {"plan", "serial", "replay", "epilogue"}
      /\ q = "plan" => pc = "resident" /\ parts' = <<>> /\ n = Resident /\ Resident < NumPoints
      /\ q \in {"serial", "replay"} => Reducing
      /\ q = "epilogue" => n = NumPoints
  OBVIOUS
<1> HIDE DEF q, n
<1> QED BY <1>3, <1>4, <1>5, DeliversStep

\* An empty disk.
LEMMA NoFiles ==
  FilesOK(<<>>)
<1> DEFINE f == <<>>
<1>1. DOMAIN f = {} /\ f = [k \in DOMAIN f |-> f[k]]
  OBVIOUS
<1> HIDE DEF f
<1>2. f \in FileMap
  BY <1>1, FileMapFacts
<1>3. FilesOK(f)
  BY <1>1, <1>2 DEF FilesOK
<1> QED BY <1>3 DEF f

\* The candidate files are removed.
LEMMA EpilogueStep ==
  ASSUME IInv, Epilogue
  PROVE  IInv'
<1>1. /\ UNCHANGED <<cfg, batch, res, rec, todo, parts, out, temps, pre, graph, open, rows, fault, run, old>>
      /\ pc = "epilogue" /\ pc' = "post"
  BY DEF Epilogue, reduce, disk, fixed
<1>2. Shape(sink) /\ FilesOK(sink.files)
  BY DEF IInv, SinkInv
<1>3. Shape(sink') /\ (sink'.files = sink.files \/ sink'.files = <<>>)
  BY <1>2 DEF Epilogue, Shape
<1>4. FilesOK(<<>>)
  BY NoFiles
<1>5. FilesOK(sink'.files)
  BY <1>2, <1>3, <1>4
<1>6. /\ Resident' = Resident /\ MetadataOnly' = MetadataOnly /\ HasRecorder' = HasRecorder
      /\ BadHint' = BadHint /\ Edges' = Edges
  BY <1>1, SameConfig
<1>7. ConfigInv' /\ StreamInv'
  BY <1>1, <1>6 DEF IInv, ConfigInv, StreamInv, Phases
<1>8. SinkInv'
  BY <1>1, <1>3, <1>5, <1>6 DEF SinkInv, Building, Reducing
<1>9. QueueInv' /\ OutInv'
  BY <1>1, <1>6 DEF IInv, QueueInv, OutInv, Reducing, Streaming
<1>10. PreInv' /\ GraphInv' /\ NoSpuriousError' /\ RefusedKeepsGraph'
  BY <1>1, <1>6 DEF IInv, PreInv, GraphInv, NoSpuriousError, RefusedKeepsGraph, Building, PreType
<1> QED BY <1>7, <1>8, <1>9, <1>10 DEF IInv

\* Steps into the writing of the graph file, within it, and into the end of the run.
Late ==
  /\ UNCHANGED <<cfg, batch, res, rec, sink, run, old>> /\ temps' \subseteq temps
  /\ pc' \in {"write", "finish", "remove", "flush", "done", "err"} /\ (pc' = "err" => fault')
  /\ fault' \in BOOLEAN /\ open' \in BOOLEAN
  /\ RowsFrom(0, out') /\ Len(out') <= NumPoints
LEMMA LateStep ==
  ASSUME IInv, Late
  PROVE  IInv'
<1>1. /\ UNCHANGED <<cfg, batch, res, rec, sink, run, old>> /\ temps' \subseteq temps
      /\ pc' \in {"write", "finish", "remove", "flush", "done", "err"} /\ (pc' = "err" => fault')
      /\ fault' \in BOOLEAN /\ open' \in BOOLEAN
      /\ RowsFrom(0, out') /\ Len(out') <= NumPoints
  BY DEF Late
<1>2. /\ Resident' = Resident /\ MetadataOnly' = MetadataOnly /\ HasRecorder' = HasRecorder
      /\ BadHint' = BadHint /\ Edges' = Edges
  BY <1>1, SameConfig
<1>3. ConfigInv' /\ StreamInv'
  BY <1>1, <1>2 DEF IInv, ConfigInv, StreamInv, Phases
<1>4. SinkInv'
  BY <1>1, <1>2 DEF IInv, SinkInv, Building, Reducing
<1>5. QueueInv' /\ OutInv'
  BY <1>1, <1>2 DEF QueueInv, OutInv, Reducing, Streaming
<1>6. PreInv' /\ GraphInv' /\ NoSpuriousError' /\ RefusedKeepsGraph'
  BY <1>1, <1>2 DEF PreInv, GraphInv, NoSpuriousError, RefusedKeepsGraph, Building, PreType
<1> QED BY <1>3, <1>4, <1>5, <1>6 DEF IInv

LEMMA FailuresStep ==
  ASSUME IInv, ReplayFails \/ IoError
  PROVE  IInv'
<1>1. /\ UNCHANGED <<cfg, batch, res, rec, sink, run, old, open, out>> /\ temps' \subseteq temps
      /\ pc' = "err" /\ fault' = TRUE
  BY DEF ReplayFails, IoError, stream, reduce, disk
<1>2. open \in BOOLEAN /\ RowsFrom(0, out) /\ Len(out) <= NumPoints
  BY DEF IInv, ConfigInv, OutInv
<1>3. Late
  BY <1>1, <1>2 DEF Late
<1> QED BY <1>3, LateStep

\* The pre-prune file that the run wrote loads.
LEMMA PostFinalStep ==
  ASSUME IInv, PostFinal
  PROVE  IInv'
<1> DEFINE loaded == FixedLoad(pre, NumPoints, MaxDegree)
<1>1. UNCHANGED <<cfg, batch, res, rec, sink, run, old, temps, out, fault>> /\ pc = "post" /\ cfg.mode = "final"
  BY DEF PostFinal, stream, reduce, fixed
<1>2. pre \in PreType /\ NumPoints \in Nat /\ MaxDegree \in Nat
  BY <1>1, SpillAssumption, GraphBuildAssumption DEF IInv, PreInv
<1>3. loaded.ok
  <2>1. Len(pre) = NumPoints
    <3>1. DOMAIN pre = 1..NumPoints /\ pre \in [1..NumPoints -> Seq(Points)]
      BY <1>2 DEF PreType
    <3> QED BY <1>2, <3>1
  <2>2. ASSUME NEW k \in 1..NumPoints PROVE ~(Len(pre[k]) > MaxDegree)
    <3>1. pre[k] \in Seq(Points) /\ Len(pre[k]) <= MaxDegree
      BY <1>2 DEF PreType
    <3>2. Len(pre[k]) \in Nat
      BY <3>1
    <3> QED BY <1>2, <3>1, <3>2
  <2>3. ~(Len(pre) < NumPoints)
    BY <1>2, <2>1
  <2> QED BY <2>2, <2>3 DEF FixedLoad
<1>4. pc' = "write" /\ open' = TRUE
  BY <1>3 DEF PostFinal, BeginWrite
<1>5. fault \in BOOLEAN /\ RowsFrom(0, out) /\ Len(out) <= NumPoints
  BY DEF IInv, ConfigInv, OutInv
<1>6. Late
  BY <1>1, <1>4, <1>5 DEF Late
<1> QED BY <1>6, LateStep

\* Every row of the base graph was delivered.
LEMMA PostBaseStep ==
  ASSUME IInv, PostSpine \/ PostOracle
  PROVE  IInv'
<1>1. /\ UNCHANGED <<cfg, batch, res, rec, sink, run, old, temps, out, fault>> /\ pc = "post"
      /\ cfg.mode \in {"spine", "oracle"}
  BY DEF PostSpine, PostOracle, stream, reduce, fixed
<1>2. Len(out) = NumPoints
  BY <1>1 DEF IInv, OutInv, MetadataOnly
<1>3. pc' = "write" /\ open' = TRUE
  BY <1>2 DEF PostSpine, PostOracle, WriteOverBase, BeginWrite
<1>4. fault \in BOOLEAN /\ RowsFrom(0, out) /\ Len(out) <= NumPoints
  BY DEF IInv, ConfigInv, OutInv
<1>5. Late
  BY <1>1, <1>3, <1>4 DEF Late
<1> QED BY <1>5, LateStep

LEMMA PostLuneStep ==
  ASSUME IInv, PostLuneMemory \/ PostLuneSpill
  PROVE  IInv'
<1>1. /\ UNCHANGED <<cfg, batch, res, rec, sink, run, old, temps, fault>> /\ out' = RecordedRows
      /\ pc' \in {"write", "flush"} /\ open' = TRUE
  BY DEF PostLuneMemory, PostLuneSpill, BeginWrite, stream, fixed
<1>2. RowsFrom(0, out') /\ Len(out') = NumPoints /\ NumPoints \in Nat
  BY <1>1, RecordedFacts, SpillAssumption
<1>3. fault \in BOOLEAN /\ Len(out') <= NumPoints
  BY <1>2 DEF IInv, ConfigInv
<1>4. Late
  BY <1>1, <1>2, <1>3 DEF Late
<1> QED BY <1>4, LateStep

LEMMA EndsStep ==
  ASSUME IInv, WriteRow \/ Finish \/ RemovePre \/ RemovePreFails \/ FlushRaw
  PROVE  IInv'
<1>1. open \in BOOLEAN /\ fault \in BOOLEAN /\ RowsFrom(0, out) /\ Len(out) <= NumPoints
  BY DEF IInv, ConfigInv, OutInv
<1>2. UNCHANGED <<cfg, batch, res, rec, sink, run, old, temps, out>>
  BY DEF WriteRow, Finish, RemovePre, RemovePreFails, FlushRaw, stream, reduce, disk, fixed
<1>3. pc' \in {"write", "finish", "remove", "done"}
  BY DEF WriteRow, Finish, RemovePre, RemovePreFails, FlushRaw
<1>4. fault' \in BOOLEAN /\ open' \in BOOLEAN
  BY <1>1 DEF WriteRow, Finish, RemovePre, RemovePreFails, FlushRaw, disk, fixed
<1>5. Late
  BY <1>1, <1>2, <1>3, <1>4 DEF Late
<1> QED BY <1>5, LateStep

\* A new run over what the last one left on disk.
LEMMA RestartStep ==
  ASSUME IInv, Restart
  PROVE  IInv'
<1>1. PICK c \in Configs : Fresh(c, sink.files)
  BY DEF Restart
<1>2. /\ cfg' = c /\ pc' = "open" /\ batch' = [b \in DOMAIN Leaves[c.leaves] |-> "todo"]
      /\ res' = [p \in Points |-> <<>>] /\ rec' = [p \in Points |-> <<>>] /\ sink' = SinkCreate(sink.files)
      /\ todo' = <<>> /\ parts' = <<>> /\ out' = <<>> /\ open' = FALSE /\ rows' = <<>> /\ fault' = FALSE
  BY <1>1 DEF Fresh
<1>3. run < MaxRuns /\ run' = run + 1 /\ old' = graph' /\ temps' = temps /\ run \in 1..MaxRuns /\ MaxRuns \in Nat
  BY GraphBuildAssumption DEF Restart, IInv, ConfigInv
<1>4. run' \in 1..MaxRuns /\ 1..run \subseteq 1..run'
  BY <1>3
<1>5. ConfigInv'
  <2>1. \A t \in temps' : t[1] \in 1..run' /\ t[2] \in Points
    BY <1>3, <1>4 DEF IInv, ConfigInv
  <2> QED BY <1>2, <1>4, <2>1 DEF ConfigInv, Phases
<1>6. StreamInv'
  <2>1. Edges' = Leaves[c.leaves]
    BY <1>2 DEF Edges
  <2>2. <<>> \in Seq(Edge)
    OBVIOUS
  <2> DEFINE Q == Seq(Edge)
  <2> HIDE DEF Q
  <2>3. res' \in [Points -> Q] /\ rec' \in [Points -> Q]
    BY <1>2, <2>2 DEF Q
  <2> QED BY <1>2, <2>1, <2>3 DEF StreamInv, Q
<1>7. FilesOK(sink.files)
  BY DEF IInv, SinkInv
<1>8. sink' \in GoodSinks
  BY <1>2, <1>7, SinkCreateFacts DEF FilesOK
<1>9. Shape(sink') /\ FilesOK(sink'.files)
  BY <1>8, SinkFields DEF FieldTypes, SinkOK, FilesOK
<1>10. SinkInv'
  BY <1>2, <1>8, <1>9 DEF SinkInv, Building, Reducing
<1>11. QueueInv'
  BY <1>2 DEF QueueInv, Reducing
<1>12. OutInv'
  <2>1. <<>> \in Seq(Row) /\ DOMAIN <<>> = {} /\ Len(<<>>) = 0
    OBVIOUS
  <2>2. RowsFrom(0, out') /\ Len(out') <= NumPoints
    BY <1>2, <2>1, SpillAssumption DEF RowsFrom
  <2> QED BY <1>2, <2>2 DEF OutInv, Streaming, Reducing
<1>13. PreInv' /\ GraphInv' /\ NoSpuriousError' /\ RefusedKeepsGraph'
  BY <1>2, <1>3 DEF PreInv, GraphInv, NoSpuriousError, RefusedKeepsGraph, Building
<1> QED BY <1>5, <1>6, <1>10, <1>11, <1>12, <1>13 DEF IInv

(***************************************************************************)
(* The invariant and the theorems.                                         *)
(***************************************************************************)

LEMMA InitInv ==
  ASSUME Init
  PROVE  IInv
<1>1. /\ cfg \in Configs /\ pc = "open" /\ batch = [b \in DOMAIN Leaves[cfg.leaves] |-> "todo"]
      /\ res = [p \in Points |-> <<>>] /\ rec = [p \in Points |-> <<>>] /\ sink = SinkCreate(<<>>)
      /\ todo = <<>> /\ parts = <<>> /\ out = <<>> /\ temps = {} /\ graph = old
      /\ open = FALSE /\ fault = FALSE /\ run = 1
  BY DEF Init
<1>2. ConfigInv
  <2>1. MaxRuns \in Nat \ {0}
    BY GraphBuildAssumption
  <2>2. run \in 1..MaxRuns
    BY <1>1, <2>1
  <2> QED BY <1>1, <2>2 DEF ConfigInv, Phases
<1>3. StreamInv
  <2>1. Edges = Leaves[cfg.leaves] /\ <<>> \in Seq(Edge)
    BY DEF Edges
  <2> DEFINE Q == Seq(Edge)
  <2> HIDE DEF Q
  <2>2. res \in [Points -> Q] /\ rec \in [Points -> Q]
    BY <1>1, <2>1 DEF Q
  <2> QED BY <1>1, <2>1, <2>2 DEF StreamInv, Q
<1>4. SinkInv
  <2> DEFINE f == <<>>
  <2>1. FilesOK(f) /\ sink = SinkCreate(f)
    BY <1>1, NoFiles
  <2> HIDE DEF f
  <2>2. sink \in GoodSinks
    BY <2>1, SinkCreateFacts DEF FilesOK
  <2>3. Shape(sink) /\ FilesOK(sink.files)
    BY <2>2, SinkFields DEF FieldTypes, SinkOK, FilesOK
  <2> QED BY <1>1, <2>2, <2>3 DEF SinkInv, Building, Reducing
<1>5. QueueInv
  BY <1>1 DEF QueueInv, Reducing
<1>6. OutInv
  <2>1. <<>> \in Seq(Row) /\ DOMAIN <<>> = {} /\ Len(<<>>) = 0
    OBVIOUS
  <2>2. RowsFrom(0, out) /\ Len(out) <= NumPoints
    BY <1>1, <2>1, SpillAssumption DEF RowsFrom
  <2> QED BY <1>1, <2>2 DEF OutInv, Streaming, Reducing
<1>7. PreInv /\ GraphInv /\ NoSpuriousError /\ RefusedKeepsGraph
  BY <1>1 DEF PreInv, GraphInv, NoSpuriousError, RefusedKeepsGraph, Building
<1> QED BY <1>2, <1>3, <1>4, <1>5, <1>6, <1>7 DEF IInv

LEMMA UnchangedStep ==
  ASSUME IInv, UNCHANGED vars
  PROVE  IInv'
<1>1. UNCHANGED <<cfg, pc, batch, res, rec, sink, todo, parts, out, temps, pre, graph, open, rows, fault, run, old>>
  BY DEF vars
<1>2. /\ Resident' = Resident /\ MetadataOnly' = MetadataOnly /\ HasRecorder' = HasRecorder
      /\ BadHint' = BadHint /\ Edges' = Edges
  BY <1>1, SameConfig
<1>3. ConfigInv' /\ StreamInv'
  BY <1>1, <1>2 DEF IInv, ConfigInv, StreamInv, Phases
<1>4. SinkInv'
  BY <1>1, <1>2 DEF IInv, SinkInv, Building, Reducing
<1>5. QueueInv' /\ OutInv'
  BY <1>1, <1>2 DEF IInv, QueueInv, OutInv, Reducing, Streaming, TodoOK, PartsOK
<1>6. PreInv' /\ GraphInv' /\ NoSpuriousError' /\ RefusedKeepsGraph'
  BY <1>1, <1>2 DEF IInv, PreInv, GraphInv, NoSpuriousError, RefusedKeepsGraph, Building, PreType
<1> QED BY <1>3, <1>4, <1>5, <1>6 DEF IInv

\* Every step, also an I/O error, a crash and a restart, keeps the invariant.
LEMMA NextInv ==
  ASSUME IInv, [Next]_vars
  PROVE  IInv'
<1>1. CASE OpenRefused \/ OpenRecorder \/ StreamDone \/ ChunksDone \/ PostRefused \/ FinishDirect
  BY <1>1, MovesStep DEF Moves
<1>2. CASE OpenDirect \/ OpenFinal
  BY <1>2, OpensStep
<1>3. CASE \E b \in DOMAIN batch : Record(b) \/ InsertResident(b) \/ FlushSpill(b)
  BY <1>3, FlushesStep
<1>4. CASE FinishSink
  BY <1>4, FinishSinkStep
<1>5. CASE EmitResident
  BY <1>5, EmitResidentStep
<1>6. CASE PlanReduce
  BY <1>6, PlanReduceStep
<1>7. CASE ReduceSerial
  BY <1>7, ReduceSerialStep
<1>8. CASE ReduceChunk
  BY <1>8, ReduceChunkStep
<1>9. CASE Replay
  BY <1>9, ReplayStep
<1>10. CASE EmitTail
  BY <1>10, EmitTailStep
<1>11. CASE Epilogue
  BY <1>11, EpilogueStep
<1>12. CASE ReplayFails \/ IoError
  BY <1>12, FailuresStep
<1>13. CASE PostFinal
  BY <1>13, PostFinalStep
<1>14. CASE PostSpine \/ PostOracle
  BY <1>14, PostBaseStep
<1>15. CASE PostLuneMemory \/ PostLuneSpill
  BY <1>15, PostLuneStep
<1>16. CASE WriteRow \/ Finish \/ RemovePre \/ RemovePreFails \/ FlushRaw
  BY <1>16, EndsStep
<1>17. CASE Restart
  BY <1>17, RestartStep
<1>18. CASE Stopped \/ UNCHANGED vars
  BY <1>18, UnchangedStep DEF Stopped
<1> QED BY <1>1, <1>2, <1>3, <1>4, <1>5, <1>6, <1>7, <1>8, <1>9, <1>10, <1>11, <1>12, <1>13,
           <1>14, <1>15, <1>16, <1>17, <1>18 DEF Next

LEMMA InvTypeOK ==
  ASSUME IInv
  PROVE  TypeOK
<1>1. ConfigInv /\ StreamInv /\ OutInv
  BY DEF IInv
<1>2. ASSUME NEW k \in DOMAIN out PROVE out[k].vid \in Points
  <2>1. out \in Seq(Row) /\ out[k].vid = 0 + k - 1 /\ Len(out) <= NumPoints /\ NumPoints \in Nat
    BY <1>1, SpillAssumption DEF OutInv, RowsFrom
  <2>2. k \in 1..Len(out) /\ Len(out) \in Nat
    BY <2>1
  <2> QED BY <2>1, <2>2 DEF Points
<1>3. \A b \in DOMAIN batch : batch[b] \in {"todo", "recorded", "inserted", "done"}
  BY <1>1 DEF StreamInv
<1>4. Len(out) <= NumPoints
  BY <1>1 DEF OutInv
<1>5. /\ cfg \in Configs /\ run \in 1..MaxRuns /\ fault \in BOOLEAN /\ open \in BOOLEAN
      /\ \A t \in temps : t[1] \in 1..run /\ t[2] \in Points
  BY <1>1 DEF ConfigInv
<1> QED BY <1>2, <1>3, <1>4, <1>5 DEF TypeOK

\* In every run of build_forgeann_graph_oom_to_file, over whatever earlier runs left on
\* disk, the sink, the queues of the reducer and the delivered rows are in order.
THEOREM BuildInvariant == Spec => []IInv
<1>1. Init => IInv
  BY InitInv
<1>2. IInv /\ [Next]_vars => IInv'
  BY NextInv
<1> QED BY <1>1, <1>2, PTL DEF Spec

\* Every variable keeps its type: no row is delivered for a point that does not exist,
\* and there are never more rows than points.
THEOREM TypeCorrect == Spec => []TypeOK
<1>1. IInv => TypeOK
  BY InvTypeOK
<1> QED BY <1>1, BuildInvariant, PTL

\* A build fails only after an I/O error or when its configuration is refused: neither
\* group_segments_by_shard, the reducers, the row callbacks nor the loader of the
\* pre-prune file rejects what the build itself wrote, whatever the order of the flushes
\* and whatever part files a killed process left behind.
THEOREM NoErrorIsSpurious == Spec => []NoSpuriousError
<1>1. IInv => NoSpuriousError
  BY DEF IInv
<1> QED BY <1>1, BuildInvariant, PTL

\* A configuration that is refused, before the first leaf or after the last, leaves the
\* graph file as the run found it.
THEOREM RefusalKeepsTheGraph == Spec => []RefusedKeepsGraph
<1>1. IInv => RefusedKeepsGraph
  BY DEF IInv
<1> QED BY <1>1, BuildInvariant, PTL
=============================================================================
