---------------------------- MODULE SpillReduce ----------------------------
(***************************************************************************)
(* The external candidate store (forgeann/spill_hashprune.rs): the sharded *)
(* edge sink with its part files and segment manifest, the reducers that   *)
(* turn the segments into one row per point.  A record is written and read *)
(* back whole, so an edge stands for its 16 bytes and lengths count        *)
(* records.  A reservoir is the sequence of the candidates inserted into   *)
(* it: HashPrune says what it keeps.                                       *)
(***************************************************************************)
EXTENDS SeqTools

CONSTANTS
  NumPoints,       \* points are 0..NumPoints - 1
  ShardPoints,     \* shard_points: points per shard
  FlushThreshold,  \* flush_threshold_edges
  PartMaxRecords,  \* part_max_bytes, in records
  MaxPartId        \* u16::MAX, where part ids saturate

ASSUME SpillAssumption ==
  /\ NumPoints \in Nat /\ PartMaxRecords \in Nat /\ MaxPartId \in Nat
  /\ ShardPoints \in Nat \ {0} /\ FlushThreshold \in Nat \ {0}

Points == 0..(NumPoints - 1)
ShardOf(p) == p \div ShardPoints
Shards == {ShardOf(p) : p \in Points}

\* sort_unstable_by_key(|edge| edge.p): the order among equal points is not specified.
SortByPoint(es) ==
  Concat([i \in 1..NumPoints |-> At(es, {j \in DOMAIN es : es[j].p = i - 1})])

Ok(v) == [ok |-> TRUE, val |-> v]
Err == [ok |-> FALSE]

-----------------------------------------------------------------------------
(* SpillEdgeSink.  files is the disk: it outlives the process.             *)

NoPart == [file |-> -1, len |-> 0]

\* create_sharded_with_config touches no file: a part is created when it is first needed.
SinkCreate(files) ==
  [buf |-> [s \in Shards |-> <<>>], writer |-> [s \in Shards |-> NoPart],
   next |-> [s \in Shards |-> 0], parts |-> {}, manifest |-> <<>>, files |-> files]

FileOf(d, s, f) == IF <<s, f>> \in DOMAIN d.files THEN d.files[<<s, f>>] ELSE <<>>

WithFile(files, key, content) ==
  [k \in DOMAIN files \cup {key} |-> IF k = key THEN content ELSE files[k]]

\* finalize_part_writer.
FinalizePart(d, s) ==
  [d EXCEPT !.parts = @ \cup {<<s, d.writer[s].file>>}, !.writer[s] = NoPart]

\* The next part id, saturating, and a new empty file under that id.
CreatePart(d, s) ==
  LET f == d.next[s]
  IN [d EXCEPT !.next[s] = IF f < MaxPartId THEN f + 1 ELSE f,
               !.writer[s] = [file |-> f, len |-> 0],
               !.files = WithFile(@, <<s, f>>, <<>>)]

EnsurePart(d, s, n) ==
  CASE d.writer[s] # NoPart /\ d.writer[s].len + n <= PartMaxRecords -> d
    [] d.writer[s] # NoPart /\ d.writer[s].len + n > PartMaxRecords -> CreatePart(FinalizePart(d, s), s)
    [] OTHER -> CreatePart(d, s)

\* CandidateRunWriter::push, once per staged edge.
PushRecords(d, s, es) ==
  [d EXCEPT !.files[<<s, d.writer[s].file>>] = @ \o es]

\* Mutant: the segment's offset is read after the part has grown.
FlushShardLateOffset(d, s) ==
  IF d.buf[s] = <<>> THEN d
  ELSE LET staged == SortByPoint(d.buf[s])
           e == EnsurePart([d EXCEPT !.buf[s] = <<>>], s, Len(staged))
           w == e.writer[s]
       IN [PushRecords(e, s, staged) EXCEPT
             !.writer[s].len = @ + Len(staged),
             !.manifest = Append(@, [shard |-> s, file |-> w.file, off |-> w.len + Len(staged),
                                     count |-> Len(staged), min |-> staged[1].p, max |-> Last(staged).p])]

\* flush_shard_buffer_to_part: one sorted segment per flush.
FlushShard(d, s) ==
  IF d.buf[s] = <<>> THEN d
  ELSE LET staged == SortByPoint(d.buf[s])
           e == EnsurePart([d EXCEPT !.buf[s] = <<>>], s, Len(staged))
           w == e.writer[s]
       IN [PushRecords(e, s, staged) EXCEPT
             !.writer[s].len = @ + Len(staged),
             !.manifest = Append(@, [shard |-> s, file |-> w.file, off |-> w.len,
                                     count |-> Len(staged), min |-> staged[1].p, max |-> Last(staged).p])]

PushEdge(d, e) ==
  LET s == ShardOf(e.p)
      f == [d EXCEPT !.buf[s] = Append(@, e)]
  IN IF Len(f.buf[s]) >= FlushThreshold THEN FlushShard(f, s) ELSE f

\* flush_pending_edges, the whole call under the mutex.
SinkFlush(d, es) == FoldLeft(PushEdge, d, SortByPoint(es))

\* finish_part_writers closes the part of a shard if one is open.
FinishPartWriter(d, s) == IF d.writer[s] = NoPart THEN d ELSE FinalizePart(d, s)

\* Mutant: finish forgets the buffers that never reached the threshold.
SinkFinishNoFlush(d) ==
  FoldLeft(FinishPartWriter, d, SetToSeq(Shards))

\* finish: flush_all_buffers_to_parts, finish_part_writers, write_segment_manifest.
SinkFinish(d) ==
  LET flushed == FoldLeft(FlushShard, d, SetToSeq(Shards))
  IN FoldLeft(FinishPartWriter, flushed, SetToSeq(Shards))

-----------------------------------------------------------------------------
(* Reading segments back.                                                  *)

SegmentLeq(a, b) ==
  \/ a.min < b.min
  \/ a.min = b.min /\ a.file < b.file
  \/ a.min = b.min /\ a.file = b.file /\ a.off <= b.off

\* The segments of a shard, sorted; equal ones in the order of the manifest.
SegmentsOf(d, s) ==
  LET m == d.manifest
      I == {i \in DOMAIN m : m[i].shard = s}
      order == {r \in I \X I : /\ SegmentLeq(m[r[1]], m[r[2]])
                               /\ SegmentLeq(m[r[2]], m[r[1]]) => r[1] < r[2]}
      pos == Ranked(I, order)
  IN [k \in DOMAIN pos |-> m[pos[k]]]

\* group_segments_by_shard: the shards of the manifest in order, or an error when
\* a segment lies outside its shard or its shard outside the points.
Groups(d) ==
  LET shards == Ascending({d.manifest[i].shard : i \in DOMAIN d.manifest})
      group(s) == [lo |-> s * ShardPoints, hi |-> Min({(s + 1) * ShardPoints, NumPoints}),
                   segs |-> SegmentsOf(d, s)]
      bad(s) == \/ s * ShardPoints >= NumPoints
                \/ \E i \in DOMAIN group(s).segs :
                     group(s).segs[i].min < group(s).lo \/ group(s).segs[i].max >= group(s).hi
  IN IF \E i \in DOMAIN shards : bad(shards[i]) THEN Err
     ELSE Ok([i \in DOMAIN shards |-> group(shards[i])])

\* SegmentReader: the end of the file ends the segment, without an error.
ReadSegment(d, g) ==
  LET f == FileOf(d, g.shard, g.file)
  IN SubSeq(f, g.off + 1, Min({g.off + g.count, Len(f)}))

PartsPresent(d, group) ==
  \A i \in DOMAIN group.segs : <<group.segs[i].shard, group.segs[i].file>> \in d.parts

\* One reservoir per point of lo..hi-1, fed in the order of the segments.
RowsOf(lo, hi, es) ==
  [k \in 1..(hi - lo) |->
    [vid |-> lo + k - 1, cands |-> At(es, {i \in DOMAIN es : es[i].p = lo + k - 1})]]

\* reduce_segment_group_in_range.  Its callers make one chunk of the whole range, so
\* an edge past it is an error and the out-of-order branch is never taken.
ReduceGroup(d, lo, group) ==
  LET es == Concat([i \in DOMAIN group.segs |-> ReadSegment(d, group.segs[i])])
  IN IF ~PartsPresent(d, group) \/ \E i \in DOMAIN es : es[i].p >= group.hi
     THEN Err
     ELSE Ok([lo |-> lo, hi |-> group.hi, rows |-> RowsOf(lo, group.hi, es)])

\* reduce_segment_group_to_neighbor_part: an edge past the range ends its segment.
ReduceGroupToPart(d, lo, group) ==
  LET upTo(es) == At(es, {i \in DOMAIN es : es[i].p < group.hi})
      es == Concat([i \in DOMAIN group.segs |-> upTo(ReadSegment(d, group.segs[i]))])
  IN IF ~PartsPresent(d, group) \/ lo >= group.hi THEN Err
     ELSE Ok([lo |-> lo, hi |-> group.hi, rows |-> RowsOf(lo, group.hi, es)])

\* emit_empty_point_range.
EmptyRows(lo, hi) == RowsOf(lo, hi, <<>>)

\* The rows delivered for one part: the points before it that no segment covers,
\* then its own.
EmitPart(nextPoint, part) == EmptyRows(nextPoint, part.lo) \o part.rows

\* Groups that reach past the resident prefix, from where the prefix ends.
ActiveGroups(groups, start) == At(groups, {i \in DOMAIN groups : groups[i].hi > start})
GroupStart(g, start) == IF g.lo > start THEN g.lo ELSE start

=============================================================================
