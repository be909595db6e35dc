------------------------------ MODULE LuneRows ------------------------------
(***************************************************************************)
(* The view-lune recorder of view_lune_prune.rs: what the leaves of a      *)
(* build record for each source row, and the rows it is reduced to.  A     *)
(* leaf records its edges, then its witnesses (a blockwise leaf its        *)
(* witnesses first); leaves run in parallel.                               *)
(* With kind "memory" the records go to RuntimeViewLuneAccumulator at once;*)
(* with "raw" and "digest" to the files of SpillingViewLuneRecorder, which *)
(* feeds an accumulator per shard when every leaf has finished.            *)
(***************************************************************************)
EXTENDS Integers, Sequences, FiniteSets, FiniteSetsExt, SequencesExt

CONSTANTS
  LuneScenarios,   \* sequences of leaves: [edges, wits, early (witnesses first)]
  LuneKinds,       \* the recorders of this instance
  LunePoints,      \* num_points
  LuneShards,      \* requested_shards
  LuneWidth,       \* candidate_width
  LuneDegree,      \* max_degree
  LuneCore,        \* nearest_core
  VictimWitnesses, \* max_witnesses_per_victim
  InlineWitnesses, \* INLINE_WITNESS_CAP
  RowGrowth,       \* CANDIDATE_ROW_CAPACITY_GROWTH
  BufferRecords,   \* buffer_records
  DigestSlots,     \* candidate_digest_budget_bytes, in slots
  LoadRecords      \* records of a load batch

ASSUME LuneAssumption ==
  /\ LuneKinds \subseteq {"memory", "raw", "digest"}
  /\ {LunePoints, LuneShards, LuneDegree, BufferRecords, LoadRecords, InlineWitnesses,
      RowGrowth, DigestSlots} \subseteq Nat \ {0}
  /\ LuneWidth \in Nat /\ VictimWitnesses \in Nat /\ LuneCore \in 0..LuneDegree

VARIABLES
  lune,   \* the recorder's kind, the leaves and how far each leaf is, its phase
  rows,   \* the rows of RuntimeViewLuneAccumulator
  shards, \* the shards of SpillingViewLuneRecorder
  seen,   \* what the leaves offered so far (history)
  raws    \* the reduced rows, by shard

luneVars == <<lune, rows, shards, seen, raws>>

-----------------------------------------------------------------------------
(* RuntimeViewLuneRow: candidates sorted by target with the index of the   *)
(* farthest (0: INVALID_CANDIDATE_IDX), one witness row per victim, inline *)
(* up to InlineWitnesses and then in a range of the overflow vector.       *)

NoRow == [cands |-> <<>>, worst |-> 0, wits |-> <<>>, over |-> <<>>]
NoWitness == [pivot |-> 0, key |-> 0]

\* candidate_distance_cmp and witness_retention_cmp.
Closer(a, b) == a.dist < b.dist \/ (a.dist = b.dist /\ a.dst < b.dst)
Firmer(a, b) == a.key < b.key \/ (a.key = b.key /\ a.pivot < b.pivot)

\* recompute_candidate_worst.
WorstOf(cands) ==
  IF cands = <<>> THEN 0
  ELSE CHOOSE i \in DOMAIN cands : \A j \in DOMAIN cands : ~Closer(cands[i], cands[j])

\* current_candidate_worst_index: the cached index, recomputed when it names no candidate.
WorstIndex(row) == IF row.worst \in DOMAIN row.cands THEN row.worst ELSE WorstOf(row.cands)

\* binary_search_by_key over the targets or the victims: where an id is or would be.
SlotOf(ids, id) == 1 + Cardinality({i \in DOMAIN ids : ids[i] < id})
DstSlot(cands, dst) == SlotOf([i \in DOMAIN cands |-> cands[i].dst], dst)
HasCandidate(row, dst) == \E i \in DOMAIN row.cands : row.cands[i].dst = dst

\* A target the row has already: its distance may only shrink.
Shorten(row, at, dist) ==
  LET near == [row.cands EXCEPT ![at].dist = Min({@, dist})]
  IN [cands |-> near, worst |-> IF row.worst = at THEN WorstOf(near) ELSE row.worst, gone |-> {}]

\* The farthest candidate w makes room for c.
Displace(row, c, at, w) ==
  LET kept == InsertAt(RemoveAt(row.cands, w), IF w < at THEN at - 1 ELSE at, c)
  IN [cands |-> kept, worst |-> WorstOf(kept), gone |-> {row.cands[w].dst}]

\* insert_candidate: the candidates after c, and the victims whose witnesses go.
Admit(row, c, at, w) ==
  IF LuneWidth = 0 THEN [cands |-> row.cands, worst |-> row.worst, gone |-> {c.dst}]
  ELSE IF HasCandidate(row, c.dst) THEN Shorten(row, at, c.dist)
  ELSE IF Len(row.cands) < LuneWidth
  THEN [cands |-> InsertAt(row.cands, at, c), worst |-> WorstOf(InsertAt(row.cands, at, c)),
        gone |-> {}]
  ELSE IF Closer(c, row.cands[w]) THEN Displace(row, c, at, w)
  ELSE [cands |-> row.cands, worst |-> w, gone |-> {c.dst}]

\* insert_candidate with its remove_witness_row: the overflow range of a removed row stays.
InsertCandidate(row, c) ==
  LET got == Admit(row, c, DstSlot(row.cands, c.dst), WorstIndex(row))
  IN [row EXCEPT !.cands = got.cands, !.worst = got.worst,
                 !.wits = SelectSeq(@, LAMBDA w : w.victim \notin got.gone)]

-----------------------------------------------------------------------------
(* ViewLuneVictimWitnesses.                                                *)

\* as_slice.
WitnessSlice(w, over) ==
  IF w.cap = 0 THEN SubSeq(w.inline, 1, w.len) ELSE SubSeq(over, w.offset + 1, w.offset + w.len)

\* insert_witness_slice: kept best first, one per pivot, at most max.
KeepFirm(slice, wit, max) ==
  LET same == {i \in DOMAIN slice : slice[i].pivot = wit.pivot}
      with == IF same = {} THEN Append(slice, wit)
              ELSE [i \in DOMAIN slice |->
                     IF i \in same /\ Firmer(wit, slice[i]) THEN wit ELSE slice[i]]
  IN SubSeq(SortSeq(with, Firmer), 1, Min({max, Len(with)}))

\* Writes slice at the front of the overflow range that starts at offset.
Overwrite(over, offset, slice) ==
  [i \in DOMAIN over |-> IF i - offset \in DOMAIN slice THEN slice[i - offset] ELSE over[i]]

\* ViewLuneVictimWitnesses::insert: inline while it fits, else a range of the overflow
\* vector of the full capacity, taken once and never given back before compaction.
InsertInVictim(w, over, wit, max) ==
  LET kept == KeepFirm(WitnessSlice(w, over), wit, IF w.cap = 0 THEN max ELSE Min({max, w.cap}))
      fresh == Overwrite(over \o [i \in 1..max |-> NoWitness], Len(over), kept)
  IN IF w.cap > 0 THEN [w |-> [w EXCEPT !.len = Len(kept)], over |-> Overwrite(over, w.offset, kept)]
     ELSE IF Len(kept) <= InlineWitnesses
     THEN [w |-> [w EXCEPT !.len = Len(kept), !.inline = kept], over |-> over]
     ELSE [w |-> [w EXCEPT !.len = Len(kept), !.cap = max, !.offset = Len(over)], over |-> fresh]

\* insert_witness: the victim's row is made where its id sorts.
InsertWitness(row, victim, wit) ==
  LET at == SlotOf([i \in DOMAIN row.wits |-> row.wits[i].victim], victim)
      known == at <= Len(row.wits) /\ row.wits[at].victim = victim
      new == [victim |-> victim, len |-> 0, cap |-> 0, offset |-> 0, inline |-> <<>>]
      wits == IF known THEN row.wits ELSE InsertAt(row.wits, at, new)
      got == InsertInVictim(wits[at], row.over, wit, Max({VictimWitnesses, 1}))
  IN [row EXCEPT !.wits = [wits EXCEPT ![at] = got.w], !.over = got.over]

\* Mutant: the ranges are packed and the rows keep their old offsets.
CompactKeepsOffsets(row) ==
  [row EXCEPT !.over = FoldLeft(LAMBDA o, w : IF w.cap = 0 THEN o ELSE o \o WitnessSlice(w, row.over),
                                <<>>, row.wits)]

\* compact_storage: the live ranges are packed, and a packed row has no room to grow.
Compact(row) ==
  FoldLeft(LAMBDA r, i :
    LET w == row.wits[i]
    IN IF w.cap = 0 THEN r
       ELSE [r EXCEPT !.over = @ \o WitnessSlice(w, row.over),
                      !.wits[i].offset = Len(r.over), !.wits[i].cap = w.len],
    [row EXCEPT !.over = <<>>], [i \in DOMAIN row.wits |-> i])

-----------------------------------------------------------------------------
(* Batches.  Records are sorted by key and duplicates folded before a row  *)
(* or a shard sees them.                                                   *)

EdgeKey(e) == <<e.p, e.dst>>
KeyBefore(a, b) == \E i \in DOMAIN a : a[i] < b[i] /\ \A j \in 1..(i - 1) : a[j] = b[j]

\* Edges of one source and target become one, with the smallest distance.
FoldedEdges(edges) ==
  LET keys == SetToSortSeq({EdgeKey(e) : e \in ToSet(edges)}, KeyBefore)
  IN [i \in DOMAIN keys |->
       [p |-> keys[i][1], dst |-> keys[i][2],
        dist |-> Min({e.dist : e \in {x \in ToSet(edges) : EdgeKey(x) = keys[i]}})]]

\* Witnesses of one source, victim and pivot become the one with the smallest rank key.
WitnessKey(w) == <<w.p, w.victim, w.pivot>>
FoldedWitnesses(wits) ==
  LET keys == SetToSortSeq({WitnessKey(w) : w \in ToSet(wits)}, KeyBefore)
  IN [i \in DOMAIN keys |->
       [p |-> keys[i][1], victim |-> keys[i][2], pivot |-> keys[i][3],
        key |-> Min({w.key : w \in {x \in ToSet(wits) : WitnessKey(x) = keys[i]}})]]

\* RuntimeViewLuneAccumulator::write_edges_in_place.
WriteEdges(rs, edges) ==
  FoldLeft(LAMBDA r, e : [r EXCEPT ![e.p] = InsertCandidate(@, [dst |-> e.dst, dist |-> e.dist])],
           rs, FoldedEdges(edges))

\* RuntimeViewLuneAccumulator::write_witnesses_in_place: victim and pivot must be candidates.
WriteWitnesses(rs, wits) ==
  FoldLeft(LAMBDA r, w :
    IF HasCandidate(r[w.p], w.victim) /\ HasCandidate(r[w.p], w.pivot)
    THEN [r EXCEPT ![w.p] = InsertWitness(@, w.victim, [pivot |-> w.pivot, key |-> w.key])]
    ELSE r,
    rs, FoldedWitnesses(wits))

\* reduce_row: the nearest core, then the candidates no selected witness prunes, then the
\* nearest of the pruned while there is room.
ReduceRow(row) ==
  LET near == SortSeq(row.cands, Closer)
      ids == [i \in DOMAIN near |-> near[i].dst]
      Pruned(v, sel) ==
        \E w \in ToSet(row.wits) :
          w.victim = v /\ \E x \in ToSet(WitnessSlice(w, row.over)) : x.pivot \in ToSet(sel)
      Take(sel, v) ==
        IF Len(sel) = LuneDegree \/ (Len(sel) >= LuneCore /\ Pruned(v, sel)) THEN sel ELSE Append(sel, v)
      Fill(sel, v) == IF Len(sel) = LuneDegree \/ v \in ToSet(sel) THEN sel ELSE Append(sel, v)
  IN IF Len(ids) <= LuneDegree THEN ids ELSE FoldLeft(Fill, FoldLeft(Take, <<>>, ids), ids)

-----------------------------------------------------------------------------
(* SpillingViewLuneRecorder.                                               *)

\* create_with_mode: consecutive ranges of shard_rows rows; the last may be short or empty.
ShardCount == Min({LuneShards, LunePoints})
ShardRows == (LunePoints + ShardCount - 1) \div ShardCount
ShardOf(p) == p \div ShardRows
LocalSource(p) == p - ShardOf(p) * ShardRows
ShardLen(s) == Max({0, Min({(s + 1) * ShardRows, LunePoints}) - s * ShardRows})

NoDigestRow == [cands |-> <<>>, worst |-> 0, cap |-> 0]
NoDigest(n) == [rows |-> [i \in 0..(n - 1) |-> NoDigestRow], used |-> 0, slots |-> 0]
NoShard(s) == [digest |-> NoDigest(ShardLen(s)), runs |-> <<>>, edgeBuf |-> <<>>,
               edgeFile |-> <<>>, witBuf |-> <<>>, witFile |-> <<>>]

\* ensure_row_capacity: a row that outgrows its range moves to a new, larger one.
Capacity(row, need) ==
  IF row.cap >= need THEN row.cap
  ELSE Min({LuneWidth, Max({need, IF row.cap = 0 THEN RowGrowth ELSE 2 * row.cap})})

\* CandidateDigestRun::insert.
DigestInsert(d, e) ==
  LET row == d.rows[e.p]
      got == Admit(row, [dst |-> e.dst, dist |-> e.dist], DstSlot(row.cands, e.dst), WorstIndex(row))
      cap == Capacity(row, Len(got.cands))
  IN [rows |-> [d.rows EXCEPT ![e.p] = [cands |-> got.cands, worst |-> got.worst, cap |-> cap]],
      used |-> IF cap = row.cap THEN d.used ELSE d.used + cap,
      slots |-> d.slots + Len(got.cands) - Len(row.cands)]

\* flush_candidate_digest_run: a run with the touched rows in order, each nearest first.
FlushDigest(sh) ==
  LET d == sh.digest
      touched == SetToSortSeq({i \in DOMAIN d.rows : d.rows[i].cands # <<>>}, <)
      run == [i \in DOMAIN touched |->
               [p |-> touched[i], cands |-> SortSeq(d.rows[touched[i]].cands, Closer)]]
  IN IF d.slots = 0 THEN sh
     ELSE [sh EXCEPT !.runs = Append(@, run), !.digest = NoDigest(Cardinality(DOMAIN d.rows))]

\* buffer_candidate_digest_edge: the budget counts the ranges rows have moved out of too.
BufferDigestEdge(sh, e) ==
  LET next == [sh EXCEPT !.digest = DigestInsert(@, e)]
  IN IF next.digest.used >= Max({DigestSlots, LuneWidth, 1}) THEN FlushDigest(next) ELSE next

\* flush_buffered_spilled_edges, flush_buffered_spilled_witnesses.
FlushEdges(sh) ==
  [sh EXCEPT !.edgeFile = @ \o FoldedEdges(sh.edgeBuf), !.edgeBuf = <<>>]
FlushWitnesses(sh) ==
  [sh EXCEPT !.witFile = @ \o FoldedWitnesses(sh.witBuf), !.witBuf = <<>>]

\* buffer_spilled_edge, buffer_spilled_witness.
BufferEdge(sh, e) ==
  LET next == [sh EXCEPT !.edgeBuf = Append(@, e)]
  IN IF Len(next.edgeBuf) >= BufferRecords THEN FlushEdges(next) ELSE next
BufferWitness(sh, w) ==
  LET next == [sh EXCEPT !.witBuf = Append(@, w)]
  IN IF Len(next.witBuf) >= BufferRecords THEN FlushWitnesses(next) ELSE next

\* SpillingViewLuneRecorder::write_edges_in_place and ::write_witnesses_in_place: the
\* records of a shard under its lock, with local row numbers.
SpillEdges(shs, edges) ==
  FoldLeft(LAMBDA r, e :
    LET local == [e EXCEPT !.p = LocalSource(e.p)]
    IN [r EXCEPT ![ShardOf(e.p)] =
         IF lune.kind = "raw" THEN BufferEdge(@, local) ELSE BufferDigestEdge(@, local)],
    shs, FoldedEdges(edges))
SpillWitnesses(shs, wits) ==
  FoldLeft(LAMBDA r, w : [r EXCEPT ![ShardOf(w.p)] = BufferWitness(@, [w EXCEPT !.p = LocalSource(w.p)])],
           shs, FoldedWitnesses(wits))

\* finish_writes for one shard.
FinishShard(sh) == FlushWitnesses(IF lune.kind = "raw" THEN FlushEdges(sh) ELSE FlushDigest(sh))

\* The records of a file in the batches a loader makes of them.
LoadBatches(recs) ==
  [i \in 1..((Len(recs) + LoadRecords - 1) \div LoadRecords) |->
    SubSeq(recs, (i - 1) * LoadRecords + 1, Min({i * LoadRecords, Len(recs)}))]

\* load_spilled_edges and load_spilled_candidate_runs.
LoadCandidates(sh, rs) ==
  LET runEdges == FoldLeft(LAMBDA acc, run :
                    acc \o FoldLeft(LAMBDA a, r :
                      a \o [i \in DOMAIN r.cands |->
                             [p |-> r.p, dst |-> r.cands[i].dst, dist |-> r.cands[i].dist]],
                      <<>>, run),
                    <<>>, sh.runs)
  IN FoldLeft(WriteEdges, rs, LoadBatches(IF lune.kind = "raw" THEN sh.edgeFile ELSE runEdges))

\* load_spilled_witnesses.
LoadWitnesses(sh, rs) == FoldLeft(WriteWitnesses, rs, LoadBatches(sh.witFile))

\* reduce_shard_to_raw_graph: every candidate is loaded before the first witness.
ReduceShard(s) ==
  LET empty == [i \in 0..(ShardLen(s) - 1) |-> NoRow]
      loaded == LoadWitnesses(shards[s], LoadCandidates(shards[s], empty))
  IN [i \in 1..ShardLen(s) |-> ReduceRow(Compact(loaded[i - 1]))]

-----------------------------------------------------------------------------
(* The build.                                                              *)

Leaves == DOMAIN lune.leaves
SourceRows == 0..(LunePoints - 1)
ShardIds == 0..(ShardCount - 1)
Shards0 == [s \in ShardIds |-> NoShard(s)]

LuneIdle ==
  /\ lune = [kind |-> "none", leaves |-> <<>>, pc |-> <<>>, phase |-> "idle"]
  /\ rows = [p \in SourceRows |-> NoRow] /\ shards = Shards0
  /\ seen = [edges |-> {}, wits |-> {}] /\ raws = <<>>

LuneInit ==
  /\ \E k \in LuneKinds, leaves \in LuneScenarios :
       lune = [kind |-> k, leaves |-> leaves, phase |-> "record",
               pc |-> [l \in DOMAIN leaves |-> IF leaves[l].early THEN "witnesses" ELSE "edges"]]
  /\ rows = [p \in SourceRows |-> NoRow] /\ shards = Shards0
  /\ seen = [edges |-> {}, wits |-> {}] /\ raws = <<>>

\* The history: the LuneWidth nearest of the targets that some edges offer to p, each at its
\* smallest distance, and whether a target stays among them while edges come in one by one.
NearestAmong(edges, p) ==
  LET offered == {e \in edges : e.p = p}
      best == {[dst |-> d, dist |-> Min({e.dist : e \in {x \in offered : x.dst = d}})] :
                d \in {e.dst : e \in offered}}
      ranked == SetToSortSeq(best, Closer)
  IN SubSeq(ranked, 1, Min({LuneWidth, Len(ranked)}))
IsNear(edges, p, dst) == \E c \in ToSet(NearestAmong(edges, p)) : c.dst = dst
StaysNear(edges, more, p, dst) ==
  \A n \in DOMAIN more : IsNear(edges \cup ToSet(SubSeq(more, 1, n)), p, dst)

\* ViewLuneTaggedEdgeSink::flush_pending_edges of leaf l.  In memory each row has a lock of
\* its own; rows are independent, so one step stands for the batch.  The history forgets
\* the witnesses of victims that lose their place, be it between two edges of the batch.
RecordEdges(l) ==
  /\ lune.phase = "record" /\ lune.pc[l] = "edges"
  /\ lune' = [lune EXCEPT !.pc[l] = IF lune.leaves[l].early THEN "done" ELSE "witnesses"]
  /\ IF lune.kind = "memory"
     THEN rows' = WriteEdges(rows, lune.leaves[l].edges) /\ UNCHANGED shards
     ELSE shards' = SpillEdges(shards, lune.leaves[l].edges) /\ UNCHANGED rows
  /\ seen' = [edges |-> seen.edges \cup ToSet(lune.leaves[l].edges),
              wits |-> IF lune.kind = "memory"
                       THEN {w \in seen.wits :
                               StaysNear(seen.edges, FoldedEdges(lune.leaves[l].edges), w.p, w.victim)}
                       ELSE seen.wits]
  /\ UNCHANGED raws

\* ViewLuneTaggedEdgeSink::flush_lune_witnesses of leaf l.
RecordWitnesses(l) ==
  /\ lune.phase = "record" /\ lune.pc[l] = "witnesses"
  /\ lune' = [lune EXCEPT !.pc[l] = IF lune.leaves[l].early THEN "edges" ELSE "done"]
  /\ IF lune.kind = "memory"
     THEN rows' = WriteWitnesses(rows, lune.leaves[l].wits) /\ UNCHANGED shards
     ELSE shards' = SpillWitnesses(shards, lune.leaves[l].wits) /\ UNCHANGED rows
  /\ seen' = [seen EXCEPT !.wits = @ \cup
       {w \in ToSet(lune.leaves[l].wits) :
          lune.kind = "memory" => IsNear(seen.edges, w.p, w.victim) /\ IsNear(seen.edges, w.p, w.pivot)}]
  /\ UNCHANGED raws

AllRecorded == \A l \in Leaves : lune.pc[l] = "done"

\* compact_storage of the accumulator, after the last leaf.
CompactRows ==
  /\ lune.kind = "memory" /\ lune.phase = "record" /\ AllRecorded
  /\ rows' = [p \in DOMAIN rows |-> Compact(rows[p])]
  /\ lune' = [lune EXCEPT !.phase = "compacted"]
  /\ UNCHANGED <<shards, seen, raws>>

\* reduce_all_rows_with of the accumulator; the candidates are left nearest first.
ReduceRows ==
  /\ lune.kind = "memory" /\ lune.phase = "compacted"
  /\ raws' = <<[i \in 1..LunePoints |-> ReduceRow(rows[i - 1])]>>
  /\ rows' = [p \in DOMAIN rows |-> [rows[p] EXCEPT !.cands = SortSeq(@, Closer), !.worst = 0]]
  /\ lune' = [lune EXCEPT !.phase = "reduced"]
  /\ UNCHANGED <<shards, seen>>

\* finish_writes.
FinishWrites ==
  /\ lune.kind \in {"raw", "digest"} /\ lune.phase = "record" /\ AllRecorded
  /\ shards' = [s \in ShardIds |-> FinishShard(shards[s])]
  /\ lune' = [lune EXCEPT !.phase = "finished"]
  /\ UNCHANGED <<rows, seen, raws>>

\* reduce_all_rows_to_raw_graph_shards_parallel: shards share nothing, and the result is
\* in shard order however the pool runs them; then cleanup removes the spill files.
ReduceShards ==
  /\ lune.phase = "finished"
  /\ raws' = [i \in 1..ShardCount |-> ReduceShard(i - 1)]
  /\ shards' = Shards0
  /\ lune' = [lune EXCEPT !.phase = "reduced"]
  /\ UNCHANGED <<rows, seen>>

\* The rows are read back by the graph writer.
LuneDone == lune.phase = "reduced" /\ UNCHANGED luneVars

LuneNext ==
  \/ \E l \in Leaves : RecordEdges(l) \/ RecordWitnesses(l)
  \/ CompactRows \/ ReduceRows \/ FinishWrites \/ ReduceShards \/ LuneDone

-----------------------------------------------------------------------------
(* What the rows must be.                                                  *)

NearestOffered(p) == NearestAmong(seen.edges, p)

\* The firmest witnesses of a victim among those taken since it last became a candidate;
\* a spilled row takes them when the candidates of all leaves are known.
FirmestTaken(p, victim) ==
  LET near == {c.dst : c \in ToSet(NearestOffered(p))}
      taken == {w \in seen.wits : w.p = p /\ w.victim = victim
                                  /\ (lune.kind = "memory" \/ {w.victim, w.pivot} \subseteq near)}
      best == {[pivot |-> q, key |-> Min({w.key : w \in {x \in taken : x.pivot = q}})] :
                q \in {w.pivot : w \in taken}}
      ranked == SetToSortSeq(best, Firmer)
  IN SubSeq(ranked, 1, Min({Max({VictimWitnesses, 1}), Len(ranked)}))

\* The row the rule gives for exactly those candidates and witnesses.
ExpectedRow(p) ==
  LET near == NearestOffered(p)
      wits == [i \in DOMAIN near |->
                LET f == FirmestTaken(p, near[i].dst)
                IN [victim |-> near[i].dst, len |-> Len(f), cap |-> 0, offset |-> 0, inline |-> f]]
  IN ReduceRow([cands |-> near, worst |-> 0, wits |-> wits, over |-> <<>>])

\* A row of the accumulator holds the nearest candidates offered, with the index of the
\* farthest, and for each victim the firmest witnesses taken since it became a candidate,
\* wherever the overflow vector and its compaction have put them.
RowExact(p) ==
  /\ SortSeq(rows[p].cands, Closer) = NearestOffered(p)
  /\ rows[p].worst = WorstOf(rows[p].cands)
  /\ {w.victim : w \in ToSet(rows[p].wits)} \subseteq {c.dst : c \in ToSet(rows[p].cands)}
  /\ \A c \in ToSet(rows[p].cands) :
       LET mine == {w \in ToSet(rows[p].wits) : w.victim = c.dst}
       IN FirmestTaken(p, c.dst) =
            IF mine = {} THEN <<>> ELSE WitnessSlice(CHOOSE w \in mine : TRUE, rows[p].over)

\* Whatever the order in which the leaves record, the accumulator's rows are exact at every
\* step, and the reduced graph is the rule applied to the nearest candidates and the
\* firmest witnesses: for the spilled recorder, with any buffer, digest budget, shard and
\* load batch size, the rows do not depend on that order at all (view_lune_prune.rs).
LuneRowExact ==
  /\ (lune.kind = "memory" /\ lune.phase # "reduced") => \A p \in SourceRows : RowExact(p)
  /\ lune.phase = "reduced" => FlattenSeq(raws) = [i \in 1..LunePoints |-> ExpectedRow(i - 1)]
=============================================================================
