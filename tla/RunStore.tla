------------------------------ MODULE RunStore ------------------------------
(***************************************************************************)
(* The data formats of the out-of-core RBC partition: the run files of     *)
(* ExternalRunStore, the assignment records, the merge of small clusters,  *)
(* the materialization of merged children, the batches of the level scan   *)
(* and the manifest of the depth-0 runs.  Pure operators, used by          *)
(* RbcPartition.                                                           *)
(*                                                                         *)
(* A run file is a sequence of words: an extent is a length word followed  *)
(* by that many point ids.  Offsets are zero based, as in the code.        *)
(***************************************************************************)
EXTENDS SeqTools, FiniteSetsExt

CONSTANT BufferPoints   \* MATERIALIZE_CHILD_BUFFER_POINTS

ASSUME BufferAssumption == BufferPoints \in Nat \ {0}

\* sort_unstable and dedup.
SortDedup(s) == Ascending(ToSet(s))
\* The consecutive pieces of at most size elements: slice::chunks.
Chunks(s, size) ==
  [c \in 1..((Len(s) + size - 1) \div size) |->
     SubSeq(s, (c - 1) * size + 1, Min({c * size, Len(s)}))]
-----------------------------------------------------------------------------
(* ExternalRunStore: every run is appended at the end of the file of its   *)
(* depth, whatever an earlier build left there.                            *)

Encoded(points) == <<Len(points)>> \o points
ExtentAt(file, points) == [offset |-> Len(file), len |-> Len(points)]

ReadRun(file, e) == SubSeq(file, e.offset + 2, e.offset + 1 + file[e.offset + 1])
ReadChain(file, extents) == Concat([i \in DOMAIN extents |-> ReadRun(file, extents[i])])

(* read_child_runs_batched_from_path: extents that touch or overlap are    *)
(* one read; a run gets the payloads of one read in extent order, and the  *)
(* reads in file order.                                                    *)
ExtentReads(runs) ==
  UNION {{[run |-> r, ext |-> x,
           start |-> runs[r].extents[x].offset,
           end |-> runs[r].extents[x].offset + 1 + runs[r].extents[x].len]
             : x \in DOMAIN runs[r].extents} : r \in DOMAIN runs}
ReadStart(reads, r) ==
  Max({s \in {q.start : q \in reads} :
         s <= r.start /\ \A q \in reads : q.start < s => q.end < s})
ReadOrder(reads, r) ==
  LET own == {q \in reads : q.run = r}
  IN Ranked(own, {p \in own \X own : \/ ReadStart(reads, p[1]) < ReadStart(reads, p[2])
                                     \/ /\ ReadStart(reads, p[1]) = ReadStart(reads, p[2])
                                        /\ p[1].ext < p[2].ext})
ReadBatched(file, runs) ==
  [r \in DOMAIN runs |->
     LET order == ReadOrder(ExtentReads(runs), r)
     IN ReadChain(file, [i \in DOMAIN order |-> runs[r].extents[order[i].ext]])]
-----------------------------------------------------------------------------
(* Assignment records: a count and the leaders, padded to the record cap.  *)

RecordCap(fanout) == Min({Max({fanout, 1}), 32})
EncodeRecord(leaders, cap) == [count |-> Len(leaders), slots |-> leaders \o [i \in 1..(cap - Len(leaders)) |-> 1]]
DecodeRecord(record) == SubSeq(record.slots, 1, record.count)

(* SegmentedAssignmentRecordSource: the records of a run are those of its  *)
(* spool segments, in the order the segments were listed.                  *)
SegmentRecords(spool, segments) ==
  Concat([i \in DOMAIN segments |->
            SubSeq(spool, segments[i].offset + 1, segments[i].offset + segments[i].len)])
-----------------------------------------------------------------------------
(* merge_cluster_plan and merge_clusters: by size, clusters below c_min    *)
(* are joined while they fit c_max; a joined rest goes to the first large  *)
(* cluster, or to the last one, if it fits.                                *)

None == [kids |-> <<>>, len |-> 0]
Join(a, b) == [kids |-> a.kids \o b.kids, len |-> a.len + b.len]
AddCluster(acc, c, cmin, cmax) ==
  CASE c.len >= cmin /\ acc.small # None /\ acc.small.len + c.len <= cmax ->
         [done |-> Append(acc.done, Join(c, acc.small)), small |-> None]
    [] c.len >= cmin /\ acc.small # None /\ acc.small.len + c.len > cmax ->
         [done |-> acc.done \o <<acc.small, c>>, small |-> None]
    [] c.len >= cmin /\ acc.small = None -> [done |-> Append(acc.done, c), small |-> None]
    [] c.len < cmin /\ (acc.small.len + c.len <= cmax \/ acc.small = None) ->
         [done |-> acc.done, small |-> Join(acc.small, c)]
    [] OTHER -> [done |-> Append(acc.done, acc.small), small |-> c]
\* Mutant: a rest that does not fit the last cluster is dropped.
AddRestOrDrop(acc, cmax) ==
  IF acc.small # None /\ acc.done # <<>> /\ Last(acc.done).len + acc.small.len <= cmax
  THEN Append(Front(acc.done), Join(Last(acc.done), acc.small))
  ELSE acc.done
AddRest(acc, cmax) ==
  CASE acc.small = None -> acc.done
    [] acc.small # None /\ acc.done # <<>> /\ Last(acc.done).len + acc.small.len <= cmax ->
         Append(Front(acc.done), Join(Last(acc.done), acc.small))
    [] OTHER -> Append(acc.done, acc.small)
BySize(counts) ==
  LET filled == {c \in DOMAIN counts : counts[c] > 0}
  IN Ranked(filled, {p \in filled \X filled : \/ counts[p[1]] < counts[p[2]]
                                              \/ counts[p[1]] = counts[p[2]] /\ p[1] < p[2]})
AddNext(acc, counts, c, cmin, cmax) == AddCluster(acc, [kids |-> <<c>>, len |-> counts[c]], cmin, cmax)
MergeInOrder(counts, order, cmin, cmax) ==
  AddRest(FoldLeft(LAMBDA acc, c : AddNext(acc, counts, c, cmin, cmax),
                   [done |-> <<>>, small |-> None], order), cmax)
MergePlan(counts, cmin, cmax) == MergeInOrder(counts, BySize(counts), cmin, cmax)

\* The clusters of an assignment: recs[i] are the leaders of points[i].
ClustersOf(points, recs, leaders) ==
  [l \in 1..leaders |-> At(points, {i \in DOMAIN points : Contains(recs[i], l)})]
RawCounts(points, recs, leaders) ==
  [l \in 1..leaders |-> Len(ClustersOf(points, recs, leaders)[l])]
Merged(clusters, plan) ==
  [g \in DOMAIN plan |-> Concat([i \in DOMAIN plan[g].kids |-> clusters[plan[g].kids[i]]])]
MergeClusters(clusters, cmin, cmax) ==
  Merged(clusters, MergePlan([c \in DOMAIN clusters |-> Len(clusters[c])], cmin, cmax))
-----------------------------------------------------------------------------
(* materialize_merged_children_from_assignment_records: a point goes once  *)
(* to every merged child of one of its leaders.  A child of at most limit  *)
(* raw points stays in memory; the others are written in buffers.          *)

FlushChild(m, g) ==
  IF m.kids[g].buf = <<>> THEN m
  ELSE [file |-> m.file \o Encoded(m.kids[g].buf),
        kids |-> [m.kids EXCEPT ![g] = [buf |-> <<>>,
                    extents |-> Append(@.extents, ExtentAt(m.file, @.buf))]]]
FlushFull(m, g, cap) == IF Len(m.kids[g].buf) >= cap THEN FlushChild(m, g) ELSE m
PushPoint(m, g, point, inline, cap) ==
  FlushFull([m EXCEPT !.kids[g].buf = Append(@, point)], g, IF inline THEN Len(m.kids[g].buf) + 2 ELSE cap)
\* The merged children of a record, each once, in the order of its leaders.
GroupOf(groups, l) == CHOOSE g \in DOMAIN groups : Contains(groups[g].kids, l)
Targets(rec, groups) ==
  LET first == {i \in DOMAIN rec : \A j \in 1..(i - 1) : GroupOf(groups, rec[j]) # GroupOf(groups, rec[i])}
      chosen == At(rec, first)
  IN [k \in DOMAIN chosen |-> GroupOf(groups, chosen[k])]
PushRecord(m, point, targets, groups, cap, limit) ==
  FoldLeft(LAMBDA n, g : PushPoint(n, g, point, groups[g].len <= limit, cap), m, targets)
FlushUnlessInline(m, g, groups, limit) == IF groups[g].len <= limit THEN m ELSE FlushChild(m, g)
FlushRest(m, groups, limit) ==
  FoldLeft(LAMBDA n, g : FlushUnlessInline(n, g, groups, limit), m, [g \in DOMAIN groups |-> g])
NoChildren(file, groups) == [file |-> file, kids |-> [g \in DOMAIN groups |-> [buf |-> <<>>, extents |-> <<>>]]]
Pushed(file, points, recs, cap, groups, limit) ==
  FoldLeft(LAMBDA m, i : PushRecord(m, points[i], Targets(recs[i], groups), groups, cap, limit),
           NoChildren(file, groups), [i \in DOMAIN points |-> i])
Materialize(file, points, recs, fanout, groups, limit) ==
  FlushRest(Pushed(file, points, recs, Max({BufferPoints, RecordCap(fanout)}), groups, limit), groups, limit)
ChildPoints(m, g) ==
  IF m.kids[g].extents = <<>> THEN m.kids[g].buf ELSE ReadChain(m.file, m.kids[g].extents)
-----------------------------------------------------------------------------
(* next_d1_level_scan_batch: the runs are merged by point id; a batch has  *)
(* up to max distinct points, each with all its occurrences.               *)

HeadPoints(runs, heads) == {runs[r][heads[r]] : r \in {q \in DOMAIN runs : heads[q] <= Len(runs[q])}}
Advance(runs, heads) ==
  LET p == Min(HeadPoints(runs, heads))
  IN [r \in DOMAIN runs |->
        IF heads[r] <= Len(runs[r]) /\ runs[r][heads[r]] = p THEN heads[r] + 1 ELSE heads[r]]
PopPoint(runs, heads) == IF HeadPoints(runs, heads) = {} THEN heads ELSE Advance(runs, heads)
NextHeads(runs, heads, max) ==
  FoldLeft(LAMBDA h, i : PopPoint(runs, h), heads, [i \in 1..Max({max, 1}) |-> i])
\* The outputs of a batch, by run: the records of the points it holds.
BatchOutputs(heads, next) ==
  LET runsIn == Ascending({r \in DOMAIN heads : next[r] > heads[r]})
  IN [i \in DOMAIN runsIn |->
        [run |-> runsIn[i],
         records |-> [j \in 1..(next[runsIn[i]] - heads[runsIn[i]]) |-> heads[runsIn[i]] + j - 1]]]
-----------------------------------------------------------------------------
(* The manifest of the depth-0 runs names the parameters it was built for, *)
(* the runs and root leaves, and the exact contents (size and hash) of the *)
(* run file.                                                               *)

Manifest(key, file, runs, rootLeaves) ==
  [key |-> key, contents |-> file, runs |-> runs, leaves |-> rootLeaves]
Torn == [key |-> "torn"]        \* a manifest whose write was cut short: it does not parse
Missing == [key |-> "missing"]
\* Mutant: an extent may not end where the file ends.
InBoundsStrict(m) ==
  \A e \in UNION {ToSet(r.extents) : r \in ToSet(m.runs \o m.leaves)} :
     e.offset + 1 + e.len < Len(m.contents)
InBounds(m) ==
  \A e \in UNION {ToSet(r.extents) : r \in ToSet(m.runs \o m.leaves)} :
     e.offset + 1 + e.len <= Len(m.contents)
RunsAddUp(m) ==
  \A r \in ToSet(m.runs \o m.leaves) :
     LET lens == [x \in DOMAIN r.extents |-> r.extents[x].len]
     IN r.len = MapThenSumSet(LAMBDA x : lens[x], DOMAIN r.extents)
\* Mutant: the parameters of the build are not compared.
ValidManifestAnyKey(m, key) == m.runs # <<>> /\ RunsAddUp(m) /\ InBounds(m)
ValidManifest(m, key) == m.key = key /\ m.runs # <<>> /\ RunsAddUp(m) /\ InBounds(m)
=============================================================================
