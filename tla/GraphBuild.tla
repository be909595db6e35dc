----------------------------- MODULE GraphBuild -----------------------------
(***************************************************************************)
(* One graph build from the first leaf to the file on disk: the sinks and  *)
(* phases of build_forgeann_graph (forgeann/mod.rs), the external store of *)
(* SpillReduce, and the output modes of build_forgeann_graph_oom_to_file   *)
(* (index/inmem_index/forgeann_oom_build.rs) over GraphFile.  Leaf workers *)
(* flush batches of candidates concurrently; I/O may fail at any step; the *)
(* process may be killed at any step and the build started again over what *)
(* it left on disk.                                                        *)
(***************************************************************************)
EXTENDS SpillReduce, GraphFile, PruneRules

CONSTANTS
  Configs,   \* records [mode, oom, resident, par, keep, hint, clash, leaves]
  Leaves,    \* Leaves[i]: the batches of candidates the leaves of data set i flush
  Budget,    \* spine_overlay_budget
  MaxRuns    \* bound: how many times the build is started

\* A candidate edge: a point, the neighbour it is offered, and whether the point's own
\* search found it (DIRECT) or the neighbour's (MIRROR).
Edge == [p : Points, c : Points, direct : BOOLEAN]

ASSUME GraphBuildAssumption ==
  /\ \A c \in Configs : /\ c.mode \in {"direct", "final", "spine", "lune_spill", "lune_memory", "oracle"}
                        /\ {c.oom, c.keep, c.clash} \subseteq BOOLEAN
                        /\ c.resident \in 0..NumPoints /\ c.leaves \in DOMAIN Leaves
                        /\ c.par \in Nat /\ c.hint \in Int
  /\ \A l \in DOMAIN Leaves : Leaves[l] \in Seq(Seq(Edge))
  /\ MaxRuns \in Nat \ {0} /\ MaxDegree \in Nat

VARIABLES
  cfg,      \* the parameters of this build
  pc,       \* the phase of the build
  batch,    \* per batch: "todo", "recorded", "inserted" or "done"
  res,      \* the reservoirs of the resident prefix: candidates inserted, in order
  rec,      \* the rows of the view-lune recorder: candidates recorded
  overlay,  \* the rows of the spine recorder
  sink,     \* the spill sink; its files field is the disk
  todo,     \* segment groups still to be reduced
  parts,    \* neighbour parts waiting to be replayed
  out,      \* rows given to on_node_done, or reduced from the recorder
  temps,    \* .candidate_reduce_* files on disk, by the run that wrote them
  pre,      \* the pre_prune.tmp file, or None
  graph,    \* the graph file
  open,     \* the graph file has a writer
  rows,     \* the final rows still to be written
  fault,    \* an I/O error happened in this run
  run,      \* how many times the build was started
  old       \* the graph file when this run started

vars == <<cfg, pc, batch, res, rec, overlay, sink, todo, parts, out, temps, pre, graph, open, rows, fault, run, old>>
disk == <<temps, pre, graph, open, rows>>
stream == <<batch, res, rec, overlay, sink>>
reduce == <<todo, parts, out>>
fixed == <<cfg, fault, run, old>>

None == "none"
Edges == Leaves[cfg.leaves]

\* view_lune_metadata_only: rows come from the recorder, the sink is NullEdgeSink.
MetadataOnly == cfg.mode \in {"lune_spill", "lune_memory"}
HasRecorder == MetadataOnly \/ cfg.mode \in {"oracle", "spine"}

\* Without oom_enable every point has a reservoir.
Resident == IF cfg.oom THEN cfg.resident ELSE NumPoints
IsResident(e) == e.p < Resident

BadHint == cfg.hint >= NumPoints
\* validate_graph_start_hint, then the sampled or scanned medoid (0 stands for it).
Start == IF cfg.hint >= 0 THEN cfg.hint ELSE 0

Fresh(c, files) ==
  /\ cfg' = c /\ pc' = "open"
  /\ batch' = [b \in DOMAIN Leaves[c.leaves] |-> "todo"]
  /\ res' = [p \in Points |-> <<>>] /\ rec' = [p \in Points |-> <<>>]
  /\ overlay' = [p \in Points |-> {}]
  /\ sink' = SinkCreate(files)
  /\ todo' = <<>> /\ parts' = <<>> /\ out' = <<>>
  /\ open' = FALSE /\ rows' = <<>> /\ fault' = FALSE

Init ==
  /\ cfg \in Configs /\ pc = "open"
  /\ batch = [b \in DOMAIN Leaves[cfg.leaves] |-> "todo"]
  /\ res = [p \in Points |-> <<>>] /\ rec = [p \in Points |-> <<>>]
  /\ overlay = [p \in Points |-> {}]
  /\ sink = SinkCreate(<<>>)
  /\ todo = <<>> /\ parts = <<>> /\ out = <<>>
  /\ temps = {} /\ pre = None /\ graph = <<>> /\ open = FALSE /\ rows = <<>>
  /\ fault = FALSE /\ run = 1 /\ old = <<>>

-----------------------------------------------------------------------------
(* build_forgeann_graph_oom_to_file up to the first leaf.                  *)

Refuse ==
  /\ pc' = "err"
  /\ UNCHANGED <<stream, reduce, disk, fixed>>

\* The two checks that come before anything is written: exclusive options, and in
\* direct mode the start hint.
OpenRefused ==
  /\ pc = "open"
  /\ cfg.clash \/ (cfg.mode = "direct" /\ BadHint)
  /\ Refuse

\* Mutant: the writer is created before the start hint is checked.
CreateFirst ==
  /\ pc = "open" /\ ~cfg.clash
  /\ graph' = DirectCreate(Start) /\ open' = TRUE
  /\ pc' = IF BadHint THEN "err" ELSE "stream"
  /\ UNCHANGED <<stream, reduce, temps, pre, rows, fixed>>

\* Direct mode truncates the graph file before the build starts.
OpenDirect ==
  /\ pc = "open" /\ ~cfg.clash /\ cfg.mode = "direct" /\ ~BadHint
  /\ graph' = DirectCreate(Start) /\ open' = TRUE
  /\ pc' = "stream"
  /\ UNCHANGED <<stream, reduce, temps, pre, rows, fixed>>

OpenFinal ==
  /\ pc = "open" /\ ~cfg.clash /\ cfg.mode = "final"
  /\ pre' = FixedCreate(NumPoints)
  /\ pc' = "stream"
  /\ UNCHANGED <<stream, reduce, temps, graph, open, rows, fixed>>

\* The recorder modes create their accumulator and no file of the graph.
OpenRecorder ==
  /\ pc = "open" /\ ~cfg.clash /\ HasRecorder
  /\ pc' = "stream"
  /\ UNCHANGED <<stream, reduce, disk, fixed>>

-----------------------------------------------------------------------------
(* Leaf workers flush.  Each lock region is a step of its own.             *)

\* The tagged sinks give a batch to the recorder before the inner sink sees it.
Record(b) ==
  /\ pc = "stream" /\ batch[b] = "todo" /\ HasRecorder
  /\ batch' = [batch EXCEPT ![b] = IF MetadataOnly THEN "done" ELSE "recorded"]
  /\ IF cfg.mode = "spine"
     THEN /\ overlay' = [p \in Points |-> OverlayWrite(overlay[p], p, Edges[b], 0)]
          /\ rec' = rec
     ELSE /\ rec' = [p \in Points |-> rec[p] \o At(Edges[b], {i \in DOMAIN Edges[b] : Edges[b][i].p = p})]
          /\ overlay' = overlay
  /\ UNCHANGED <<pc, res, sink, reduce, disk, fixed>>

\* HybridEdgeSink and ReservoirEdgeSink: the edges of the prefix go to reservoirs.
InsertResident(b) ==
  /\ pc = "stream"
  /\ batch[b] = IF HasRecorder THEN "recorded" ELSE "todo"
  /\ ~MetadataOnly
  /\ batch' = [batch EXCEPT ![b] = IF Resident = NumPoints THEN "done" ELSE "inserted"]
  /\ res' = [p \in Points |->
       res[p] \o At(Edges[b], {i \in DOMAIN Edges[b] : Edges[b][i].p = p /\ IsResident(Edges[b][i])})]
  /\ UNCHANGED <<pc, rec, overlay, sink, reduce, disk, fixed>>

\* The edges of the points behind the prefix.
Spilled(b) == At(Edges[b], {i \in DOMAIN Edges[b] : ~IsResident(Edges[b][i])})

\* The rest goes to the spill sink, under its mutex.
FlushSpill(b) ==
  /\ pc = "stream" /\ batch[b] = "inserted"
  /\ batch' = [batch EXCEPT ![b] = "done"]
  /\ sink' = SinkFlush(sink, Spilled(b))
  /\ UNCHANGED <<pc, res, rec, overlay, reduce, disk, fixed>>

\* run_scheduler_scope returns when every leaf has flushed.
StreamDone ==
  /\ pc = "stream" /\ \A b \in DOMAIN batch : batch[b] = "done"
  /\ pc' = IF MetadataOnly THEN "epilogue"
           ELSE IF Resident = NumPoints THEN "resident" ELSE "finish_sink"
  /\ UNCHANGED <<stream, reduce, disk, fixed>>

FinishSink ==
  /\ pc = "finish_sink"
  /\ sink' = SinkFinish(sink)
  /\ pc' = "resident"
  /\ UNCHANGED <<batch, res, rec, overlay, reduce, disk, fixed>>

-----------------------------------------------------------------------------
(* Rows are delivered to on_node_done.                                     *)

Targets(cands) == [i \in DOMAIN cands |-> cands[i].c]

\* One row into the pre-prune file; after an error nothing more is written.
WriteFixed(f, r) == IF f.ok THEN FixedWriteNode(f.val, r.vid, Targets(r.cands), MaxDegree) ELSE f

\* What the callback of each mode does with one row; base rows must come in sequence.
Deliver(newRows, next) ==
  /\ out' = out \o newRows
  /\ LET misplaced == \E i \in DOMAIN newRows : newRows[i].vid # Len(out) + i - 1
         words == FoldLeft(LAMBDA f, r : DirectWriteNode(f, Capped(Targets(r.cands), MaxDegree)), graph, newRows)
         fixedRows == FoldLeft(WriteFixed, Ok(pre), newRows)
     IN CASE cfg.mode = "direct" -> /\ graph' = words /\ pre' = pre /\ pc' = next
          [] cfg.mode = "final" -> /\ graph' = graph
                                   /\ pre' = IF fixedRows.ok THEN fixedRows.val ELSE pre
                                   /\ pc' = IF fixedRows.ok THEN next ELSE "err"
          [] OTHER -> /\ graph' = graph /\ pre' = pre
                      /\ pc' = IF misplaced THEN "err" ELSE next
  /\ UNCHANGED <<open, rows>>

\* Mutant: the rows of the resident prefix are forgotten.
EmitNoResident ==
  /\ pc = "resident"
  /\ pc' = IF Resident = NumPoints THEN "epilogue" ELSE "plan"
  /\ UNCHANGED <<stream, reduce, disk, fixed>>

\* The rows of the resident prefix come first.
EmitResident ==
  /\ pc = "resident"
  /\ Deliver(RowsOf(0, Resident, Concat([i \in 1..Resident |-> res[i - 1]])),
             IF Resident = NumPoints THEN "epilogue" ELSE "plan")
  /\ UNCHANGED <<stream, todo, parts, temps, fixed>>

\* reduce_..._parallel: group the segments; one group or one thread reduces serially.
PlanReduce ==
  /\ pc = "plan"
  /\ LET groups == Groups(sink)
         active == ActiveGroups(groups.val, Resident)
     IN IF ~groups.ok THEN pc' = "err" /\ todo' = todo
        ELSE /\ todo' = active
             /\ pc' = IF Len(active) <= 1 \/ cfg.par <= 1 THEN "serial" ELSE "chunk"
  /\ UNCHANGED <<stream, parts, out, disk, fixed>>

NextPoint == Len(out)

\* The serial reducer emits group by group.
ReduceSerial ==
  /\ pc = "serial" /\ todo # <<>>
  /\ LET part == ReduceGroup(sink, GroupStart(todo[1], Resident), todo[1])
     IN IF part.ok THEN Deliver(EmitPart(NextPoint, part.val), "serial") /\ todo' = Tail(todo)
        ELSE pc' = "err" /\ UNCHANGED <<out, pre, graph, open, rows, todo>>
  /\ UNCHANGED <<stream, parts, temps, fixed>>

ChunkOf(groups) == SubSeq(groups, 1, Min({cfg.par, Len(groups)}))

\* A chunk of groups is reduced in parallel, each to a temporary part; when one of
\* them fails (with an I/O error) the call returns and the others stay on disk.
ReduceChunk ==
  /\ pc = "chunk" /\ todo # <<>>
  /\ LET chunk == ChunkOf(todo)
         reduced == [i \in DOMAIN chunk |-> ReduceGroupToPart(sink, GroupStart(chunk[i], Resident), chunk[i])]
     IN \E failed \in SUBSET DOMAIN chunk :
          LET allOk == failed = {} /\ \A i \in DOMAIN chunk : reduced[i].ok
          IN /\ temps' = temps \cup {<<run, GroupStart(chunk[i], Resident)>> : i \in DOMAIN chunk}
             /\ fault' = (fault \/ failed # {})
             /\ pc' = IF allOk THEN "chunk" ELSE "err"
             /\ parts' = IF allOk THEN parts \o [i \in DOMAIN chunk |-> reduced[i].val] ELSE parts
             /\ todo' = SubSeq(todo, Len(chunk) + 1, Len(todo))
  /\ UNCHANGED <<stream, out, pre, graph, open, rows, cfg, run, old>>

ChunksDone ==
  /\ pc = "chunk" /\ todo = <<>>
  /\ pc' = "replay"
  /\ UNCHANGED <<stream, reduce, disk, fixed>>

\* Mutant: a part that has been replayed stays on disk.
ReplayKeep ==
  /\ pc = "replay" /\ parts # <<>>
  /\ Deliver(EmitPart(NextPoint, parts[1]), "replay")
  /\ parts' = Tail(parts)
  /\ UNCHANGED <<stream, todo, temps, fixed>>

\* A part is replayed and removed.
Replay ==
  /\ pc = "replay" /\ parts # <<>>
  /\ Deliver(EmitPart(NextPoint, parts[1]), "replay")
  /\ parts' = Tail(parts)
  /\ temps' = temps \ {<<run, parts[1].lo>>}
  /\ UNCHANGED <<stream, todo, fixed>>

\* A row callback or a read fails during the replay: the remaining parts are removed.
ReplayFails ==
  /\ pc = "replay" /\ parts # <<>>
  /\ pc' = "err" /\ fault' = TRUE
  /\ temps' = temps \ {<<run, parts[i].lo>> : i \in DOMAIN parts}
  /\ UNCHANGED <<stream, reduce, pre, graph, open, rows, cfg, run, old>>

\* Mutant: the rest of the points is counted from the resident prefix.
EmitTailFromPrefix ==
  /\ \/ pc = "serial" /\ todo = <<>>
     \/ pc = "replay" /\ parts = <<>>
  /\ Deliver(EmptyRows(Resident, NumPoints), "epilogue")
  /\ UNCHANGED <<stream, todo, parts, temps, fixed>>

\* The points after the last group have empty rows.
EmitTail ==
  /\ \/ pc = "serial" /\ todo = <<>>
     \/ pc = "replay" /\ parts = <<>>
  /\ Deliver(EmptyRows(NextPoint, NumPoints), "epilogue")
  /\ UNCHANGED <<stream, todo, parts, temps, fixed>>

\* cleanup_oom_artifacts_in_dirs removes every candidate file it recognises by name,
\* also those of earlier processes; .candidate_reduce_* files are not among them.
Epilogue ==
  /\ pc = "epilogue" /\ pc' = "post"
  /\ sink' = [sink EXCEPT !.files = IF cfg.oom /\ ~cfg.keep THEN <<>> ELSE @]
  /\ UNCHANGED <<batch, res, rec, overlay, reduce, disk, fixed>>

-----------------------------------------------------------------------------
(* After the build: rows are pruned and the graph file is written.         *)

PostRefused ==
  /\ pc = "post" /\ cfg.mode # "direct" /\ BadHint
  /\ Refuse

FinishDirect ==
  /\ pc = "post" /\ cfg.mode = "direct"
  /\ pc' = "finish"
  /\ UNCHANGED <<stream, reduce, disk, fixed>>

BeginWrite(finalRows) ==
  /\ graph' = DirectCreate(Start) /\ open' = TRUE
  /\ rows' = finalRows
  /\ pc' = "write"

\* The pre-prune file is loaded and pruned row by row (750 = MAX_OCCLUSION_SIZE).
PostFinal ==
  /\ pc = "post" /\ cfg.mode = "final" /\ ~BadHint
  /\ LET loaded == FixedLoad(pre, NumPoints, MaxDegree)
     IN IF loaded.ok
        THEN BeginWrite([k \in 1..NumPoints |-> RobustPrune(k - 1, ToSet(loaded.val[k]), 750)])
        ELSE pc' = "err" /\ UNCHANGED <<graph, open, rows>>
  /\ UNCHANGED <<stream, reduce, temps, pre, fixed>>

\* The modes that lay a graph over the base rows create its writer before they look
\* whether every base row came.
WriteOverBase(finalRows) ==
  IF Len(out) = NumPoints THEN BeginWrite(finalRows)
  ELSE /\ graph' = DirectCreate(Start) /\ open' = TRUE
       /\ pc' = "err"
       /\ UNCHANGED rows

BaseRow(k) == Capped(Targets(out[k].cands), MaxDegree)

\* Spine overlay: the base rows, with the recorder's candidates laid over them.
PostSpine ==
  /\ pc = "post" /\ cfg.mode = "spine" /\ ~BadHint
  /\ WriteOverBase([k \in 1..NumPoints |-> SpineRow(BaseRow(k), OverlayRanked(overlay[k - 1]), Budget)])
  /\ UNCHANGED <<stream, reduce, temps, pre, fixed>>

\* Oracle only: the base rows are written as they are.
PostOracle ==
  /\ pc = "post" /\ cfg.mode = "oracle" /\ ~BadHint
  /\ WriteOverBase([k \in 1..NumPoints |-> BaseRow(k)])
  /\ UNCHANGED <<stream, reduce, temps, pre, fixed>>

LuneRows == [k \in 1..NumPoints |->
  LuneRow(k - 1, ToSet(Targets(rec[k - 1])), [q \in Points |-> {}], 0)]
RecordedRows == [k \in 1..NumPoints |-> [vid |-> k - 1, cands |-> rec[k - 1]]]

\* The in-memory accumulator writes each row as it is reduced.
PostLuneMemory ==
  /\ pc = "post" /\ cfg.mode = "lune_memory" /\ ~BadHint
  /\ BeginWrite(LuneRows)
  /\ out' = RecordedRows
  /\ UNCHANGED <<stream, todo, parts, temps, pre, fixed>>

\* The spilling recorder reduces to raw shards; the file gets its final header first
\* and then the rows, through a buffered writer.
PostLuneSpill ==
  /\ pc = "post" /\ cfg.mode = "lune_spill" /\ ~BadHint
  /\ graph' = RawShardsFile(Start, LuneRows) /\ open' = TRUE
  /\ out' = RecordedRows
  /\ pc' = "flush"
  /\ UNCHANGED <<stream, todo, parts, temps, pre, rows, fixed>>

WriteRow ==
  /\ pc = "write" /\ rows # <<>>
  /\ graph' = DirectWriteNode(graph, Capped(rows[1], MaxDegree))
  /\ rows' = Tail(rows)
  /\ pc' = IF Len(rows) = 1 THEN "finish" ELSE "write"
  /\ UNCHANGED <<stream, reduce, temps, pre, open, fixed>>

\* DirectMemGraphWriter::finish.
Finish ==
  /\ pc = "finish"
  /\ graph' = DirectFinish(graph) /\ open' = FALSE
  /\ pc' = IF cfg.mode = "final" THEN "remove" ELSE "done"
  /\ UNCHANGED <<stream, reduce, temps, pre, rows, fixed>>

\* The pre-prune file goes last; when it cannot be removed the build only warns.
RemovePre ==
  /\ pc = "remove" /\ pc' = "done"
  /\ pre' = None
  /\ UNCHANGED <<stream, reduce, temps, graph, open, rows, fixed>>

RemovePreFails ==
  /\ pc = "remove" /\ pc' = "done"
  /\ fault' = TRUE
  /\ UNCHANGED <<stream, reduce, disk, cfg, run, old>>

FlushRaw ==
  /\ pc = "flush"
  /\ open' = FALSE
  /\ pc' = "done"
  /\ UNCHANGED <<stream, reduce, temps, pre, graph, rows, fixed>>

-----------------------------------------------------------------------------
(* Faults.                                                                 *)

\* An I/O error, a failed leaf or a failed read ends the build: `?` returns it.
IoError ==
  /\ pc \notin {"remove", "done", "err"}
  /\ pc' = "err" /\ fault' = TRUE
  /\ UNCHANGED <<stream, reduce, disk, cfg, run, old>>

\* What the graph file may hold: a writer that was not finished has flushed some
\* prefix of what it was given, when it is dropped as when the process is killed.
OnDisk == IF open THEN Prefixes(graph) ELSE {graph}

\* The process ends, by a crash or after it returned, and the build is started again.
Restart ==
  /\ run < MaxRuns
  /\ run' = run + 1
  /\ graph' \in OnDisk
  /\ old' = graph'
  /\ \E c \in Configs : Fresh(c, sink.files)
  /\ UNCHANGED <<temps, pre>>

Stopped ==
  /\ run = MaxRuns /\ pc \in {"done", "err"}
  /\ UNCHANGED vars

Next ==
  \/ OpenRefused \/ OpenDirect \/ OpenFinal \/ OpenRecorder
  \/ \E b \in DOMAIN batch : Record(b) \/ InsertResident(b) \/ FlushSpill(b)
  \/ StreamDone \/ FinishSink \/ EmitResident
  \/ PlanReduce \/ ReduceSerial \/ ReduceChunk \/ ChunksDone \/ Replay \/ ReplayFails \/ EmitTail
  \/ Epilogue
  \/ PostRefused \/ FinishDirect \/ PostFinal \/ PostSpine \/ PostOracle
  \/ PostLuneMemory \/ PostLuneSpill
  \/ WriteRow \/ Finish \/ RemovePre \/ RemovePreFails \/ FlushRaw
  \/ IoError \/ Restart \/ Stopped

Spec == Init /\ [][Next]_vars

-----------------------------------------------------------------------------
(* Properties.                                                             *)

\* Every variable keeps its type; positions of batches, rows and runs stay in bounds.
TypeOK ==
  /\ cfg \in Configs /\ run \in 1..MaxRuns /\ fault \in BOOLEAN /\ open \in BOOLEAN
  /\ \A b \in DOMAIN batch : batch[b] \in {"todo", "recorded", "inserted", "done"}
  /\ Len(out) <= NumPoints
  /\ \A k \in DOMAIN out : out[k].vid \in Points
  /\ \A t \in temps : t[1] \in 1..run /\ t[2] \in Points

Flushed(b) == {e \in ToSet(Edges[b]) :
  CASE batch[b] = "done" -> TRUE
    [] batch[b] = "inserted" -> IsResident(e)
    [] OTHER -> FALSE}

\* Candidates that have reached a reservoir, the sink or, without a sink, the recorder.
Offered == UNION {Flushed(b) : b \in DOMAIN batch}

\* Every candidate given to the spill sink is, when the sink is finished, in exactly
\* one segment of exactly one part file that was kept, and nothing else is: no flush,
\* roll-over or restart over old files loses, doubles or invents a record.
SegmentsExact ==
  pc \in {"resident", "plan"} /\ Resident < NumPoints =>
    LET contents == [i \in DOMAIN sink.manifest |-> ReadSegment(sink, sink.manifest[i])]
        all == Concat(contents)
    IN /\ PartsPresent(sink, [segs |-> sink.manifest])
       /\ ToSet(all) = {e \in Offered : ~IsResident(e)}
       /\ Len(all) = Cardinality(ToSet(all))

\* The build answers with an error only when an I/O operation failed or the
\* configuration was refused: no reducer, row check or loader trips over data that
\* the build itself wrote.
NoSpuriousError == pc = "err" => fault \/ cfg.clash \/ BadHint

\* A refused configuration leaves the previous graph file as it was.
RefusedKeepsGraph == pc = "err" /\ ~fault => graph = old

\* The neighbours a complete graph of data set l may and must have.
Offers(l, p) ==
  {e.c : e \in {e \in UNION {ToSet(Leaves[l][b]) : b \in DOMAIN Leaves[l]} : e.p = p}}
Mirrored(l, p) ==
  {e.p : e \in {e \in UNION {ToSet(Leaves[l][b]) : b \in DOMAIN Leaves[l]} :
              e.direct /\ e.c = p}}

CompleteRow(row, l, p) ==
  /\ ToSet(row) \subseteq Offers(l, p) \cup Mirrored(l, p)
  /\ Len(row) = Cardinality(ToSet(row))
  /\ Len(row) >= Min({MaxDegree, Cardinality(Offers(l, p))})
  /\ Len(row) <= MaxDegree

\* Whatever prefix a crash or an error leaves of a graph file, load_mem_graph accepts
\* it only if it is a complete graph: row k belongs to point k, is full, without
\* duplicates and within the degree, the header's degree is that of the widest row, and
\* the start is a point.
LoadsOnlyFinished ==
  \A f \in OnDisk :
    LET loaded == LoadMemGraph(f, NumPoints)
    IN loaded.ok => /\ f[1].start \in Points
                    /\ f[1].degree = MaxDegreeIn(loaded.val)
                    /\ Len(loaded.val) = NumPoints
                    /\ \E l \in DOMAIN Leaves : \A p \in Points : CompleteRow(loaded.val[p + 1], l, p)

\* A build that answers Ok has removed what it should: its own neighbour parts, the
\* pre-prune file unless its removal failed, and (unless artifacts are kept) every
\* candidate file, those of crashed predecessors included.  Its graph loads.
OkLeavesOnlyTheGraph ==
  pc = "done" =>
    /\ \A t \in temps : t[1] < run
    /\ (cfg.mode = "final" /\ ~fault) => pre = None
    /\ (cfg.oom /\ ~cfg.keep) => DOMAIN sink.files = {}
    /\ LoadMemGraph(graph, NumPoints).ok

\* A delivered row as the abstract graph sees it: the set of its candidates, if it is
\* the row of the next point and no candidate was inserted twice.
RowSet(k) ==
  IF out[k].vid = k - 1 /\ Len(out[k].cands) = Cardinality(ToSet(out[k].cands))
  THEN ToSet(out[k].cands) ELSE {"misplaced"}

Graph == INSTANCE CandidateGraph WITH
  Candidates <- UNION {UNION {ToSet(Leaves[l][b]) : b \in DOMAIN Leaves[l]} : l \in DOMAIN Leaves},
  offered <- Offered,
  rows <- [k \in DOMAIN out |-> RowSet(k)],
  outcome <- CASE pc = "done" -> "ok" [] pc = "err" -> "failed" [] OTHER -> "building"

\* Every build, resident, hybrid, spilled or recorded, in parallel or not, with crashes
\* and restarts, delivers to each point exactly the candidates offered for it, in point
\* order and once: it implements CandidateGraph.
RefinesCandidateGraph == Graph!Spec
=============================================================================
