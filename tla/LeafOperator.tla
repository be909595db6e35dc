---------------------------- MODULE LeafOperator ----------------------------
(***************************************************************************)
(* The executors of a leaf job (leaf_build.rs, adsampling.rs): which one a *)
(* leaf gets, how the rows of its kernel are computed in blocks, waves or  *)
(* tiles by several workers under the worker budget of                     *)
(* LeafAdsOperatorRuntime, and how they reach the edge sink.  Leaf jobs run*)
(* concurrently; a job that waits in a rayon scope, or yields, may run     *)
(* another leaf job on its own stack.  The assignment stream (AdsStream) is*)
(* the other executor of adsampling.rs.                                    *)
(***************************************************************************)
EXTENDS AdsStream

CONSTANTS
  LeafJobSets,    \* sequences of leaf jobs that run together
  CpuBudget,      \* config.cpu_budget
  MinWorkerShare, \* the 4 of worker_cap_for_current_contexts
  TileRows,       \* what tile_rows_for_bucket may answer: the EWMA of the tile times
  QueryTile,      \* ADS_QUERY_TILE
  BlockSize,      \* BLOCK_SIZE of blockwise, block_rows of waves
  WaveWidth,      \* choose_parallel_block_wave_width
  MaxLeafFaults   \* bound: failing reads and failing flushes

ASSUME LeafOperatorAssumption ==
  /\ {CpuBudget, MinWorkerShare, QueryTile, BlockSize, WaveWidth} \subseteq Nat \ {0}
  /\ TileRows \subseteq Nat \ {0} /\ TileRows # {} /\ MaxLeafFaults \in Nat

VARIABLES
  jobOf,   \* the leaf jobs
  op,      \* their progress
  runtime  \* active contexts, active workers, faults so far

opVars == <<jobOf, op, runtime>>

-----------------------------------------------------------------------------
(* A job: [leaf, xs, knn, l2, adsMin, groups, ads, tiling, workGraph,      *)
(* wavefront, split, large, safe, wants].                                  *)

LeafSize(j) == Len(j.leaf)
TopK(j) == Min({j.knn, Max({LeafSize(j) - 1, 0})})

\* should_use_leaf_adsampling_executor, compute_leaf_adsampling_for_params and the size
\* tests of process_leaf...
Sampled(j) == j.l2 /\ LeafSize(j) >= j.adsMin /\ j.groups
Executor(j) ==
  IF LeafSize(j) <= 1 \/ TopK(j) = 0 THEN "none"
  ELSE IF Sampled(j)
  THEN IF j.wavefront /\ ~j.tiling /\ ~j.workGraph THEN "wavefront"
       ELSE IF (j.tiling \/ j.workGraph) /\ LeafSize(j) >= j.split
       THEN IF j.workGraph THEN "work_graph" ELSE "tiled"
       ELSE "row_ranges"
  ELSE IF j.large THEN "waves" ELSE IF LeafSize(j) > j.safe THEN "blockwise" ELSE "dense"

\* The rows of the kernel the executor computes, tile by tile or at once.
KernelRows(j) ==
  CASE Executor(j) = "none" -> <<>>
    [] Executor(j) = "wavefront" -> WavefrontRows(j.xs, TopK(j), j.ads)
    [] Executor(j) \in {"tiled", "work_graph", "row_ranges"} -> AdsRows(j.xs, TopK(j), j.ads)
    [] OTHER -> DenseRows(j.xs, TopK(j))

NoWorker == [pc |-> "run", tiles |-> <<>>]
NoOp == [pc |-> "start", exec |-> "none", kernel |-> <<>>, cursor |-> 0, workers |-> <<>>,
         tiles |-> <<>>, blocks |-> {}, rows |-> <<>>, edges |-> {}, sent |-> 0, wits |-> {},
         under |-> 0]

OpIdle == jobOf = <<>> /\ op = <<>> /\ runtime = [contexts |-> 0, active |-> 0, faults |-> 0]

\* Kernels are pure functions of the vectors: the model evaluates them at the start.
OpInit ==
  /\ runtime = [contexts |-> 0, active |-> 0, faults |-> 0]
  /\ \E js \in LeafJobSets :
       /\ jobOf = js
       /\ op = [c \in DOMAIN js |-> [NoOp EXCEPT !.exec = Executor(js[c]), !.kernel = KernelRows(js[c])]]

Ended(c) == op[c].pc \in {"done", "failed"}
LeafFault == runtime.faults < MaxLeafFaults
Size(c) == LeafSize(jobOf[c])

\* The pc of a leaf whose vectors are loaded.
FirstStep(exec) ==
  CASE exec = "tiled" -> "reserve" [] exec = "work_graph" -> "tiles"
    [] exec = "blockwise" -> "blocks" [] exec = "waves" -> "wave" [] OTHER -> "compute"

\* A thread takes job c, alone (h = 0) or while job h waits on the same stack; it reads
\* the vectors and, for the tiled executors, begins a context.
StartLeaf(c, h) ==
  /\ op[c].pc = "start"
  /\ IF h = 0 THEN TRUE
     ELSE /\ op[h].pc = "tiles" /\ ~\E d \in DOMAIN op : op[d].under = h /\ ~Ended(d)
          /\ \/ op[h].exec = "work_graph" /\ op[h].cursor < Size(h)
             \/ op[h].workers[1].pc = "end" /\ \E w \in DOMAIN op[h].workers : op[h].workers[w].pc = "run"
  /\ \/ /\ op' = [op EXCEPT ![c].under = h,
                            ![c].pc = IF op[c].exec = "none" THEN "done" ELSE FirstStep(op[c].exec),
                            ![c].workers = IF op[c].exec = "work_graph" THEN <<NoWorker>> ELSE <<>>]
        /\ runtime' = [runtime EXCEPT !.contexts = IF op[c].exec \in {"tiled", "work_graph"} THEN @ + 1 ELSE @]
     \/ /\ LeafFault /\ op[c].exec # "none"
        /\ op' = [op EXCEPT ![c].under = h, ![c].pc = "failed"]
        /\ runtime' = [runtime EXCEPT !.faults = @ + 1]
  /\ UNCHANGED jobOf

\* Dense, row ranges (collected in order) and wavefront: all rows, then the sink.
ComputeRows(c) ==
  /\ op[c].pc = "compute"
  /\ op' = [op EXCEPT ![c].rows = op[c].kernel, ![c].pc = "edges"]
  /\ UNCHANGED <<jobOf, runtime>>

\* One block of process_leaf_blockwise; witnesses go to the sink before the edges.
ComputeBlock(c) ==
  /\ op[c].pc = "blocks"
  /\ LET hi == Min({op[c].cursor + BlockSize, Size(c)})
     IN op' = [op EXCEPT ![c].cursor = hi,
                         ![c].rows = @ \o SubSeq(op[c].kernel, op[c].cursor + 1, hi),
                         ![c].pc = IF hi = Size(c) THEN "witnesses" ELSE "blocks"]
  /\ UNCHANGED <<jobOf, runtime>>

-----------------------------------------------------------------------------
(* LeafAdsOperatorRuntime.                                                 *)

\* worker_cap_for_current_contexts.
WorkerCap ==
  IF runtime.contexts <= 1 THEN CpuBudget
  ELSE Min({CpuBudget, Max({CpuBudget \div runtime.contexts, MinWorkerShare})})

\* reserve_workers: the CAS that succeeds.  Without a free worker the job spins.
ReserveWorkers(c) ==
  /\ op[c].pc = "reserve" /\ runtime.active < CpuBudget
  /\ \E t \in TileRows :
       LET tiles == (Size(c) + Max({t, QueryTile}) - 1) \div Max({t, QueryTile})
           grant == Min({WorkerCap, tiles, CpuBudget - runtime.active})
       IN /\ runtime' = [runtime EXCEPT !.active = @ + grant]
          /\ op' = [op EXCEPT ![c].pc = "tiles", ![c].workers = [w \in 1..grant |-> NoWorker]]
  /\ UNCHANGED jobOf

\* Mutant: the cursor is read and stored, and a tile of one row less is added.
NextTileShort(c, rows) == op[c].cursor + rows - (IF rows > 1 THEN 1 ELSE 0)

\* cursor.fetch_add.
NextTile(c, rows) == op[c].cursor + rows

\* One round of run_leaf_ads_tile_worker, or of the work graph loop: a tile of as many
\* rows as the times measured so far suggest, or the end and the publication of the tiles.
TakeTile(c, w) ==
  /\ op[c].pc = "tiles" /\ op[c].workers[w].pc = "run" /\ ~\E d \in DOMAIN op : op[d].under = c /\ ~Ended(d) /\ w = 1
  /\ \E t \in TileRows :
       LET rows == Max({t, QueryTile})
           lo == op[c].cursor
           tile == [start |-> lo, rows |-> SubSeq(op[c].kernel, lo + 1, Min({lo + rows, Size(c)}))]
       IN IF lo < Size(c)
          THEN op' = [op EXCEPT ![c].cursor = NextTile(c, rows), ![c].workers[w].tiles = Append(@, tile)]
          ELSE op' = [op EXCEPT ![c].cursor = Min({NextTile(c, rows), Size(c) + 1}), ![c].workers[w] = [pc |-> "end", tiles |-> <<>>],
                                ![c].tiles = @ \o op[c].workers[w].tiles]
  /\ UNCHANGED <<jobOf, runtime>>

\* Mutant: the reservation is dropped without giving the workers back.
ReleaseNothing(c) == [runtime EXCEPT !.contexts = @ - 1]

\* The guards of the context and of the reservation.
Release(c) ==
  [runtime EXCEPT !.contexts = @ - 1,
                  !.active = IF op[c].exec = "tiled" THEN @ - Len(op[c].workers) ELSE @]

\* The scope has joined and nothing runs above on this stack: finalize_leaf_ads_tiles.
FinalizeTiles(c) ==
  /\ op[c].pc = "tiles" /\ \A w \in DOMAIN op[c].workers : op[c].workers[w].pc = "end"
  /\ ~\E d \in DOMAIN op : op[d].under = c /\ ~Ended(d)
  /\ LET sorted == SortSeq(op[c].tiles, LAMBDA a, b : a.start < b.start)
     IN op' = [op EXCEPT ![c].rows = FlattenSeq([i \in DOMAIN sorted |-> sorted[i].rows]),
                         ![c].pc = "edges", ![c].tiles = <<>>]
  /\ runtime' = Release(c)
  /\ UNCHANGED jobOf

-----------------------------------------------------------------------------
(* Waves of blocks.                                                        *)

\* A block of the current wave is done; blocks of a wave finish in any order.
BlockStarts(c) == {b \in 0..(Size(c) - 1) : b % BlockSize = 0}
WaveOf(c) == {b \in BlockStarts(c) : b >= op[c].cursor /\ b < op[c].cursor + WaveWidth * BlockSize}
FinishBlock(c, b) ==
  /\ op[c].pc = "wave" /\ b \in WaveOf(c) \ op[c].blocks
  /\ op' = [op EXCEPT ![c].blocks = @ \cup {b}]
  /\ UNCHANGED <<jobOf, runtime>>

\* The sink gets a batch of edges of rows lo..hi, or refuses it.
Sends(c, lo, hi) ==
  [edges |-> op[c].edges \cup EdgesOf(jobOf[c].leaf, op[c].kernel, lo, hi),
   sent |-> op[c].sent + 2 * FoldFunctionOnSet(+, 0, [i \in lo..hi |-> Len(op[c].kernel[i])], lo..hi)]
Witnesses(c, lo, hi) ==
  IF jobOf[c].l2 /\ jobOf[c].wants THEN WitnessesOf(jobOf[c].leaf, jobOf[c].xs, op[c].kernel, lo, hi) ELSE {}

\* The wave is complete: its blocks, sorted, are flushed, edges then witnesses.
FlushWave(c) ==
  /\ op[c].pc = "wave" /\ op[c].blocks = WaveOf(c)
  /\ LET hi == Min({Max(op[c].blocks) + BlockSize, Size(c)})
         got == Sends(c, op[c].cursor + 1, hi)
     IN op' = [op EXCEPT ![c].edges = got.edges, ![c].sent = got.sent,
                         ![c].wits = @ \cup Witnesses(c, op[c].cursor + 1, hi),
                         ![c].rows = @ \o SubSeq(op[c].kernel, op[c].cursor + 1, hi),
                         ![c].cursor = hi, ![c].blocks = {},
                         ![c].pc = IF hi = Size(c) THEN "done" ELSE "wave"]
  /\ UNCHANGED <<jobOf, runtime>>

\* emit_row_topk_edges and its twins.
EmitEdges(c) ==
  /\ op[c].pc = "edges"
  /\ LET got == Sends(c, 1, Size(c))
     IN op' = [op EXCEPT ![c].edges = got.edges, ![c].sent = got.sent,
                         ![c].pc = IF op[c].exec = "blockwise" THEN "done" ELSE "witnesses"]
  /\ UNCHANGED <<jobOf, runtime>>

\* emit_lune_witnesses_from_...
EmitWitnesses(c) ==
  /\ op[c].pc = "witnesses"
  /\ op' = [op EXCEPT ![c].wits = Witnesses(c, 1, Size(c)),
                      ![c].pc = IF op[c].exec = "blockwise" THEN "edges" ELSE "done"]
  /\ UNCHANGED <<jobOf, runtime>>

\* The sink, or the prefetch of the sketches, returns an error.
FlushFails(c) ==
  /\ LeafFault /\ op[c].pc \in {"edges", "witnesses", "wave"}
  /\ op' = [op EXCEPT ![c].pc = "failed"]
  /\ runtime' = [runtime EXCEPT !.faults = @ + 1]
  /\ UNCHANGED jobOf

-----------------------------------------------------------------------------
\* Every worker is held by a job with a job above it on the same stack that spins for one:
\* none of them ever goes on.
NestedSpin ==
  /\ runtime.active = CpuBudget /\ \E c \in DOMAIN op : op[c].pc = "reserve" /\ op[c].under # 0
  /\ \A h \in DOMAIN op : (op[h].exec = "tiled" /\ op[h].pc = "tiles") =>
       \E c \in DOMAIN op : op[c].under = h /\ op[c].pc = "reserve"
AllEnded == \A c \in DOMAIN op : Ended(c)
OpRests == (AllEnded \/ NestedSpin) /\ UNCHANGED opVars

OpNext ==
  \/ \E c \in DOMAIN op :
       \/ \E h \in DOMAIN op \cup {0} : h # c /\ StartLeaf(c, h)
       \/ ComputeRows(c) \/ ComputeBlock(c) \/ ReserveWorkers(c) \/ FinalizeTiles(c)
       \/ \E w \in DOMAIN op[c].workers : TakeTile(c, w)
       \/ \E b \in BlockStarts(c) : FinishBlock(c, b)
       \/ FlushWave(c) \/ EmitEdges(c) \/ EmitWitnesses(c) \/ FlushFails(c)
  \/ OpRests

\* Threads that have a job go on with it, and the pool takes queued jobs.
OpFairness ==
  /\ WF_opVars(\E c \in DOMAIN op : StartLeaf(c, 0) \/ ComputeRows(c) \/ ComputeBlock(c))
  /\ WF_opVars(\E c \in DOMAIN op : ReserveWorkers(c) \/ FinalizeTiles(c))
  /\ WF_opVars(\E c \in DOMAIN op : \E w \in DOMAIN op[c].workers : TakeTile(c, w))
  /\ WF_opVars(\E c \in DOMAIN op : \E b \in BlockStarts(c) : FinishBlock(c, b))
  /\ WF_opVars(\E c \in DOMAIN op : FlushWave(c) \/ EmitEdges(c) \/ EmitWitnesses(c))

-----------------------------------------------------------------------------
(* What a leaf job answers.                                                *)

\* Rows are full, nearest first, without the row itself or a repeated one; the distances
\* are the smallest there are for the exact executors, and for a sampled one whose ratios
\* prune nothing that belongs to the row.
RowsRight(c) ==
  \A i \in DOMAIN op[c].kernel :
    LET row == op[c].kernel[i]
        exact == DenseRow(jobOf[c].xs, i, TopK(jobOf[c]))
    IN /\ Len(row) = TopK(jobOf[c])
       /\ IsInjective([r \in DOMAIN row |-> row[r].id]) /\ \A r \in DOMAIN row : row[r].id # i
       /\ \A r \in DOMAIN row : row[r].dist = FullDist(jobOf[c].xs[i], jobOf[c].xs[row[r].id])
       /\ \A r, q \in DOMAIN row : r < q => row[r].dist <= row[q].dist
       /\ (~Sampled(jobOf[c]) \/ Lossless(jobOf[c].ads)) =>
            [r \in DOMAIN row |-> row[r].dist] = [r \in DOMAIN exact |-> exact[r].dist]

\* However its rows were cut into blocks, waves and tiles and whoever computed them, a leaf
\* that ends Ok has every row once and in order, and its sink exactly one direct and one
\* mirror edge per entry and the witnesses of every row; the workers in use never exceed
\* the budget; and a stream visits its chunks in order with the leaders of each point.
AnswersExact ==
  /\ runtime.active \in 0..CpuBudget
  /\ AllEnded => runtime.active = 0 /\ runtime.contexts = 0
  /\ \A c \in DOMAIN op :
       /\ (\A d \in DOMAIN op : op[d].pc = "start") => RowsRight(c)
       /\ op[c].pc = "done" =>
            /\ op[c].rows = op[c].kernel
            /\ op[c].edges = EdgesOf(jobOf[c].leaf, op[c].kernel, 1, Len(op[c].kernel))
            /\ op[c].sent = Cardinality(op[c].edges)
            /\ op[c].exec # "none" => op[c].wits = Witnesses(c, 1, Size(c))
  /\ ChunksInOrder
  /\ (\A c \in DOMAIN jobs : jobs[c] = "queued") => LeadersRight
=============================================================================
