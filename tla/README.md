# TLA+ models of ForgeANN

ForgeANN builds a proximity-graph index for vector search in bounded memory. This
directory holds TLA+ models of the build from the partition of the points to the graph
file - threads, bounded queues, permits, caches and files that outlive a crash, the
kernels as operators over integers -, TLC runs that check them on small instances, and
TLAPS proofs, for every size, of the safety properties of the scheduler, the point pipeline,
the reservoir and the resident groups, of those of the graph build that do not speak of
what the rows contain, and of those of the out-of-core partition that do not speak of what
the leaves contain. Paths below are relative to `ForgeANN/src/forgeann/` unless they say
otherwise. `PROJECT.json` lists the runs, the mutants, the source lines behind each
definition, the findings, the hazards and the theorems.

## 1. Inventory of the system

A build draws sketches of all points, partitions the points recursively (RBC, random
ball carving), builds the k-nearest-neighbour graph of every leaf, offers its edges to
one HashPrune reservoir per point (in memory, or by spilling to files that are reduced
later), prunes and writes the graph.

| Component | State | Operations | Interacts with |
| --- | --- | --- | --- |
| Leaf scheduler (`scheduler.rs`) | bounded backlog; atomic counters of outstanding, in-flight and credited leaves; drainer counts; drainer limits; hydration slots; first error | emit a leaf (queued, deferred, inline), spawn, retire and run drainers, take and build batches, waits of the producer, discard, wait until idle | the RBC producer emits into it from a `rayon::join` tree; leaf builds call the point pipeline and flush edges to a sink |
| Point pipeline (`point_pipeline.rs`) | job and ready channels, byte budget with a condition variable, parked batches | deliver the rows of a list in order while workers read ahead | called by leaf batches and by resident subtrees; reads point stores |
| HashPrune reservoir (`hash_prune.rs`) | slots sorted by hash, cached farthest slot | insert, drain | edge sinks insert under one mutex per point; reducers insert after a spill |
| Spill and reduce (`spill_hashprune.rs`) | part files per shard, manifest, read offsets | flush, roll a part over, finalise; serial, sharded and parallel reduction | fed by leaf builds; the reducers feed reservoirs and the graph writer |
| RBC partition (`rbc_partition/`) | external child runs, assignment spool, D0 and D1 run manifests, a byte limiter, a leaf morsel queue | assign, spool, recurse, resume from a manifest | emits leaves; uses the prefetch pipeline |
| Prefetch pipeline (`rbc_partition/prefetch_pipeline.rs`) | bounded queue, byte gate shared between calls | prefetch the batches of a list | RBC assignment |
| I/O runtime (`io_runtime.rs`) | read plans, window cache | plan bounded windows, cache and evict | both pipelines |
| Stores (`point_store.rs`, `external_store.rs`, `direct_io.rs`) | files | read rows | everything |
| Orchestration (`mod.rs`, `params.rs`, `sampling.rs`, `io_planned_forgeann.rs`) | parameters, sinks | the phases of a build | everything |
| Pruning (`final_prune.rs`, `view_lune_prune.rs`, `spine_overlay_prune.rs`) | candidate lists | selection rules | after the reservoirs |
| OOM build and writer (`../index/inmem_index/`) | graph file with a back-filled header | stream nodes, finish, load | last phase |
| Assignment kernels (`adsampling.rs`, `rbc_partition/assignment_profile.rs`, `gemm_tile.rs`) | buffers | floating-point nearest leaders | RBC |
| `../utils`, `../model`, `../common`, `cmd_drivers` | - | containers, file formats, a semaphore the build does not use, the command line | - |

What is hard. Concurrency: the scheduler's counters are separate atomics, so every
pair of accesses can be split by another thread; permits and condition variables can
strand a waiter; results arrive out of order. Failure: leaf builds, reads and the
producer may return an error or panic anywhere, and guards must give back exactly what
was taken. Bounds: the backlog, the ready channel, the budget and the reservoir are
mostly full in practice. Persistence: spill parts, run manifests and the graph header
are written in several steps. There are no network messages, and the only timeout is
the morsel queue's. `PROJECT.json` lists each hazard at its line.

What makes each component correct:

* scheduler - each emitted leaf is built exactly once or accounted for by an error;
  counters are exact; queued leaves always have someone coming for them; the scope
  returns, and Ok means finished;
* point pipeline - rows come in input order, memory stays within the budget, permits
  come back, the call returns;
* reservoir - sorted, bounded, one slot per target, the cached farthest slot is right,
  and what is kept is as near as the rules promise;
* spill and reduce - each reservoir sees exactly its point's candidates, once, for
  every sharding and degree of parallelism; a damaged file is an error;
* RBC partition - every point reaches a leaf; live bytes stay within the limiter; the
  morsel queue neither loses a leaf nor a wakeup; a resumed run equals a fresh one;
* writer - a file that loads is a file that was finished.

## 2. Plan

Done: the scheduler, the point pipeline and the reservoir, with proofs; the spill store and
its reducers, the pruning rules and the graph file, composed in `GraphBuild` and shown to
implement `CandidateGraph`, with the first proofs; the run store, the level scan and the prefetch pipeline,
composed in `RbcPartition` with crashes and a cache that survives them, with proofs; the resident
subtree groups, with proofs; row files, stores, plans, caches and rings; the sketch file;
the view-lune recorders; the leaf executors and the streaming assignment.

Left, in this order:

1. More proofs about `GraphBuild`: `SegmentsExact`, the parts of `OkLeavesOnlyTheGraph`
   about files, and the step simulation by `CandidateGraph`. All three need an invariant on
   the contents of the part files, on top of the one that is proved on their shape.
2. `PointPipeline` composed with the hydration step of `LeafScheduler` and with
   `ResidentGroups`, which today take a hydration as one step that may fail.
3. The hot vector run (`rbc_partition/mod.rs`, its pinned window of vectors) and the
   I/O-planned variant of the build (`io_planned_forgeann.rs`).

## 3. Modules

### LeafScheduler (`scheduler.rs`)

Threads are `Emitters` (branches of the producer's join tree), `Drainers` (pool threads
that run drainer tasks) and `Main` (the thread in the closure of `run_scheduler_scope`).
`pc` says where a thread stands. The variables are the code's atomics and queue under
short names (comments give the field), plus history that no guard reads: `processed`,
`failed`, `discarded`, `leaked`.

*One step per observable access.* `try_enqueue_queued_leaf` is `CountLeaf`, `PushLeaf`,
then `UncountLeaf` or `CreditLeaf`; `maybe_spawn_leaf_drainer` is `SpawnReadBacklog`,
`SpawnReadActive`, `SpawnCas`; a batch is `TakeLeaf` and `DebitLeaf` repeated, then
`AcquireHydrationSlot`, `Hydrate`, `BuildBatch`, one `FinishLeafExecution` per leaf;
`run_leaf_drainer` is `StartDrainer`, `DrainerChecks`, `DrainerReadsActive`,
`ReserveRetirement`, `DrainerBatchDone`, `RecordError`, `DrainerUnreserves`,
`DrainerLeaves`, after which the drainer looks at the backlog once more. Emitters that
find the backlog full, over the soft limit or over the work target help with the same
batch steps. `ProducerReturns`, `DiscardPop`, `DiscardDrop`, `WaitUntilIdle`,
`FinalCheck` and `ScopeReturns` are the end of `run_scheduler_scope`.

*Collapsed.* The two atomics of `refresh_leaf_drainer_limits` are stored and read as
one pair, and a thread reads them together with the large-assignment count. The
retirement loop reads `active` in one step and reads and swaps `retiring` in the next;
a weak compare-exchange that fails is a turn of the loop. `finish_leaf_execution`
lowers two counters in one step (only telemetry reads the first). A build is one step:
its error check and its flush are visible to nobody in between. A batch that fails may
have delivered the edges of any of its leaves but not of all.

*Left out.* Peaks, timings and telemetry; grouping a batch by dataset (queued leaves
all read the same one); the batch form of the inline emission and waits for another
backlog than the soft limit's, which only the D1 path uses; jobs that `rayon::yield_now`
runs nested on a waiting thread. `Size` stands for a leaf's points and for its
estimated work; `WordMod` for 2^64.

### PointPipeline (`point_pipeline.rs`)

`call` holds what `for_each_pipelined_point_batch` computes from its configuration
(`IoThreads`, `Budget`, `EffectiveBatchPoints`, `Sizes`). `SendJob` is the producer
thread; `TakeJob`, `Acquire`, `Read`, `SendReady`, `WorkerExits` an I/O worker;
`Receive`, `Consume`, `LoopEnds`, `DropPending`, `ScopeJoins` the caller. `Release` is
the permit's drop with `notify_one`: it wakes one waiter of the code's choice, which
then competes for the lock as any other worker. The receivers stay alive until the
scope has joined, so a send never fails. Spurious wakeups are left out: they only help.
A read is one step that succeeds, fails or panics.

### HashPrune (`hash_prune.rs`, and the insertion loop of `leaf_build.rs`)

A reservoir is a record of the slots and of the cached farthest index and distance.
`Inserted` follows `insert` branch by branch: same target, room left, same hash,
farthest. Slots store a distance truncated to `Grain` (`BFloat16`: the high half of the
float) while offers are compared untruncated, as in the code. Distances are
non-negative integers; a hash is a function of the target, as `compute_hash` makes it
for one point. One insertion is one step, since the mutex of the point is held.

### CandidateGraph, SpillReduce, GraphFile, PruneRules, GraphBuild

(`spill_hashprune.rs`, `mod.rs`, `final_prune.rs`, `spine_overlay_prune.rs`,
`../index/inmem_index/`)

`CandidateGraph` is what a build promises: workers offer candidates, then every point
gets one row, in point order, made of exactly its candidates; it may fail at any step.

`SpillReduce` holds the store as operators over a record of buffers, open part, segments
and files: `flush`, the roll-over of a part, finalising, the segment groups, the reducers
(serial, chunked, parallel with neighbour parts that are replayed). `GraphFile` holds both writers and the loader's checks, `PruneRules` the selection
rules (`robust_prune_candidates`, the spine overlay, the view-lune rule).

`GraphBuild` runs them: `pc` is the phase of the build. Batches of edges are recorded,
inserted into the resident prefix and spilled in separate steps of concurrent workers;
then the reduction, the replay, the pruning, the header and the removal of temporary
files. An edge is a direct one or a mirror: the spine overlay takes only direct ones and
updates its rows flush by flush. The modes that lay a graph over the base rows create its
file before they count those rows (`WriteOverBase`). An I/O error and a crash are possible at every step; a crash loses memory and any
suffix of what a buffered writer holds, keeps the disk, and the build starts again over
it. The disk is assumed to keep what was written: a power failure that reorders writes is
not modelled, and the code has no fsync that could be checked against one.

`Graph == INSTANCE CandidateGraph WITH offered <- Offered, rows <- ..., outcome <- ...`
is the refinement mapping: `Offered` are the batches handed over so far, a row is the set
of candidates a reservoir received (or "misplaced" when it came for another point or
received one twice), the outcome is read off `pc`.

### ResidentPlan, ResidentGroups (`rbc_partition/child_run_io.rs`)

`ResidentPlan` computes the configuration from parameters and environment, the
whole-scope group and the greedy grouping of runs, in bytes as the code counts them.
`ResidentGroups` runs one call: the hydrator loads groups under the byte limiter and
sends them through the ready queue; the builder takes them in order; emitters submit
leaves to the morsel queue, workers drain it in batches. The queue's one condition
variable is a FIFO of waiting threads, as parking_lot wakes them; an emitter's wait
also ends by timeout. Bytes come back with the last reference to a group's store.

### RunStore, LevelScan, PrefetchCalls, RbcPartition (`rbc_partition/`)

`RunStore` holds the formats: extents in a run file, batched reads, assignment records,
merging of small clusters, materialised children, the cache manifest. `LevelScan` is the
planner, reader, compute workers and the reorder buffer of one level; `PrefetchCalls` the
producer, the consumer and the byte gate that calls share. `RbcPartition` composes them:
a build looks for cached depth-0 runs under its key, or partitions the root and installs
them (hard link, then manifest), scans the first levels, then recurses with retries,
forced splits and leaves. `Builds` builds run one after the other over the same
directories; each may be interrupted between any two writes. Which leaders a point gets
is a parameter: at the root a function of the key, below it a free choice; so is, run by
run below the first level, whether the streaming assignment (ADS) computes it. Sorting,
selecting and joining sequences is in `SeqTools`, which `SpillReduce` uses too.

### RowFiles, RowReads, SketchBuild

(`direct_io.rs`, `io_runtime.rs`, `point_store.rs`, `external_store.rs`, the sketch
accessors of `hash_prune.rs`)

A byte is a pair of row and position, so a row read from the wrong place is visible.
`RowFiles` has aligned reads and writes, both planners and the run files; `RowReads` has
every store, each of its reads, the window cache with its accounting, and the io_uring
batches with submissions, completions in any order, failing completions and a ring that
the thread keeps for its next call. `GatherPlan` takes the ids in
ascending order: every caller in the repository sets `sort_ids`. `SketchBuild` writes the
header in two parts and then the rows of the sketch file chunk by chunk; an aligned write is a read of its blocks and, in another step, the write.

### LuneRows (`view_lune_prune.rs`)

The recorder of edges and witnesses in its three forms - in memory, raw spill, digest
spill -, the compaction of candidate rows, the witness tables and the reduction of a
shard. Leaves record in any order; a blockwise leaf records its witnesses first.

### LeafKernel, AdsStream, LeafOperator (`leaf_build.rs`, `adsampling.rs`)

`LeafKernel` holds the pure part: exact and sampled nearest rows, the top-k lists, edges
and witnesses. Vectors are small integers, the sampling ratio a fraction that may also be
wrong on purpose (`Lossy`: then rows are only what the sampled rule keeps). `AdsStream`
is the streaming assignment over a bounded channel. `LeafOperator` chooses the executor
of a leaf as the code does and runs it: one block after another, waves of blocks, row
ranges, tiles under the shared worker budget, a work graph, pair waves. A thread that
waits in a scope, or yields, may run another job on its own stack, as Rayon does.

## 4. Runs

| Run | Instance | Shows |
| --- | --- | --- |
| `sched_parallel` | 2 leaves and, for the hydration slot, 2 more (`SlotContention`), 2 emitters, 2 drainers, backlog of 1, work graph on, 1 hydration slot, every fault; 791 223 states | `TypeOK`, `OutstandingExact`, `ExactlyOnce`, `OkMeansSettled`, `CreditExact`, `HydrationBound` |
| `sched_live` | 2 leaves, soft limit 1, work target 1, drainer limits and a large assignment that come and go, 1 hydration slot, panics and producer faults; 374 938 states | `DrainersExact`, `NoStrandedBacklog`, and `Termination` under `FairSpec` |
| `pipeline_mixed` | seven configurations, 0 to 7 points, 1 to 3 workers, every fault | `TypeOK`, `PermitsExact`, `NoLostWakeup`, `InOrder`, `NoSpuriousError`, `ReturnsWhenRoomy` |
| `spill_graph` | 5 points in shards of 2, two data sets of two batches, parts of 3 records, ten configurations of sink, prefix, parallelism and output, 2 runs of the build; 105 414 states | `TypeOK`, `SegmentsExact`, `NoSpuriousError`, `RefusedKeepsGraph`, `LoadsOnlyFinished`, `OkLeavesOnlyTheGraph`, `RefinesCandidateGraph` |
| `resident` | 11 calls: one to four runs, piped, whole, oversize, native and disabled, 1 or 2 workers, a queue of 1 or 2, up to 2 faults; 18 240 states | `TypeOK`, `BytesBounded`, `OkBuildsEveryLeaf`, `CallReturns` |
| `rbc_runs` | 4 points, two cache keys, 2 builds, 1 fault or crash, batches of one point, a gate of 2 bytes for 2 callers; 639 019 states | `TypeOK`, `LeavesCover`, `ReuseIsFresh`, `RecordsMatchPoints`, `ErrorsHaveCause`, `PipelinesEnd` |
| `kernels` | `MCKernels`: reservoirs of 3 slots, 16 stores of 5 rows, 9 sketch builds, 4 view-lune scenarios, leaves of 3 to 5 vectors under each executor, streams; 125 254 states | `WellFormed`, `NearestKept`, `RowsGathered`, `SketchesKept`, `LuneRowExact`, `AnswersExact`, `OperatorEnds` |
| `sched_lost_error`, `sched_error_hang`, `pipeline_deadlock`, `reservoir_order`, `sketch_race` | small | each refutes one expectation (section 5) |

What the properties of the newer runs say, in short:

* `sched_parallel` - `HydrationBound`: the slots in use are those of the threads that
  hydrate, at most the policy's limit; another thread with a batch of two spins at the limit
  until a slot comes back or an error ends it.
* `spill_graph` - `SegmentsExact`: when the sink is finished, each spilled candidate is
  in exactly one segment of one part file that was kept, and nothing else is.
  `LoadsOnlyFinished`: whatever a crash leaves, a graph file the loader accepts is a
  complete one of some data set (or an empty one), its degree included.
* `resident` - `BytesBounded`: hydrated groups fit the limiter, except for a single
  oversize one; `OkBuildsEveryLeaf`: a call that answers Ok built every leaf of every
  group once.
* `rbc_runs` - `LeavesCover`: an Ok build has every point in a leaf, and leaves within the
  cap; `ReuseIsFresh`: a partition read from the cache is the one the parameters give;
  `RecordsMatchPoints`: segments of the spool hold the records of their run in order.
* `kernels` - `RowsGathered`: a read that answers Ok delivers the requested rows in order,
  through every store, plan, cache hit and ring; `SketchesKept`: a sketch build outside
  the race of section 5 holds all rows; `LuneRowExact`: a row is what a reference
  definition gives from the records of its point (for the in-memory recorder, in the order
  in which they were recorded); `AnswersExact`: each executor gives the distances of
  the dense kernel when the ratios prune nothing wrongly, sends one direct and one mirror
  edge per entry and all witnesses, and stays within the worker budget.

*Why the bounds are enough.* A backlog of one slot with two emitters makes every push
race with another push and with a pop; two drainers and an emitter are the fewest threads
for the races of spawning, leaving and retiring. A hydration slot is contended only if two
threads hold batches of two leaves, so four leaves are the fewest. All behaviours of four
leaves are too many: the action constraint `SlotContention` of `sched_parallel` lets the third
and the fourth be emitted, in this order, only while a thread hydrates the first two, and
from then on lets only hydrations fail by themselves. What any thread does otherwise, and all
behaviours of two leaves, remain. `sched_live` has two leaves, so its `Termination` is not
about a wait for the slot: that the slot comes back is what `HydrationBound` says.
`WordMod` is 8, above the total work of
all leaves, as 2^64 is; a debit that precedes its credit still wraps. Shards of two points
with a threshold of 2 and parts of 3 records make a shard have several parts, segments of
one file interleave, and one shard stay empty; two runs let a crashed build leave files to
the next. In `rbc_runs` the runs overlap, one key scans them together and the other
splits them in two threads that share the gate; two builds meet each state of the cache,
also the one of the other key. The run 1 3 is always split so that a level
below the first may have two runs, of which some are scanned and others split alone. In `resident` the queue is shorter than, and as long as,
the number of emitters. The rows of `kernels` straddle blocks, the cache holds two of
them, requests repeat, go backwards, leave gaps and exceed the store; three slots and
three buckets make each branch of `insert` repeat. `MCKernels` puts components that share
no state in one state space: `mode` says which of them a behaviour moves. Emitters and
drainers are symmetric in `sched_parallel`. Each property has a mutant in `PROJECT.json`,
a plausible bug that TLC catches with it.

*Deadlock* is checked except in the pipeline runs and in `resident`, where a call may
really stop (section 5). `ReturnsWhenRoomy` says when the pipeline returns: with one
worker, or when the budget holds all rows.

*Fairness.* Every thread that can take a step does (weak fairness of each emitter,
drainer, worker, builder, hydrator, the main thread and the producer thread): the OS runs
threads, Rayon runs spawned tasks, and the scope's own thread runs them if no other does.
In `rbc_runs` the threads of the two pipelines are fair, in `kernels` those of the stream
and of the leaf executors. Guards drop when their branch unwinds. Nothing is assumed of
which waiter `notify_one` wakes in the point pipeline, and no action is strongly fair. In
`sched_live` no leaf build returns an error, because then the scope may never end
(section 5); panics and producer errors do occur in it.

*Exceptions stated in liveness properties.* `CallReturns`, `PipelinesEnd` and
`OperatorEnds` name the states in which the code does stay (`WorkersGone`,
`WakeupSwallowed`, `QueuedForNobody`; `PrefetchStuck`; `NestedSpin`, `OwnSendBlocked`).
Each is a predicate about particular threads, is reachable in the run, and is described
in section 5; from every other state the call must end. `PrefetchStuck` is a producer at
the full queue of a consumer that failed, or a wait at the gate for bytes that only a failed
call could give back (`Leaked`). The hazards behind these states (in `PROJECT.json` without
a property) are therefore recorded, not caught: what the properties catch is any other way
to wait for ever. The same holds of stale io_uring completions and of reads past a short
file, which `RowsGathered` excepts, and of the witnesses dropped by the in-memory recorder,
which the history of `LuneRowExact` forgets too.

## 5. Where the code and its documents disagree

* `sched_lost_error`: a drainer's failed batch leaves `outstanding_leaf_tasks` before
  its error is recorded; `wait_until_idle` may see zero and no error in between, and
  the scope answers Ok with edges missing.
* `sched_error_hang`: once an error is recorded with leaves still queued, each leaving
  drainer spawns a successor that leaves at once; the scope never joins.
* `pipeline_deadlock`: batches parked out of order keep their permits; with a budget
  of one batch per worker the worker whose batch is due may wait for ever. A test uses
  this shape and usually passes, because its reads are instant.
* `reservoir_order`: the technical guide says that a reservoir's result does not depend
  on the order of arrival; it does, as soon as the reservoir is full.
* `sketch_race`: a strict parallel sketch build writes its chunks in aligned blocks, each
  read, patched and written back without a lock (`direct_io.rs:158`); two chunks that
  share a block can lose each other's rows, and the build answers Ok. The test
  `disk_sketch_store_parallel_strict_io_matches_reference_sketches`
  (`external_store.rs:1771`) expects every row back; its reads and writes seldom overlap.

Met while modelling, where no document says otherwise. Partition:

* A crash while the manifest of the depth-0 cache is written (`child_run_io.rs:2465`)
  leaves a truncated one, and every later build with that key fails. A crash after the run
  file is installed and before its manifest leaves a file that a later build with other
  contents refuses ("already exists with different contents"). `ReuseIsFresh` and
  `ErrorsHaveCause` hold with these errors as causes.
* An error of a morsel worker is recorded only when it is joined (`child_run_io.rs:5409`):
  emitters go on until then. If all workers are gone, emitters of a full queue wait for
  ever (`WorkersGone`).
* Submitters and poppers of the morsel queue share a condition variable and wake one
  thread (`child_run_io.rs:5146`); with fewer places than emitters a notification can go
  to the wrong kind of thread (`WakeupSwallowed`). The default of eight places per worker
  avoids it, `FORGEANN_D1_RESIDENT_SUBTREE_LEAF_MORSEL_QUEUE_LEAVES` can bring it about.
* The hydrator waits in `limiter.acquire` (`child_run_io.rs:2819`) without looking at the
  abort flag; groups left in the ready queue keep their bytes if the channel keeps
  them until both ends are gone (`QueuedForNobody`; the input `discards` covers both
  kinds of channel).
* After a consumer's error the producer of a prefetched list spins at a full queue
  (`prefetch_pipeline.rs:493`), and the permits of queued batches are not given back
  (`:525`): `PrefetchStuck`.

Stores and kernels:

* Completions that a failed io_uring batch leaves in the thread's ring
  (`point_store.rs:397`) would be taken for the next batch's; the model keeps them.
* A strict read past the end of a truncated file answers zeros where a buffered one fails;
  `LimitedPointStore` does not check its bound on a bounded io_uring plan;
  `read_sketch_range_into` has no bound check; a planned window over a gap of a vector run
  is refused. `RowsGathered` says what is still guaranteed.
* A blockwise leaf sends its witnesses before its edges (`leaf_build.rs:1632`), so the
  in-memory view-lune recorder drops witnesses that the spilled one keeps; rows of the
  in-memory recorder depend on the order of recording, those of the spilled ones do not.
* Raw view-lune shards are sorted as text with four digits: beyond 10 000 shards the order
  is not the numeric one.
* `adsampling.rs:148`: a job that `yield_now` runs inside a job holding workers may spin
  for those workers (`NestedSpin`). `adsampling.rs:1896`: the receiver may run a chunk job
  that sends to the full channel only it empties (`OwnSendBlocked`).
* The in-memory spill of `mod.rs` is switched off by a constant (`:902`); the saturating u16 part
  id of `spill_hashprune.rs:555` would need 65 535 parts in one shard.

## 6. Proofs

The theorems hold for every value of the constants that satisfies the named assumption of
the module they are about. `PROJECT.json` lists them; in short:

| Module | Assumption | Proved |
| --- | --- | --- |
| `LeafSchedulerProof` | `SchedulerAssumption`: finite disjoint thread sets, positive capacities, leaf sizes below the work counter's modulus, limits within the worker capacity | `TypeOK`, `OutstandingExact`, `ExactlyOnce`, `OkMeansSettled`, `DrainersExact`, `HydrationBound`; `CreditExact`, `NoStrandedBacklog` |
| `PointPipelineProof` | `PipelineAssumption`: configurations are records of naturals, rows have bytes | `TypeOK`, `PermitsExact`, `NoLostWakeup`, `InOrder`, `NoSpuriousError` |
| `HashPruneProof` | `HashPruneAssumption`: distances and hashes are naturals, the number of slots and the grain positive | `WellFormed`, `NearestKept` |
| `ResidentGroupsProof` | `ResidentAssumption`, `AccessorAssumption`: finite disjoint thread sets; a call's sizes are naturals, it has a worker and 1 to 4 places in the ready queue | `TypeOK`, `BytesBounded`, `OkBuildsEveryLeaf` |
| `GraphBuildProof` | `SpillAssumption`, `GraphBuildAssumption`: sizes and bounds are naturals, the shard size and the flush threshold positive; a configuration has a known mode and a prefix of at most all points; batches are sequences of edges between points | `TypeOK`, `NoSpuriousError`, `RefusedKeepsGraph` |
| `RunFilesProof`, `RbcPartitionProof` | `PartitionAssumption`, `PrefetchAssumption`, `ScanAssumption`, `BufferAssumption`: sizes and bounds are naturals, capacities positive, the reorder capacity at least the batches in flight; points are a sequence of naturals, and the root assignment of a key lists leaders for each of them | `TypeOK`, `RecordsMatchPoints`, `ErrorsHaveCause` |
| `DataTheorems` | none | the lemmas all of them use |

Each theorem `Spec => []P` goes through an inductive invariant `IInv`: it holds
initially, each action keeps it (one lemma per conjunct and, in it, one step per action; in
`GraphBuildProof` and `RbcPartitionProof` one lemma per action and, in it, one step per conjunct),
and it implies `P`. The invariants were run through TLC on the instances of section 4
before they were proved.

### DataTheorems

The library's induction rules take an operator as a parameter, which the provers cannot
instantiate. Induction is done here on sets instead: a set of naturals that holds 0 and
the successor of each member is `Nat` (`NatSetInduction`, from the least element of the
complement), and a set of finite sets likewise (`FiniteSetInduction`). From it follow the
laws of the community module's sum over a set: what adding, removing or changing one
element does, sums over disjoint sets and over the image of an injection. `FoldSolution`
and `FoldInvariant` do the same for `FoldLeft`: the recursion behind it has a solution,
and what each step keeps holds of the result. `RankExists` and `RankOrder` say that a
finite set with a strict total order has exactly one element of each rank, which is what
sorting means here. The rest are facts about `Max`, `Min`, division, and removing one
element from a sequence.

### The scheduler

None of the properties is inductive alone. `IInv` adds:

* `LocalInv` - what each `pc` implies for the thread's own variables: which leaf it
  holds, that a popped leaf is in its batch, that a thread without work has an empty
  batch, and that a thread about to raise the drainer count saw it below the capacity;
* `PlacesInv` - every leaf is somewhere, and its places are pairwise apart, stated per
  thread and per leaf so that a step's effect on one place is a local fact; a batch
  that is built but not finished is told apart from one that is not built;
* `SlotsInv` - `HydrationBound`, and that the count of large assignments is the number
  of emitters that hold such a guard;
* `EndInv` - once `Main` left the join, all emitters have returned, and from the moment
  it saw zero outstanding no leaf can be counted again.

That counters never go below zero is not a fact about one action: it follows in the next
state from the exact counts (`CountersNat`), which are cardinalities. `DrainersExact`
bounds `active` by the capacity because the compare-exchange compares with the value that
was below the target.

`CreditExact` is an equation modulo the word: the credited work is that of the leaves
pushed and not yet debited, although a debit may run before its credit and take the
counter below zero. The sum changes by one leaf in each step, and both sides wrap alike.
`NoStrandedBacklog` needs to know which threads still look at the backlog: a leaf enters
it only through a thread that goes on to `maybe_spawn_leaf_drainer`, a drainer that leaves
looks once more after it lowered the count, and one that sees the count at the capacity
sees drainers that have yet to look.

### The point pipeline

`JobsInv` and `DistinctInv` say that batches leave the job channel in order and that each is
then in one place: with a worker, in the ready channel, parked, or consumed. `PermitsExact`
is a sum over the batches that hold a permit. `NoLostWakeup` is not inductive: one release
wakes one waiter, and who waits may be larger than what was released. `WakeInv` counts
instead: while a worker waits, the batches that hold a permit or whose worker is about to
ask are at least as many as the budget has places. This suffices because all batches have
the same size but for the last, which either fits on top of the full ones and so never
waits, or counts as one of them; so a release by `notify_one` replaces exactly one place.
`NoSpuriousError` needs `Clean`: without a fault no batch that was taken is missing, so the
ready channel cannot close before the last one.

### The reservoir

`WellFormed` is shown for each branch of `insert` and so for every sequence of offers; the
hard case is the cache of the farthest slot, which an insertion before it shifts and which
a replacement recomputes. `NearestKept` speaks of everything that was ever offered, so it
needs to know what became of the offers that are not kept. `OfferInv`: an offered
candidate is kept, at its distance or nearer, or the reservoir is full and no slot that
competes with it is farther - the slots of its hash bucket, or all of them when its bucket
is empty. It is stable because a full reservoir never shrinks and slots only get nearer.

### The resident groups

The first lemmas are about the grouping loop of the plan: it places each run that has
points exactly once, whatever the limits. The invariant uses

* `PipeInv` - the ready queue holds the groups between the builder and the hydrator, in
  order, and the limiter's bytes are those of the groups in memory: with the hydrator, in
  the queue or with the builder. `BytesBounded` follows, the oversize group included, as
  `acquire` admits it only into an empty limiter;
* `BuildInv` - what each thread of the group being built holds, who waits on the queue's
  condition variable, how a group ends, and what was built of the groups before. While
  nobody fails, the leaves not yet emitted, in the queue, in the workers' batches and built
  add up to the leaves of the group: this gives `OkBuildsEveryLeaf`.

### The graph build

The reducer has several checks that turn into an error of the whole build: a segment
outside its shard, a missing part file, an edge past the end of its group, a row that comes
for another point, a pre-prune file of the wrong size. `NoErrorIsSpurious` says that none of
them fires on what the build wrote, and it is a fact about all of the phases:

* `SinkInv` - every buffer, part file and segment holds candidates of its own shard, and
  the part of a segment is closed or the one that is open. It has to hold of the files of
  earlier runs too: a new sink starts its part ids at 0 again and truncates what it finds,
  and part ids saturate, so one run may overwrite its own part. After `finish` no part is
  open, and so every segment's part is present;
* `QueueInv` - the groups still to be reduced and the parts still to be replayed are in
  point order, do not overlap and start at or behind the last delivered row, also between
  two chunks of the parallel reducer;
* `OutInv` - the row at position k is that of point k, and each phase ends with the rows it
  promises: those of the resident prefix, then all of them;
* `PreInv` - the pre-prune file has one row of at most `max_degree` points per point;
* `GraphInv` - outside direct mode the graph file is the one the run found until the rows
  are final, from which `RefusedKeepsGraph` follows for the refusals after the build.

Sorting and filtering are written with ranks (`Ranked`, `Ascending`, `At` of `SeqTools`)
rather than `SortSeq` and `SelectSeq`, of which the provers know nothing.

### The out-of-core partition

`RunFilesProof` says what the data operators keep, for every input. A run file only grows,
and a run that was written lies in it for ever (`RunsKept`, `WriteRunsFacts`); what is read
back is a list of words, in batches or one by one. A merge plan lists each leader that has
points in exactly one group (`MergePlanFacts`), so that materialization always finds the
child of a record (`TargetsFacts`, `MaterializeFacts`). The heap of run heads ends after at
most as many batches as there are occurrences (`HeapEnds`), and the batches applied so far
have spooled, for each run, the records up to its head, once and in order (`AllSpooled`).

`RbcPartitionProof` has the invariant of the three machines and of the build:

* `ScanOK` - while the caller holds its receiver, every batch it sent is in one place:
  planned, with the reader, loaded, with a worker, computed, held, or applied; at most
  `MaxOutstanding` are between sent and applied; and the spool holds exactly the batches that
  were applied. A fault replaces a batch by zero, it never duplicates or renumbers one.
  `RecordsMatchPoints` follows when the scan ended without an error: then all were applied;
* `CallsOK` - the gate is at least the bytes of the permits that the calls hold, in hand or
  queued. At least, because a call that fails drops its queue without giving them back
  (section 5); so the gate never goes below zero, which `TypeOK` says;
* `RunsPlaced`, `ScanPlaced`, `Pending` - the runs a build refers to lie in the file of their
  depth, whatever was appended since; the lists still to be split are the last ones of the
  scan; clusters and calls exist only while the build recurses.

`ErrorsHaveCause` also needs `PartitionClean`, which speaks of the time before the first
fault: a published entry is valid and its inode has exactly the contents its manifest names,
which a later build keeps because it starts from a work directory without the linked file
(`CacheClean`, `BuildClean`); no scan thread or call has failed, no batch is missing, and a
reader or worker ends only when nothing is left to do (`ScanClean`, `CallsClean`). Both parts
together are the inductive invariant; `StepKept` collects the actions.

The initial states with an interrupted build's cache entry count as states after a fault:
that is what the bound `MaxFaults` says of them, and they exist only where a fault may occur.
The choice of leaders below the root (`Assignments`) ranges over the well-formed assignments
that the constant `RawAssign` offers: one list of leaders per point, as the kernels return.

### Only model-checked

* All liveness properties: fairness and `ENABLED` are out of the prover's reach.
* The contents of the graph (`SegmentsExact`, `LoadsOnlyFinished`, `OkLeavesOnlyTheGraph`,
  and the refinement of `CandidateGraph`). The first and the last are planned;
  `LoadsOnlyFinished` is about what a recursive parser accepts of any prefix of a file.
* `LeavesCover` and `ReuseIsFresh` of `RbcPartition`. The first is about the set of points
  that splitting, merging, materializing and the repeated forced split (the recursive function `Pieces`)
  hand on together, the second
  about reading back, extent by extent, the contents of a whole file written by a fold; both
  need what these computations return for every input, not only what they keep.
* The kernels and stores (`RowsGathered`, `SketchesKept`, `LuneRowExact`, `AnswersExact`):
  what their folds and recursive operators compute for every input is a fact about long
  computations, which the runs compare with reference definitions on bounded inputs.

## 7. Not modelled, and why

* Floating-point arithmetic: distances are integers, ratios fractions, and which leader is
  nearest is a free choice in the partition. The AVX-512 twins of the scalar kernels, GEMM
  tiles, projections and the assignment profile are numeric only.
* The hot vector run of `rbc_partition/mod.rs` and `io_planned_forgeann.rs` (planned),
  `params.rs` and the sampling of leaders.
* The reuse of `LeafScratch` between leaves, page discards, the medoid, the fixed-degree
  conversion of a finished file, oracle reports, statistics, telemetry and progress output.
* The scheduler's batch form of the inline emission and its waits for another backlog than
  the soft limit.
* Data containers, file formats and other utilities, the command line; the semaphore of
  `../utils/sync.rs`, which the build does not use.
* The in-memory spill sink, which the build never selects (`mod.rs:902`), and gather plans
  of ids that are not sorted, which no caller asks for (`point_store.rs:240`).
* Power loss (see `GraphBuild`), and arithmetic overflow where no reachable size comes
  near it.
