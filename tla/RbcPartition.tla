---------------------------- MODULE RbcPartition ----------------------------
(***************************************************************************)
(* The out-of-core RBC partition (rbc_partition/mod.rs and                 *)
(* child_run_io.rs): builds that split the points into leaves, through run *)
(* files on disk, a cache of depth-0 runs that survives the build, the     *)
(* level scan of the first depths and the parallel recursion below.  A     *)
(* build may be interrupted anywhere, by a crash or by an I/O error of its *)
(* calling thread; what it wrote stays on disk for the next one.           *)
(*                                                                         *)
(* Nearest leaders are arithmetic on vectors: which leaders a point gets   *)
(* is a parameter, at the root a function of the build's parameters (Key), *)
(* below it a free choice (RawAssign).                                     *)
(***************************************************************************)
EXTENDS PrefetchCalls

CONSTANTS Points,           \* the point ids, a sequence
          Param,            \* the parameters of a build, by cache key
          RawAssign(_, _),  \* the assignments that points may get, by fanout
          ChildDepthLimit,  \* EXTERNAL_CHILD_DEPTH_LIMIT
          MaxDepth, MaxAttempts, MaxLeaders, MinShrink, HardCap,
          Builds            \* bound: builds of a behaviour

Keys == DOMAIN Param
Inodes == 1..(Cardinality(Keys) + 2)

ASSUME PartitionAssumption ==
  /\ Points \in Seq(Nat) /\ IsFiniteSet(Keys)
  /\ \A k \in Keys : /\ Param[k].cmax \in Nat \ {0}
                     /\ {Param[k].cmin, Param[k].fanout, Param[k].leaders} \subseteq Nat
                     /\ Param[k].recs \in Seq(Seq(1..Param[k].leaders)) /\ Len(Param[k].recs) = Len(Points)
                     /\ Param[k].prefetch \in {"off", "normal", "strict"} /\ Param[k].l2 \in BOOLEAN
  /\ {MaxDepth, MaxAttempts, HardCap} \subseteq Nat \ {0}
  /\ {ChildDepthLimit, MaxLeaders, MinShrink, Builds} \subseteq Nat

VARIABLES disk,     \* the files of the work and of the cache directory
          build,    \* the calling thread of the current build
          leaves,   \* the leaves handed to the leaf emitter
          todo      \* clusters of the recursion nobody has taken yet
vars == <<disk, build, leaves, todo, scan, faults, call, gate>>
pool == <<scan, call, gate>>

Cmax == Param[build.key].cmax
Cmin == Param[build.key].cmin
Fanout == Param[build.key].fanout
MinRecurse == 2 * Cmax
should_dedup_cluster(depth, fanout) == depth <= 1 \/ fanout > 1
\* The nearest leaders of a list of points: one list of leaders per point.
Assignments(pts) ==
  {a \in RawAssign(pts, Fanout) : /\ a.leaders \in Nat /\ a.fanout \in Nat
                                  /\ a.recs \in Seq(Seq(1..a.leaders)) /\ Len(a.recs) = Len(pts)}
Dedup(s, depth, fanout) == IF should_dedup_cluster(depth, fanout) THEN SortDedup(s) ELSE s
-----------------------------------------------------------------------------
(* The directories.  Files are inodes, because the cache keeps a hard link *)
(* to the depth-0 run file of the build that filled it.                    *)

NoDisk == [file |-> [i \in Inodes |-> <<>>], work |-> 0, workMan |-> Missing,
           cache |-> [k \in Keys |-> 0], cacheMan |-> [k \in Keys |-> Missing],
           deep |-> [d \in 1..MaxDepth |-> <<>>]]
Used(d) == ({d.work} \cup {d.cache[k] : k \in Keys}) \ {0}
\* An inode without a name is gone.
Swept(d) == [d EXCEPT !.file = [i \in Inodes |-> IF i \in Used(d) THEN d.file[i] ELSE <<>>]]
RootFile(d) == IF d.work = 0 THEN <<>> ELSE d.file[d.work]
FreeInode(d) == CHOOSE i \in Inodes : i \notin Used(d)
SetRootFile(d, words) ==
  LET i == IF d.work = 0 THEN FreeInode(d) ELSE d.work
  IN [d EXCEPT !.work = i, !.file[i] = words]
FileOfDepth(d, depth) == IF depth = 0 THEN RootFile(d) ELSE d.deep[depth]
\* cleanup_oom_artifacts: every partition_dNN file of the work directory.
Cleaned(d) == Swept([d EXCEPT !.work = 0, !.workMan = Missing, !.deep = NoDisk.deep])
-----------------------------------------------------------------------------
(* emit_leaf and forced_split_oversized_leaf: the pieces a leaf may end    *)
(* up in.  A split that does not separate anything is replaced by chunks.  *)

Deduped(clusters) == [g \in DOMAIN clusters |-> SortDedup(clusters[g])]
ForcedSplit(leaf, a) ==
  Deduped(MergeClusters(ClustersOf(leaf, a.recs, a.leaders), Min({Cmin, HardCap}), HardCap))
Splits(leaf) ==
  {m \in {ForcedSplit(leaf, a) : a \in Assignments(leaf)} :
      Len(m) > 1 /\ \A g \in DOMAIN m : Len(m[g]) < Len(leaf)}
    \cup {Chunks(leaf, HardCap)}
Pieces[clusters \in Seq(Seq(Nat))] ==
  CASE clusters = <<>> -> {{}}
    [] clusters # <<>> /\ Len(Head(clusters)) <= HardCap ->
         {(IF Head(clusters) = <<>> THEN {} ELSE {Head(clusters)}) \cup p : p \in Pieces[Tail(clusters)]}
    [] OTHER -> UNION {Pieces[s \o Tail(clusters)] : s \in Splits(Head(clusters))}
Emit(clusters) == \E p \in Pieces[clusters] : leaves' = leaves \cup p
-----------------------------------------------------------------------------
Idle == [at |-> "idle", n |-> 0, ok |-> TRUE, mismatch |-> FALSE]
\* A build returns: an error leaves its files behind.  No later build reads
\* what they hold below depth 0, it only appends, so one word stands for it.
Leftover(words) == IF words = <<>> THEN <<>> ELSE <<0>>
Return(ok, d) ==
  /\ build' = [at |-> "idle", n |-> build.n, ok |-> ok, mismatch |-> build.mismatch]
  /\ disk' = IF ok THEN Cleaned(d) ELSE [Swept(d) EXCEPT !.deep = [x \in DOMAIN @ |-> Leftover(@[x])]]
  /\ todo' = <<>> /\ scan' = NoScan /\ call' = [c \in Callers |-> NoCall] /\ gate' = 0
Fails == Return(FALSE, disk) /\ UNCHANGED <<leaves, faults>>

(* rbc_partition_streaming_with_dirs: a manifest named in the environment  *)
(* is reused, else a cache entry of the same key, else the root is split.  *)
Begin(k, at, mode, src) ==
  /\ build.at = "idle" /\ build.n < Builds
  /\ build' = [at |-> at, n |-> build.n + 1, key |-> k, mode |-> mode, src |-> src,
               mismatch |-> src # k, ok |-> TRUE, depth |-> 0, runs |-> <<>>,
               roots |-> <<>>, work |-> <<>>, clusters |-> <<>>, later |-> <<>>, failed |-> FALSE]
  /\ leaves' = {}
  /\ UNCHANGED <<disk, todo, pool, faults>>
BeginPlain(k) == Begin(k, "root", "plain", k)
BeginCached(k) == Begin(k, IF disk.cacheMan[k] # Missing THEN "load" ELSE "root", "cache", k)
BeginFrom(k, src) == disk.cacheMan[src] # Missing /\ Begin(k, "load", "manifest", src)
-----------------------------------------------------------------------------
(* load_reused_d0_child_runs and install_reused_d0_run_file.               *)

Usable(m, k, src) ==
  /\ m \notin {Torn, Missing}
  /\ ValidManifest(m, k)
  /\ disk.cache[src] # 0 /\ disk.file[disk.cache[src]] = m.contents
  /\ disk.work # 0 => RootFile(disk) = m.contents
LoadRuns ==
  LET m == disk.cacheMan[build.src]
  IN /\ build.at = "load"
     /\ IF Usable(m, build.key, build.src)
        THEN /\ disk' = IF disk.work = 0 THEN [disk EXCEPT !.work = disk.cache[build.src]] ELSE disk
             /\ build' = [build EXCEPT !.at = "reused", !.runs = m.runs, !.roots = m.leaves]
             /\ UNCHANGED <<leaves, todo, pool, faults>>
        ELSE Fails
\* The root is done: where its runs came from no longer matters.
Waves == [build EXCEPT !.at = "wave", !.depth = 1, !.mode = "", !.src = build.key, !.roots = <<>>]
EmitReusedLeaves ==
  /\ build.at = "reused"
  /\ Emit([i \in DOMAIN build.roots |-> ReadChain(RootFile(disk), build.roots[i].extents)])
  /\ build' = Waves
  /\ UNCHANGED <<disk, todo, pool, faults>>
-----------------------------------------------------------------------------
(* Splitting a list of children after a successful assignment: the small   *)
(* ones are leaves, the others become runs of the file of this depth.      *)

AddRun(acc, c) ==
  [file |-> acc.file \o Encoded(c),
   runs |-> Append(acc.runs, [len |-> Len(c), extents |-> <<ExtentAt(acc.file, c)>>])]
WriteRuns(file, clusters) == FoldLeft(AddRun, [file |-> file, runs |-> <<>>], clusters)
Small(clusters, cmax) == At(clusters, {i \in DOMAIN clusters : Len(clusters[i]) <= cmax})
Large(clusters, cmax) == At(clusters, {i \in DOMAIN clusters : Len(clusters[i]) > cmax})

(* The root: external assignment, materialization, and the capture of the  *)
(* leaves cut at depth 0.                                                  *)
RootGroups(p) == MergePlan(RawCounts(Points, p.recs, p.leaders), p.cmin, p.cmax)
RootMaterialized(p, groups, file) ==
  Materialize(file, Points, [i \in DOMAIN p.recs |-> DecodeRecord(EncodeRecord(p.recs[i], RecordCap(p.fanout)))],
              p.fanout, groups, p.cmax)
Children(m) == [g \in DOMAIN m.kids |-> SortDedup(ChildPoints(m, g))]
Handed(written, kids, cmax) ==
  [file |-> written.file, runs |-> written.runs, leaves |-> Small(kids, cmax)]
RootRuns(m, kids, cmax) == Handed(WriteRuns(m.file, Large(kids, cmax)), kids, cmax)
RootOf(m, p) == RootRuns(m, Children(m), p.cmax)
RootSplit(k, file) ==
  IF Len(Points) <= Param[k].cmax \/ Len(RootGroups(Param[k])) <= 1
  THEN [file |-> file, runs |-> <<>>, leaves |-> <<Points>>]
  ELSE RootOf(RootMaterialized(Param[k], RootGroups(Param[k]), file), Param[k])
PartitionRoot ==
  /\ build.at = "root"
  /\ \E s \in {RootSplit(build.key, RootFile(disk))} :
       /\ Emit(s.leaves)
       /\ disk' = IF s.file = RootFile(disk) THEN disk ELSE SetRootFile(disk, s.file)
       /\ build' = [build EXCEPT !.runs = s.runs, !.roots = s.leaves,
                                 !.at = IF s.runs = <<>> THEN "finish" ELSE "capture"]
  /\ UNCHANGED <<todo, pool, faults>>
\* append_d0_root_leaves and finalize.
AppendRootLeaves ==
  LET w == WriteRuns(RootFile(disk), build.roots)
  IN /\ build.at = "capture"
     /\ disk' = SetRootFile(disk, w.file)
     /\ build' = [build EXCEPT !.at = "manifest", !.roots = w.runs]
     /\ UNCHANGED <<leaves, todo, pool, faults>>
OwnManifest == Manifest(build.key, RootFile(disk), build.runs, build.roots)
WriteManifest ==
  /\ build.at = "manifest"
  /\ disk' = [disk EXCEPT !.workMan = OwnManifest]
  /\ build' = IF build.mode = "cache" THEN [build EXCEPT !.at = "install"] ELSE Waves
  /\ UNCHANGED <<leaves, todo, pool, faults>>
\* install_d0_cache_run_file: a hard link, or a copy across file systems.
InstallRunFile ==
  LET at == disk.cache[build.key]
      here == FreeInode(disk)
  IN /\ build.at = "install"
     /\ IF at # 0 /\ disk.file[at] # RootFile(disk) THEN Fails
        ELSE /\ \/ disk' = IF at # 0 THEN disk ELSE [disk EXCEPT !.cache[build.key] = disk.work]
                \/ at = 0 /\ disk' = [disk EXCEPT !.cache[build.key] = here, !.file[here] = RootFile(disk)]
             /\ build' = [build EXCEPT !.at = "publish"]
             /\ UNCHANGED <<leaves, todo, pool, faults>>
PublishManifest ==
  /\ build.at = "publish"
  /\ IF disk.cacheMan[build.key] \in {Missing, OwnManifest}
     THEN /\ disk' = [disk EXCEPT !.cacheMan[build.key] = OwnManifest]
          /\ build' = Waves
          /\ UNCHANGED <<leaves, todo, pool, faults>>
     ELSE Fails

\* The directories are empty, or those of a build that was interrupted once
\* its cache entry was published: the entry and the work file are one inode.
Published(k) ==
  LET s == RootSplit(k, <<>>)
      w == WriteRuns(s.file, s.leaves)
      m == Manifest(k, w.file, s.runs, w.runs)
      d == SetRootFile(NoDisk, w.file)
  IN [d EXCEPT !.workMan = m, !.cache[k] = d.work, !.cacheMan[k] = m]
Init ==
  /\ \/ disk = NoDisk /\ faults = 0
     \/ (\E k \in Keys : disk = Published(k)) /\ MaxFaults > 0 /\ faults = MaxFaults
  /\ build = Idle /\ leaves = {} /\ todo = <<>>
  /\ scan = NoScan /\ call = [c \in Callers |-> NoCall] /\ gate = 0
-----------------------------------------------------------------------------
(* parallel_join_child_runs: under L2 the runs of a level are scanned      *)
(* together; otherwise every run is read and split on its own.             *)

Cluster(pts, depth, parent) == [pts |-> pts, depth |-> depth, parent |-> parent]
JoinInline ==
  /\ build.at = "wave" /\ build.depth = 1 /\ ~Param[build.key].l2
  /\ todo' = [r \in DOMAIN build.runs |->
                Cluster(ReadChain(FileOfDepth(disk, 0), build.runs[r].extents), 1, Len(Points))]
  /\ build' = [build EXCEPT !.at = "recurse"]
  /\ UNCHANGED <<disk, leaves, pool, faults>>
\* Mutant: none of them once there is something to scan.
FallbackUnlessScan(lists, small, ads) ==
  IF ads \subseteq small THEN At(lists, DOMAIN lists \ small) ELSE <<>>
\* The runs that adaptive sampling does not take are split alone.
Fallback(lists, small, ads) == At(lists, DOMAIN lists \ (small \cup ads))
\* The preparation of a level: leaves, runs to scan, runs to split alone.
\* Below the first depth adaptive sampling is decided run by run, from the
\* run's size and leaders.
ScanLevel(ads) ==
  LET read == ReadBatched(FileOfDepth(disk, build.depth - 1), build.runs)
      lists == [r \in DOMAIN read |-> Dedup(read[r], build.depth, Fanout)]
      Leaf(s) == \/ build.depth >= MaxDepth \/ Len(s) <= Cmax
                 \/ build.depth >= 3 /\ Len(s) <= MinRecurse
      small == {r \in DOMAIN lists : Leaf(lists[r])}
      scanned == At(lists, ads \ small)
  IN /\ build.at = "wave" /\ (build.depth = 1 => Param[build.key].l2)
     /\ build.depth = 1 => ads = DOMAIN build.runs
     /\ Emit(At(lists, small))
     /\ build' = [build EXCEPT !.at = IF scanned # <<>> THEN "scan" ELSE "split",
                    !.runs = <<>>, !.work = scanned, !.clusters = Fallback(lists, small, ads)]
     /\ scan' = IF scanned # <<>> THEN StartScan(scanned) ELSE NoScan
     /\ UNCHANGED <<disk, todo, faults, call, gate>>
Scan ==
  /\ build.at = "scan" /\ ScanStep
  /\ UNCHANGED <<disk, build, leaves, todo, call, gate>>
ScanEnds ==
  /\ build.at = "scan" /\ Joined
  /\ IF scan.err THEN Fails
     ELSE /\ build' = [build EXCEPT !.at = "split"]
          /\ UNCHANGED <<disk, leaves, todo, pool, faults>>
-----------------------------------------------------------------------------
\* The recursion below a run has returned.
Quiet == todo = <<>> /\ \A c \in Callers : call[c] = NoCall

(* The runs of the level, one after another: merge, materialize from the   *)
(* spool segments, and hand the children on.                               *)

SpooledRecords(a, records) ==
  [i \in DOMAIN records |-> DecodeRecord(EncodeRecord(a.recs[records[i][2]], RecordCap(a.fanout)))]
RunChildren(m, depth, fanout) ==
  [file |-> m.file, kids |-> [g \in DOMAIN m.kids |-> Dedup(ChildPoints(m, g), depth, fanout)]]
RunSplit(file, pts, a, records, depth) ==
  RunChildren(Materialize(file, pts, SpooledRecords(a, records), a.fanout,
                          MergePlan(RawCounts(pts, a.recs, a.leaders), Cmin, Cmax), Cmax), depth, a.fanout)
MaterializeRun ==
  LET r == Len(scan.segments) - Len(build.work) + 1
      pts == Head(build.work)
      rest == [build EXCEPT !.work = Tail(@)]
  IN /\ build.at = "split" /\ build.work # <<>> /\ ~build.failed /\ Quiet
     /\ \E a \in Assignments(pts) :
        \E s \in {RunSplit(FileOfDepth(disk, build.depth), pts, a,
                           SegmentRecords(scan.spool, scan.segments[r]), build.depth)} :
          \/ /\ Len(s.kids) <= 1 /\ a.leaders < Min({MaxLeaders, Len(pts)})
             /\ todo' = <<Cluster(pts, build.depth, Len(Points))>>
             /\ build' = rest /\ UNCHANGED <<disk, leaves>>
          \/ /\ Len(s.kids) <= 1 /\ a.leaders >= Min({MaxLeaders, Len(pts)})
             /\ Emit(<<pts>>) /\ build' = rest /\ UNCHANGED <<disk, todo>>
          \/ /\ Len(s.kids) > 1
             /\ Emit(Small(s.kids, Cmax))
             /\ \E w \in {WriteRuns(s.file, Large(s.kids, Cmax))} :
                  IF build.depth <= ChildDepthLimit
                  THEN /\ disk' = [disk EXCEPT !.deep[build.depth] = w.file]
                       /\ build' = [rest EXCEPT !.runs = @ \o w.runs]
                  ELSE /\ disk' = [disk EXCEPT !.deep[build.depth] = s.file]
                       /\ build' = [rest EXCEPT !.clusters = @ \o Large(s.kids, Cmax)]
             /\ UNCHANGED todo
     /\ UNCHANGED <<pool, faults>>
\* The level is done: the next depth first, the clusters of this one after.
NextLevel ==
  /\ build.at = "split" /\ build.work = <<>> /\ ~build.failed /\ Quiet
  /\ LET own == [i \in DOMAIN build.clusters |-> Cluster(build.clusters[i], build.depth, Len(Points))]
         later == own \o build.later
     IN IF build.runs # <<>>
        THEN build' = [build EXCEPT !.at = "wave", !.depth = @ + 1, !.clusters = <<>>, !.later = later]
             /\ UNCHANGED todo
        ELSE build' = [build EXCEPT !.at = "recurse", !.clusters = <<>>, !.later = <<>>] /\ todo' = later
  /\ scan' = NoScan /\ UNCHANGED <<disk, leaves, faults, call, gate>>
-----------------------------------------------------------------------------
(* rbc_recurse_parallel below the root, on the threads of the pool.        *)

\* Known before the cluster is looked at: such a leaf is always deduped.
LeafAtOnce(node) ==
  node.depth >= MaxDepth \/ (node.depth >= 3 /\ node.parent < MinShrink * Len(node.pts))
RecurseLeaf(s, node) ==
  \/ LeafAtOnce(node) \/ Len(s) <= Cmax
  \/ node.depth >= 3 /\ Len(s) <= MinRecurse
  \/ node.depth >= 5 /\ Len(s) < 3 * Cmax
Start(node, attempt) ==
  StartCall(Len(node.pts), Param[build.key].prefetch, [node |-> node, attempt |-> attempt])
TakeCluster(c, i) ==
  LET node == todo[i]
      own == IF LeafAtOnce(node) THEN SortDedup(node.pts) ELSE Dedup(node.pts, node.depth, Fanout)
  IN /\ build.at \in {"split", "recurse"} /\ call[c] = NoCall
     /\ todo' = RemoveAt(todo, i)
     /\ IF RecurseLeaf(own, node)
        THEN Emit(<<own>>) /\ UNCHANGED call
        ELSE call' = [call EXCEPT ![c] = Start([node EXCEPT !.pts = own], 1)] /\ UNCHANGED leaves
     /\ UNCHANGED <<disk, build, scan, faults, gate>>
Prefetch(c) ==
  /\ PrefetchStep(c)
  /\ UNCHANGED <<disk, build, leaves, todo, scan>>
\* An assignment that failed; the sibling clusters run on.
ClusterFails(c) ==
  /\ call[c].at = "failed"
  /\ build' = [build EXCEPT !.failed = TRUE]
  /\ call' = [call EXCEPT ![c] = NoCall]
  /\ UNCHANGED <<disk, leaves, todo, scan, faults, gate>>
\* One group only: another attempt with more leaders, or a leaf.
RetryOrLeaf(c, a, merged) ==
  /\ Len(merged) <= 1
  /\ IF a.leaders < Min({MaxLeaders, Len(call[c].job.node.pts)}) /\ call[c].job.attempt < MaxAttempts
     THEN call' = [call EXCEPT ![c] = Start(call[c].job.node, call[c].job.attempt + 1)] /\ UNCHANGED leaves
     ELSE call' = [call EXCEPT ![c] = NoCall] /\ Emit(IF merged = <<>> THEN <<call[c].job.node.pts>> ELSE merged)
  /\ UNCHANGED <<disk, todo>>
\* Several: small children are leaves, large ones go on a depth below,
\* through the run file of this depth where the limit allows it.
Descend(c, merged) ==
  LET node == call[c].job.node
      Below(kids) == todo' = todo \o [i \in DOMAIN kids |-> Cluster(kids[i], node.depth + 1, Len(node.pts))]
  IN /\ Len(merged) > 1
     /\ Emit(Small(merged, Cmax))
     /\ IF node.depth > ChildDepthLimit THEN Below(Large(merged, Cmax)) /\ UNCHANGED disk
        ELSE \E w \in {WriteRuns(FileOfDepth(disk, node.depth), Large(merged, Cmax))} :
               /\ disk' = [disk EXCEPT !.deep[node.depth] = w.file]
               /\ Below([r \in DOMAIN w.runs |-> ReadChain(w.file, w.runs[r].extents)])
     /\ call' = [call EXCEPT ![c] = NoCall]
DedupedAt(clusters, depth) == [g \in DOMAIN clusters |-> Dedup(clusters[g], depth, Fanout)]
Separated(node, a) ==
  DedupedAt(MergeClusters(ClustersOf(node.pts, a.recs, a.leaders), Cmin, Cmax), node.depth)
SplitCluster(c) ==
  /\ call[c].at = "ok"
  /\ \E a \in Assignments(call[c].job.node.pts) :
     \E merged \in {Separated(call[c].job.node, a)} : RetryOrLeaf(c, a, merged) \/ Descend(c, merged)
  /\ UNCHANGED <<build, scan, faults, gate>>

Finish ==
  /\ \/ build.at = "finish"
     \/ build.at = "recurse" /\ Quiet
     \/ build.at = "split" /\ Quiet /\ build.failed
  /\ Return(~build.failed, disk)
  /\ UNCHANGED <<leaves, faults>>
-----------------------------------------------------------------------------
(* A crash, or an I/O error of the calling thread: a write it was in may   *)
(* be cut short, after its first word or before its last one.              *)

CutShort(d, words) ==
  {SetRootFile(d, SubSeq(words, 1, n)) :
     n \in {Len(RootFile(d)) + 1, Len(words) - 1} \cap (Len(RootFile(d))..Len(words))}
TornDisks ==
  CASE build.at = "root" -> CutShort(disk, RootSplit(build.key, RootFile(disk)).file)
    [] build.at = "capture" -> CutShort(disk, WriteRuns(RootFile(disk), build.roots).file)
    [] build.at = "manifest" -> {[disk EXCEPT !.workMan = Torn]}
    [] build.at = "install" /\ disk.cache[build.key] = 0 ->
         LET here == FreeInode(disk)
         IN {[disk EXCEPT !.cache[build.key] = here, !.file[here] = SubSeq(RootFile(disk), 1, n)]
               : n \in {0, Len(RootFile(disk)) - 1}}
    [] build.at = "publish" -> {[disk EXCEPT !.cacheMan[build.key] = Torn]}
    [] OTHER -> {}
Interrupted ==
  /\ build.at # "idle" /\ Fault
  /\ \E d \in TornDisks \cup {disk} : Return(FALSE, d)
  /\ UNCHANGED leaves
-----------------------------------------------------------------------------
Arrive ==
  \E k \in Keys : BeginPlain(k) \/ BeginCached(k) \/ \E src \in Keys : BeginFrom(k, src)
Work ==
  \/ LoadRuns \/ EmitReusedLeaves
  \/ PartitionRoot \/ AppendRootLeaves \/ WriteManifest \/ InstallRunFile \/ PublishManifest
  \/ JoinInline \/ (build.at = "wave" /\ \E ads \in SUBSET DOMAIN build.runs : ScanLevel(ads))
  \/ Scan \/ ScanEnds \/ MaterializeRun \/ NextLevel
  \/ \E c \in Callers : \/ \E i \in DOMAIN todo : TakeCluster(c, i)
                        \/ Prefetch(c) \/ ClusterFails(c) \/ SplitCluster(c)
  \/ Finish
\* Every build is done, or a pipeline hangs for good.
Stopped == ((build.at = "idle" /\ build.n = Builds) \/ PrefetchStuck) /\ UNCHANGED vars
Next == Arrive \/ Work \/ Interrupted \/ Stopped
\* The threads of the two pipelines are scheduled while one of them can run.
Spec == Init /\ [][Next]_vars /\ WF_vars(Scan \/ ScanEnds \/ \E c \in Callers : Prefetch(c))
-----------------------------------------------------------------------------
\* The build, its files, the cache and the two pipelines keep their types across builds
\* and crashes.
TypeOK ==
  /\ build.n \in 0..Builds /\ build.ok \in BOOLEAN
  /\ disk.work \in Inodes \cup {0} /\ \A k \in Keys : disk.cache[k] \in Inodes \cup {0}
  /\ \A i \in Inodes : disk.file[i] \in Seq(Nat)
  /\ gate \in 0..GateBytes /\ faults \in 0..MaxFaults
  /\ build.at = "scan" => /\ scan.applied <= scan.sent /\ scan.sent - scan.applied <= MaxOutstanding
                          /\ Len(scan.plans) <= Inflight /\ Len(scan.computed) <= ReorderCapacity

\* A partition that answers Ok has put every point into some leaf, through
\* run files, spool records, retries, fallbacks and forced splits; and no
\* leaf is empty, holds a point twice or is above the leaf cap
\* (emit_leaf_with_safety, rbc_recurse_parallel).
LeavesCover ==
  build.at = "idle" /\ build.n > 0 /\ build.ok =>
    /\ UNION {ToSet(l) : l \in leaves} = ToSet(Points)
    /\ \A l \in leaves : Len(l) \in 1..HardCap /\ Cardinality(ToSet(l)) = Len(l)

\* Runs that come from a manifest are the runs a fresh build with the
\* same parameters would cut, whatever crashes, torn manifests and later
\* builds that append to the linked run file did to the cache
\* (validate_d0_runs_manifest, install_reused_d0_run_file).
ReuseIsFresh ==
  build.at = "reused" =>
    LET fresh == RootSplit(build.key, <<>>)
    IN /\ ReadBatched(RootFile(disk), build.runs) = ReadBatched(fresh.file, fresh.runs)
       /\ [i \in DOMAIN build.roots |-> ReadChain(RootFile(disk), build.roots[i].extents)] = fresh.leaves

\* After the scan the records that a run's segments give, in order, are
\* those of its points, in order: batches that were computed out of order
\* did not mix them (materialize pairs the i-th record with the i-th point).
RecordsMatchPoints ==
  build.at = "split" /\ build.work # <<>> =>
    \A r \in DOMAIN scan.runs :
      SegmentRecords(scan.spool, scan.segments[r]) = [i \in DOMAIN scan.runs[r] |-> <<r, i>>]

\* A build returns an error only if it was given the manifest of other
\* parameters, or if it or an earlier build was interrupted: builds that
\* end well never leave a cache or a work directory that refuses the next.
ErrorsHaveCause == build.at = "idle" /\ ~build.ok => build.mismatch \/ faults > 0

\* No build waits for a pipeline for ever: a level scan comes to its end
\* whatever failed in it and wherever its threads were waiting, and
\* prefetched calls too, unless a consumer failed and left its producer on
\* a full queue, or permits in the gate
\* (run_d1_sequential_ads_pipeline, for_each_prefetched_point_batch_profiled).
InPipeline == build.at = "scan" \/ \E c \in Callers : call[c].at = "run"
PipelinesEnd == InPipeline ~> (~InPipeline \/ PrefetchStuck)
=============================================================================
