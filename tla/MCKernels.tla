----------------------------- MODULE MCKernels -----------------------------
(***************************************************************************)
(* The data paths below the build, in one state space: the reservoir, the  *)
(* reads of rows, the build of the sketch file, the view-lune recorder, the*)
(* assignment stream and the executors of leaf jobs.  They share no state, *)
(* so a behaviour moves one of them and leaves the others idle.            *)
(***************************************************************************)
EXTENDS HashPrune, RowReads, SketchBuild, LuneRows, LeafOperator

VARIABLE mode

resVars == vars
kernelVars == <<mode, resVars, readVars, sketchVars, luneVars, streamVars, opVars>>

-----------------------------------------------------------------------------
(* Reservoir: five targets in three buckets, so that buckets vanish and    *)
(* come back; the distances 2 and 3 round to the same BFloat16.            *)

Offers(T, D) == [target : T, dist : D]
FiveTargets == Offers(1..4, {2, 4, 6}) \cup Offers({2}, {3}) \cup Offers({5}, {4})
ThreeBuckets == [t \in 1..5 |-> (t + 1) \div 2]

-----------------------------------------------------------------------------
(* Stores of five rows of two bytes behind a header of three, in blocks of *)
(* four: rows straddle blocks.  Short files, gaps and repeated ids in run  *)
(* files and resident subsets, a limit below the file, a window cache that *)
(* holds two rows.                                                         *)

FiveRows == [kind |-> "direct", strict |-> FALSE, file |-> HeaderImage \o RowImages(<<0, 1, 2, 3, 4>>),
             num |-> 5, limit |-> 9, ids |-> <<>>, pick |-> "first", prefix |-> 0, budgets |-> {0}]
MCStores ==
  {FiveRows, [FiveRows EXCEPT !.budgets = {0, 4}], [FiveRows EXCEPT !.limit = 4, !.strict = TRUE],
   [FiveRows EXCEPT !.kind = "inmem"], [FiveRows EXCEPT !.kind = "sketch", !.strict = TRUE, !.prefix = 2]}
  \cup {[FiveRows EXCEPT !.kind = k, !.strict = s] : k \in {"direct", "sketch"}, s \in BOOLEAN}
  \cup {[FiveRows EXCEPT !.file = SubSeq(@, 1, Len(@) - 1), !.strict = s] : s \in BOOLEAN}
  \cup {[FiveRows EXCEPT !.kind = "mmap"], [FiveRows EXCEPT !.kind = "mmap", !.file = SubSeq(@, 1, Len(@) - 1)]}
  \cup {[FiveRows EXCEPT !.kind = k, !.ids = <<0, 1, 3, 4>>] : k \in {"resident", "run"}}
  \cup {[FiveRows EXCEPT !.kind = "resident", !.ids = <<3, 0, 3, 1>>, !.pick = "last"],
        [FiveRows EXCEPT !.kind = "run", !.ids = <<3, 4, 0, 1, 3>>, !.pick = "last"]}
MCRequests == {<<>>, <<1>>, <<0, 1, 3>>, <<4, 1, 3, 1>>, <<3, 4, 5>>, <<3, 4>>}
MCAmplification == <<3, 2>>

ReadIdle ==
  store = FiveRows /\ cache = EmptyCache(0) /\ ring = [flying |-> {}, done |-> <<>>] /\ call = NoCall

-----------------------------------------------------------------------------
(* Sketch builds: serial and parallel, buffered and strict, with chunks    *)
(* that do and do not end with a block, and no points at all.              *)

Plan(asked, memory, cacheBytes, strict, points) ==
  [asked |-> asked, memory |-> memory, cacheBytes |-> cacheBytes, strict |-> strict, points |-> points]
MCSketchPlans ==
  {Plan(0, 2, 0, s, 3) : s \in BOOLEAN} \cup {Plan(2, 2, 0, s, 7) : s \in BOOLEAN}
  \cup {Plan(4, 2, 3, FALSE, 5), Plan(1, 1, 0, TRUE, 5), Plan(3, 3, 0, TRUE, 2), Plan(3, 1, 9, TRUE, 0),
        Plan(2, 2, 1, TRUE, 4)}
MCPointAt == [r \in 0..9 |-> (r * r) % 7]

SketchIdle ==
  /\ build = [config |-> Plan(0, 2, 0, FALSE, 0), phase |-> "idle", ok |-> FALSE]
  /\ image = <<>> /\ chunk = <<>> /\ summary = NoSummary

-----------------------------------------------------------------------------
(* View-lune: leaves with repeated edges and witnesses, candidates that    *)
(* are displaced and come back, and blockwise leaves.                      *)

Edge(p, q, d) == [p |-> p, dst |-> q, dist |-> d]
Wit(p, v, q, k) == [p |-> p, victim |-> v, pivot |-> q, key |-> k]
LuneLeaf(edges, wits) == [edges |-> edges, wits |-> wits, early |-> FALSE]
Early(leaf) == [leaf EXCEPT !.early = TRUE]
Crowded ==
  << LuneLeaf(<<Edge(0, 1, 5), Edge(0, 2, 4), Edge(0, 2, 3), Edge(4, 0, 1)>>, <<Wit(0, 1, 2, 9), Wit(0, 1, 2, 7)>>),
     LuneLeaf(<<Edge(0, 1, 5), Edge(0, 3, 2), Edge(0, 2, 4), Edge(1, 0, 5)>>,
              <<Wit(0, 1, 3, 5), Wit(0, 1, 2, 8), Wit(0, 2, 3, 4)>>),
     LuneLeaf(<<Edge(0, 4, 1), Edge(0, 1, 3), Edge(0, 3, 2)>>, <<Wit(0, 1, 4, 3), Wit(0, 3, 4, 6)>>) >>
Tied ==
  << LuneLeaf(<<Edge(0, 1, 4), Edge(0, 2, 4)>>, <<Wit(0, 2, 1, 3)>>),
     LuneLeaf(<<Edge(0, 3, 4), Edge(0, 4, 3), Edge(0, 2, 4)>>, <<Wit(0, 2, 3, 2), Wit(0, 2, 4, 5), Wit(0, 3, 4, 1)>>),
     LuneLeaf(<<Edge(0, 1, 4), Edge(0, 4, 2), Edge(0, 2, 3)>>, <<Wit(0, 1, 2, 2), Wit(0, 1, 4, 2)>>),
     LuneLeaf(<<Edge(1, 0, 4), Edge(1, 2, 2), Edge(1, 3, 1), Edge(1, 4, 1)>>,
              <<Wit(1, 0, 2, 2), Wit(1, 0, 3, 1), Wit(1, 0, 4, 3)>>) >>
\* A victim that one batch displaces and brings back.
Readmitted ==
  << LuneLeaf(<<Edge(0, 2, 4), Edge(0, 3, 3), Edge(0, 4, 6)>>, <<Wit(0, 4, 2, 3), Wit(0, 4, 3, 5)>>),
     LuneLeaf(<<Edge(0, 1, 5), Edge(0, 4, 2)>>, <<Wit(0, 4, 3, 7)>>) >>
MCLuneScenarios == {Crowded, [Crowded EXCEPT ![2] = Early(@)], Tied, Readmitted}

-----------------------------------------------------------------------------
(* Vectors with duplicates and ties; ratios that prune nothing, less and   *)
(* more than they should.                                                  *)

Exact == [seed |-> 1, ratio |-> << <<1, 1>>, <<1, 1>> >>]
Loose == [seed |-> 1, ratio |-> << <<2, 1>>, <<1, 1>> >>]
Lossy == [seed |-> 1, ratio |-> << <<1, 2>>, <<1, 1>> >>]
Five == << <<0, 0>>, <<1, 0>>, <<0, 0>>, <<2, 1>>, <<1, 2>> >>
Four == << <<3, 0>>, <<0, 1>>, <<1, 1>>, <<0, 3>> >>
Line == << <<0, 0>>, <<2, 0>>, <<3, 0>>, <<1, 1>> >>
Three == << <<0, 0>>, <<1, 0>>, <<1, 2>> >>
One == << <<1, 1>> >>

\* A leaf job whose sizes and switches select the executor e.
Job(xs, k, ads, e) ==
  [leaf |-> [i \in DOMAIN xs |-> i], xs |-> xs, knn |-> k, l2 |-> TRUE, ads |-> ads,
   adsMin |-> IF e \in {"tiled", "work_graph", "row_ranges", "wavefront"} THEN 2 ELSE 9, groups |-> TRUE,
   tiling |-> e = "tiled", workGraph |-> e = "work_graph", wavefront |-> e = "wavefront", split |-> 2,
   large |-> e = "waves", safe |-> IF e = "blockwise" THEN 2 ELSE 9, wants |-> TRUE]
MCLeafJobSets ==
  {<<Job(v, k, a, e)>> : v \in {Five, Four, Line}, k \in {1, 2}, a \in {Exact, Loose, Lossy},
                         e \in {"dense", "blockwise", "waves", "row_ranges", "wavefront"}}
  \cup {<<Job(Five, 2, a, e)>> : a \in {Exact, Lossy}, e \in {"tiled", "work_graph"}}
  \cup {<<Job(Line, 2, Exact, "tiled"), Job(Three, 1, Exact, "tiled")>>,
        <<Job(Three, 2, Exact, "work_graph"), Job(Three, 1, Exact, "tiled")>>,
        <<Job(Four, 2, Exact, "blockwise"), Job(Three, 1, Exact, "tiled")>>,
        <<Job(Four, 2, Exact, "waves"), Job(Line, 0, Exact, "tiled")>>,
        <<[Job(Four, 2, Exact, "dense") EXCEPT !.l2 = FALSE], Job(One, 2, Exact, "dense")>>}
MCTileRows == {1, 2}
MCStreamInputs ==
  {[points |-> Line, leaders |-> Four, fanout |-> f, ads |-> a, rows |-> 1] : f \in {1, 2}, a \in {Exact, Lossy}}

-----------------------------------------------------------------------------
KernelInit ==
  /\ mode \in {"reservoir", "reads", "sketch", "lune", "stream", "leaf"}
  /\ Init
  /\ IF mode = "reads" THEN ReadInit ELSE ReadIdle
  /\ IF mode = "sketch" THEN SketchInit ELSE SketchIdle
  /\ IF mode = "lune" THEN LuneInit ELSE LuneIdle
  /\ IF mode = "stream" THEN StreamInit ELSE StreamIdle
  /\ IF mode = "leaf" THEN OpInit ELSE OpIdle

\* The callers of the reads and of the sketch build are content.
CallerRests ==
  /\ \/ mode = "reads" /\ call.phase = "answered" /\ ~Ready
     \/ mode = "sketch" /\ build.phase \in {"built", "copied", "failed"}
  /\ UNCHANGED kernelVars

KernelNext ==
  \/ /\ mode = "reservoir" /\ Next
     /\ UNCHANGED <<mode, readVars, sketchVars, luneVars, streamVars, opVars>>
  \/ /\ mode = "reads" /\ ReadNext
     /\ UNCHANGED <<mode, resVars, sketchVars, luneVars, streamVars, opVars>>
  \/ /\ mode = "sketch" /\ SketchNext
     /\ UNCHANGED <<mode, resVars, readVars, luneVars, streamVars, opVars>>
  \/ /\ mode = "lune" /\ LuneNext
     /\ UNCHANGED <<mode, resVars, readVars, sketchVars, streamVars, opVars>>
  \/ /\ mode = "stream" /\ StreamNext
     /\ UNCHANGED <<mode, resVars, readVars, sketchVars, luneVars, opVars>>
  \/ /\ mode = "leaf" /\ OpNext
     /\ UNCHANGED <<mode, resVars, readVars, sketchVars, luneVars, streamVars>>
  \/ CallerRests

KernelSpec == KernelInit /\ [][KernelNext]_kernelVars /\ StreamFairness /\ OpFairness

\* Every leaf job returns, its sampled tiles under the shared worker budget included, and
\* so does every streaming assignment.  Excepted are the two waits of a pool thread on
\* itself that adsampling.rs admits: a job run by yield_now inside another one that spins in
\* reserve_workers for that one's workers, and a chunk job run by the receiver's yield_now
\* that sends to the full channel only the receiver empties.
OperatorEnds ==
  <>(CASE mode = "leaf" -> AllEnded \/ NestedSpin
       [] mode = "stream" -> StreamStops
       [] OTHER -> TRUE)
=============================================================================
