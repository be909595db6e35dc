------------------------- MODULE RbcPartitionProof -------------------------
(***************************************************************************)
(* Proofs about the out-of-core partition.                                 *)
(***************************************************************************)
EXTENDS RunFilesProof
-----------------------------------------------------------------------------
(* The level scan.  While the caller holds its receiver, every batch that  *)
(* was sent is in one place: planned, in the hands of the reader, loaded,  *)
(* computed, held, or applied; zeros took the place of batches that were   *)
(* lost to an error.                                                       *)

Threads3 == [at : {"loop", "send", "end"}, item : Nat]
ScanRecords(R) ==
  [at : {"fill", "recv", "drain", "join"}, runs : {R}, batches : {BatchesOf(R)},
   next : Nat, sent : Nat, applied : Nat, pending : Nat, exhausted : BOOLEAN,
   planTx : BOOLEAN, rx : BOOLEAN, cancel : BOOLEAN, err : BOOLEAN,
   plans : Seq(Nat), loaded : Seq(Nat), computed : Seq(Nat), held : SUBSET Nat,
   reader : Threads3, worker : [Workers -> Threads3],
   spool : Seq(Pairs), segments : [1..Len(R) -> Seq(Extents)]]

\* A record that becomes another one.
Becomes(t, s) == t = s

\* The batches the reader has passed on, and those the workers have taken.
ReadOn(s) == s.sent - Len(s.plans) - (IF s.reader.at = "send" THEN 1 ELSE 0)
Taken(s) == ReadOn(s) - Len(s.loaded)
Ahead(s) == (s.applied + 1)..Taken(s)

ScanBounds(s) ==
  /\ s.applied <= s.sent /\ s.sent - s.applied <= MaxOutstanding /\ s.sent <= Len(s.batches)
  /\ Len(s.plans) <= Inflight /\ Len(s.computed) <= ReorderCapacity
ScanPhase(s) ==
  /\ s.rx <=> s.at # "join"
  /\ s.exhausted => s.sent = Len(s.batches) /\ ~s.planTx
  /\ s.at \in {"fill", "recv"} => (s.planTx <=> ~s.exhausted) /\ ~s.err
  /\ s.at = "drain" => s.err
  /\ s.at = "join" /\ ~s.err => s.exhausted /\ s.applied = s.sent
ScanPlans(s) ==
  s.at \in {"fill", "recv"} =>
    /\ s.pending \in {0, s.next - 1} /\ s.next - 1 <= Len(s.batches)
    /\ s.next - 1 = s.sent + (IF s.pending = 0 THEN 0 ELSE 1)
ScanQueued(s) ==
  s.rx =>
    /\ \A i \in 1..Len(s.plans) : s.plans[i] = s.sent - Len(s.plans) + i
    /\ s.reader.item # 0 => s.reader.at = "send" /\ s.reader.item = s.sent - Len(s.plans)
    /\ \A i \in 1..Len(s.loaded) : s.loaded[i] = 0 \/ s.loaded[i] = Taken(s) + i
    /\ s.applied <= Taken(s)
\* What the workers took and the caller has not applied is in one place.
ScanTaken(s) ==
  s.rx =>
    /\ \A w \in Workers : s.worker[w].item # 0 => s.worker[w].at = "send" /\ s.worker[w].item \in Ahead(s) \ s.held
    /\ \A i \in 1..Len(s.computed) : s.computed[i] # 0 => s.computed[i] \in Ahead(s) \ s.held
    /\ s.held \subseteq Ahead(s)
ScanApart(s) ==
  s.rx =>
    /\ \A w, v \in Workers : w # v /\ s.worker[w].item # 0 => s.worker[w].item # s.worker[v].item
    /\ \A i, j \in 1..Len(s.computed) : i # j /\ s.computed[i] # 0 => s.computed[i] # s.computed[j]
    /\ \A w \in Workers, i \in 1..Len(s.computed) : s.computed[i] # 0 => s.computed[i] # s.worker[w].item
ScanSpooled(s) ==
  Spooled([spool |-> s.spool, segments |-> s.segments], Len(s.runs), HeadsOf(s.runs)[s.applied])
ScanOK(s) ==
  /\ s.runs \in Seq(Words) /\ s \in ScanRecords(s.runs)
  /\ ScanBounds(s) /\ ScanPhase(s) /\ ScanPlans(s)
  /\ ScanQueued(s) /\ ScanTaken(s) /\ ScanApart(s) /\ ScanSpooled(s)

\* A scan without a fault: nothing is lost, and nobody stops early.
Sound(s) ==
  /\ ~s.err /\ ~s.cancel
  /\ s.rx =>
       /\ s.reader.at = "send" => s.reader.item # 0
       /\ \A i \in 1..Len(s.loaded) : s.loaded[i] # 0
       /\ \A w \in Workers : s.worker[w].at = "send" => s.worker[w].item # 0
       /\ \A i \in 1..Len(s.computed) : s.computed[i] # 0
Whole(s) ==
  s.rx => /\ \A b \in Ahead(s) : \/ b \in s.held
                                 \/ \E w \in Workers : s.worker[w].item = b
                                 \/ \E i \in 1..Len(s.computed) : s.computed[i] = b
          /\ s.applied + 1 \notin s.held
Ends(s) ==
  s.rx => /\ s.reader.at = "end" => ~s.planTx /\ s.plans = <<>>
          /\ \A w \in Workers : s.worker[w].at = "end" => s.loaded = <<>> /\ s.reader.at = "end"
ScanClean(s) == Sound(s) /\ Whole(s) /\ Ends(s)
-----------------------------------------------------------------------------
(* The prefetched calls: the gate covers the permits of their items and    *)
(* of their queues.                                                        *)

Nodes == [pts : Words, depth : 1..MaxDepth, parent : Nat]
Inner == {n \in Nodes : n.depth < MaxDepth}
Permits == Nat \cup {Bad}
Permit(p) == IF p = Bad THEN 0 ELSE p
QueueBytes(q) == Sum([i \in 1..Len(q) |-> Permit(q[i])], 1..Len(q))
Running ==
  [at : {"run", "ok", "failed"}, mode : {"off", "normal", "strict"}, job : [node : Inner, attempt : Nat],
   left : Seq(Words), got : Nat, total : Nat, producer : {"acquire", "send"},
   item : Permits, queue : Seq(Permits), failed : BOOLEAN]
Calls == {c \in Running : c.producer = "send" => c.left # <<>>} \cup {NoCall}
HeldBytes(c) == IF c = NoCall THEN 0 ELSE Permit(c.item) + QueueBytes(c.queue)
HeldOf(calls) == [c \in Callers |-> HeldBytes(calls[c])]
CallsOK(calls, g) ==
  /\ calls \in [Callers -> Calls] /\ g \in 0..GateBytes
  /\ Sum(HeldOf(calls), Callers) <= g
CallClean(c) ==
  c # NoCall => /\ c.at # "failed" /\ ~c.failed /\ c.item # Bad
                /\ \A i \in 1..Len(c.queue) : c.queue[i] # Bad
CallsClean(calls) == \A c \in Callers : CallClean(calls[c])
-----------------------------------------------------------------------------
(* The directories and the build. *)

Entries == [key : Keys, contents : Words, runs : Seq(RunRecords), leaves : Seq(RunRecords)]
EntryIn(m) == RunsIn(m.contents, m.runs) /\ RunsIn(m.contents, m.leaves)
Manifests == {Missing, Torn} \cup {m \in Entries : EntryIn(m)}
Disks ==
  [file : [Inodes -> Words], work : Inodes \cup {0}, workMan : Manifests,
   cache : [Keys -> Inodes \cup {0}], cacheMan : [Keys -> Manifests], deep : [1..MaxDepth -> Words]]
Idles == [at : {"idle"}, n : 0..Builds, ok : BOOLEAN, mismatch : BOOLEAN]
Places == {"load", "root", "reused", "capture", "manifest", "install", "publish",
           "wave", "scan", "split", "recurse", "finish"}
Active ==
  [at : Places, n : 0..Builds, key : Keys, mode : {"plain", "cache", "manifest", ""}, src : Keys,
   mismatch : BOOLEAN, ok : BOOLEAN, depth : 0..MaxDepth, runs : Seq(RunRecords),
   roots : Seq(Words) \cup Seq(RunRecords), work : Seq(Words), clusters : Seq(Words),
   later : Seq(Nodes), failed : BOOLEAN]
Owned == {"manifest", "install", "publish"}
\* The runs of a build are runs of the file they are read from.
RunsPlaced(b, d) ==
  /\ b.at \in {"reused", "capture"} \cup Owned => RunsIn(RootFile(d), b.runs)
  /\ b.at \in {"reused"} \cup Owned => RunsIn(RootFile(d), b.roots)
  /\ b.at \in {"capture", "finish"} => b.roots \in Seq(Words)
  /\ b.at = "wave" => b.depth >= 1 /\ RunsIn(FileOfDepth(d, b.depth - 1), b.runs)
  /\ b.at \in {"scan", "split"} =>
       /\ b.depth >= 1 /\ RunsIn(FileOfDepth(d, b.depth), b.runs)
       /\ b.runs # <<>> \/ b.work # <<>> \/ b.clusters # <<>> => b.depth < MaxDepth
\* The lists that a level still has to split are the last ones of its scan.
Remaining(work, runs) ==
  Len(work) <= Len(runs) /\ \A j \in 1..Len(work) : work[j] = runs[Len(runs) - Len(work) + j]
ScanPlaced(b, s) ==
  /\ b.at = "scan" => ScanOK(s) /\ Remaining(b.work, s.runs)
  /\ b.at = "split" /\ b.work # <<>> =>
       ScanOK(s) /\ Remaining(b.work, s.runs) /\ s.at = "join" /\ ~s.err
Pending(b, list, calls) ==
  /\ list \in Seq(Nodes)
  /\ b.at \notin {"split", "recurse"} => list = <<>> /\ \A c \in Callers : calls[c] = NoCall
PartitionInv ==
  /\ disk \in Disks /\ build \in Idles \cup Active /\ faults \in 0..MaxFaults
  /\ RunsPlaced(build, disk) /\ ScanPlaced(build, scan)
  /\ Pending(build, todo, call) /\ CallsOK(call, gate)
-----------------------------------------------------------------------------
(* Before the first fault. *)

\* A cache entry is complete and its file is the one it was written for, or there is none;
\* between the install and the publish the file is there first.
EntryClean(d, k) ==
  /\ d.cacheMan[k] \in Entries /\ ValidManifest(d.cacheMan[k], k)
  /\ d.cache[k] # 0 /\ d.file[d.cache[k]] = d.cacheMan[k].contents
CacheClean(b, d) ==
  \A k \in Keys : \/ EntryClean(d, k)
                  \/ d.cacheMan[k] = Missing /\ (d.cache[k] = 0 \/ (b.at = "publish" /\ b.key = k))
BuildClean(b, d) ==
  /\ b.at \in {"idle", "load", "root"} => d.work = 0
  /\ b.at = "idle" => b.ok \/ b.mismatch
  /\ b.at = "load" => (b.mismatch <=> b.src # b.key) /\ d.cacheMan[b.src] # Missing
  /\ b.at # "idle" => ~b.failed
  /\ b.at \in {"capture"} \cup Owned => b.runs # <<>> /\ d.work # 0
  /\ b.at \in {"capture"} => \A k \in Keys : d.cache[k] # d.work
  /\ b.at \in {"root", "capture", "manifest", "install"} /\ b.mode = "cache" => d.cacheMan[b.key] = Missing
  /\ b.at = "install" => b.mode = "cache"
  /\ b.at = "publish" =>
       /\ d.cacheMan[b.key] = Missing /\ d.cache[b.key] # 0
       /\ d.file[d.cache[b.key]] = RootFile(d)
PartitionClean ==
  faults = 0 =>
    /\ CacheClean(build, disk) /\ BuildClean(build, disk) /\ CallsClean(call)
    /\ build.at = "scan" => ScanClean(scan)
-----------------------------------------------------------------------------
\* A piece that is not empty has a last element.
LEMMA LastOfPiece ==
  \A a, k \in Nat : k # 0 => a + k \in (a + 1)..(a + k)
OBVIOUS

\* The bounds of the pipeline.
LEMMA ScanConstants ==
  /\ Inflight \in Nat \ {0} /\ ReorderCapacity \in Nat /\ MaxOutstanding \in Nat /\ ReorderCapacity <= MaxOutstanding
  /\ MaxFaults \in Nat /\ 1 \in Workers
<1>1. /\ Inflight \in Nat \ {0} /\ Threads \in Nat \ {0} /\ ReorderCapacity \in Nat /\ ReorderCapacity >= Inflight
      /\ MaxFaults \in Nat
  BY ScanAssumption
<1>2. MaxOutstanding \in Nat /\ ReorderCapacity <= MaxOutstanding
  BY <1>1, MaxOfTwo DEF MaxOutstanding
<1>3. Min({Inflight, Threads}) \in Nat \ {0}
  BY <1>1, MinOfTwo
<1>4. 1 \in Workers
  BY <1>3 DEF Workers
<1> QED BY <1>1, <1>2, <1>4

\* The batch to plan next is the one after the last that was sent.
PlanIs(s, p, q) ==
  /\ p = (IF s.pending # 0 THEN s.pending ELSE s.next)
  /\ q = (IF s.pending # 0 THEN s.next ELSE s.next + 1)
LEMMA NextPlan ==
  ASSUME NEW s, ScanPlans(s), s.at = "fill", s.next \in Nat, s.sent \in Nat, s.pending \in Nat, Len(s.batches) \in Nat,
         s.pending # 0 \/ s.next <= Len(s.batches),
         NEW p, NEW q, PlanIs(s, p, q)
  PROVE  p \in Nat /\ q \in Nat /\ p # 0 /\ p = s.sent + 1 /\ p <= Len(s.batches) /\ q = p + 1
BY DEF ScanPlans, PlanIs

\* The counts when a batch is planned, when the reader takes a plan, when it passes a batch on, and when a worker
\* takes one.
LEMMA CountsAtPlan ==
  ASSUME NEW s, NEW t, s.sent \in Nat, Len(s.plans) \in Nat, t.sent = s.sent + 1, Len(t.plans) = Len(s.plans) + 1,
         t.reader = s.reader, t.loaded = s.loaded, t.applied = s.applied
  PROVE  Taken(t) = Taken(s) /\ Ahead(t) = Ahead(s) /\ t.sent - Len(t.plans) = s.sent - Len(s.plans)
<1> DEFINE a == s.sent
           b == Len(s.plans)
<1>1. a \in Int /\ b \in Int
  OBVIOUS
<1>2. t.sent - Len(t.plans) = (a + 1) - (b + 1)
  OBVIOUS
<1> HIDE DEF a, b
<1>3. (a + 1) - (b + 1) = a - b
  BY <1>1
<1>4. t.sent - Len(t.plans) = s.sent - Len(s.plans)
  BY <1>2, <1>3 DEF a, b
<1>5. ReadOn(t) = ReadOn(s)
  BY <1>4 DEF ReadOn
<1>6. Taken(t) = Taken(s)
  BY <1>5 DEF Taken
<1> QED BY <1>4, <1>6 DEF Ahead
LEMMA CountsAtTake ==
  ASSUME NEW s, NEW t, s.sent \in Nat, Len(s.plans) \in Nat, t.sent = s.sent, Len(t.plans) = Len(s.plans) - 1,
         s.reader.at = "loop", t.reader.at = "send", t.loaded = s.loaded, t.applied = s.applied
  PROVE  Taken(t) = Taken(s) /\ Ahead(t) = Ahead(s) /\ t.sent - Len(t.plans) = s.sent - Len(s.plans) + 1
<1> DEFINE a == s.sent
           b == Len(s.plans)
<1>1. a \in Int /\ b \in Int
  OBVIOUS
<1>2. ReadOn(t) = (a - (b - 1)) - 1 /\ ReadOn(s) = (a - b) - 0
  BY DEF ReadOn
<1> HIDE DEF a, b
<1>3. (a - (b - 1)) - 1 = (a - b) - 0 /\ a - (b - 1) = (a - b) + 1
  BY <1>1
<1>4. ReadOn(t) = ReadOn(s)
  BY <1>2, <1>3
<1>5. Taken(t) = Taken(s)
  BY <1>4 DEF Taken
<1> QED BY <1>3, <1>5 DEF Ahead, a, b
LEMMA CountsAtPass ==
  ASSUME NEW s, NEW t, s.sent \in Nat, Len(s.plans) \in Nat, Len(s.loaded) \in Nat, t.sent = s.sent, t.plans = s.plans,
         s.reader.at = "send", t.reader.at # "send", Len(t.loaded) = Len(s.loaded) + 1, t.applied = s.applied
  PROVE  Taken(t) = Taken(s) /\ Ahead(t) = Ahead(s) /\ s.sent - Len(s.plans) = Taken(s) + (Len(s.loaded) + 1)
<1> DEFINE a == s.sent
           b == Len(s.plans)
           l == Len(s.loaded)
<1>1. a \in Int /\ b \in Int /\ l \in Int
  OBVIOUS
<1>2. ReadOn(t) = (a - b) - 0 /\ ReadOn(s) = (a - b) - 1
  BY DEF ReadOn
<1>3. Taken(t) = ((a - b) - 0) - (l + 1) /\ Taken(s) = ((a - b) - 1) - l
  BY <1>2 DEF Taken
<1> HIDE DEF a, b, l
<1>4. ((a - b) - 0) - (l + 1) = ((a - b) - 1) - l /\ a - b = (((a - b) - 1) - l) + (l + 1)
  BY <1>1
<1>5. Taken(t) = Taken(s) /\ a - b = Taken(s) + (l + 1)
  BY <1>3, <1>4
<1> QED BY <1>5 DEF Ahead, a, b, l
LEMMA CountsAtWork ==
  ASSUME NEW s, NEW t, s.sent \in Nat, Len(s.plans) \in Nat, Len(s.loaded) \in Nat, t.sent = s.sent, t.plans = s.plans,
         t.reader = s.reader, Len(t.loaded) = Len(s.loaded) - 1
  PROVE  Taken(s) \in Int /\ Taken(t) = Taken(s) + 1
<1> DEFINE r == ReadOn(s)
           l == Len(s.loaded)
<1>1. r \in Int /\ l \in Int
  BY DEF ReadOn
<1>2. Taken(s) = r - l /\ Taken(t) = r - (l - 1)
  BY DEF Taken, ReadOn
<1> HIDE DEF r, l
<1> QED BY <1>1, <1>2
\* Nothing is taken before it is planned.
LEMMA TakenNat ==
  ASSUME NEW s, s.sent \in Nat, Len(s.plans) \in Nat, Len(s.loaded) \in Nat, s.applied \in Nat, s.applied <= Taken(s)
  PROVE  Taken(s) \in Nat /\ Taken(s) <= s.sent /\ s.sent - Len(s.plans) >= 0
<1> DEFINE a == s.sent
           b == Len(s.plans)
           l == Len(s.loaded)
           d == IF s.reader.at = "send" THEN 1 ELSE 0
<1>1. a \in Nat /\ b \in Nat /\ l \in Nat /\ d \in Nat
  OBVIOUS
<1>2. Taken(s) = ((a - b) - d) - l
  BY DEF Taken, ReadOn
<1> HIDE DEF a, b, l, d
<1>3. ((a - b) - d) - l \in Int /\ (((a - b) - d) - l >= 0 => ((a - b) - d) - l <= a /\ a - b >= 0)
  BY <1>1
<1>4. Taken(s) \in Int /\ Taken(s) >= 0
  BY <1>2, <1>3
<1> QED BY <1>2, <1>3, <1>4 DEF a, b

\* The queue is full enough: the caller goes on to receive.
LEMMA FillWaits ==
  ASSUME NEW s, ScanOK(s), NEW t, Becomes(t, [s EXCEPT !.at = "recv"]),
         s.at = "fill"
  PROVE  /\ ScanOK(t) /\ t.runs = s.runs
         /\ ScanClean(s) => ScanClean(t)
<1>1. s.runs \in Seq(Words) /\ s \in ScanRecords(s.runs)
  BY DEF ScanOK
<1>2. ScanBounds(s) /\ ScanPhase(s) /\ ScanPlans(s) /\ ScanQueued(s) /\ ScanTaken(s) /\ ScanApart(s) /\ ScanSpooled(s)
  BY DEF ScanOK
<1>3. s.next \in Nat /\ s.sent \in Nat /\ s.applied \in Nat /\ s.pending \in Nat /\ s.batches = BatchesOf(s.runs)
  BY <1>1 DEF ScanRecords
<1>7. /\ s.plans \in Seq(Nat) /\ s.loaded \in Seq(Nat) /\ s.computed \in Seq(Nat)
      /\ Len(s.plans) \in Nat /\ Len(s.loaded) \in Nat /\ Len(s.computed) \in Nat
  BY <1>1 DEF ScanRecords
<1>8. /\ s.held \in SUBSET Nat /\ s.reader \in Threads3 /\ s.worker \in [Workers -> Threads3]
      /\ s.at \in {"fill", "recv", "drain", "join"}
      /\ s.planTx \in BOOLEAN /\ s.rx \in BOOLEAN /\ s.exhausted \in BOOLEAN /\ s.err \in BOOLEAN
      /\ s.cancel \in BOOLEAN
  BY <1>1 DEF ScanRecords
<1>11. t \in ScanRecords(s.runs)
  BY <1>1 DEF ScanRecords, Becomes
<1>12. /\ t.runs = s.runs /\ t.batches = s.batches /\ t.next = s.next /\ t.sent = s.sent
       /\ t.applied = s.applied /\ t.pending = s.pending /\ t.exhausted = s.exhausted /\ t.planTx = s.planTx
       /\ t.rx = s.rx /\ t.cancel = s.cancel /\ t.err = s.err /\ t.plans = s.plans /\ t.loaded = s.loaded
       /\ t.computed = s.computed /\ t.held = s.held /\ t.reader = s.reader /\ t.worker = s.worker
       /\ t.spool = s.spool /\ t.segments = s.segments
  BY <1>1 DEF ScanRecords, Becomes
<1>13. t.at = "recv"
  BY <1>1 DEF ScanRecords, Becomes
<1>14. ScanBounds(t)
  BY <1>2, <1>12 DEF ScanBounds
<1>15. ScanPhase(t)
  BY <1>2, <1>3, <1>8, <1>12, <1>13 DEF ScanPhase
<1>16. ScanPlans(t)
  BY <1>2, <1>3, <1>8, <1>12, <1>13 DEF ScanPlans
<1>17. ScanQueued(t)
  BY <1>2, <1>12 DEF ScanQueued, Taken, ReadOn
<1>18. ScanTaken(t)
  BY <1>2, <1>12 DEF ScanTaken, Ahead, Taken, ReadOn
<1>19. ScanApart(t)
  BY <1>2, <1>12 DEF ScanApart
<1>20. ScanSpooled(t)
  BY <1>2, <1>12 DEF ScanSpooled
<1>21. ScanOK(t) /\ t.runs = s.runs
  BY <1>1, <1>11, <1>12, <1>14, <1>15, <1>16, <1>17, <1>18, <1>19, <1>20 DEF ScanOK
<1>22. ASSUME ScanClean(s) PROVE ScanClean(t)
  <2>1. Sound(s) /\ Whole(s) /\ Ends(s)
    BY <1>22 DEF ScanClean
  <2>2. Sound(t)
    BY <1>12, <2>1 DEF Sound
  <2>3. Whole(t)
    BY <1>12, <2>1 DEF Whole, Ahead, Taken, ReadOn
  <2>4. Ends(t)
    BY <1>12, <2>1 DEF Ends
  <2> QED BY <2>2, <2>3, <2>4 DEF ScanClean
<1> QED BY <1>21, <1>22

\* There is nothing left to plan: the plan channel is closed.
LEMMA FillExhausted ==
  ASSUME NEW s, ScanOK(s), NEW t, Becomes(t, [s EXCEPT !.planTx = FALSE, !.exhausted = TRUE, !.at = "recv"]),
         s.at = "fill",
         s.planTx,
         s.pending = 0,
         ~(s.next <= Len(s.batches))
  PROVE  /\ ScanOK(t) /\ t.runs = s.runs
         /\ ScanClean(s) => ScanClean(t)
<1>1. s.runs \in Seq(Words) /\ s \in ScanRecords(s.runs)
  BY DEF ScanOK
<1>2. ScanBounds(s) /\ ScanPhase(s) /\ ScanPlans(s) /\ ScanQueued(s) /\ ScanTaken(s) /\ ScanApart(s) /\ ScanSpooled(s)
  BY DEF ScanOK
<1>3. s.next \in Nat /\ s.sent \in Nat /\ s.applied \in Nat /\ s.pending \in Nat /\ s.batches = BatchesOf(s.runs)
  BY <1>1 DEF ScanRecords
<1>7. /\ s.plans \in Seq(Nat) /\ s.loaded \in Seq(Nat) /\ s.computed \in Seq(Nat)
      /\ Len(s.plans) \in Nat /\ Len(s.loaded) \in Nat /\ Len(s.computed) \in Nat
  BY <1>1 DEF ScanRecords
<1>8. /\ s.held \in SUBSET Nat /\ s.reader \in Threads3 /\ s.worker \in [Workers -> Threads3]
      /\ s.at \in {"fill", "recv", "drain", "join"}
      /\ s.planTx \in BOOLEAN /\ s.rx \in BOOLEAN /\ s.exhausted \in BOOLEAN /\ s.err \in BOOLEAN
      /\ s.cancel \in BOOLEAN
  BY <1>1 DEF ScanRecords
<1>4. Len(s.batches) \in Nat
  BY <1>1, <1>3, BatchesFacts
<1>5. s.sent = Len(s.batches)
  BY <1>2, <1>3, <1>4 DEF ScanPlans
<1>6. s.rx /\ ~s.err
  BY <1>2 DEF ScanPhase
<1>11. t \in ScanRecords(s.runs)
  BY <1>1 DEF ScanRecords, Becomes
<1>12. /\ t.runs = s.runs /\ t.batches = s.batches /\ t.next = s.next /\ t.sent = s.sent
       /\ t.applied = s.applied /\ t.pending = s.pending /\ t.rx = s.rx /\ t.cancel = s.cancel
       /\ t.err = s.err /\ t.plans = s.plans /\ t.loaded = s.loaded /\ t.computed = s.computed
       /\ t.held = s.held /\ t.reader = s.reader /\ t.worker = s.worker /\ t.spool = s.spool
       /\ t.segments = s.segments
  BY <1>1 DEF ScanRecords, Becomes
<1>13. t.planTx = FALSE /\ t.exhausted = TRUE /\ t.at = "recv"
  BY <1>1 DEF ScanRecords, Becomes
<1>14. ScanBounds(t)
  BY <1>2, <1>12 DEF ScanBounds
<1>15. ScanPhase(t)
  BY <1>5, <1>6, <1>12, <1>13 DEF ScanPhase
<1>16. ScanPlans(t)
  BY <1>2, <1>3, <1>8, <1>12, <1>13, <1>4, <1>5, <1>6 DEF ScanPlans
<1>17. ScanQueued(t)
  BY <1>2, <1>12 DEF ScanQueued, Taken, ReadOn
<1>18. ScanTaken(t)
  BY <1>2, <1>12 DEF ScanTaken, Ahead, Taken, ReadOn
<1>19. ScanApart(t)
  BY <1>2, <1>12 DEF ScanApart
<1>20. ScanSpooled(t)
  BY <1>2, <1>12 DEF ScanSpooled
<1>21. ScanOK(t) /\ t.runs = s.runs
  BY <1>1, <1>11, <1>12, <1>14, <1>15, <1>16, <1>17, <1>18, <1>19, <1>20 DEF ScanOK
<1>22. ASSUME ScanClean(s) PROVE ScanClean(t)
  <2>1. Sound(s) /\ Whole(s) /\ Ends(s)
    BY <1>22 DEF ScanClean
  <2>2. Sound(t)
    BY <1>12, <2>1 DEF Sound
  <2>3. Whole(t)
    BY <1>12, <2>1 DEF Whole, Ahead, Taken, ReadOn
  <2>4. Ends(t)
    BY <1>2, <1>3, <1>8, <1>12, <1>13, <2>1, <1>4, <1>5, <1>6 DEF Ends
  <2> QED BY <2>2, <2>3, <2>4 DEF ScanClean
<1> QED BY <1>21, <1>22

\* The plan channel is full: the batch is kept for later.
LEMMA FillFull ==
  ASSUME NEW s, ScanOK(s), NEW p, NEW q, NEW t, Becomes(t, [s EXCEPT !.pending = p, !.next = q, !.at = "recv"]),
         PlanIs(s, p, q),
         s.at = "fill",
         s.pending # 0 \/ s.next <= Len(s.batches)
  PROVE  /\ ScanOK(t) /\ t.runs = s.runs
         /\ ScanClean(s) => ScanClean(t)
<1>1. s.runs \in Seq(Words) /\ s \in ScanRecords(s.runs)
  BY DEF ScanOK
<1>2. ScanBounds(s) /\ ScanPhase(s) /\ ScanPlans(s) /\ ScanQueued(s) /\ ScanTaken(s) /\ ScanApart(s) /\ ScanSpooled(s)
  BY DEF ScanOK
<1>3. s.next \in Nat /\ s.sent \in Nat /\ s.applied \in Nat /\ s.pending \in Nat /\ s.batches = BatchesOf(s.runs)
  BY <1>1 DEF ScanRecords
<1>7. /\ s.plans \in Seq(Nat) /\ s.loaded \in Seq(Nat) /\ s.computed \in Seq(Nat)
      /\ Len(s.plans) \in Nat /\ Len(s.loaded) \in Nat /\ Len(s.computed) \in Nat
  BY <1>1 DEF ScanRecords
<1>8. /\ s.held \in SUBSET Nat /\ s.reader \in Threads3 /\ s.worker \in [Workers -> Threads3]
      /\ s.at \in {"fill", "recv", "drain", "join"}
      /\ s.planTx \in BOOLEAN /\ s.rx \in BOOLEAN /\ s.exhausted \in BOOLEAN /\ s.err \in BOOLEAN
      /\ s.cancel \in BOOLEAN
  BY <1>1 DEF ScanRecords
<1>4. Len(s.batches) \in Nat
  BY <1>1, <1>3, BatchesFacts
<1>5. p \in Nat /\ q \in Nat /\ p # 0 /\ p = s.sent + 1 /\ p <= Len(s.batches) /\ q = p + 1
  BY <1>2, <1>3, <1>4, NextPlan
<1>10. p \in Nat /\ q \in Nat
  BY <1>5

<1>11. t \in ScanRecords(s.runs)
  BY <1>1, <1>10 DEF ScanRecords, Becomes
<1>12. /\ t.runs = s.runs /\ t.batches = s.batches /\ t.sent = s.sent /\ t.applied = s.applied
       /\ t.exhausted = s.exhausted /\ t.planTx = s.planTx /\ t.rx = s.rx /\ t.cancel = s.cancel
       /\ t.err = s.err /\ t.plans = s.plans /\ t.loaded = s.loaded /\ t.computed = s.computed
       /\ t.held = s.held /\ t.reader = s.reader /\ t.worker = s.worker /\ t.spool = s.spool
       /\ t.segments = s.segments
  BY <1>1 DEF ScanRecords, Becomes
<1>13. t.pending = p /\ t.next = q /\ t.at = "recv"
  BY <1>1 DEF ScanRecords, Becomes
<1>14. ScanBounds(t)
  BY <1>2, <1>12 DEF ScanBounds
<1>15. ScanPhase(t)
  BY <1>2, <1>3, <1>8, <1>12, <1>13, <1>4, <1>5 DEF ScanPhase
<1>16. ScanPlans(t)
  BY <1>3, <1>4, <1>5, <1>12, <1>13 DEF ScanPlans
<1>17. ScanQueued(t)
  BY <1>2, <1>12 DEF ScanQueued, Taken, ReadOn
<1>18. ScanTaken(t)
  BY <1>2, <1>12 DEF ScanTaken, Ahead, Taken, ReadOn
<1>19. ScanApart(t)
  BY <1>2, <1>12 DEF ScanApart
<1>20. ScanSpooled(t)
  BY <1>2, <1>12 DEF ScanSpooled
<1>21. ScanOK(t) /\ t.runs = s.runs
  BY <1>1, <1>11, <1>12, <1>14, <1>15, <1>16, <1>17, <1>18, <1>19, <1>20 DEF ScanOK
<1>22. ASSUME ScanClean(s) PROVE ScanClean(t)
  <2>1. Sound(s) /\ Whole(s) /\ Ends(s)
    BY <1>22 DEF ScanClean
  <2>2. Sound(t)
    BY <1>12, <2>1 DEF Sound
  <2>3. Whole(t)
    BY <1>12, <2>1 DEF Whole, Ahead, Taken, ReadOn
  <2>4. Ends(t)
    BY <1>12, <2>1 DEF Ends
  <2> QED BY <2>2, <2>3, <2>4 DEF ScanClean
<1> QED BY <1>21, <1>22

\* A batch is planned and sent.
LEMMA FillSends ==
  ASSUME NEW s, ScanOK(s), NEW p, NEW q, NEW t,
         Becomes(t, [s EXCEPT !.plans = Append(s.plans, p), !.sent = s.sent + 1, !.pending = 0, !.next = q]),
         PlanIs(s, p, q),
         s.at = "fill",
         s.planTx,
         s.sent - s.applied < MaxOutstanding,
         s.pending # 0 \/ s.next <= Len(s.batches),
         s.reader.at # "end",
         Len(s.plans) < Inflight
  PROVE  /\ ScanOK(t) /\ t.runs = s.runs
         /\ ScanClean(s) => ScanClean(t)
<1>1. s.runs \in Seq(Words) /\ s \in ScanRecords(s.runs)
  BY DEF ScanOK
<1>2. ScanBounds(s) /\ ScanPhase(s) /\ ScanPlans(s) /\ ScanQueued(s) /\ ScanTaken(s) /\ ScanApart(s) /\ ScanSpooled(s)
  BY DEF ScanOK
<1>3. s.next \in Nat /\ s.sent \in Nat /\ s.applied \in Nat /\ s.pending \in Nat /\ s.batches = BatchesOf(s.runs)
  BY <1>1 DEF ScanRecords
<1>7. /\ s.plans \in Seq(Nat) /\ s.loaded \in Seq(Nat) /\ s.computed \in Seq(Nat)
      /\ Len(s.plans) \in Nat /\ Len(s.loaded) \in Nat /\ Len(s.computed) \in Nat
  BY <1>1 DEF ScanRecords
<1>8. /\ s.held \in SUBSET Nat /\ s.reader \in Threads3 /\ s.worker \in [Workers -> Threads3]
      /\ s.at \in {"fill", "recv", "drain", "join"}
      /\ s.planTx \in BOOLEAN /\ s.rx \in BOOLEAN /\ s.exhausted \in BOOLEAN /\ s.err \in BOOLEAN
      /\ s.cancel \in BOOLEAN
  BY <1>1 DEF ScanRecords
<1>4. Len(s.batches) \in Nat /\ Inflight \in Nat /\ MaxOutstanding \in Nat
  BY <1>1, <1>3, BatchesFacts, ScanConstants
<1>5. p \in Nat /\ q \in Nat /\ p # 0 /\ p = s.sent + 1 /\ p <= Len(s.batches) /\ q = p + 1
  BY <1>2, <1>3, <1>4, NextPlan
<1>6. /\ Append(s.plans, p) \in Seq(Nat) /\ Len(Append(s.plans, p)) = Len(s.plans) + 1
      /\ DOMAIN s.plans = 1..Len(s.plans)
      /\ \A i \in DOMAIN s.plans : Append(s.plans, p)[i] = s.plans[i]
      /\ Append(s.plans, p)[Len(s.plans) + 1] = p
  BY <1>5, <1>7, AppendFacts
<1>10. Append(s.plans, p) \in Seq(Nat) /\ s.sent + 1 \in Nat /\ q \in Nat
  BY <1>3, <1>5, <1>6

<1>11. t \in ScanRecords(s.runs)
  BY <1>1, <1>10 DEF ScanRecords, Becomes
<1>12. /\ t.at = s.at /\ t.runs = s.runs /\ t.batches = s.batches /\ t.applied = s.applied
       /\ t.exhausted = s.exhausted /\ t.planTx = s.planTx /\ t.rx = s.rx /\ t.cancel = s.cancel
       /\ t.err = s.err /\ t.loaded = s.loaded /\ t.computed = s.computed /\ t.held = s.held
       /\ t.reader = s.reader /\ t.worker = s.worker /\ t.spool = s.spool /\ t.segments = s.segments
  BY <1>1 DEF ScanRecords, Becomes
<1>13. t.plans = Append(s.plans, p) /\ t.sent = s.sent + 1 /\ t.pending = 0 /\ t.next = q
  BY <1>1 DEF ScanRecords, Becomes
<1>14. ScanBounds(t)
  <2>1. /\ t.sent = s.sent + 1 /\ Len(t.plans) = Len(s.plans) + 1 /\ t.applied = s.applied
        /\ t.batches = s.batches /\ t.computed = s.computed
    BY <1>6, <1>12, <1>13
  <2>2. s.applied <= s.sent /\ Len(s.plans) <= Inflight /\ Len(s.computed) <= ReorderCapacity
    BY <1>2 DEF ScanBounds
  <2>3. t.applied <= t.sent /\ t.sent - t.applied <= MaxOutstanding /\ t.sent <= Len(t.batches)
    BY <1>3, <1>4, <1>5, <2>1, <2>2, SMTT(30)
  <2>4. Len(t.plans) <= Inflight /\ Len(t.computed) <= ReorderCapacity
    BY <1>4, <1>7, <2>1, <2>2
  <2> QED BY <2>3, <2>4 DEF ScanBounds
<1>15. ScanPhase(t)
  BY <1>2, <1>3, <1>8, <1>12, <1>13, <1>4, <1>5, <1>6 DEF ScanPhase
<1>16. ScanPlans(t)
  BY <1>3, <1>4, <1>5, <1>12, <1>13 DEF ScanPlans
<1>17. ScanQueued(t)
  <2>1. Taken(t) = Taken(s) /\ t.sent - Len(t.plans) = s.sent - Len(s.plans)
    BY <1>3, <1>6, <1>7, <1>12, <1>13, CountsAtPlan
  <2>2. ASSUME t.rx, NEW i \in 1..Len(t.plans) PROVE t.plans[i] = t.sent - Len(t.plans) + i
    <3>1. \A j \in 1..Len(s.plans) : s.plans[j] = s.sent - Len(s.plans) + j
      BY <1>2, <1>12, <2>2 DEF ScanQueued
    <3>2. i \in Nat /\ i <= Len(s.plans) + 1 /\ i >= 1
      BY <1>4, <1>6, <1>7, <1>13, <2>2
    <3>3. CASE i = Len(s.plans) + 1
      BY <1>3, <1>4, <1>5, <1>6, <1>7, <1>13, <3>3
    <3>4. CASE i # Len(s.plans) + 1
      <4>1. i \in 1..Len(s.plans) /\ i \in DOMAIN s.plans
        <5> DEFINE n == Len(s.plans)
        <5>1. n \in Nat /\ i \in Nat /\ i <= n + 1 /\ i >= 1 /\ i # n + 1
          BY <1>7, <3>2, <3>4
        <5> HIDE DEF n
        <5>2. i \in 1..n
          BY <5>1
        <5> QED BY <1>6, <5>2 DEF n
      <4> QED BY <1>6, <1>13, <2>1, <3>1, <4>1
    <3> QED BY <3>3, <3>4
  <2> QED BY <1>2, <1>12, <2>1, <2>2 DEF ScanQueued
<1>18. ScanTaken(t)
  <2>1. Ahead(t) = Ahead(s)
    BY <1>3, <1>6, <1>7, <1>12, <1>13, CountsAtPlan
  <2> QED BY <1>2, <1>12, <2>1 DEF ScanTaken
<1>19. ScanApart(t)
  BY <1>2, <1>12 DEF ScanApart
<1>20. ScanSpooled(t)
  BY <1>2, <1>12 DEF ScanSpooled
<1>21. ScanOK(t) /\ t.runs = s.runs
  BY <1>1, <1>11, <1>12, <1>14, <1>15, <1>16, <1>17, <1>18, <1>19, <1>20 DEF ScanOK
<1>22. ASSUME ScanClean(s) PROVE ScanClean(t)
  <2>1. Sound(s) /\ Whole(s) /\ Ends(s)
    BY <1>22 DEF ScanClean
  <2>2. Sound(t)
    BY <1>12, <2>1 DEF Sound
  <2>3. Whole(t)
    <3>1. Ahead(t) = Ahead(s)
      BY <1>3, <1>6, <1>7, <1>12, <1>13, CountsAtPlan
    <3> QED BY <1>12, <2>1, <3>1 DEF Whole
  <2>4. Ends(t)
    BY <1>2, <1>3, <1>8, <1>12, <1>13, <2>1, <1>4, <1>5, <1>6 DEF Ends
  <2> QED BY <2>2, <2>3, <2>4 DEF ScanClean
<1> QED BY <1>21, <1>22

\* The caller leaves the scope: every channel end it owns is dropped.
Left(s, t) ==
  /\ t \in ScanRecords(s.runs) /\ t.at = "join" /\ t.rx = FALSE /\ t.planTx = FALSE
  /\ t.sent = s.sent /\ t.applied = s.applied /\ t.exhausted = s.exhausted /\ t.plans = s.plans
  /\ t.spool = s.spool /\ t.segments = s.segments /\ Len(t.computed) <= ReorderCapacity
  /\ t.err \/ (t.exhausted /\ t.applied = t.sent)
LEMMA LeavesOK ==
  ASSUME NEW s, ScanOK(s), NEW t, Left(s, t)
  PROVE  /\ ScanOK(t) /\ t.runs = s.runs
         /\ ~t.err /\ ~t.cancel => ScanClean(t)
<1>1. s.runs \in Seq(Words) /\ s \in ScanRecords(s.runs)
  BY DEF ScanOK
<1>2. ScanBounds(s) /\ ScanPhase(s) /\ ScanSpooled(s)
  BY DEF ScanOK
<1>3. t \in ScanRecords(s.runs)
  BY DEF Left
<1>4. t.runs = s.runs /\ t.batches = s.batches
  BY <1>1, <1>3 DEF ScanRecords
<1>5. /\ t.at = "join" /\ t.rx = FALSE /\ t.planTx = FALSE
      /\ t.sent = s.sent /\ t.applied = s.applied /\ t.exhausted = s.exhausted /\ t.plans = s.plans
      /\ t.spool = s.spool /\ t.segments = s.segments /\ Len(t.computed) <= ReorderCapacity
  BY DEF Left
<1>6. t.err \/ (t.exhausted /\ t.applied = t.sent)
  BY DEF Left
<1>7. ScanBounds(t)
  BY <1>2, <1>4, <1>5 DEF ScanBounds
<1>8. ScanPhase(t)
  BY <1>2, <1>4, <1>5, <1>6 DEF ScanPhase
<1>9. ScanPlans(t) /\ ScanQueued(t) /\ ScanTaken(t) /\ ScanApart(t)
  BY <1>5 DEF ScanPlans, ScanQueued, ScanTaken, ScanApart
<1>10. ScanSpooled(t)
  BY <1>2, <1>4, <1>5 DEF ScanSpooled
<1>11. ScanOK(t)
  BY <1>1, <1>3, <1>4, <1>7, <1>8, <1>9, <1>10 DEF ScanOK
<1>12. ~t.err /\ ~t.cancel => ScanClean(t)
  BY <1>5 DEF ScanClean, Sound, Whole, Ends
<1> QED BY <1>4, <1>11, <1>12

\* After an error the caller only empties the channel of computed batches.
Drained(s, t) ==
  /\ t \in ScanRecords(s.runs) /\ t.at = "drain" /\ t.rx = TRUE /\ t.planTx \in {FALSE, s.planTx} /\ t.err = TRUE
  /\ t.sent = s.sent /\ t.applied = s.applied /\ t.exhausted = s.exhausted /\ t.plans = s.plans
  /\ t.spool = s.spool /\ t.segments = s.segments /\ t.reader = s.reader /\ t.worker = s.worker
  /\ t.loaded = s.loaded /\ t.held = s.held
  /\ t.computed = s.computed \/ (s.computed # <<>> /\ t.computed = Tail(s.computed))
LEMMA DrainedOK ==
  ASSUME NEW s, ScanOK(s), s.at # "join", NEW t, Drained(s, t)
  PROVE  ScanOK(t) /\ t.runs = s.runs
<1>1. s.runs \in Seq(Words) /\ s \in ScanRecords(s.runs)
  BY DEF ScanOK
<1>2. ScanBounds(s) /\ ScanPhase(s) /\ ScanPlans(s) /\ ScanQueued(s) /\ ScanTaken(s) /\ ScanApart(s) /\ ScanSpooled(s)
  BY DEF ScanOK
<1>3. t \in ScanRecords(s.runs)
  BY DEF Drained
<1>4. t.runs = s.runs /\ t.batches = s.batches /\ s.computed \in Seq(Nat) /\ s.rx \in BOOLEAN
  BY <1>1, <1>3 DEF ScanRecords
<1>5. /\ t.at = "drain" /\ t.rx = TRUE /\ t.planTx \in {FALSE, s.planTx} /\ t.err = TRUE
      /\ t.sent = s.sent /\ t.applied = s.applied /\ t.exhausted = s.exhausted /\ t.plans = s.plans
      /\ t.spool = s.spool /\ t.segments = s.segments /\ t.reader = s.reader /\ t.worker = s.worker
      /\ t.loaded = s.loaded /\ t.held = s.held
  BY DEF Drained
<1>6. s.rx
  BY <1>2 DEF ScanPhase
<1>7. PICK d \in {0, 1} : /\ Len(t.computed) = Len(s.computed) - d /\ Len(s.computed) \in Nat /\ Len(t.computed) \in Nat
                          /\ \A i \in 1..Len(t.computed) : t.computed[i] = s.computed[i + d]
  <2>1. CASE t.computed = s.computed
    BY <1>4, <2>1
  <2>2. CASE s.computed # <<>> /\ t.computed = Tail(s.computed)
    <3>1. /\ Len(s.computed) \in Nat \ {0} /\ Len(t.computed) = Len(s.computed) - 1
          /\ DOMAIN t.computed = 1..(Len(s.computed) - 1)
          /\ \A i \in DOMAIN t.computed : t.computed[i] = s.computed[i + 1]
      BY <1>4, <2>2, TailFacts
    <3> QED BY <3>1, SMTT(30)
  <2> QED BY <2>1, <2>2 DEF Drained
<1>8. \A i \in 1..Len(t.computed) : i + d \in 1..Len(s.computed) /\ t.computed[i] = s.computed[i + d]
  BY <1>7
<1>9. ScanBounds(t)
  <2>1. Len(t.computed) <= ReorderCapacity
    BY <1>2, <1>7, ScanConstants DEF ScanBounds
  <2> QED BY <1>2, <1>4, <1>5, <2>1 DEF ScanBounds
<1>10. ScanPhase(t) /\ ScanPlans(t)
  BY <1>2, <1>4, <1>5 DEF ScanPhase, ScanPlans
<1>11. ScanQueued(t)
  BY <1>2, <1>5, <1>6 DEF ScanQueued, Taken, ReadOn
<1>12. ScanTaken(t)
  <2>1. Ahead(t) = Ahead(s)
    BY <1>5 DEF Ahead, Taken, ReadOn
  <2> QED BY <1>2, <1>5, <1>6, <1>8, <2>1, ZenonT(40) DEF ScanTaken
<1>13. ScanApart(t)
  <2>1. \A i, j \in 1..Len(t.computed) : i # j => i + d # j + d
    BY <1>7
  <2>2. /\ \A w, v \in Workers : w # v /\ s.worker[w].item # 0 => s.worker[w].item # s.worker[v].item
        /\ \A i, j \in 1..Len(s.computed) : i # j /\ s.computed[i] # 0 => s.computed[i] # s.computed[j]
        /\ \A w \in Workers, i \in 1..Len(s.computed) : s.computed[i] # 0 => s.computed[i] # s.worker[w].item
    BY <1>2, <1>6 DEF ScanApart
  <2>3. ASSUME NEW i \in 1..Len(t.computed), NEW j \in 1..Len(t.computed), i # j, t.computed[i] # 0
        PROVE  t.computed[i] # t.computed[j]
    <3> DEFINE p == i + d
               q == j + d
    <3>1. /\ p \in 1..Len(s.computed) /\ q \in 1..Len(s.computed) /\ p # q /\ t.computed[i] = s.computed[p]
          /\ t.computed[j] = s.computed[q]
      BY <1>8, <2>1, <2>3
    <3> HIDE DEF p, q
    <3> QED BY <2>2, <2>3, <3>1
  <2>4. \A w \in Workers, i \in 1..Len(t.computed) : t.computed[i] # 0 => t.computed[i] # t.worker[w].item
    BY <1>5, <1>8, <2>2
  <2> QED BY <1>5, <2>2, <2>3, <2>4 DEF ScanApart
<1>14. ScanSpooled(t)
  BY <1>2, <1>4, <1>5 DEF ScanSpooled
<1> QED BY <1>1, <1>3, <1>4, <1>9, <1>10, <1>11, <1>12, <1>13, <1>14 DEF ScanOK

\* The reader is told to stop, or has nothing left to read.
LEMMA ReaderStops ==
  ASSUME NEW s, ScanOK(s), NEW t, Becomes(t, [s EXCEPT !.reader = [s.reader EXCEPT !.at = "end"]]),
         s.reader.at = "loop"
  PROVE  /\ ScanOK(t) /\ t.runs = s.runs
         /\ ScanClean(s) /\ (s.cancel \/ (s.plans = <<>> /\ ~s.planTx)) => ScanClean(t)
<1>1. s.runs \in Seq(Words) /\ s \in ScanRecords(s.runs)
  BY DEF ScanOK
<1>2. ScanBounds(s) /\ ScanPhase(s) /\ ScanPlans(s) /\ ScanQueued(s) /\ ScanTaken(s) /\ ScanApart(s) /\ ScanSpooled(s)
  BY DEF ScanOK
<1>3. s.next \in Nat /\ s.sent \in Nat /\ s.applied \in Nat /\ s.pending \in Nat /\ s.batches = BatchesOf(s.runs)
  BY <1>1 DEF ScanRecords
<1>7. /\ s.plans \in Seq(Nat) /\ s.loaded \in Seq(Nat) /\ s.computed \in Seq(Nat)
      /\ Len(s.plans) \in Nat /\ Len(s.loaded) \in Nat /\ Len(s.computed) \in Nat
  BY <1>1 DEF ScanRecords
<1>8. /\ s.held \in SUBSET Nat /\ s.reader \in Threads3 /\ s.worker \in [Workers -> Threads3]
      /\ s.at \in {"fill", "recv", "drain", "join"}
      /\ s.planTx \in BOOLEAN /\ s.rx \in BOOLEAN /\ s.exhausted \in BOOLEAN /\ s.err \in BOOLEAN
      /\ s.cancel \in BOOLEAN
  BY <1>1 DEF ScanRecords
<1>4. s.reader \in Threads3
  BY <1>8
<1>5. [s.reader EXCEPT !.at = "end"] \in Threads3
  BY <1>4 DEF Threads3
<1>6. [s.reader EXCEPT !.at = "end"].at = "end" /\ [s.reader EXCEPT !.at = "end"].item = s.reader.item
  BY <1>4 DEF Threads3
<1>10. [s.reader EXCEPT !.at = "end"] \in Threads3
  BY <1>5

<1>11. t \in ScanRecords(s.runs)
  BY <1>1, <1>10 DEF ScanRecords, Becomes
<1>12. /\ t.at = s.at /\ t.runs = s.runs /\ t.batches = s.batches /\ t.next = s.next /\ t.sent = s.sent
       /\ t.applied = s.applied /\ t.pending = s.pending /\ t.exhausted = s.exhausted /\ t.planTx = s.planTx
       /\ t.rx = s.rx /\ t.cancel = s.cancel /\ t.err = s.err /\ t.plans = s.plans /\ t.loaded = s.loaded
       /\ t.computed = s.computed /\ t.held = s.held /\ t.worker = s.worker /\ t.spool = s.spool
       /\ t.segments = s.segments
  BY <1>1 DEF ScanRecords, Becomes
<1>13. t.reader = [s.reader EXCEPT !.at = "end"]
  BY <1>1 DEF ScanRecords, Becomes
<1>14. ScanBounds(t)
  BY <1>2, <1>12 DEF ScanBounds
<1>15. ScanPhase(t)
  BY <1>2, <1>12 DEF ScanPhase
<1>16. ScanPlans(t)
  BY <1>2, <1>12 DEF ScanPlans
<1>17. ScanQueued(t)
  <2>1. t.reader.at = "end" /\ t.reader.item = s.reader.item
    BY <1>6, <1>13
  <2>2. ReadOn(t) = ReadOn(s)
    BY <1>12, <2>1 DEF ReadOn
  <2>3. s.rx => s.reader.item = 0
    BY <1>2 DEF ScanQueued
  <2> QED BY <1>2, <1>12, <2>1, <2>2, <2>3 DEF ScanQueued, Taken
<1>18. ScanTaken(t)
  <2>1. ReadOn(t) = ReadOn(s)
    BY <1>6, <1>12, <1>13 DEF ReadOn
  <2>2. Ahead(t) = Ahead(s)
    BY <1>12, <2>1 DEF Ahead, Taken
  <2> QED BY <1>2, <1>12, <2>2 DEF ScanTaken
<1>19. ScanApart(t)
  BY <1>2, <1>12 DEF ScanApart
<1>20. ScanSpooled(t)
  BY <1>2, <1>12 DEF ScanSpooled
<1>21. ScanOK(t) /\ t.runs = s.runs
  BY <1>1, <1>11, <1>12, <1>14, <1>15, <1>16, <1>17, <1>18, <1>19, <1>20 DEF ScanOK
<1>22. ASSUME ScanClean(s), (s.cancel \/ (s.plans = <<>> /\ ~s.planTx)) PROVE ScanClean(t)
  <2>1. Sound(s) /\ Whole(s) /\ Ends(s)
    BY <1>22 DEF ScanClean
  <2>2. Sound(t)
    BY <1>6, <1>12, <1>13, <2>1 DEF Sound
  <2>3. Whole(t)
    <3>1. ReadOn(t) = ReadOn(s)
      BY <1>6, <1>12, <1>13 DEF ReadOn
    <3>2. Ahead(t) = Ahead(s)
      BY <1>12, <3>1 DEF Ahead, Taken
    <3> QED BY <1>12, <2>1, <3>2 DEF Whole
  <2>4. Ends(t)
    <3>1. ~s.cancel
      BY <2>1 DEF Sound
    <3>2. s.plans = <<>> /\ ~s.planTx
      BY <1>22, <3>1
    <3> QED BY <1>6, <1>12, <1>13, <2>1, <3>2 DEF Ends
  <2> QED BY <2>2, <2>3, <2>4 DEF ScanClean
<1> QED BY <1>21, <1>22

\* The reader takes a plan, or loses it to a fault.
LEMMA ReaderTakes ==
  ASSUME NEW s, ScanOK(s), NEW x, NEW t,
         Becomes(t, [s EXCEPT !.plans = Tail(s.plans), !.reader = [at |-> "send", item |-> x]]),
         s.reader.at = "loop",
         s.plans # <<>>,
         x = Head(s.plans) \/ x = 0
  PROVE  /\ ScanOK(t) /\ t.runs = s.runs
         /\ ScanClean(s) /\ x = Head(s.plans) => ScanClean(t)
<1>1. s.runs \in Seq(Words) /\ s \in ScanRecords(s.runs)
  BY DEF ScanOK
<1>2. ScanBounds(s) /\ ScanPhase(s) /\ ScanPlans(s) /\ ScanQueued(s) /\ ScanTaken(s) /\ ScanApart(s) /\ ScanSpooled(s)
  BY DEF ScanOK
<1>3. s.next \in Nat /\ s.sent \in Nat /\ s.applied \in Nat /\ s.pending \in Nat /\ s.batches = BatchesOf(s.runs)
  BY <1>1 DEF ScanRecords
<1>7. /\ s.plans \in Seq(Nat) /\ s.loaded \in Seq(Nat) /\ s.computed \in Seq(Nat)
      /\ Len(s.plans) \in Nat /\ Len(s.loaded) \in Nat /\ Len(s.computed) \in Nat
  BY <1>1 DEF ScanRecords
<1>8. /\ s.held \in SUBSET Nat /\ s.reader \in Threads3 /\ s.worker \in [Workers -> Threads3]
      /\ s.at \in {"fill", "recv", "drain", "join"}
      /\ s.planTx \in BOOLEAN /\ s.rx \in BOOLEAN /\ s.exhausted \in BOOLEAN /\ s.err \in BOOLEAN
      /\ s.cancel \in BOOLEAN
  BY <1>1 DEF ScanRecords
<1>4. /\ Len(s.plans) >= 1 /\ Head(s.plans) = s.plans[1] /\ Head(s.plans) \in Nat
      /\ Tail(s.plans) \in Seq(Nat) /\ Len(Tail(s.plans)) = Len(s.plans) - 1
      /\ \A i \in 1..(Len(s.plans) - 1) : Tail(s.plans)[i] = s.plans[i + 1]
  BY <1>7, TailFacts
<1>5. [at |-> "send", item |-> x] \in Threads3
  BY <1>4 DEF Threads3
<1>10. Tail(s.plans) \in Seq(Nat) /\ [at |-> "send", item |-> x] \in Threads3
  BY <1>4, <1>5

<1>11. t \in ScanRecords(s.runs)
  BY <1>1, <1>10 DEF ScanRecords, Becomes
<1>12. /\ t.at = s.at /\ t.runs = s.runs /\ t.batches = s.batches /\ t.next = s.next /\ t.sent = s.sent
       /\ t.applied = s.applied /\ t.pending = s.pending /\ t.exhausted = s.exhausted /\ t.planTx = s.planTx
       /\ t.rx = s.rx /\ t.cancel = s.cancel /\ t.err = s.err /\ t.loaded = s.loaded
       /\ t.computed = s.computed /\ t.held = s.held /\ t.worker = s.worker /\ t.spool = s.spool
       /\ t.segments = s.segments
  BY <1>1 DEF ScanRecords, Becomes
<1>13. t.plans = Tail(s.plans) /\ t.reader = [at |-> "send", item |-> x]
  BY <1>1 DEF ScanRecords, Becomes
<1>14. ScanBounds(t)
  <2>1. Len(s.plans) - 1 <= Inflight
    BY <1>2, <1>7, ScanConstants DEF ScanBounds
  <2> QED BY <1>2, <1>4, <1>12, <1>13, <2>1 DEF ScanBounds
<1>15. ScanPhase(t)
  BY <1>2, <1>12 DEF ScanPhase
<1>16. ScanPlans(t)
  BY <1>2, <1>12 DEF ScanPlans
<1>17. ScanQueued(t)
  <2>1. t.sent = s.sent /\ Len(t.plans) = Len(s.plans) - 1 /\ t.reader.at = "send" /\ t.reader.item = x
    BY <1>4, <1>12, <1>13
  <2>3. Taken(t) = Taken(s) /\ t.sent - Len(t.plans) = s.sent - Len(s.plans) + 1
    BY <1>3, <1>7, <1>12, <2>1, CountsAtTake
  <2>4. ASSUME t.rx
        PROVE  /\ \A i \in 1..Len(t.plans) : t.plans[i] = t.sent - Len(t.plans) + i
               /\ t.reader.item # 0 => t.reader.item = t.sent - Len(t.plans)
    <3>1. \A i \in 1..Len(s.plans) : s.plans[i] = s.sent - Len(s.plans) + i
      BY <1>2, <1>12, <2>4 DEF ScanQueued
    <3>2. ASSUME NEW i \in 1..Len(t.plans) PROVE t.plans[i] = t.sent - Len(t.plans) + i
      <4>1. i + 1 \in 1..Len(s.plans) /\ i \in 1..(Len(s.plans) - 1) /\ i \in Nat
        BY <1>7, <2>1
      <4>2. t.plans[i] = s.plans[i + 1] /\ s.plans[i + 1] = s.sent - Len(s.plans) + (i + 1)
        BY <1>4, <1>13, <3>1, <4>1
      <4>3. t.plans[i] = s.sent - Len(s.plans) + (i + 1)
        BY <4>2
      <4> DEFINE e == s.sent - Len(s.plans)
      <4>4. e \in Int /\ t.sent - Len(t.plans) = e + 1 /\ t.plans[i] = e + (i + 1)
        BY <1>3, <1>7, <2>3, <4>3
      <4> HIDE DEF e
      <4>5. e + (i + 1) = (e + 1) + i
        BY <4>1, <4>4
      <4> QED BY <4>4, <4>5
    <3>3. Head(s.plans) = s.sent - Len(s.plans) + 1
      <4>1. 1 \in 1..Len(s.plans)
        BY <1>4, <1>7
      <4> QED BY <1>4, <3>1, <4>1
    <3>4. t.reader.item # 0 => t.reader.item = t.sent - Len(t.plans)
      BY <2>1, <2>3, <3>3
    <3> QED BY <3>2, <3>4
  <2> QED BY <1>2, <1>12, <2>1, <2>3, <2>4 DEF ScanQueued
<1>18. ScanTaken(t)
  <2>1. t.sent = s.sent /\ Len(t.plans) = Len(s.plans) - 1 /\ t.reader.at = "send" /\ t.reader.item = x
    BY <1>4, <1>12, <1>13
  <2>3. Ahead(t) = Ahead(s)
    BY <1>3, <1>7, <1>12, <2>1, CountsAtTake
  <2> QED BY <1>2, <1>12, <2>3 DEF ScanTaken
<1>19. ScanApart(t)
  BY <1>2, <1>12 DEF ScanApart
<1>20. ScanSpooled(t)
  BY <1>2, <1>12 DEF ScanSpooled
<1>21. ScanOK(t) /\ t.runs = s.runs
  BY <1>1, <1>11, <1>12, <1>14, <1>15, <1>16, <1>17, <1>18, <1>19, <1>20 DEF ScanOK
<1>22. ASSUME ScanClean(s), x = Head(s.plans) PROVE ScanClean(t)
  <2>1. Sound(s) /\ Whole(s) /\ Ends(s)
    BY <1>22 DEF ScanClean
  <2>2. Sound(t)
    <3>1. ASSUME s.rx PROVE x # 0
      <4>0. 1 \in 1..Len(s.plans)
        BY <1>4, <1>7
      <4>1. Head(s.plans) = s.sent - Len(s.plans) + 1 /\ s.applied <= Taken(s)
        BY <1>2, <1>4, <3>1, <4>0 DEF ScanQueued
      <4>2. s.sent - Len(s.plans) >= 0
        BY <1>3, <1>7, <4>1, TakenNat
      <4> DEFINE e == s.sent - Len(s.plans)
      <4>3. Head(s.plans) >= 1
        <5>1. e \in Int /\ e >= 0 /\ Head(s.plans) = e + 1
          BY <1>3, <1>7, <4>1, <4>2
        <5> HIDE DEF e
        <5> QED BY <5>1
      <4> QED BY <1>22, <4>3
    <3> QED BY <1>12, <1>13, <2>1, <3>1 DEF Sound
  <2>3. Whole(t)
    <3>1. t.sent = s.sent /\ Len(t.plans) = Len(s.plans) - 1 /\ t.reader.at = "send" /\ t.reader.item = x
      BY <1>4, <1>12, <1>13
    <3>3. Ahead(t) = Ahead(s)
      BY <1>3, <1>7, <1>12, <3>1, CountsAtTake
    <3> QED BY <1>12, <2>1, <3>3 DEF Whole
  <2>4. Ends(t)
    BY <1>12, <1>13, <2>1 DEF Ends
  <2> QED BY <2>2, <2>3, <2>4 DEF ScanClean
<1> QED BY <1>21, <1>22

\* Nobody listens: the reader drops its batch and ends.
LEMMA ReaderDropped ==
  ASSUME NEW s, ScanOK(s), NEW t, Becomes(t, [s EXCEPT !.reader = [at |-> "end", item |-> 0]]),
         ~s.rx
  PROVE  /\ ScanOK(t) /\ t.runs = s.runs
         /\ ScanClean(s) => ScanClean(t)
<1>1. s.runs \in Seq(Words) /\ s \in ScanRecords(s.runs)
  BY DEF ScanOK
<1>2. ScanBounds(s) /\ ScanPhase(s) /\ ScanPlans(s) /\ ScanQueued(s) /\ ScanTaken(s) /\ ScanApart(s) /\ ScanSpooled(s)
  BY DEF ScanOK
<1>3. s.next \in Nat /\ s.sent \in Nat /\ s.applied \in Nat /\ s.pending \in Nat /\ s.batches = BatchesOf(s.runs)
  BY <1>1 DEF ScanRecords
<1>7. /\ s.plans \in Seq(Nat) /\ s.loaded \in Seq(Nat) /\ s.computed \in Seq(Nat)
      /\ Len(s.plans) \in Nat /\ Len(s.loaded) \in Nat /\ Len(s.computed) \in Nat
  BY <1>1 DEF ScanRecords
<1>8. /\ s.held \in SUBSET Nat /\ s.reader \in Threads3 /\ s.worker \in [Workers -> Threads3]
      /\ s.at \in {"fill", "recv", "drain", "join"}
      /\ s.planTx \in BOOLEAN /\ s.rx \in BOOLEAN /\ s.exhausted \in BOOLEAN /\ s.err \in BOOLEAN
      /\ s.cancel \in BOOLEAN
  BY <1>1 DEF ScanRecords
<1>10. [at |-> "end", item |-> 0] \in Threads3
  BY DEF Threads3

<1>11. t \in ScanRecords(s.runs)
  BY <1>1, <1>10 DEF ScanRecords, Becomes
<1>12. /\ t.at = s.at /\ t.runs = s.runs /\ t.batches = s.batches /\ t.next = s.next /\ t.sent = s.sent
       /\ t.applied = s.applied /\ t.pending = s.pending /\ t.exhausted = s.exhausted /\ t.planTx = s.planTx
       /\ t.rx = s.rx /\ t.cancel = s.cancel /\ t.err = s.err /\ t.plans = s.plans /\ t.loaded = s.loaded
       /\ t.computed = s.computed /\ t.held = s.held /\ t.worker = s.worker /\ t.spool = s.spool
       /\ t.segments = s.segments
  BY <1>1 DEF ScanRecords, Becomes
<1>13. t.reader = [at |-> "end", item |-> 0]
  BY <1>1 DEF ScanRecords, Becomes
<1>14. ScanBounds(t)
  BY <1>2, <1>12 DEF ScanBounds
<1>15. ScanPhase(t)
  BY <1>2, <1>12 DEF ScanPhase
<1>16. ScanPlans(t)
  BY <1>2, <1>12 DEF ScanPlans
<1>17. ScanQueued(t)
  BY <1>12 DEF ScanQueued
<1>18. ScanTaken(t)
  BY <1>12 DEF ScanTaken
<1>19. ScanApart(t)
  BY <1>12 DEF ScanApart
<1>20. ScanSpooled(t)
  BY <1>2, <1>12 DEF ScanSpooled
<1>21. ScanOK(t) /\ t.runs = s.runs
  BY <1>1, <1>11, <1>12, <1>14, <1>15, <1>16, <1>17, <1>18, <1>19, <1>20 DEF ScanOK
<1>22. ASSUME ScanClean(s) PROVE ScanClean(t)
  <2>1. Sound(s) /\ Whole(s) /\ Ends(s)
    BY <1>22 DEF ScanClean
  <2>2. Sound(t)
    BY <1>12, <2>1 DEF Sound
  <2>3. Whole(t)
    BY <1>12 DEF Whole
  <2>4. Ends(t)
    BY <1>12 DEF Ends
  <2> QED BY <2>2, <2>3, <2>4 DEF ScanClean
<1> QED BY <1>21, <1>22

\* The reader passes on what it has read, and ends after an error.
LEMMA ReaderSends ==
  ASSUME NEW s, ScanOK(s), NEW t,
         Becomes(t, [s EXCEPT !.loaded = Append(s.loaded, s.reader.item),
                              !.reader = [at |-> IF s.reader.item = 0 THEN "end" ELSE "loop", item |-> 0]]),
         s.reader.at = "send"
  PROVE  /\ ScanOK(t) /\ t.runs = s.runs
         /\ ScanClean(s) => ScanClean(t)
<1>1. s.runs \in Seq(Words) /\ s \in ScanRecords(s.runs)
  BY DEF ScanOK
<1>2. ScanBounds(s) /\ ScanPhase(s) /\ ScanPlans(s) /\ ScanQueued(s) /\ ScanTaken(s) /\ ScanApart(s) /\ ScanSpooled(s)
  BY DEF ScanOK
<1>3. s.next \in Nat /\ s.sent \in Nat /\ s.applied \in Nat /\ s.pending \in Nat /\ s.batches = BatchesOf(s.runs)
  BY <1>1 DEF ScanRecords
<1>7. /\ s.plans \in Seq(Nat) /\ s.loaded \in Seq(Nat) /\ s.computed \in Seq(Nat)
      /\ Len(s.plans) \in Nat /\ Len(s.loaded) \in Nat /\ Len(s.computed) \in Nat
  BY <1>1 DEF ScanRecords
<1>8. /\ s.held \in SUBSET Nat /\ s.reader \in Threads3 /\ s.worker \in [Workers -> Threads3]
      /\ s.at \in {"fill", "recv", "drain", "join"}
      /\ s.planTx \in BOOLEAN /\ s.rx \in BOOLEAN /\ s.exhausted \in BOOLEAN /\ s.err \in BOOLEAN
      /\ s.cancel \in BOOLEAN
  BY <1>1 DEF ScanRecords
<1>4. s.reader.item \in Nat
  BY <1>8 DEF Threads3
<1>5. /\ Append(s.loaded, s.reader.item) \in Seq(Nat) /\ Len(Append(s.loaded, s.reader.item)) = Len(s.loaded) + 1
      /\ \A i \in 1..Len(s.loaded) : Append(s.loaded, s.reader.item)[i] = s.loaded[i]
      /\ Append(s.loaded, s.reader.item)[Len(s.loaded) + 1] = s.reader.item
  BY <1>4, <1>7, AppendFacts
<1>6. [at |-> IF s.reader.item = 0 THEN "end" ELSE "loop", item |-> 0] \in Threads3
  BY DEF Threads3
<1>10. /\ Append(s.loaded, s.reader.item) \in Seq(Nat)
       /\ [at |-> IF s.reader.item = 0 THEN "end" ELSE "loop", item |-> 0] \in Threads3
  BY <1>5, <1>6

<1>11. t \in ScanRecords(s.runs)
  BY <1>1, <1>10 DEF ScanRecords, Becomes
<1>12. /\ t.at = s.at /\ t.runs = s.runs /\ t.batches = s.batches /\ t.next = s.next /\ t.sent = s.sent
       /\ t.applied = s.applied /\ t.pending = s.pending /\ t.exhausted = s.exhausted /\ t.planTx = s.planTx
       /\ t.rx = s.rx /\ t.cancel = s.cancel /\ t.err = s.err /\ t.plans = s.plans /\ t.computed = s.computed
       /\ t.held = s.held /\ t.worker = s.worker /\ t.spool = s.spool /\ t.segments = s.segments
  BY <1>1 DEF ScanRecords, Becomes
<1>13. /\ t.loaded = Append(s.loaded, s.reader.item)
       /\ t.reader = [at |-> IF s.reader.item = 0 THEN "end" ELSE "loop", item |-> 0]
  BY <1>1 DEF ScanRecords, Becomes
<1>14. ScanBounds(t)
  BY <1>2, <1>12 DEF ScanBounds
<1>15. ScanPhase(t)
  BY <1>2, <1>12 DEF ScanPhase
<1>16. ScanPlans(t)
  BY <1>2, <1>12 DEF ScanPlans
<1>17. ScanQueued(t)
  <2>1. /\ t.sent = s.sent /\ t.plans = s.plans /\ Len(t.loaded) = Len(s.loaded) + 1 /\ t.reader.item = 0
        /\ t.reader.at # "send"
    BY <1>5, <1>12, <1>13
  <2>3. Taken(t) = Taken(s) /\ s.sent - Len(s.plans) = Taken(s) + (Len(s.loaded) + 1)
    BY <1>3, <1>7, <1>12, <2>1, CountsAtPass
  <2>4. ASSUME t.rx, NEW i \in 1..Len(t.loaded) PROVE t.loaded[i] = 0 \/ t.loaded[i] = Taken(t) + i
    <3>1. /\ \A j \in 1..Len(s.loaded) : s.loaded[j] = 0 \/ s.loaded[j] = Taken(s) + j
          /\ s.reader.item # 0 => s.reader.item = s.sent - Len(s.plans)
      BY <1>2, <1>12, <2>4 DEF ScanQueued
    <3>2. CASE i = Len(s.loaded) + 1
      <4>1. t.loaded[i] = s.reader.item
        BY <1>5, <1>13, <3>2
      <4>2. s.sent - Len(s.plans) = Taken(t) + i
        BY <2>3, <3>2
      <4> QED BY <3>1, <4>1, <4>2
    <3>3. CASE i # Len(s.loaded) + 1
      <4>1. i \in 1..Len(s.loaded)
        BY <1>7, <2>1, <3>3
      <4> QED BY <1>5, <1>13, <2>3, <3>1, <4>1
    <3> QED BY <3>2, <3>3
  <2> QED BY <1>2, <1>12, <2>1, <2>3, <2>4 DEF ScanQueued
<1>18. ScanTaken(t)
  <2>1. t.sent = s.sent /\ t.plans = s.plans /\ Len(t.loaded) = Len(s.loaded) + 1 /\ t.reader.at # "send"
    BY <1>5, <1>12, <1>13
  <2>4. Ahead(t) = Ahead(s)
    BY <1>3, <1>7, <1>12, <2>1, CountsAtPass
  <2> QED BY <1>2, <1>12, <2>4 DEF ScanTaken
<1>19. ScanApart(t)
  BY <1>2, <1>12 DEF ScanApart
<1>20. ScanSpooled(t)
  BY <1>2, <1>12 DEF ScanSpooled
<1>21. ScanOK(t) /\ t.runs = s.runs
  BY <1>1, <1>11, <1>12, <1>14, <1>15, <1>16, <1>17, <1>18, <1>19, <1>20 DEF ScanOK
<1>22. ASSUME ScanClean(s) PROVE ScanClean(t)
  <2>1. Sound(s) /\ Whole(s) /\ Ends(s)
    BY <1>22 DEF ScanClean
  <2>2. Sound(t)
    <3>1. ASSUME t.rx, NEW i \in 1..Len(t.loaded) PROVE t.loaded[i] # 0
      <4>1. s.reader.item # 0 /\ \A j \in 1..Len(s.loaded) : s.loaded[j] # 0
        BY <1>12, <2>1, <3>1 DEF Sound
      <4>2. CASE i = Len(s.loaded) + 1
        BY <1>5, <1>13, <4>1, <4>2
      <4>3. CASE i # Len(s.loaded) + 1
        <5>1. i \in 1..Len(s.loaded)
          BY <1>5, <1>7, <1>13, <4>3
        <5> QED BY <1>5, <1>13, <4>1, <5>1
      <4> QED BY <4>2, <4>3
    <3>2. t.reader.at # "send"
      BY <1>13
    <3> QED BY <1>12, <2>1, <3>1, <3>2 DEF Sound
  <2>3. Whole(t)
    <3>1. t.sent = s.sent /\ t.plans = s.plans /\ Len(t.loaded) = Len(s.loaded) + 1 /\ t.reader.at # "send"
      BY <1>5, <1>12, <1>13
    <3>4. Ahead(t) = Ahead(s)
      BY <1>3, <1>7, <1>12, <3>1, CountsAtPass
    <3> QED BY <1>12, <2>1, <3>4 DEF Whole
  <2>4. Ends(t)
    <3>1. s.rx => s.reader.item # 0
      BY <2>1 DEF Sound
    <3>2. s.rx => t.reader.at = "loop"
      BY <1>13, <3>1
    <3> QED BY <1>12, <2>1, <3>2 DEF Ends
  <2> QED BY <2>2, <2>3, <2>4 DEF ScanClean
<1> QED BY <1>21, <1>22

\* A worker is told to stop, or has nothing left to compute.
LEMMA WorkerStops ==
  ASSUME NEW s, ScanOK(s), NEW w \in Workers, NEW t,
         Becomes(t, [s EXCEPT !.worker = [s.worker EXCEPT ![w].at = "end"]]),
         s.worker[w].at = "loop"
  PROVE  /\ ScanOK(t) /\ t.runs = s.runs
         /\ ScanClean(s) /\ (s.cancel \/ (s.loaded = <<>> /\ s.reader.at = "end")) => ScanClean(t)
<1>1. s.runs \in Seq(Words) /\ s \in ScanRecords(s.runs)
  BY DEF ScanOK
<1>2. ScanBounds(s) /\ ScanPhase(s) /\ ScanPlans(s) /\ ScanQueued(s) /\ ScanTaken(s) /\ ScanApart(s) /\ ScanSpooled(s)
  BY DEF ScanOK
<1>3. s.next \in Nat /\ s.sent \in Nat /\ s.applied \in Nat /\ s.pending \in Nat /\ s.batches = BatchesOf(s.runs)
  BY <1>1 DEF ScanRecords
<1>7. /\ s.plans \in Seq(Nat) /\ s.loaded \in Seq(Nat) /\ s.computed \in Seq(Nat)
      /\ Len(s.plans) \in Nat /\ Len(s.loaded) \in Nat /\ Len(s.computed) \in Nat
  BY <1>1 DEF ScanRecords
<1>8. /\ s.held \in SUBSET Nat /\ s.reader \in Threads3 /\ s.worker \in [Workers -> Threads3]
      /\ s.at \in {"fill", "recv", "drain", "join"}
      /\ s.planTx \in BOOLEAN /\ s.rx \in BOOLEAN /\ s.exhausted \in BOOLEAN /\ s.err \in BOOLEAN
      /\ s.cancel \in BOOLEAN
  BY <1>1 DEF ScanRecords
<1>4. s.worker \in [Workers -> Threads3] /\ s.worker[w] \in Threads3
  BY <1>8
<1>5. [s.worker EXCEPT ![w].at = "end"] \in [Workers -> Threads3]
  BY <1>4 DEF Threads3
<1>6. \A v \in Workers : /\ [s.worker EXCEPT ![w].at = "end"][v].item = s.worker[v].item
                         /\ [s.worker EXCEPT ![w].at = "end"][v].at = IF v = w THEN "end" ELSE s.worker[v].at
  BY <1>4 DEF Threads3
<1>9. \A v \in Workers : t.worker[v].item = s.worker[v].item /\ t.worker[v].at = IF v = w THEN "end" ELSE s.worker[v].at
  <2>1. t.worker = [s.worker EXCEPT ![w].at = "end"]
    BY <1>1 DEF ScanRecords, Becomes
  <2> QED BY <1>6, <2>1
<1>10. [s.worker EXCEPT ![w].at = "end"] \in [Workers -> Threads3]
  BY <1>5

<1>11. t \in ScanRecords(s.runs)
  BY <1>1, <1>10 DEF ScanRecords, Becomes
<1>12. /\ t.at = s.at /\ t.runs = s.runs /\ t.batches = s.batches /\ t.next = s.next /\ t.sent = s.sent
       /\ t.applied = s.applied /\ t.pending = s.pending /\ t.exhausted = s.exhausted /\ t.planTx = s.planTx
       /\ t.rx = s.rx /\ t.cancel = s.cancel /\ t.err = s.err /\ t.plans = s.plans /\ t.loaded = s.loaded
       /\ t.computed = s.computed /\ t.held = s.held /\ t.reader = s.reader /\ t.spool = s.spool
       /\ t.segments = s.segments
  BY <1>1 DEF ScanRecords, Becomes
<1>13. t.worker = [s.worker EXCEPT ![w].at = "end"]
  BY <1>1 DEF ScanRecords, Becomes
<1>14. ScanBounds(t)
  BY <1>2, <1>12 DEF ScanBounds
<1>15. ScanPhase(t)
  BY <1>2, <1>12 DEF ScanPhase
<1>16. ScanPlans(t)
  BY <1>2, <1>12 DEF ScanPlans
<1>17. ScanQueued(t)
  BY <1>2, <1>12 DEF ScanQueued, Taken, ReadOn
<1>18. ScanTaken(t)
  <2>1. Ahead(t) = Ahead(s)
    BY <1>12 DEF Ahead, Taken, ReadOn
  <2>2. s.rx => s.worker[w].item = 0
    BY <1>2 DEF ScanTaken
  <2> QED BY <1>2, <1>9, <1>12, <2>1, <2>2 DEF ScanTaken
<1>19. ScanApart(t)
  BY <1>2, <1>9, <1>12 DEF ScanApart
<1>20. ScanSpooled(t)
  BY <1>2, <1>12 DEF ScanSpooled
<1>21. ScanOK(t) /\ t.runs = s.runs
  BY <1>1, <1>11, <1>12, <1>14, <1>15, <1>16, <1>17, <1>18, <1>19, <1>20 DEF ScanOK
<1>22. ASSUME ScanClean(s), (s.cancel \/ (s.loaded = <<>> /\ s.reader.at = "end")) PROVE ScanClean(t)
  <2>1. Sound(s) /\ Whole(s) /\ Ends(s)
    BY <1>22 DEF ScanClean
  <2>2. Sound(t)
    BY <1>9, <1>12, <2>1 DEF Sound
  <2>3. Whole(t)
    <3>1. Ahead(t) = Ahead(s)
      BY <1>12 DEF Ahead, Taken, ReadOn
    <3> QED BY <1>9, <1>12, <2>1, <3>1 DEF Whole
  <2>4. Ends(t)
    <3>1. ~s.cancel
      BY <2>1 DEF Sound
    <3>2. s.loaded = <<>> /\ s.reader.at = "end"
      BY <1>22, <3>1
    <3> QED BY <1>9, <1>12, <2>1, <3>2 DEF Ends
  <2> QED BY <2>2, <2>3, <2>4 DEF ScanClean
<1> QED BY <1>21, <1>22

\* A worker takes a batch, or loses it to a fault.
LEMMA WorkerTakes ==
  ASSUME NEW s, ScanOK(s), NEW w \in Workers, NEW x, NEW t,
         Becomes(t, [s EXCEPT !.loaded = Tail(s.loaded),
                              !.worker = [s.worker EXCEPT ![w] = [at |-> "send", item |-> x]]]),
         s.worker[w].at = "loop",
         s.loaded # <<>>,
         x = Head(s.loaded) \/ x = 0
  PROVE  /\ ScanOK(t) /\ t.runs = s.runs
         /\ ScanClean(s) /\ x = Head(s.loaded) => ScanClean(t)
<1>1. s.runs \in Seq(Words) /\ s \in ScanRecords(s.runs)
  BY DEF ScanOK
<1>2. ScanBounds(s) /\ ScanPhase(s) /\ ScanPlans(s) /\ ScanQueued(s) /\ ScanTaken(s) /\ ScanApart(s) /\ ScanSpooled(s)
  BY DEF ScanOK
<1>3. s.next \in Nat /\ s.sent \in Nat /\ s.applied \in Nat /\ s.pending \in Nat /\ s.batches = BatchesOf(s.runs)
  BY <1>1 DEF ScanRecords
<1>7. /\ s.plans \in Seq(Nat) /\ s.loaded \in Seq(Nat) /\ s.computed \in Seq(Nat)
      /\ Len(s.plans) \in Nat /\ Len(s.loaded) \in Nat /\ Len(s.computed) \in Nat
  BY <1>1 DEF ScanRecords
<1>8. /\ s.held \in SUBSET Nat /\ s.reader \in Threads3 /\ s.worker \in [Workers -> Threads3]
      /\ s.at \in {"fill", "recv", "drain", "join"}
      /\ s.planTx \in BOOLEAN /\ s.rx \in BOOLEAN /\ s.exhausted \in BOOLEAN /\ s.err \in BOOLEAN
      /\ s.cancel \in BOOLEAN
  BY <1>1 DEF ScanRecords
<1>4. /\ Len(s.loaded) >= 1 /\ Head(s.loaded) = s.loaded[1] /\ Head(s.loaded) \in Nat
      /\ Tail(s.loaded) \in Seq(Nat) /\ Len(Tail(s.loaded)) = Len(s.loaded) - 1
      /\ \A i \in 1..(Len(s.loaded) - 1) : Tail(s.loaded)[i] = s.loaded[i + 1]
  BY <1>7, TailFacts
<1>5. [at |-> "send", item |-> x] \in Threads3
  BY <1>4 DEF Threads3
<1>6. [s.worker EXCEPT ![w] = [at |-> "send", item |-> x]] \in [Workers -> Threads3]
  BY <1>5, <1>8
<1>9. /\ t.worker[w].at = "send" /\ t.worker[w].item = x
      /\ \A v \in Workers : v # w => t.worker[v] = s.worker[v]
  <2>1. t.worker = [s.worker EXCEPT ![w] = [at |-> "send", item |-> x]]
    BY <1>1 DEF ScanRecords, Becomes
  <2>2. t.worker[w] = [at |-> "send", item |-> x] /\ \A v \in Workers : v # w => t.worker[v] = s.worker[v]
    BY <1>8, <2>1
  <2> QED BY <2>2
<1>10. Tail(s.loaded) \in Seq(Nat) /\ [s.worker EXCEPT ![w] = [at |-> "send", item |-> x]] \in [Workers -> Threads3]
  BY <1>4, <1>6

<1>11. t \in ScanRecords(s.runs)
  BY <1>1, <1>10 DEF ScanRecords, Becomes
<1>12. /\ t.at = s.at /\ t.runs = s.runs /\ t.batches = s.batches /\ t.next = s.next /\ t.sent = s.sent
       /\ t.applied = s.applied /\ t.pending = s.pending /\ t.exhausted = s.exhausted /\ t.planTx = s.planTx
       /\ t.rx = s.rx /\ t.cancel = s.cancel /\ t.err = s.err /\ t.plans = s.plans /\ t.computed = s.computed
       /\ t.held = s.held /\ t.reader = s.reader /\ t.spool = s.spool /\ t.segments = s.segments
  BY <1>1 DEF ScanRecords, Becomes
<1>13. t.loaded = Tail(s.loaded) /\ t.worker = [s.worker EXCEPT ![w] = [at |-> "send", item |-> x]]
  BY <1>1 DEF ScanRecords, Becomes
<1>14. ScanBounds(t)
  BY <1>2, <1>12 DEF ScanBounds
<1>15. ScanPhase(t)
  BY <1>2, <1>12 DEF ScanPhase
<1>16. ScanPlans(t)
  BY <1>2, <1>12 DEF ScanPlans
<1>17. ScanQueued(t)
  <2> SUFFICES ASSUME t.rx PROVE ScanQueued(t)
    BY DEF ScanQueued
  <2>1. /\ \A i \in 1..Len(s.loaded) : s.loaded[i] = 0 \/ s.loaded[i] = Taken(s) + i
        /\ s.applied <= Taken(s)
    BY <1>2, <1>12 DEF ScanQueued
  <2>2. Len(t.loaded) = Len(s.loaded) - 1 /\ \A i \in 1..(Len(s.loaded) - 1) : t.loaded[i] = s.loaded[i + 1]
    BY <1>4, <1>13
  <2>3. Taken(s) \in Int /\ Taken(t) = Taken(s) + 1
    BY <1>3, <1>7, <1>12, <2>2, CountsAtWork
  <2>4. ASSUME NEW i \in 1..Len(t.loaded) PROVE t.loaded[i] = 0 \/ t.loaded[i] = Taken(t) + i
    <3> DEFINE j == i + 1
    <3>1. i \in 1..(Len(s.loaded) - 1) /\ j \in 1..Len(s.loaded) /\ i \in Int
      BY <1>7, <2>2, SMTT(30)
    <3>2. t.loaded[i] = s.loaded[j]
      BY <2>2, <3>1
    <3>3. Taken(s) + j = Taken(t) + i
      BY <2>3, <3>1
    <3> HIDE DEF j
    <3> QED BY <2>1, <3>1, <3>2, <3>3
  <2>5. t.applied <= Taken(t)
    BY <1>3, <1>12, <2>1, <2>3
  <2> QED BY <1>2, <1>12, <2>4, <2>5 DEF ScanQueued
<1>18. ScanTaken(t)
  <2> SUFFICES ASSUME t.rx PROVE ScanTaken(t)
    BY DEF ScanTaken
  <2>1. /\ \A i \in 1..Len(s.loaded) : s.loaded[i] = 0 \/ s.loaded[i] = Taken(s) + i
        /\ s.applied <= Taken(s)
    BY <1>2, <1>12 DEF ScanQueued
  <2>2. Len(t.loaded) = Len(s.loaded) - 1
    BY <1>4, <1>13
  <2>3. Taken(s) \in Int /\ Taken(t) = Taken(s) + 1
    BY <1>3, <1>7, <1>12, <2>2, CountsAtWork
  <2>4. Ahead(s) \subseteq Ahead(t) /\ Taken(s) + 1 \in Ahead(t) /\ Taken(s) + 1 \notin Ahead(s)
    BY <1>3, <1>12, <2>1, <2>3 DEF Ahead
  <2>5. 1 \in 1..Len(s.loaded)
    BY <1>4, <1>7
  <2>6. x = 0 \/ x = Taken(s) + 1
    BY <1>4, <2>1, <2>5
  <2>7. x # 0 => x \in Ahead(t) \ s.held
    BY <1>2, <1>12, <2>4, <2>6 DEF ScanTaken
  <2>8. \A v \in Workers : t.worker[v].item # 0 => t.worker[v].at = "send" /\ t.worker[v].item \in Ahead(t) \ s.held
    BY <1>2, <1>9, <1>12, <2>4, <2>7 DEF ScanTaken
  <2> QED BY <1>2, <1>12, <2>4, <2>8 DEF ScanTaken
<1>19. ScanApart(t)
  <2> SUFFICES ASSUME t.rx PROVE ScanApart(t)
    BY DEF ScanApart
  <2>1. \A i \in 1..Len(s.loaded) : s.loaded[i] = 0 \/ s.loaded[i] = Taken(s) + i
    BY <1>2, <1>12 DEF ScanQueued
  <2>2. Len(t.loaded) = Len(s.loaded) - 1
    BY <1>4, <1>13
  <2>3. Taken(s) \in Int
    BY <1>3, <1>7, <1>12, <2>2, CountsAtWork
  <2>4. Taken(s) + 1 \notin Ahead(s)
    BY <2>3 DEF Ahead
  <2>5. 1 \in 1..Len(s.loaded)
    BY <1>4, <1>7
  <2>6. x = 0 \/ x \notin Ahead(s)
    BY <1>4, <2>1, <2>4, <2>5
  <2>7. /\ \A v \in Workers : s.worker[v].item = 0 \/ s.worker[v].item \in Ahead(s)
        /\ \A i \in 1..Len(s.computed) : s.computed[i] = 0 \/ s.computed[i] \in Ahead(s)
    BY <1>2, <1>12 DEF ScanTaken
  <2>8. \A v, u \in Workers : v # u /\ t.worker[v].item # 0 => t.worker[v].item # t.worker[u].item
    BY <1>2, <1>9, <1>12, <2>6, <2>7 DEF ScanApart
  <2>9. \A v \in Workers, i \in 1..Len(s.computed) : s.computed[i] # 0 => s.computed[i] # t.worker[v].item
    BY <1>2, <1>9, <1>12, <2>6, <2>7 DEF ScanApart
  <2> QED BY <1>2, <1>12, <2>8, <2>9 DEF ScanApart
<1>20. ScanSpooled(t)
  BY <1>2, <1>12 DEF ScanSpooled
<1>21. ScanOK(t) /\ t.runs = s.runs
  BY <1>1, <1>11, <1>12, <1>14, <1>15, <1>16, <1>17, <1>18, <1>19, <1>20 DEF ScanOK
<1>22. ASSUME ScanClean(s), x = Head(s.loaded) PROVE ScanClean(t)
  <2>1. Sound(s) /\ Whole(s) /\ Ends(s)
    BY <1>22 DEF ScanClean
  <2>2. Sound(t)
    <3>1. 1 \in 1..Len(s.loaded)
      BY <1>4, <1>7
    <3>2. ASSUME t.rx, NEW i \in 1..Len(t.loaded) PROVE t.loaded[i] # 0
      <4>1. i \in 1..(Len(s.loaded) - 1) /\ i + 1 \in 1..Len(s.loaded)
        BY <1>4, <1>7, <1>13, SMTT(30)
      <4> QED BY <1>4, <1>12, <1>13, <2>1, <3>2, <4>1 DEF Sound
    <3>3. s.rx => x # 0
      BY <1>4, <1>22, <2>1, <3>1 DEF Sound
    <3>4. t.rx => \A v \in Workers : t.worker[v].at = "send" => t.worker[v].item # 0
      BY <1>9, <1>12, <2>1, <3>3 DEF Sound
    <3> QED BY <1>12, <2>1, <3>2, <3>4 DEF Sound
  <2>3. Whole(t)
    <3> SUFFICES ASSUME t.rx PROVE Whole(t)
      BY DEF Whole
    <3>1. \A i \in 1..Len(s.loaded) : s.loaded[i] = 0 \/ s.loaded[i] = Taken(s) + i
      BY <1>2, <1>12 DEF ScanQueued
    <3>2. Len(t.loaded) = Len(s.loaded) - 1
      BY <1>4, <1>13
    <3>3. Taken(s) \in Int /\ Taken(t) = Taken(s) + 1
      BY <1>3, <1>7, <1>12, <3>2, CountsAtWork
    <3>4. 1 \in 1..Len(s.loaded)
      BY <1>4, <1>7
    <3>5. x = Taken(s) + 1
      BY <1>4, <1>12, <1>22, <2>1, <3>1, <3>4 DEF Sound
    <3>6. \A b \in Ahead(t) : b \in Ahead(s) \/ b = x
      BY <1>3, <1>12, <3>3, <3>5 DEF Ahead
    <3>7. \A b \in Ahead(s) : b # 0
      BY <1>3 DEF Ahead
    <3>8. s.worker[w].item = 0
      BY <1>2, <1>12 DEF ScanTaken
    <3>9. /\ \A b \in Ahead(s) : \/ b \in s.held
                                 \/ \E v \in Workers : s.worker[v].item = b
                                 \/ \E i \in 1..Len(s.computed) : s.computed[i] = b
          /\ s.applied + 1 \notin s.held
      BY <1>12, <2>1 DEF Whole
    <3>10. ASSUME NEW b \in Ahead(t)
           PROVE  \/ b \in s.held
                  \/ \E v \in Workers : t.worker[v].item = b
                  \/ \E i \in 1..Len(s.computed) : s.computed[i] = b
      <4>1. CASE b = x
        BY <1>9, <4>1
      <4>2. CASE b \in Ahead(s)
        <5>1. CASE \E v \in Workers : s.worker[v].item = b
          BY <1>9, <3>7, <3>8, <4>2, <5>1
        <5> QED BY <3>9, <4>2, <5>1
      <4> QED BY <3>6, <4>1, <4>2
    <3> QED BY <1>12, <3>9, <3>10 DEF Whole
  <2>4. Ends(t)
    BY <1>9, <1>12, <1>13, <2>1 DEF Ends
  <2> QED BY <2>2, <2>3, <2>4 DEF ScanClean
<1> QED BY <1>21, <1>22

\* Nobody listens: the worker drops its batch and ends.
LEMMA WorkerDropped ==
  ASSUME NEW s, ScanOK(s), NEW w \in Workers, NEW t,
         Becomes(t, [s EXCEPT !.worker = [s.worker EXCEPT ![w] = [at |-> "end", item |-> 0]]]),
         ~s.rx
  PROVE  /\ ScanOK(t) /\ t.runs = s.runs
         /\ ScanClean(s) => ScanClean(t)
<1>1. s.runs \in Seq(Words) /\ s \in ScanRecords(s.runs)
  BY DEF ScanOK
<1>2. ScanBounds(s) /\ ScanPhase(s) /\ ScanPlans(s) /\ ScanQueued(s) /\ ScanTaken(s) /\ ScanApart(s) /\ ScanSpooled(s)
  BY DEF ScanOK
<1>3. s.next \in Nat /\ s.sent \in Nat /\ s.applied \in Nat /\ s.pending \in Nat /\ s.batches = BatchesOf(s.runs)
  BY <1>1 DEF ScanRecords
<1>7. /\ s.plans \in Seq(Nat) /\ s.loaded \in Seq(Nat) /\ s.computed \in Seq(Nat)
      /\ Len(s.plans) \in Nat /\ Len(s.loaded) \in Nat /\ Len(s.computed) \in Nat
  BY <1>1 DEF ScanRecords
<1>8. /\ s.held \in SUBSET Nat /\ s.reader \in Threads3 /\ s.worker \in [Workers -> Threads3]
      /\ s.at \in {"fill", "recv", "drain", "join"}
      /\ s.planTx \in BOOLEAN /\ s.rx \in BOOLEAN /\ s.exhausted \in BOOLEAN /\ s.err \in BOOLEAN
      /\ s.cancel \in BOOLEAN
  BY <1>1 DEF ScanRecords
<1>10. [s.worker EXCEPT ![w] = [at |-> "end", item |-> 0]] \in [Workers -> Threads3]
  BY <1>8 DEF Threads3

<1>11. t \in ScanRecords(s.runs)
  BY <1>1, <1>10 DEF ScanRecords, Becomes
<1>12. /\ t.at = s.at /\ t.runs = s.runs /\ t.batches = s.batches /\ t.next = s.next /\ t.sent = s.sent
       /\ t.applied = s.applied /\ t.pending = s.pending /\ t.exhausted = s.exhausted /\ t.planTx = s.planTx
       /\ t.rx = s.rx /\ t.cancel = s.cancel /\ t.err = s.err /\ t.plans = s.plans /\ t.loaded = s.loaded
       /\ t.computed = s.computed /\ t.held = s.held /\ t.reader = s.reader /\ t.spool = s.spool
       /\ t.segments = s.segments
  BY <1>1 DEF ScanRecords, Becomes
<1>13. t.worker = [s.worker EXCEPT ![w] = [at |-> "end", item |-> 0]]
  BY <1>1 DEF ScanRecords, Becomes
<1>14. ScanBounds(t)
  BY <1>2, <1>12 DEF ScanBounds
<1>15. ScanPhase(t)
  BY <1>2, <1>12 DEF ScanPhase
<1>16. ScanPlans(t)
  BY <1>2, <1>12 DEF ScanPlans
<1>17. ScanQueued(t)
  BY <1>12 DEF ScanQueued
<1>18. ScanTaken(t)
  BY <1>12 DEF ScanTaken
<1>19. ScanApart(t)
  BY <1>12 DEF ScanApart
<1>20. ScanSpooled(t)
  BY <1>2, <1>12 DEF ScanSpooled
<1>21. ScanOK(t) /\ t.runs = s.runs
  BY <1>1, <1>11, <1>12, <1>14, <1>15, <1>16, <1>17, <1>18, <1>19, <1>20 DEF ScanOK
<1>22. ASSUME ScanClean(s) PROVE ScanClean(t)
  <2>1. Sound(s) /\ Whole(s) /\ Ends(s)
    BY <1>22 DEF ScanClean
  <2>2. Sound(t)
    BY <1>12, <2>1 DEF Sound
  <2>3. Whole(t)
    BY <1>12 DEF Whole
  <2>4. Ends(t)
    BY <1>12 DEF Ends
  <2> QED BY <2>2, <2>3, <2>4 DEF ScanClean
<1> QED BY <1>21, <1>22

\* A worker passes on what it has computed, and ends after an error.
LEMMA WorkerSends ==
  ASSUME NEW s, ScanOK(s), NEW w \in Workers, NEW x, x = s.worker[w].item, NEW a,
         a = IF x = 0 THEN "end" ELSE "loop", NEW t, Becomes(t, [s EXCEPT !.computed = Append(s.computed, x), !.worker = [s.worker EXCEPT ![w] = [at |-> a, item |-> 0]]]),
         s.worker[w].at = "send",
         Len(s.computed) < ReorderCapacity
  PROVE  /\ ScanOK(t) /\ t.runs = s.runs
         /\ ScanClean(s) => ScanClean(t)
<1>1. s.runs \in Seq(Words) /\ s \in ScanRecords(s.runs)
  BY DEF ScanOK
<1>2. ScanBounds(s) /\ ScanPhase(s) /\ ScanPlans(s) /\ ScanQueued(s) /\ ScanTaken(s) /\ ScanApart(s) /\ ScanSpooled(s)
  BY DEF ScanOK
<1>3. s.next \in Nat /\ s.sent \in Nat /\ s.applied \in Nat /\ s.pending \in Nat /\ s.batches = BatchesOf(s.runs)
  BY <1>1 DEF ScanRecords
<1>7. /\ s.plans \in Seq(Nat) /\ s.loaded \in Seq(Nat) /\ s.computed \in Seq(Nat)
      /\ Len(s.plans) \in Nat /\ Len(s.loaded) \in Nat /\ Len(s.computed) \in Nat
  BY <1>1 DEF ScanRecords
<1>8. /\ s.held \in SUBSET Nat /\ s.reader \in Threads3 /\ s.worker \in [Workers -> Threads3]
      /\ s.at \in {"fill", "recv", "drain", "join"}
      /\ s.planTx \in BOOLEAN /\ s.rx \in BOOLEAN /\ s.exhausted \in BOOLEAN /\ s.err \in BOOLEAN
      /\ s.cancel \in BOOLEAN
  BY <1>1 DEF ScanRecords
<1>4. x \in Nat
  BY <1>8 DEF Threads3
<1>5. /\ Append(s.computed, x) \in Seq(Nat) /\ Len(Append(s.computed, x)) = Len(s.computed) + 1
      /\ \A i \in 1..Len(s.computed) : Append(s.computed, x)[i] = s.computed[i]
      /\ Append(s.computed, x)[Len(s.computed) + 1] = x
  BY <1>4, <1>7, AppendFacts
<1>6. [s.worker EXCEPT ![w] = [at |-> a, item |-> 0]] \in [Workers -> Threads3]
  BY <1>8 DEF Threads3
<1>9. /\ t.worker[w].at = a /\ t.worker[w].item = 0
      /\ \A v \in Workers : v # w => t.worker[v] = s.worker[v]
      /\ Len(t.computed) = Len(s.computed) + 1
      /\ \A i \in 1..Len(t.computed) : \/ i \in 1..Len(s.computed) /\ t.computed[i] = s.computed[i]
                                       \/ i = Len(s.computed) + 1 /\ t.computed[i] = x
  <2>1. t.worker = [s.worker EXCEPT ![w] = [at |-> a, item |-> 0]] /\ t.computed = Append(s.computed, x)
    BY <1>1 DEF ScanRecords, Becomes
  <2>2. t.worker[w] = [at |-> a, item |-> 0] /\ \A v \in Workers : v # w => t.worker[v] = s.worker[v]
    BY <1>8, <2>1
  <2>3. Len(t.computed) = Len(s.computed) + 1
    BY <1>5, <2>1
  <2>4. \A i \in 1..Len(t.computed) : i \in 1..Len(s.computed) \/ i = Len(s.computed) + 1
    BY <1>7, <2>3
  <2> QED BY <1>5, <2>1, <2>2, <2>3, <2>4
<1>10. Append(s.computed, x) \in Seq(Nat) /\ [s.worker EXCEPT ![w] = [at |-> a, item |-> 0]] \in [Workers -> Threads3]
  BY <1>5, <1>6

<1>11. t \in ScanRecords(s.runs)
  BY <1>1, <1>10, ZenonT(40) DEF ScanRecords, Becomes
<1>12. /\ t.at = s.at /\ t.runs = s.runs /\ t.batches = s.batches /\ t.next = s.next /\ t.sent = s.sent
       /\ t.applied = s.applied /\ t.pending = s.pending /\ t.exhausted = s.exhausted /\ t.planTx = s.planTx
       /\ t.rx = s.rx /\ t.cancel = s.cancel /\ t.err = s.err /\ t.plans = s.plans /\ t.loaded = s.loaded
       /\ t.held = s.held /\ t.reader = s.reader /\ t.spool = s.spool /\ t.segments = s.segments
  BY <1>1 DEF ScanRecords, Becomes
<1>13. t.computed = Append(s.computed, x) /\ t.worker = [s.worker EXCEPT ![w] = [at |-> a, item |-> 0]]
  BY <1>1 DEF ScanRecords, Becomes
<1>14. ScanBounds(t)
  BY <1>2, <1>7, <1>9, <1>12, ScanConstants DEF ScanBounds
<1>15. ScanPhase(t)
  BY <1>2, <1>12 DEF ScanPhase
<1>16. ScanPlans(t)
  BY <1>2, <1>12 DEF ScanPlans
<1>17. ScanQueued(t)
  BY <1>2, <1>12 DEF ScanQueued, Taken, ReadOn
<1>18. ScanTaken(t)
  <2>1. Ahead(t) = Ahead(s)
    BY <1>12 DEF Ahead, Taken, ReadOn
  <2>2. s.rx => x = 0 \/ x \in Ahead(s) \ s.held
    BY <1>2 DEF ScanTaken
  <2> QED BY <1>2, <1>9, <1>12, <2>1, <2>2 DEF ScanTaken
<1>19. ScanApart(t)
  <2> SUFFICES ASSUME t.rx PROVE ScanApart(t)
    BY DEF ScanApart
  <2>1. /\ \A v, u \in Workers : v # u /\ s.worker[v].item # 0 => s.worker[v].item # s.worker[u].item
        /\ \A i, j \in 1..Len(s.computed) : i # j /\ s.computed[i] # 0 => s.computed[i] # s.computed[j]
        /\ \A v \in Workers, i \in 1..Len(s.computed) : s.computed[i] # 0 => s.computed[i] # s.worker[v].item
    BY <1>2, <1>12 DEF ScanApart
  <2>2. \A v, u \in Workers : v # u /\ t.worker[v].item # 0 => t.worker[v].item # t.worker[u].item
    BY <1>9, <2>1
  <2>3. \A i, j \in 1..Len(t.computed) : i # j /\ t.computed[i] # 0 => t.computed[i] # t.computed[j]
    BY <1>9, <2>1
  <2>4. ASSUME NEW v \in Workers, NEW i \in 1..Len(t.computed), t.computed[i] # 0
        PROVE  t.computed[i] # t.worker[v].item
    <3>1. CASE v = w
      BY <1>9, <2>4, <3>1
    <3>2. CASE v # w
      <4>1. t.worker[v] = s.worker[v]
        BY <1>9, <3>2
      <4>2. CASE t.computed[i] = x
        BY <2>1, <2>4, <3>2, <4>1, <4>2
      <4>3. CASE i \in 1..Len(s.computed) /\ t.computed[i] = s.computed[i]
        BY <2>1, <2>4, <4>1, <4>3
      <4> QED BY <1>9, <4>2, <4>3
    <3> QED BY <3>1, <3>2
  <2> QED BY <2>2, <2>3, <2>4 DEF ScanApart
<1>20. ScanSpooled(t)
  BY <1>2, <1>12 DEF ScanSpooled
<1>21. ScanOK(t) /\ t.runs = s.runs
  BY <1>1, <1>11, <1>12, <1>14, <1>15, <1>16, <1>17, <1>18, <1>19, <1>20 DEF ScanOK
<1>22. ASSUME ScanClean(s) PROVE ScanClean(t)
  <2>1. Sound(s) /\ Whole(s) /\ Ends(s)
    BY <1>22 DEF ScanClean
  <2>2. Sound(t)
    <3>1. s.rx => x # 0 /\ a = "loop"
      BY <2>1 DEF Sound
    <3>2. t.rx => /\ \A v \in Workers : t.worker[v].at = "send" => t.worker[v].item # 0
                  /\ \A i \in 1..Len(t.computed) : t.computed[i] # 0
      BY <1>9, <1>12, <2>1, <3>1 DEF Sound
    <3> QED BY <1>12, <2>1, <3>2 DEF Sound
  <2>3. Whole(t)
    <3>1. Ahead(t) = Ahead(s)
      BY <1>12 DEF Ahead, Taken, ReadOn
    <3> SUFFICES ASSUME t.rx PROVE Whole(t)
      BY DEF Whole
    <3>2. /\ \A b \in Ahead(s) : \/ b \in s.held
                                 \/ \E v \in Workers : s.worker[v].item = b
                                 \/ \E i \in 1..Len(s.computed) : s.computed[i] = b
          /\ s.applied + 1 \notin s.held
      BY <1>12, <2>1 DEF Whole
    <3>3. Len(s.computed) + 1 \in 1..Len(t.computed) /\ \A i \in 1..Len(s.computed) : i \in 1..Len(t.computed)
      BY <1>7, <1>9
    <3>4. t.computed[Len(s.computed) + 1] = x /\ \A i \in 1..Len(s.computed) : t.computed[i] = s.computed[i]
      BY <1>5, <1>13
    <3>5. ASSUME NEW b \in Ahead(t)
           PROVE  \/ b \in s.held
                  \/ \E v \in Workers : t.worker[v].item = b
                  \/ \E i \in 1..Len(t.computed) : t.computed[i] = b
      <4>1. CASE \E v \in Workers : s.worker[v].item = b
        <5>1. PICK v \in Workers : s.worker[v].item = b
          BY <4>1
        <5>2. CASE v = w
          BY <3>3, <3>4, <5>1, <5>2
        <5>3. CASE v # w
          BY <1>9, <5>1, <5>3
        <5> QED BY <5>2, <5>3
      <4>2. CASE \E i \in 1..Len(s.computed) : s.computed[i] = b
        BY <3>3, <3>4, <4>2
      <4> QED BY <3>1, <3>2, <4>1, <4>2
    <3> QED BY <1>12, <3>2, <3>5 DEF Whole
  <2>4. Ends(t)
    <3>1. s.rx => x # 0 /\ a = "loop"
      BY <2>1 DEF Sound
    <3> QED BY <1>9, <1>12, <2>1, <3>1 DEF Ends
  <2> QED BY <2>2, <2>3, <2>4 DEF ScanClean
<1> QED BY <1>21, <1>22

\* The batches that are due are the ones that follow the last applied one without a gap.
Due(a, H) == {b \in H : \A c \in (a + 1)..b : c \in H}
LEMMA DueFacts ==
  ASSUME NEW a \in Nat, NEW E \in Nat, NEW H, H \subseteq (a + 1)..E
  PROVE  LET k == Cardinality(Due(a, H))
         IN  k \in Nat /\ Due(a, H) = (a + 1)..(a + k) /\ (a <= E => a + k <= E) /\ a + k + 1 \notin H
<1> DEFINE D == Due(a, H)
           k == Cardinality(D)
<1>0. D \subseteq H
  BY DEF Due
<1>1. D \subseteq H /\ D \subseteq Int /\ D \subseteq (a + 1)..E
  <2> HIDE DEF D
  <2>1. D \subseteq (a + 1)..E
    BY <1>0
  <2>2. (a + 1)..E \subseteq Int
    OBVIOUS
  <2> QED BY <1>0, <2>1, <2>2
<1>2. IsFiniteSet((a + 1)..E)
  BY FS_Interval
<1>3. IsFiniteSet(D)
  BY <1>1, <1>2, FS_Subset
<1>4. \A b \in H : b \in D <=> \A c \in (a + 1)..b : c \in H
  BY DEF Due
<1>5. \A b \in H : b \in Int /\ a + 1 <= b /\ b <= E
  OBVIOUS
<1> HIDE DEF D
<1>6. CASE D = {}
  <2>1. k = 0
    BY <1>6, FS_EmptySet
  <2>2. a + 1 \notin H
    <3>1. a + 1 \in H => \A c \in (a + 1)..(a + 1) : c \in H
      OBVIOUS
    <3> QED BY <1>4, <1>6, <3>1
  <2>3. (a + 1)..(a + 0) = {} /\ a + 0 + 1 = a + 1 /\ a + 0 = a
    OBVIOUS
  <2> QED BY <1>6, <2>1, <2>2, <2>3 DEF D
<1>7. CASE D # {}
  <2> DEFINE m == Max(D)
  <2>1. m \in D /\ \A y \in D : y <= m
    BY <1>1, <1>3, <1>7, MaxOfSet
  <2> HIDE DEF m
  <2>2. m \in Int /\ a + 1 <= m /\ m <= E /\ m \in H
    BY <1>1, <1>5, <2>1
  <2>3. \A c \in (a + 1)..m : c \in H
    BY <1>4, <2>1, <2>2
  <2>4. ASSUME NEW c \in (a + 1)..m PROVE c \in D
    <3>1. \A x \in (a + 1)..c : x \in (a + 1)..m
      BY <2>2
    <3> QED BY <1>4, <2>3, <2>4, <3>1
  <2>5. \A c \in D : c \in (a + 1)..m
    BY <1>1, <1>5, <2>1, <2>2
  <2>6. D = (a + 1)..m
    BY <2>4, <2>5
  <2>7. Cardinality((a + 1)..m) = m - (a + 1) + 1
    BY <2>2, FS_Interval
  <2>8. k = m - a
    <3>1. m - (a + 1) + 1 = m - a
      BY <2>2
    <3> QED BY <2>6, <2>7, <3>1
  <2>9. m + 1 \notin H
    <3> SUFFICES ASSUME m + 1 \in H PROVE FALSE
      OBVIOUS
    <3>1. \A c \in (a + 1)..(m + 1) : c \in (a + 1)..m \/ c = m + 1
      BY <2>2
    <3>2. m + 1 \in D
      BY <1>4, <2>3, <3>1
    <3> QED BY <2>1, <2>2, <3>2
  <2>10. k \in Nat /\ a + k = m /\ a + k + 1 = m + 1
    BY <2>2, <2>8
  <2> HIDE DEF k
  <2> QED BY <2>2, <2>6, <2>9, <2>10 DEF k, D
<1> QED BY <1>6, <1>7

\* A computed batch arrives, and k batches that are due are applied.
Received(s, t, h, k) ==
  /\ t \in ScanRecords(s.runs) /\ t.at = "fill"
  /\ t.next = s.next /\ t.sent = s.sent /\ t.pending = s.pending /\ t.exhausted = s.exhausted
  /\ t.planTx = s.planTx /\ t.rx = s.rx /\ t.cancel = s.cancel /\ t.err = s.err
  /\ t.plans = s.plans /\ t.loaded = s.loaded /\ t.reader = s.reader /\ t.worker = s.worker
  /\ t.computed = Tail(s.computed) /\ t.applied = s.applied + k
  /\ t.held = (s.held \cup {h}) \ ((s.applied + 1)..(s.applied + k))
  /\ ScanSpooled(t)
LEMMA ReceivedOK ==
  ASSUME NEW s, ScanOK(s), s.at = "recv", s.computed # <<>>, NEW h, h = Head(s.computed), h # 0,
         NEW k \in Nat, (s.applied + 1)..(s.applied + k) \subseteq s.held \cup {h},
         s.applied + k + 1 \notin s.held \cup {h}, NEW t, Received(s, t, h, k)
  PROVE  /\ ScanOK(t) /\ t.runs = s.runs
         /\ ScanClean(s) => ScanClean(t)
<1>1. s.runs \in Seq(Words) /\ s \in ScanRecords(s.runs)
  BY DEF ScanOK
<1>2. ScanBounds(s) /\ ScanPhase(s) /\ ScanPlans(s) /\ ScanQueued(s) /\ ScanTaken(s) /\ ScanApart(s)
  BY DEF ScanOK
<1>3. /\ s.next \in Nat /\ s.sent \in Nat /\ s.applied \in Nat /\ s.pending \in Nat
      /\ Len(s.plans) \in Nat /\ Len(s.loaded) \in Nat /\ s.computed \in Seq(Nat) /\ s.held \in SUBSET Nat
  BY <1>1, SMTT(30) DEF ScanRecords
<1>4. t \in ScanRecords(s.runs) /\ ScanSpooled(t)
  BY DEF Received
<1>5. t.runs = s.runs /\ t.batches = s.batches
  BY <1>1, <1>4 DEF ScanRecords
<1>6. /\ t.at = "fill" /\ t.next = s.next /\ t.sent = s.sent /\ t.pending = s.pending /\ t.exhausted = s.exhausted
      /\ t.planTx = s.planTx /\ t.rx = s.rx /\ t.cancel = s.cancel /\ t.err = s.err
      /\ t.plans = s.plans /\ t.loaded = s.loaded /\ t.reader = s.reader /\ t.worker = s.worker
  BY DEF Received
<1>7. t.applied = s.applied + k /\ t.held = (s.held \cup {h}) \ ((s.applied + 1)..(s.applied + k))
  BY DEF Received
<1>8. /\ Len(s.computed) >= 1 /\ Len(s.computed) \in Nat /\ h = s.computed[1] /\ h \in Nat
      /\ Len(t.computed) = Len(s.computed) - 1
      /\ \A i \in 1..Len(t.computed) : i + 1 \in 1..Len(s.computed) /\ t.computed[i] = s.computed[i + 1]
  <2>1. t.computed = Tail(s.computed)
    BY DEF Received
  <2>2. /\ Len(s.computed) \in Nat \ {0} /\ Head(s.computed) = s.computed[1] /\ Head(s.computed) \in Nat
        /\ Len(t.computed) = Len(s.computed) - 1 /\ DOMAIN t.computed = 1..(Len(s.computed) - 1)
        /\ \A i \in DOMAIN t.computed : t.computed[i] = s.computed[i + 1]
    BY <1>3, <2>1, TailFacts, SMTT(30)
  <2> QED BY <2>2
<1>9. s.rx /\ ~s.err
  BY <1>2 DEF ScanPhase
<1>10. 1 \in 1..Len(s.computed)
  BY <1>8
<1>11. h \in Ahead(s) \ s.held /\ s.held \subseteq Ahead(s)
  BY <1>2, <1>8, <1>9, <1>10 DEF ScanTaken
<1>12. Taken(t) = Taken(s) /\ Taken(s) \in Nat /\ Taken(s) <= s.sent /\ s.applied <= Taken(s)
  <2>1. s.applied <= Taken(s)
    BY <1>2, <1>9 DEF ScanQueued
  <2>2. Taken(s) \in Nat /\ Taken(s) <= s.sent
    BY <1>3, <2>1, TakenNat
  <2> QED BY <1>6, <2>1, <2>2 DEF Taken, ReadOn
<1>13. s.applied + k <= Taken(s)
  <2>1. CASE k = 0
    BY <1>3, <1>12, <2>1
  <2>2. CASE k # 0
    <3>1. s.applied + k \in (s.applied + 1)..(s.applied + k)
      BY <1>3, <2>2, LastOfPiece
    <3>2. s.applied + k \in Ahead(s)
      BY <1>11, <3>1
    <3> QED BY <3>2 DEF Ahead
  <2> QED BY <2>1, <2>2
\* What is applied goes, what is not stays ahead.
<1>14. \A b : b \in Ahead(t) <=> b \in Ahead(s) /\ b \notin (s.applied + 1)..(s.applied + k)
  BY <1>3, <1>7, <1>12, <1>13, SMTT(30) DEF Ahead
<1>15. \A b \in Ahead(s) : b \notin s.held \cup {h} => b \in Ahead(t)
  BY <1>14
<1>16. ScanBounds(t)
  <2>1. Len(t.computed) <= ReorderCapacity
    BY <1>2, <1>8, ScanConstants DEF ScanBounds
  <2>2. t.applied <= t.sent /\ t.sent - t.applied <= MaxOutstanding
    <3> DEFINE a == s.applied
               n == s.sent
    <3>1. a \in Nat /\ n \in Nat /\ n - a <= MaxOutstanding /\ a + k <= Taken(s) /\ Taken(s) <= n /\ Taken(s) \in Nat
      BY <1>2, <1>3, <1>12, <1>13 DEF ScanBounds
    <3>2. t.applied = a + k /\ t.sent = n
      BY <1>6, <1>7
    <3> HIDE DEF a, n
    <3>3. a + k <= n /\ n - (a + k) <= MaxOutstanding
      BY <3>1, ScanConstants
    <3> QED BY <3>2, <3>3
  <2> QED BY <1>2, <1>5, <1>6, <2>1, <2>2 DEF ScanBounds
<1>17. ScanPhase(t) /\ ScanPlans(t)
  BY <1>2, <1>5, <1>6 DEF ScanPhase, ScanPlans
<1>18. ScanQueued(t)
  BY <1>2, <1>6, <1>7, <1>12, <1>13 DEF ScanQueued
<1>19. \A i \in 1..Len(t.computed) : t.computed[i] # 0 => t.computed[i] # h
  <2>1. \A i \in 1..Len(t.computed) : i + 1 # 1
    BY <1>8
  <2> QED BY <1>2, <1>8, <1>9, <1>10, <2>1 DEF ScanApart
<1>20. ScanTaken(t)
  <2>1. \A w \in Workers : s.worker[w].item # 0 => /\ s.worker[w].at = "send"
                                                   /\ s.worker[w].item \in Ahead(s) \ (s.held \cup {h})
    BY <1>2, <1>8, <1>9, <1>10 DEF ScanTaken, ScanApart
  <2>2. \A i \in 1..Len(t.computed) : t.computed[i] # 0 => t.computed[i] \in Ahead(s) \ (s.held \cup {h})
    BY <1>2, <1>8, <1>9, <1>19 DEF ScanTaken
  <2>3. t.held \subseteq Ahead(t)
    BY <1>7, <1>11, <1>14
  <2>4. \A b : b \notin s.held \cup {h} => b \notin t.held
    BY <1>7
  <2> QED BY <1>6, <1>15, <2>1, <2>2, <2>3, <2>4 DEF ScanTaken
<1>21. ScanApart(t)
  <2>1. /\ \A w, v \in Workers : w # v /\ s.worker[w].item # 0 => s.worker[w].item # s.worker[v].item
        /\ \A i, j \in 1..Len(s.computed) : i # j /\ s.computed[i] # 0 => s.computed[i] # s.computed[j]
        /\ \A w \in Workers, i \in 1..Len(s.computed) : s.computed[i] # 0 => s.computed[i] # s.worker[w].item
    BY <1>2, <1>9 DEF ScanApart
  <2>2. ASSUME NEW i \in 1..Len(t.computed), NEW j \in 1..Len(t.computed), i # j, t.computed[i] # 0
        PROVE  t.computed[i] # t.computed[j]
    <3> DEFINE p == i + 1
               q == j + 1
    <3>1. /\ p \in 1..Len(s.computed) /\ q \in 1..Len(s.computed) /\ p # q /\ t.computed[i] = s.computed[p]
          /\ t.computed[j] = s.computed[q]
      <4>1. p \in 1..Len(s.computed) /\ t.computed[i] = s.computed[p]
        BY <1>8
      <4>2. q \in 1..Len(s.computed) /\ t.computed[j] = s.computed[q]
        BY <1>8
      <4>3. p # q
        BY <1>8, <2>2
      <4> QED BY <4>1, <4>2, <4>3
    <3> HIDE DEF p, q
    <3> QED BY <2>1, <2>2, <3>1
  <2>3. \A w \in Workers, i \in 1..Len(t.computed) : t.computed[i] # 0 => t.computed[i] # t.worker[w].item
    BY <1>6, <1>8, <2>1
  <2> QED BY <1>6, <2>1, <2>2, <2>3 DEF ScanApart
<1>22. ScanOK(t)
  BY <1>1, <1>4, <1>5, <1>16, <1>17, <1>18, <1>20, <1>21 DEF ScanOK
<1>23. ASSUME ScanClean(s) PROVE ScanClean(t)
  <2>1. Sound(s) /\ Whole(s) /\ Ends(s)
    BY <1>23 DEF ScanClean
  <2>2. Sound(t)
    BY <1>6, <1>8, <2>1 DEF Sound
  <2>3. Ends(t)
    BY <1>6, <2>1 DEF Ends
  <2>4. /\ \A b \in Ahead(s) : \/ b \in s.held
                               \/ \E w \in Workers : s.worker[w].item = b
                               \/ \E i \in 1..Len(s.computed) : s.computed[i] = b
    BY <1>9, <2>1 DEF Whole
  <2>5. ASSUME NEW b \in Ahead(t)
        PROVE  \/ b \in t.held
               \/ \E w \in Workers : t.worker[w].item = b
               \/ \E i \in 1..Len(t.computed) : t.computed[i] = b
    <3>1. b \in Ahead(s) /\ b \notin (s.applied + 1)..(s.applied + k)
      BY <1>14
    <3>2. CASE b \in s.held \cup {h}
      BY <1>7, <3>1, <3>2
    <3>3. CASE \E w \in Workers : s.worker[w].item = b
      BY <1>6, <3>3
    <3>4. CASE b # h /\ \E i \in 1..Len(s.computed) : s.computed[i] = b
      <4>1. PICK i \in 1..Len(s.computed) : s.computed[i] = b
        BY <3>4
      <4> DEFINE j == i - 1
      <4>2. i # 1
        BY <1>8, <3>4, <4>1
      <4>3. j \in 1..Len(t.computed) /\ j + 1 = i
        BY <1>8, <4>2
      <4> HIDE DEF j
      <4>4. t.computed[j] = b
        BY <1>8, <4>1, <4>3
      <4> QED BY <4>3, <4>4
    <3> QED BY <2>4, <3>1, <3>2, <3>3, <3>4
  <2>6. t.applied + 1 \notin t.held
    BY <1>7
  <2>7. Whole(t)
    BY <2>5, <2>6 DEF Whole
  <2> QED BY <2>2, <2>3, <2>7 DEF ScanClean
<1> QED BY <1>5, <1>22, <1>23

\* drain_ordered_d1_level_scan_batches, after the receive.
LEMMA DrainOrderedOK ==
  ASSUME NEW s, ScanOK(s), s.at = "recv", s.computed # <<>>, NEW h, h = Head(s.computed), h # 0,
         NEW got, Becomes(got, [s EXCEPT !.computed = Tail(s.computed), !.held = s.held \cup {h}]),
         NEW t, Becomes(t, [DrainOrdered(got) EXCEPT !.at = "fill"])
  PROVE  /\ ScanOK(t) /\ t.runs = s.runs
         /\ ScanClean(s) => ScanClean(t)
<1> DEFINE a == s.applied
           H == s.held \cup {h}
           k == Cardinality(Due(a, H))
           order == [i \in 1..k |-> a + i]
           n == Len(s.runs)
           old == [spool |-> s.spool, segments |-> s.segments]
           w == SpooledInOrder(old, BatchesOf(s.runs), order)
           d == DrainOrdered(got)
<1>1. s.runs \in Seq(Words) /\ s \in ScanRecords(s.runs)
  BY DEF ScanOK
<1>2. ScanBounds(s) /\ ScanPhase(s) /\ ScanQueued(s) /\ ScanTaken(s) /\ ScanSpooled(s)
  BY DEF ScanOK
<1>3. /\ s.sent \in Nat /\ s.applied \in Nat /\ Len(s.plans) \in Nat /\ Len(s.loaded) \in Nat
      /\ s.computed \in Seq(Nat) /\ s.held \in SUBSET Nat /\ s.batches = BatchesOf(s.runs)
  BY <1>1 DEF ScanRecords
<1>4. s.rx
  BY <1>2 DEF ScanPhase
<1>5. h \in Nat /\ Tail(s.computed) \in Seq(Nat) /\ h = s.computed[1] /\ 1 \in 1..Len(s.computed)
  <2>1. /\ Head(s.computed) = s.computed[1] /\ Head(s.computed) \in Nat /\ Tail(s.computed) \in Seq(Nat)
        /\ Len(s.computed) \in Nat \ {0}
    BY <1>3, TailFacts
  <2> QED BY <2>1
<1>6. H \in SUBSET Nat
  BY <1>3, <1>5
<1>7. got \in ScanRecords(s.runs)
  BY <1>1, <1>5, <1>6 DEF ScanRecords, Becomes
<1>8. /\ got.at = s.at /\ got.runs = s.runs /\ got.batches = s.batches /\ got.next = s.next /\ got.sent = s.sent
      /\ got.applied = s.applied /\ got.pending = s.pending /\ got.exhausted = s.exhausted
      /\ got.planTx = s.planTx /\ got.rx = s.rx /\ got.cancel = s.cancel /\ got.err = s.err
      /\ got.plans = s.plans /\ got.loaded = s.loaded /\ got.reader = s.reader /\ got.worker = s.worker
      /\ got.spool = s.spool /\ got.segments = s.segments
  BY <1>1 DEF ScanRecords, Becomes
<1>9. got.computed = Tail(s.computed) /\ got.held = H
  BY <1>1 DEF ScanRecords, Becomes
<1>10. H \subseteq Ahead(s)
  BY <1>2, <1>4, <1>5 DEF ScanTaken
<1>11. s.applied <= Taken(s) /\ Taken(s) \in Nat /\ Taken(s) <= s.sent
  <2>1. s.applied <= Taken(s)
    BY <1>2, <1>4 DEF ScanQueued
  <2> QED BY <1>3, <2>1, TakenNat
<1>12. Len(s.batches) \in Nat /\ s.sent <= Len(s.batches) /\ a \in Nat /\ a <= Len(s.batches)
  <2>1. Len(s.batches) \in Nat
    BY <1>1, <1>3, BatchesFacts
  <2> QED BY <1>2, <1>3, <1>11, <2>1 DEF ScanBounds
<1>13. H \subseteq (a + 1)..Len(s.batches)
  <2>1. Ahead(s) \subseteq (a + 1)..Len(s.batches)
    BY <1>3, <1>11, <1>12 DEF Ahead
  <2> QED BY <1>10, <2>1
<1> HIDE DEF H
<1>14. k \in Nat /\ Due(a, H) = (a + 1)..(a + k) /\ a + k <= Len(s.batches) /\ a + k + 1 \notin H
  BY <1>12, <1>13, DueFacts
<1>15. (a + 1)..(a + k) \subseteq H
  <2>1. Due(a, H) \subseteq H
    BY DEF Due
  <2> QED BY <1>14, <2>1
<1> HIDE DEF k
<1>16. DOMAIN order = 1..k /\ (\A i \in 1..k : order[i] = a + i) /\ Len(order) = k /\ ToSet(order) = (a + 1)..(a + k)
  <2>1. DOMAIN order = 1..k /\ \A i \in 1..k : order[i] = a + i
    OBVIOUS
  <2>2. order \in [1..k -> Nat]
    BY <1>12, <1>14
  <2> HIDE DEF order
  <2>3. Len(order) = k
    BY <1>14, <2>2
  <2>4. ToSet(order) = {order[i] : i \in DOMAIN order}
    BY DEF ToSet
  <2>5. ASSUME NEW b \in (a + 1)..(a + k) PROVE \E i \in 1..k : order[i] = b
    <3> DEFINE i == b - a
    <3>1. i \in 1..k /\ a + i = b
      BY <1>12, <1>14
    <3> HIDE DEF i
    <3> QED BY <2>1, <3>1
  <2>6. \A i \in 1..k : order[i] \in (a + 1)..(a + k)
    BY <1>12, <1>14, <2>1
  <2>7. ToSet(order) = (a + 1)..(a + k)
    BY <2>1, <2>4, <2>5, <2>6
  <2> QED BY <2>1, <2>3, <2>7
<1>17. d = [got EXCEPT !.spool = w.spool, !.segments = w.segments, !.applied = @ + Len(order), !.held = @ \ ToSet(order)]
  <2>1. Due(a, H) = {b \in got.held : \A c \in (got.applied + 1)..b : c \in got.held}
    BY <1>8, <1>9 DEF Due
  <2>2. d = ApplyBatches(got, order)
    BY <1>8, <2>1 DEF DrainOrdered, k
  <2>3. [spool |-> got.spool, segments |-> got.segments] = old /\ got.batches = BatchesOf(s.runs)
    BY <1>3, <1>8
  <2> HIDE DEF order, old, d
  <2> QED BY <2>2, <2>3 DEF ApplyBatches
<1> HIDE DEF order, old
<1>18. Spooled(w, n, HeadsOf(s.runs)[a + k])
  <2>1. Spooled(old, n, HeadsOf(s.runs)[a])
    BY <1>2 DEF ScanSpooled, old
  <2>2. a + k <= Len(BatchesOf(s.runs))
    BY <1>3, <1>14
  <2>3. a \in Nat /\ k \in Nat
    BY <1>12, <1>14
  <2>4. DOMAIN order = 1..k /\ \A i \in 1..k : order[i] = a + i
    BY <1>16
  <2> HIDE DEF a
  <2> QED BY <1>1, <2>1, <2>2, <2>3, <2>4, SpooledInOrderFacts
<1> HIDE DEF w, d
<1>19. w \in Spools(n)
  BY <1>18 DEF Spooled
<1>20. w.spool \in Seq(Pairs) /\ w.segments \in [1..n -> Seq(Extents)]
  BY <1>19 DEF Spools
<1>21. a + k \in Nat /\ H \ ((a + 1)..(a + k)) \in SUBSET Nat
  BY <1>6, <1>12, <1>14 DEF H
<1>22. Becomes(d, [got EXCEPT !.spool = w.spool, !.segments = w.segments, !.applied = a + k, !.held = H \ ((a + 1)..(a + k))])
  BY <1>8, <1>9, <1>16, <1>17 DEF Becomes
<1>23. d \in ScanRecords(s.runs)
  BY <1>7, <1>20, <1>21, <1>22, ZenonT(40) DEF ScanRecords, Becomes
<1>24. t \in ScanRecords(s.runs)
  BY <1>23, ZenonT(40) DEF ScanRecords, Becomes, d
<1>25. /\ t.at = "fill" /\ t.applied = d.applied /\ t.held = d.held /\ t.spool = d.spool
       /\ t.segments = d.segments /\ t.computed = d.computed
  BY <1>23 DEF ScanRecords, Becomes, d
<1>26. /\ t.next = d.next /\ t.sent = d.sent /\ t.pending = d.pending /\ t.exhausted = d.exhausted
       /\ t.planTx = d.planTx /\ t.rx = d.rx /\ t.cancel = d.cancel /\ t.err = d.err
       /\ t.plans = d.plans /\ t.loaded = d.loaded /\ t.reader = d.reader /\ t.worker = d.worker
  BY <1>23 DEF ScanRecords, Becomes, d
<1>27. /\ d.applied = a + k /\ d.held = H \ ((a + 1)..(a + k)) /\ d.spool = w.spool /\ d.segments = w.segments
       /\ d.computed = got.computed
  BY <1>7, <1>22 DEF ScanRecords, Becomes
<1>28. /\ d.next = got.next /\ d.sent = got.sent /\ d.pending = got.pending /\ d.exhausted = got.exhausted
       /\ d.planTx = got.planTx /\ d.rx = got.rx /\ d.cancel = got.cancel /\ d.err = got.err
       /\ d.plans = got.plans /\ d.loaded = got.loaded /\ d.reader = got.reader /\ d.worker = got.worker
  BY <1>7, <1>22 DEF ScanRecords, Becomes
<1>29. ScanSpooled(t)
  <2> DEFINE x == [spool |-> t.spool, segments |-> t.segments]
  <2>1. x.spool = w.spool /\ x.segments = w.segments /\ x \in Spools(n)
    BY <1>20, <1>25, <1>27 DEF Spools
  <2>2. t.runs = s.runs /\ t.applied = a + k
    BY <1>24, <1>25, <1>27 DEF ScanRecords
  <2> HIDE DEF x, a, n
  <2>3. Spooled(x, n, HeadsOf(s.runs)[a + k])
    BY <1>18, <2>1 DEF Spooled
  <2> QED BY <2>2, <2>3 DEF ScanSpooled, x, n
<1>30. Received(s, t, h, k)
  BY <1>8, <1>9, <1>24, <1>25, <1>26, <1>27, <1>28, <1>29 DEF Received, H
<1> QED BY <1>14, <1>15, <1>30, ReceivedOK DEF H

\* What every step of the pipeline does to the scan.
ScanKept ==
  /\ ScanOK(scan') /\ scan'.runs = scan.runs /\ faults' \in 0..MaxFaults
  /\ faults' = 0 /\ ScanClean(scan) => ScanClean(scan')

\* Faults are counted, up to their bound.
LEMMA FaultCounted ==
  ASSUME faults \in 0..MaxFaults, Fault
  PROVE  faults' \in 0..MaxFaults /\ faults' # 0
BY ScanConstants DEF Fault

LEMMA FillQueueKept ==
  ASSUME ScanOK(scan), faults \in 0..MaxFaults, FillQueue
  PROVE  ScanKept
<1>1. /\ scan.runs \in Seq(Words) /\ scan \in ScanRecords(scan.runs) /\ scan.at = "fill" /\ ScanPhase(scan)
      /\ ScanBounds(scan)
  BY DEF ScanOK, FillQueue
<1>2. faults' \in 0..MaxFaults
  BY DEF FillQueue
<1>3. CASE Becomes(scan', [scan EXCEPT !.at = "recv"])
  <2>1. ScanOK(scan') /\ scan'.runs = scan.runs /\ (ScanClean(scan) => ScanClean(scan'))
    BY <1>1, <1>3, FillWaits
  <2> QED BY <1>2, <2>1 DEF ScanKept
<1>4. CASE /\ scan.planTx /\ ~PlansLeft
           /\ Becomes(scan', [scan EXCEPT !.planTx = FALSE, !.exhausted = TRUE, !.at = "recv"])
  <2>1. scan.pending = 0 /\ ~(scan.next <= Len(scan.batches))
    BY <1>4 DEF PlansLeft
  <2>2. ScanOK(scan') /\ scan'.runs = scan.runs /\ (ScanClean(scan) => ScanClean(scan'))
    BY <1>1, <1>4, <2>1, FillExhausted
  <2> QED BY <1>2, <2>2 DEF ScanKept
<1>5. CASE scan.planTx /\ ReaderGone /\ scan' = [LeaveScope(scan) EXCEPT !.err = TRUE]
  <2>1. scan' \in ScanRecords(scan.runs)
    BY <1>1, <1>5 DEF LeaveScope, ScanRecords
  <2>2. Left(scan, scan')
    <3>1. scan'.at = "join" /\ scan'.rx = FALSE /\ scan'.planTx = FALSE /\ scan'.err
      BY <1>1, <1>5 DEF LeaveScope, ScanRecords
    <3>2. /\ scan'.sent = scan.sent /\ scan'.applied = scan.applied /\ scan'.exhausted = scan.exhausted
          /\ scan'.plans = scan.plans
          /\ scan'.spool = scan.spool /\ scan'.segments = scan.segments /\ scan'.computed = scan.computed
      BY <1>1, <1>5 DEF LeaveScope, ScanRecords
    <3> QED BY <1>1, <2>1, <3>1, <3>2 DEF Left, ScanBounds
  <2>3. ~ScanClean(scan)
    BY <1>1, <1>5 DEF ScanClean, Ends, ScanPhase, ReaderGone
  <2>4. ScanOK(scan') /\ scan'.runs = scan.runs
    BY <2>2, LeavesOK
  <2> QED BY <1>2, <2>3, <2>4 DEF ScanKept
<1>6. CASE PlansLeft /\ Becomes(scan', [scan EXCEPT !.pending = Planned, !.next = Advanced, !.at = "recv"])
  <2>1. /\ scan.pending # 0 \/ scan.next <= Len(scan.batches)
    BY <1>6 DEF PlansLeft
  <2> DEFINE p == Planned
             q == Advanced
  <2>3. PlanIs(scan, p, q)
    BY DEF PlanIs, Planned, Advanced
  <2>4. Becomes(scan', [scan EXCEPT !.pending = p, !.next = q, !.at = "recv"])
    BY <1>6
  <2> HIDE DEF p, q
  <2>5. ScanOK(scan') /\ scan'.runs = scan.runs /\ (ScanClean(scan) => ScanClean(scan'))
    BY <1>1, <1>6, <2>1, <2>3, <2>4, FillFull
  <2> QED BY <1>2, <2>5 DEF ScanKept
<1>7. CASE /\ scan.planTx /\ scan.sent - scan.applied < MaxOutstanding /\ PlansLeft /\ ~ReaderGone
           /\ Len(scan.plans) < Inflight
           /\ Becomes(scan', [scan EXCEPT !.plans = Append(scan.plans, Planned), !.sent = scan.sent + 1,
                                          !.pending = 0, !.next = Advanced])
  <2>1. /\ scan.pending # 0 \/ scan.next <= Len(scan.batches)
        /\ scan.reader.at # "end"
    BY <1>7 DEF PlansLeft, ReaderGone
  <2> DEFINE p == Planned
             q == Advanced
  <2>3. PlanIs(scan, p, q)
    BY DEF PlanIs, Planned, Advanced
  <2>4. Becomes(scan', [scan EXCEPT !.plans = Append(scan.plans, p), !.sent = scan.sent + 1, !.pending = 0, !.next = q])
    BY <1>7
  <2> HIDE DEF p, q
  <2>5. ScanOK(scan') /\ scan'.runs = scan.runs /\ (ScanClean(scan) => ScanClean(scan'))
    BY <1>1, <1>7, <2>1, <2>3, <2>4, FillSends
  <2> QED BY <1>2, <2>5 DEF ScanKept
<1> QED BY <1>3, <1>4, <1>5, <1>6, <1>7 DEF FillQueue, Becomes

LEMMA ReadBatchKept ==
  ASSUME ScanOK(scan), faults \in 0..MaxFaults, ReadBatch
  PROVE  ScanKept
<1>1. scan.reader.at = "loop" /\ scan.runs \in Seq(Words) /\ scan \in ScanRecords(scan.runs)
  BY DEF ReadBatch, ScanOK
<1>2. CASE /\ scan.cancel \/ (scan.plans = <<>> /\ ~scan.planTx)
           /\ UNCHANGED faults
           /\ Becomes(scan', [scan EXCEPT !.reader = [scan.reader EXCEPT !.at = "end"]])
  <2>1. ScanOK(scan') /\ scan'.runs = scan.runs /\ (ScanClean(scan) => ScanClean(scan'))
    BY <1>1, <1>2, ReaderStops
  <2>2. faults' \in 0..MaxFaults
    BY <1>2
  <2> QED BY <1>2, <2>1, <2>2 DEF ScanKept
<1>3. CASE /\ scan.plans # <<>> /\ UNCHANGED faults
           /\ Becomes(scan', [scan EXCEPT !.plans = Tail(scan.plans), !.reader = [at |-> "send", item |-> Head(scan.plans)]])
  <2>1. ScanOK(scan') /\ scan'.runs = scan.runs /\ (ScanClean(scan) => ScanClean(scan'))
    BY <1>1, <1>3, ReaderTakes
  <2> QED BY <1>3, <2>1 DEF ScanKept
<1>4. CASE /\ scan.plans # <<>> /\ Fault
           /\ Becomes(scan', [scan EXCEPT !.plans = Tail(scan.plans), !.reader = [at |-> "send", item |-> 0]])
  <2>1. ScanOK(scan') /\ scan'.runs = scan.runs
    BY <1>1, <1>4, ReaderTakes
  <2>2. faults' \in 0..MaxFaults /\ faults' # 0
    BY <1>4, FaultCounted
  <2> QED BY <2>1, <2>2 DEF ScanKept
<1> QED BY <1>2, <1>3, <1>4 DEF ReadBatch, Becomes

LEMMA SendLoadedKept ==
  ASSUME ScanOK(scan), faults \in 0..MaxFaults, SendLoaded
  PROVE  ScanKept
<1>1. scan.reader.at = "send" /\ faults' = faults
  BY DEF SendLoaded
<1>2. CASE ~scan.rx /\ Becomes(scan', [scan EXCEPT !.reader = [at |-> "end", item |-> 0]])
  <2>1. ScanOK(scan') /\ scan'.runs = scan.runs /\ (ScanClean(scan) => ScanClean(scan'))
    BY <1>2, ReaderDropped
  <2> QED BY <1>1, <2>1 DEF ScanKept
<1>3. CASE Becomes(scan', [scan EXCEPT !.loaded = Append(scan.loaded, scan.reader.item),
                             !.reader = [at |-> IF scan.reader.item = 0 THEN "end" ELSE "loop", item |-> 0]])
  <2>1. ScanOK(scan') /\ scan'.runs = scan.runs /\ (ScanClean(scan) => ScanClean(scan'))
    BY <1>1, <1>3, ReaderSends
  <2> QED BY <1>1, <2>1 DEF ScanKept
<1> QED BY <1>2, <1>3 DEF SendLoaded, Becomes

LEMMA ComputeBatchKept ==
  ASSUME ScanOK(scan), faults \in 0..MaxFaults, NEW w \in Workers, ComputeBatch(w)
  PROVE  ScanKept
<1>1. scan.worker[w].at = "loop"
  BY DEF ComputeBatch
<1>2. CASE /\ scan.cancel \/ (scan.loaded = <<>> /\ ReaderGone)
           /\ UNCHANGED faults
           /\ Becomes(scan', [scan EXCEPT !.worker = [scan.worker EXCEPT ![w].at = "end"]])
  <2>1. ScanOK(scan') /\ scan'.runs = scan.runs /\ (ScanClean(scan) => ScanClean(scan'))
    BY <1>1, <1>2, WorkerStops DEF ReaderGone
  <2> QED BY <1>2, <2>1 DEF ScanKept
<1>3. CASE /\ scan.loaded # <<>> /\ UNCHANGED faults
           /\ Becomes(scan', [scan EXCEPT !.loaded = Tail(scan.loaded),
                                          !.worker = [scan.worker EXCEPT ![w] = [at |-> "send", item |-> Head(scan.loaded)]]])
  <2>1. ScanOK(scan') /\ scan'.runs = scan.runs /\ (ScanClean(scan) => ScanClean(scan'))
    BY <1>1, <1>3, WorkerTakes
  <2> QED BY <1>3, <2>1 DEF ScanKept
<1>4. CASE /\ scan.loaded # <<>> /\ Fault
           /\ Becomes(scan', [scan EXCEPT !.loaded = Tail(scan.loaded),
                                          !.worker = [scan.worker EXCEPT ![w] = [at |-> "send", item |-> 0]]])
  <2>1. ScanOK(scan') /\ scan'.runs = scan.runs
    BY <1>1, <1>4, WorkerTakes
  <2>2. faults' \in 0..MaxFaults /\ faults' # 0
    BY <1>4, FaultCounted
  <2> QED BY <2>1, <2>2 DEF ScanKept
<1> QED BY <1>2, <1>3, <1>4 DEF ComputeBatch, Becomes

LEMMA SendComputedKept ==
  ASSUME ScanOK(scan), faults \in 0..MaxFaults, NEW w \in Workers, SendComputed(w)
  PROVE  ScanKept
<1>1. scan.worker[w].at = "send" /\ faults' = faults
  BY DEF SendComputed
<1>2. CASE ~scan.rx /\ Becomes(scan', [scan EXCEPT !.worker = [scan.worker EXCEPT ![w] = [at |-> "end", item |-> 0]]])
  <2>1. ScanOK(scan') /\ scan'.runs = scan.runs /\ (ScanClean(scan) => ScanClean(scan'))
    BY <1>2, WorkerDropped
  <2> QED BY <1>1, <2>1 DEF ScanKept
<1>3. CASE /\ Len(scan.computed) < ReorderCapacity
           /\ Becomes(scan', [scan EXCEPT !.computed = Append(scan.computed, scan.worker[w].item),
                                !.worker = [scan.worker EXCEPT ![w] =
                                   [at |-> IF scan.worker[w].item = 0 THEN "end" ELSE "loop", item |-> 0]]])
  <2> DEFINE x == scan.worker[w].item
             a == IF x = 0 THEN "end" ELSE "loop"
  <2>1. Becomes(scan', [scan EXCEPT !.computed = Append(scan.computed, x),
                                    !.worker = [scan.worker EXCEPT ![w] = [at |-> a, item |-> 0]]])
    BY <1>3
  <2>2. x = scan.worker[w].item /\ a = (IF x = 0 THEN "end" ELSE "loop")
    OBVIOUS
  <2> HIDE DEF x, a
  <2>3. ScanOK(scan') /\ scan'.runs = scan.runs /\ (ScanClean(scan) => ScanClean(scan'))
    BY <1>1, <1>3, <2>1, <2>2, WorkerSends
  <2> QED BY <1>1, <2>3 DEF ScanKept
<1> QED BY <1>2, <1>3 DEF SendComputed, Becomes

\* Without a fault the workers are gone only when everything is applied.
LEMMA CleanEnd ==
  ASSUME NEW s, ScanOK(s), ScanClean(s), s.at = "recv", s.computed = <<>>, \A w \in Workers : s.worker[w].at = "end"
  PROVE  s.exhausted /\ s.applied = s.sent
<1>1. s \in ScanRecords(s.runs) /\ ScanPhase(s) /\ ScanBounds(s) /\ ScanTaken(s)
  BY DEF ScanOK
<1>2. Whole(s) /\ Ends(s) /\ s.rx
  BY <1>1 DEF ScanClean, ScanPhase
<1>3. s.loaded = <<>> /\ s.reader.at = "end"
  BY <1>2, ScanConstants DEF Ends
<1>4. s.plans = <<>> /\ ~s.planTx
  BY <1>2, <1>3 DEF Ends
<1>5. s.exhausted
  BY <1>1, <1>4 DEF ScanPhase
<1>6. s.sent \in Nat /\ s.applied \in Nat /\ s.applied <= s.sent
  BY <1>1 DEF ScanBounds, ScanRecords
<1>7. Taken(s) = s.sent
  <2>1. Len(s.plans) = 0 /\ Len(s.loaded) = 0
    BY <1>3, <1>4
  <2> DEFINE a == s.sent
  <2>2. Taken(s) = ((a - 0) - 0) - 0
    BY <1>3, <2>1 DEF Taken, ReadOn
  <2>3. a \in Int
    BY <1>6
  <2> HIDE DEF a
  <2>4. ((a - 0) - 0) - 0 = a
    BY <2>3
  <2> QED BY <2>2, <2>4 DEF a
<1>8. CASE s.applied # s.sent
  <2> DEFINE b == s.applied + 1
  <2>1. b \in Ahead(s) /\ b # 0
    BY <1>6, <1>7, <1>8 DEF Ahead
  <2>2. b \notin s.held
    BY <1>2 DEF Whole
  <2> HIDE DEF b
  <2>3. \A w \in Workers : s.worker[w].item # b
    BY <1>1, <1>2, <2>1 DEF ScanTaken
  <2>4. ~\E i \in 1..Len(s.computed) : s.computed[i] = b
    OBVIOUS
  <2> QED BY <1>2, <2>1, <2>2, <2>3, <2>4 DEF Whole
<1> QED BY <1>5, <1>8

\* A message of the workers, or their end.
LEMMA ReceiveComputedKept ==
  ASSUME ScanOK(scan), faults \in 0..MaxFaults, ReceiveComputed
  PROVE  ScanKept
<1>1. scan.runs \in Seq(Words) /\ scan \in ScanRecords(scan.runs) /\ ScanPhase(scan) /\ ScanBounds(scan)
  BY DEF ScanOK
<1>2. scan.at = "recv" /\ ~Finished /\ scan.rx /\ scan.computed \in Seq(Nat)
  BY <1>1 DEF ReceiveComputed, ScanPhase, ScanRecords
<1>3. CASE /\ scan.computed = <<>> /\ WorkersGone /\ UNCHANGED faults
           /\ scan' = [scan EXCEPT !.err = TRUE, !.at = "drain", !.cancel = TRUE, !.planTx = FALSE, !.pending = 0]
  <2>1. scan' \in ScanRecords(scan.runs)
    BY <1>1, <1>3 DEF ScanRecords
  <2>2. Drained(scan, scan')
    <3>1. /\ scan'.at = "drain" /\ scan'.rx = TRUE /\ scan'.planTx = FALSE /\ scan'.err = TRUE
          /\ scan'.computed = scan.computed
      BY <1>1, <1>2, <1>3 DEF ScanRecords
    <3>2. /\ scan'.sent = scan.sent /\ scan'.applied = scan.applied /\ scan'.exhausted = scan.exhausted
          /\ scan'.plans = scan.plans
          /\ scan'.spool = scan.spool /\ scan'.segments = scan.segments
      BY <1>1, <1>3 DEF ScanRecords
    <3>3. /\ scan'.reader = scan.reader /\ scan'.worker = scan.worker /\ scan'.loaded = scan.loaded
          /\ scan'.held = scan.held
      BY <1>1, <1>3 DEF ScanRecords
    <3> QED BY <2>1, <3>1, <3>2, <3>3 DEF Drained
  <2>3. ScanOK(scan') /\ scan'.runs = scan.runs
    BY <1>2, <2>2, DrainedOK
  <2>4. ~ScanClean(scan)
    BY <1>2, <1>3, CleanEnd DEF Finished, WorkersGone
  <2> QED BY <1>3, <2>3, <2>4 DEF ScanKept
<1>4. CASE /\ scan.computed # <<>> /\ Head(scan.computed) = 0 /\ UNCHANGED faults
           /\ scan' = [scan EXCEPT !.computed = Tail(@), !.err = TRUE, !.at = "drain",
                                   !.cancel = TRUE, !.planTx = FALSE, !.pending = 0]
  <2>0. Tail(scan.computed) \in Seq(Nat) /\ Len(scan.computed) \in Nat \ {0} /\ Head(scan.computed) = scan.computed[1]
    BY <1>2, <1>4, TailFacts
  <2>1. scan' \in ScanRecords(scan.runs)
    BY <1>1, <1>4, <2>0, ZenonT(40) DEF ScanRecords
  <2>2. Drained(scan, scan')
    <3>1. /\ scan'.at = "drain" /\ scan'.rx = TRUE /\ scan'.planTx = FALSE /\ scan'.err = TRUE
          /\ scan'.computed = Tail(scan.computed)
      BY <1>1, <1>2, <1>4 DEF ScanRecords
    <3>2. /\ scan'.sent = scan.sent /\ scan'.applied = scan.applied /\ scan'.exhausted = scan.exhausted
          /\ scan'.plans = scan.plans
          /\ scan'.spool = scan.spool /\ scan'.segments = scan.segments
      BY <1>1, <1>4 DEF ScanRecords
    <3>3. /\ scan'.reader = scan.reader /\ scan'.worker = scan.worker /\ scan'.loaded = scan.loaded
          /\ scan'.held = scan.held
      BY <1>1, <1>4 DEF ScanRecords
    <3> QED BY <1>4, <2>1, <3>1, <3>2, <3>3 DEF Drained
  <2>3. ScanOK(scan') /\ scan'.runs = scan.runs
    BY <1>2, <2>2, DrainedOK
  <2>4. ~ScanClean(scan)
    <3>1. 1 \in 1..Len(scan.computed) /\ scan.computed[1] = 0
      BY <1>4, <2>0
    <3> QED BY <1>2, <3>1 DEF ScanClean, Sound
  <2> QED BY <1>4, <2>3, <2>4 DEF ScanKept
<1>5. CASE scan.computed # <<>> /\ Head(scan.computed) # 0
  <2> DEFINE h == Head(scan.computed)
             got == [scan EXCEPT !.computed = Tail(scan.computed), !.held = scan.held \cup {h}]
  <2>1. /\ Tail(scan.computed) \in Seq(Nat) /\ h \in Nat /\ Len(Tail(scan.computed)) = Len(scan.computed) - 1
        /\ Len(scan.computed) \in Nat
    BY <1>2, <1>5, TailFacts
  <2>2. CASE scan' = [DrainOrdered(got) EXCEPT !.at = "fill"] /\ UNCHANGED faults
    <3>1. Becomes(got, [scan EXCEPT !.computed = Tail(scan.computed), !.held = scan.held \cup {h}])
      BY DEF Becomes
    <3>2. h = Head(scan.computed) /\ h # 0
      BY <1>5
    <3> HIDE DEF got, h
    <3>3. Becomes(scan', [DrainOrdered(got) EXCEPT !.at = "fill"])
      BY <2>2 DEF Becomes
    <3>4. ScanOK(scan') /\ scan'.runs = scan.runs /\ (ScanClean(scan) => ScanClean(scan'))
      BY <1>2, <1>5, <3>1, <3>2, <3>3, DrainOrderedOK
    <3> QED BY <2>2, <3>4 DEF ScanKept
  <2>3. CASE scan' = [LeaveScope(got) EXCEPT !.err = TRUE] /\ Fault
    <3>1. got \in ScanRecords(scan.runs)
      BY <1>1, <2>1 DEF ScanRecords
    <3>2. scan' \in ScanRecords(scan.runs)
      <4> HIDE DEF got
      <4> QED BY <2>3, <3>1 DEF LeaveScope, ScanRecords
    <3>3. Left(scan, scan')
      <4>1. /\ got.sent = scan.sent /\ got.applied = scan.applied /\ got.exhausted = scan.exhausted
            /\ got.plans = scan.plans
            /\ got.spool = scan.spool /\ got.segments = scan.segments /\ got.computed = Tail(scan.computed)
        BY <1>1 DEF ScanRecords
      <4> HIDE DEF got
      <4>2. scan'.at = "join" /\ scan'.rx = FALSE /\ scan'.planTx = FALSE /\ scan'.err
        BY <2>3, <3>1 DEF LeaveScope, ScanRecords
      <4>3. /\ scan'.sent = got.sent /\ scan'.applied = got.applied /\ scan'.exhausted = got.exhausted
            /\ scan'.plans = got.plans
            /\ scan'.spool = got.spool /\ scan'.segments = got.segments /\ scan'.computed = got.computed
        BY <2>3, <3>1 DEF LeaveScope, ScanRecords
      <4>4. Len(scan'.computed) <= ReorderCapacity
        BY <1>1, <2>1, <4>1, <4>3, ScanConstants DEF ScanBounds
      <4> QED BY <3>2, <4>1, <4>2, <4>3, <4>4 DEF Left
    <3>4. ScanOK(scan') /\ scan'.runs = scan.runs
      BY <3>3, LeavesOK
    <3>5. faults' \in 0..MaxFaults /\ faults' # 0
      BY <2>3, FaultCounted
    <3> QED BY <3>4, <3>5 DEF ScanKept
  <2> QED BY <1>5, <2>2, <2>3 DEF ReceiveComputed
<1> QED BY <1>3, <1>4, <1>5 DEF ReceiveComputed

LEMMA DrainComputedKept ==
  ASSUME ScanOK(scan), faults \in 0..MaxFaults, DrainComputed
  PROVE  ScanKept
<1>1. scan.runs \in Seq(Words) /\ scan \in ScanRecords(scan.runs) /\ ScanPhase(scan) /\ ScanBounds(scan)
  BY DEF ScanOK
<1>2. scan.at = "drain" /\ faults' = faults /\ scan.rx /\ scan.err /\ scan.computed \in Seq(Nat)
  BY <1>1 DEF DrainComputed, ScanPhase, ScanRecords
<1>3. ~ScanClean(scan)
  BY <1>2 DEF ScanClean, Sound
<1>4. CASE scan.computed # <<>> /\ scan' = [scan EXCEPT !.computed = Tail(@)]
  <2>0. Tail(scan.computed) \in Seq(Nat)
    BY <1>2, <1>4, TailFacts
  <2>1. scan' \in ScanRecords(scan.runs)
    BY <1>1, <1>4, <2>0 DEF ScanRecords
  <2>2. Drained(scan, scan')
    <3>1. /\ scan'.at = "drain" /\ scan'.rx = TRUE /\ scan'.err = TRUE /\ scan'.computed = Tail(scan.computed)
          /\ scan'.planTx = scan.planTx
      BY <1>1, <1>2, <1>4 DEF ScanRecords
    <3>2. /\ scan'.sent = scan.sent /\ scan'.applied = scan.applied /\ scan'.exhausted = scan.exhausted
          /\ scan'.plans = scan.plans
          /\ scan'.spool = scan.spool /\ scan'.segments = scan.segments
      BY <1>1, <1>4 DEF ScanRecords
    <3>3. /\ scan'.reader = scan.reader /\ scan'.worker = scan.worker /\ scan'.loaded = scan.loaded
          /\ scan'.held = scan.held
      BY <1>1, <1>4 DEF ScanRecords
    <3> QED BY <1>4, <2>1, <3>1, <3>2, <3>3 DEF Drained
  <2>3. ScanOK(scan') /\ scan'.runs = scan.runs
    BY <1>2, <2>2, DrainedOK
  <2> QED BY <1>2, <1>3, <2>3 DEF ScanKept
<1>5. CASE scan' = LeaveScope(scan)
  <2>1. scan' \in ScanRecords(scan.runs)
    BY <1>1, <1>5 DEF LeaveScope, ScanRecords
  <2>2. Left(scan, scan')
    <3>1. scan'.at = "join" /\ scan'.rx = FALSE /\ scan'.planTx = FALSE /\ scan'.err
      BY <1>1, <1>2, <1>5 DEF LeaveScope, ScanRecords
    <3>2. /\ scan'.sent = scan.sent /\ scan'.applied = scan.applied /\ scan'.exhausted = scan.exhausted
          /\ scan'.plans = scan.plans
          /\ scan'.spool = scan.spool /\ scan'.segments = scan.segments /\ scan'.computed = scan.computed
      BY <1>1, <1>5 DEF LeaveScope, ScanRecords
    <3> QED BY <1>1, <2>1, <3>1, <3>2 DEF Left, ScanBounds
  <2>3. ScanOK(scan') /\ scan'.runs = scan.runs
    BY <2>2, LeavesOK
  <2> QED BY <1>2, <1>3, <2>3 DEF ScanKept
<1> QED BY <1>4, <1>5 DEF DrainComputed

LEMMA AllAppliedKept ==
  ASSUME ScanOK(scan), faults \in 0..MaxFaults, AllApplied
  PROVE  ScanKept
<1>1. scan.runs \in Seq(Words) /\ scan \in ScanRecords(scan.runs) /\ ScanPhase(scan) /\ ScanBounds(scan)
  BY DEF ScanOK
<1>2. scan' = LeaveScope(scan) /\ faults' = faults /\ scan.exhausted /\ scan.applied = scan.sent
  BY DEF AllApplied, Finished
<1>3. scan' \in ScanRecords(scan.runs)
  BY <1>1, <1>2 DEF LeaveScope, ScanRecords
<1>4. /\ scan'.at = "join" /\ scan'.rx = FALSE /\ scan'.planTx = FALSE /\ scan'.err = scan.err
      /\ scan'.cancel = scan.cancel
  BY <1>1, <1>2 DEF LeaveScope, ScanRecords
<1>5. /\ scan'.sent = scan.sent /\ scan'.applied = scan.applied /\ scan'.exhausted = scan.exhausted
      /\ scan'.plans = scan.plans
      /\ scan'.spool = scan.spool /\ scan'.segments = scan.segments /\ scan'.computed = scan.computed
  BY <1>1, <1>2 DEF LeaveScope, ScanRecords
<1>6. Left(scan, scan')
  BY <1>1, <1>2, <1>3, <1>4, <1>5 DEF Left, ScanBounds
<1>7. ScanOK(scan') /\ scan'.runs = scan.runs /\ (~scan'.err /\ ~scan'.cancel => ScanClean(scan'))
  BY <1>6, LeavesOK
<1>8. ScanClean(scan) => ScanClean(scan')
  BY <1>4, <1>7 DEF ScanClean, Sound
<1> QED BY <1>2, <1>7, <1>8 DEF ScanKept

\* Every step of the level scan keeps the scan in order.
LEMMA ScanStepKept ==
  ASSUME ScanOK(scan), faults \in 0..MaxFaults, ScanStep
  PROVE  ScanKept
BY FillQueueKept, ReadBatchKept, SendLoadedKept, ComputeBatchKept, SendComputedKept,
   ReceiveComputedKept, DrainComputedKept, AllAppliedKept DEF ScanStep

\* The start of a scan.
LEMMA StartScanOK ==
  ASSUME NEW runs \in Seq(Words)
  PROVE  ScanOK(StartScan(runs)) /\ ScanClean(StartScan(runs)) /\ StartScan(runs).runs = runs
<1> DEFINE s == StartScan(runs)
<1>1. /\ s.at = "fill" /\ s.runs = runs /\ s.batches = BatchesOf(runs) /\ s.next = 1 /\ s.sent = 0 /\ s.applied = 0
      /\ s.pending = 0 /\ s.exhausted = FALSE /\ s.planTx = TRUE /\ s.rx = TRUE /\ s.cancel = FALSE /\ s.err = FALSE
  BY DEF StartScan
<1>2. /\ s.plans = <<>> /\ s.loaded = <<>> /\ s.computed = <<>> /\ s.held = {}
      /\ s.reader = [at |-> "loop", item |-> 0] /\ s.worker = [w \in Workers |-> [at |-> "loop", item |-> 0]]
      /\ s.spool = <<>> /\ s.segments = [r \in DOMAIN runs |-> <<>>]
  BY DEF StartScan
<1>3. s \in ScanRecords(s.runs)
  <2>1. [r \in DOMAIN runs |-> <<>>] \in [1..Len(runs) -> Seq(Extents)]
    OBVIOUS
  <2>2. /\ [at |-> "loop", item |-> 0] \in Threads3
        /\ [w \in Workers |-> [at |-> "loop", item |-> 0]] \in [Workers -> Threads3]
    BY DEF Threads3
  <2>3. <<>> \in Seq(Nat) /\ <<>> \in Seq(Pairs) /\ {} \in SUBSET Nat
    OBVIOUS
  <2> QED BY <2>1, <2>2, <2>3 DEF StartScan, ScanRecords
<1>4. Len(s.batches) \in Nat
  BY <1>1, BatchesFacts
<1> HIDE DEF s
<1>5. Len(s.plans) = 0 /\ Len(s.loaded) = 0 /\ Len(s.computed) = 0
  BY <1>2
<1>6. ReadOn(s) = 0 /\ s.reader.at = "loop" /\ s.reader.item = 0
  <2>1. s.reader.at = "loop" /\ s.reader.item = 0
    BY <1>2
  <2>2. ReadOn(s) = (0 - 0) - 0
    BY <1>1, <1>5, <2>1 DEF ReadOn
  <2> QED BY <2>1, <2>2
<1>7. Taken(s) = 0 /\ Ahead(s) = {}
  BY <1>1, <1>5, <1>6 DEF Taken, Ahead
<1>8. \A w \in Workers : s.worker[w].at = "loop" /\ s.worker[w].item = 0
  BY <1>2
<1>9. ScanBounds(s) /\ ScanPhase(s) /\ ScanPlans(s)
  BY <1>1, <1>4, <1>5, ScanConstants DEF ScanBounds, ScanPhase, ScanPlans
<1>10. ScanQueued(s) /\ ScanTaken(s) /\ ScanApart(s)
  BY <1>1, <1>2, <1>5, <1>6, <1>7, <1>8 DEF ScanQueued, ScanTaken, ScanApart
<1>11. ScanSpooled(s)
  BY <1>1, <1>2, NothingSpooled DEF ScanSpooled
<1>12. ScanOK(s)
  BY <1>1, <1>3, <1>9, <1>10, <1>11 DEF ScanOK
<1>13. ScanClean(s)
  <2>1. Sound(s)
    BY <1>1, <1>5, <1>6, <1>8 DEF Sound
  <2>2. Whole(s)
    BY <1>2, <1>7 DEF Whole
  <2>3. Ends(s)
    BY <1>6, <1>8 DEF Ends
  <2> QED BY <2>1, <2>2, <2>3 DEF ScanClean
<1> QED BY <1>1, <1>12, <1>13 DEF s
-----------------------------------------------------------------------------
(* The gate and the prefetched calls. *)

LEMMA PermitNat ==
  ASSUME NEW p \in Permits
  PROVE  Permit(p) \in Nat
BY DEF Permit, Permits, Bad

\* The bytes of a queue, with a batch at its end and without the first one.
LEMMA QueueNat ==
  ASSUME NEW q \in Seq(Permits)
  PROVE  QueueBytes(q) \in Nat
<1> DEFINE n == Len(q)
           f == [i \in 1..n |-> Permit(q[i])]
<1>1. n \in Nat /\ IsFiniteSet(1..n)
  BY FS_Interval
<1>2. \A i \in 1..n : f[i] \in Nat
  BY PermitNat
<1> HIDE DEF f, n
<1>3. Sum(f, 1..n) \in Nat
  BY <1>1, <1>2, SumNat
<1> QED BY <1>3 DEF QueueBytes, f, n
LEMMA QueueEmpty ==
  QueueBytes(<<>>) = 0
<1> DEFINE f == [i \in 1..Len(<<>>) |-> Permit(<<>>[i])]
<1>1. 1..Len(<<>>) = {}
  OBVIOUS
<1> HIDE DEF f
<1>2. Sum(f, {}) = 0
  BY SumEmpty
<1>3. QueueBytes(<<>>) = Sum(f, 1..Len(<<>>))
  BY DEF QueueBytes, f
<1> QED BY <1>1, <1>2, <1>3
LEMMA QueueAppend ==
  ASSUME NEW q \in Seq(Permits), NEW p \in Permits
  PROVE  QueueBytes(Append(q, p)) = QueueBytes(q) + Permit(p)
<1> DEFINE n == Len(q)
           m == n + 1
           r == Append(q, p)
           f == [i \in 1..n |-> Permit(q[i])]
           g == [i \in 1..m |-> Permit(r[i])]
<1>1. /\ n \in Nat /\ r \in Seq(Permits) /\ Len(r) = m /\ DOMAIN q = 1..n
      /\ (\A i \in 1..n : r[i] = q[i]) /\ r[m] = p
  BY AppendFacts
<1> HIDE DEF r, n
<1>2. m \notin 1..n /\ 1..m = (1..n) \cup {m} /\ m \in 1..m /\ m \in Nat /\ \A i \in 1..n : i \in 1..m
  BY <1>1
<1>3. \A i \in 1..m : r[i] \in Permits
  BY <1>1
<1>4. \A i \in 1..m : g[i] \in Nat /\ g[i] = Permit(r[i])
  BY <1>3, PermitNat
<1>5. \A i \in 1..n : f[i] = g[i]
  BY <1>1, <1>2
<1>6. g[m] = Permit(p)
  BY <1>1, <1>2
<1>7. QueueBytes(r) = Sum(g, 1..m) /\ QueueBytes(q) = Sum(f, 1..n)
  BY <1>1 DEF QueueBytes, n
<1>8. Sum(f, 1..n) \in Nat
  BY <1>7, QueueNat
<1> HIDE DEF f, g, m
<1>9. IsFiniteSet(1..n)
  BY <1>1, FS_Interval
<1>10. \A y \in (1..n) \cup {m} : g[y] \in Nat
  BY <1>2, <1>4
<1>11. Sum(g, (1..n) \cup {m}) = g[m] + Sum(g, 1..n)
  BY <1>2, <1>9, <1>10, SumAdd
<1>12. Sum(f, 1..n) = Sum(g, 1..n)
  BY <1>5, <1>9, SumSame
<1>13. Permit(p) \in Nat
  BY PermitNat
<1>14. Sum(g, 1..m) = Permit(p) + Sum(f, 1..n)
  BY <1>2, <1>6, <1>11, <1>12
<1>15. Permit(p) + Sum(f, 1..n) = Sum(f, 1..n) + Permit(p)
  BY <1>8, <1>13
<1> QED BY <1>7, <1>14, <1>15 DEF r
LEMMA QueueTail ==
  ASSUME NEW q \in Seq(Permits), q # <<>>
  PROVE  QueueBytes(q) = Permit(Head(q)) + QueueBytes(Tail(q))
<1> DEFINE n == Len(q)
           m == n - 1
           t == Tail(q)
           f == [i \in 1..n |-> Permit(q[i])]
           b == [i \in 1..m |-> Permit(t[i])]
           r == [i \in 1..m |-> i + 1]
           R == {r[k] : k \in 1..m} \ {0}
<1>1. /\ n \in Nat \ {0} /\ Head(q) = q[1] /\ t \in Seq(Permits) /\ Len(t) = m /\ DOMAIN t = 1..m
      /\ \A i \in 1..m : t[i] = q[i + 1]
  BY TailFacts
<1>2. QueueBytes(q) = Sum(f, 1..n) /\ QueueBytes(t) = Sum(b, 1..m)
  BY <1>1 DEF QueueBytes
<1>3. \A i \in 1..n : q[i] \in Permits
  OBVIOUS
<1> HIDE DEF t, n
<1>4. m \in Nat /\ 1 \in 1..n
  BY <1>1
<1>5. \A i \in 1..n : f[i] \in Nat /\ f[i] = Permit(q[i])
  BY <1>3, PermitNat
<1>6. \A k \in 1..m : r[k] = k + 1 /\ r[k] # 0 /\ r[k] \in 1..n
  BY <1>1
<1>7. \A k \in 1..m : b[k] = f[r[k]]
  BY <1>1, <1>5, <1>6
<1>8. R = (1..n) \ {1}
  <2>1. \A k \in (1..n) \ {1} : k - 1 \in 1..m /\ (k - 1) + 1 = k
    BY <1>1
  <2>2. \A k \in (1..n) \ {1} : k \in R
    BY <1>6, <2>1
  <2>3. \A k \in 1..m : r[k] \in (1..n) \ {1}
    BY <1>1, <1>6
  <2> QED BY <2>2, <2>3
<1>9. \A j, k \in 1..m : r[j] = r[k] /\ r[j] # 0 => j = k
  BY <1>4, <1>6
<1> HIDE DEF f, b, r, m
<1>10. IsFiniteSet(1..m) /\ IsFiniteSet(1..n)
  BY <1>1, <1>4, FS_Interval
<1>11. \A k \in 1..m : r[k] # 0 => f[r[k]] \in Nat
  BY <1>5, <1>6
<1>12. \A k \in 1..m : b[k] = IF r[k] = 0 THEN 0 ELSE f[r[k]]
  BY <1>6, <1>7
<1>13. Sum(b, 1..m) = Sum(f, R)
  <2> DEFINE K == 1..m
  <2>1. /\ IsFiniteSet(K) /\ (\A k \in K : r[k] # 0 => f[r[k]] \in Nat)
        /\ (\A k \in K : b[k] = IF r[k] = 0 THEN 0 ELSE f[r[k]])
        /\ (\A j, k \in K : r[j] = r[k] /\ r[j] # 0 => j = k)
    BY <1>9, <1>10, <1>11, <1>12
  <2> HIDE DEF K
  <2>2. Sum(b, K) = Sum(f, {r[k] : k \in K} \ {0})
    BY <2>1, SumImage
  <2> QED BY <2>2 DEF K
<1>14. \A i \in 1..n : f[i] \in Nat
  BY <1>5
<1>15. Sum(f, 1..n) = f[1] + Sum(f, (1..n) \ {1})
  BY <1>4, <1>10, <1>14, SumRemove
<1>16. f[1] = Permit(Head(q))
  BY <1>1, <1>4, <1>5
<1> HIDE DEF R
<1> QED BY <1>2, <1>8, <1>13, <1>15, <1>16 DEF t

\* What a call holds, and a call that takes the place of another one.
LEMMA HeldNat ==
  ASSUME NEW c \in Calls
  PROVE  HeldBytes(c) \in Nat
<1>1. CASE c = NoCall
  BY <1>1 DEF HeldBytes
<1>2. CASE c # NoCall
  <2>1. c.item \in Permits /\ c.queue \in Seq(Permits)
    BY <1>2 DEF Calls, Running
  <2> QED BY <1>2, <2>1, PermitNat, QueueNat DEF HeldBytes
<1> QED BY <1>1, <1>2
LEMMA CallersFinite == IsFiniteSet(Callers) /\ GateBytes \in Nat
BY PrefetchAssumption
LEMMA HeldBelow ==
  ASSUME NEW calls, NEW g, CallsOK(calls, g), NEW c \in Callers
  PROVE  HeldBytes(calls[c]) \in Nat /\ HeldBytes(calls[c]) <= g /\ g \in Nat
<1> DEFINE H == HeldOf(calls)
<1>1. \A x \in Callers : H[x] \in Nat
  BY HeldNat DEF CallsOK, HeldOf
<1>2. H[c] = HeldBytes(calls[c])
  BY DEF HeldOf
<1>3. Sum(H, Callers) <= g /\ g \in Nat
  BY CallersFinite DEF CallsOK
<1> HIDE DEF H
<1>4. Sum(H, Callers) = H[c] + Sum(H, Callers \ {c})
  BY <1>1, CallersFinite, SumRemove
<1>5. IsFiniteSet(Callers \ {c})
  BY CallersFinite, FS_RemoveElement
<1>6. Sum(H, Callers \ {c}) \in Nat
  BY <1>1, <1>5, SumNat
<1> QED BY <1>1, <1>2, <1>3, <1>4, <1>6
LEMMA CallReplaced ==
  ASSUME NEW calls, NEW g, CallsOK(calls, g), NEW c \in Callers, NEW x \in Calls, NEW h \in 0..GateBytes,
         HeldBytes(x) + g <= HeldBytes(calls[c]) + h
  PROVE  CallsOK([calls EXCEPT ![c] = x], h)
<1> DEFINE new == [calls EXCEPT ![c] = x]
           H == HeldOf(calls)
           K == HeldOf(new)
<1>1. calls \in [Callers -> Calls] /\ new \in [Callers -> Calls]
  BY DEF CallsOK
<1>2. new[c] = x /\ \A y \in Callers : y # c => new[y] = calls[y]
  BY <1>1
<1> HIDE DEF new
<1>3. \A y \in Callers : H[y] \in Nat /\ K[y] \in Nat
  BY <1>1, HeldNat DEF HeldOf
<1>4. \A y \in Callers : y # c => K[y] = H[y]
  BY <1>2 DEF HeldOf
<1>5. H[c] = HeldBytes(calls[c]) /\ K[c] = HeldBytes(x)
  BY <1>2 DEF HeldOf
<1>6. Sum(H, Callers) <= g /\ g \in Nat /\ h \in Nat
  BY CallersFinite DEF CallsOK
<1>7. HeldBytes(x) \in Nat /\ HeldBytes(calls[c]) \in Nat
  BY <1>1, HeldNat
<1> HIDE DEF H, K
<1>8. Sum(K, Callers) + H[c] = Sum(H, Callers) + K[c]
  BY <1>3, <1>4, CallersFinite, SumUpdate
<1>9. Sum(K, Callers) \in Nat /\ Sum(H, Callers) \in Nat
  BY <1>3, CallersFinite, SumNat
<1>10. Sum(K, Callers) <= h
  BY <1>5, <1>6, <1>7, <1>8, <1>9
<1> QED BY <1>1, <1>10 DEF CallsOK, K, new
LEMMA NoCalls ==
  ASSUME NEW g \in 0..GateBytes
  PROVE  CallsOK([c \in Callers |-> NoCall], g)
<1> DEFINE calls == [c \in Callers |-> NoCall]
           H == HeldOf(calls)
<1>1. calls \in [Callers -> Calls]
  BY DEF Calls
<1>2. \A c \in Callers : H[c] = 0
  BY DEF HeldOf, HeldBytes
<1> HIDE DEF H
<1>3. Sum(H, Callers) = 0
  BY <1>2, CallersFinite, SumZero
<1> QED BY <1>1, <1>3, CallersFinite DEF CallsOK, H

\* What every step of the prefetched calls does.
CallKept ==
  /\ CallsOK(call', gate') /\ faults' \in 0..MaxFaults /\ (faults' = 0 => faults = 0)
  /\ faults' = 0 /\ CallsClean(call) => CallsClean(call')
LEMMA CallStep ==
  ASSUME CallsOK(call, gate), NEW c \in Callers, NEW x \in Calls, call' = [call EXCEPT ![c] = x],
         gate' \in 0..GateBytes, HeldBytes(x) + gate <= HeldBytes(call[c]) + gate',
         faults' \in 0..MaxFaults, faults' = 0 => faults = 0,
         faults' = 0 /\ CallClean(call[c]) => CallClean(x)
  PROVE  CallKept
<1>1. CallsOK(call', gate')
  BY CallReplaced
<1>2. call \in [Callers -> Calls]
  BY DEF CallsOK
<1>3. \A y \in Callers : call'[y] = IF y = c THEN x ELSE call[y]
  BY <1>2
<1>4. faults' = 0 /\ CallsClean(call) => CallsClean(call')
  BY <1>3 DEF CallsClean
<1> QED BY <1>1, <1>4 DEF CallKept

\* A running call, by its parts.
LEMMA RunningFacts ==
  ASSUME NEW c \in Calls, c # NoCall
  PROVE  /\ c \in Running /\ c.left \in Seq(Words) /\ c.got \in Nat /\ c.total \in Nat /\ c.item \in Permits
         /\ c.queue \in Seq(Permits) /\ c.failed \in BOOLEAN /\ (c.producer = "send" => c.left # <<>>)
         /\ HeldBytes(c) = Permit(c.item) + QueueBytes(c.queue)
         /\ Permit(c.item) \in Nat /\ QueueBytes(c.queue) \in Nat
<1>1. c \in Running /\ (c.producer = "send" => c.left # <<>>)
  BY DEF Calls
<1>2. /\ c.left \in Seq(Words) /\ c.got \in Nat /\ c.total \in Nat /\ c.item \in Permits
      /\ c.queue \in Seq(Permits) /\ c.failed \in BOOLEAN
  BY <1>1 DEF Running
<1>3. Permit(c.item) \in Nat /\ QueueBytes(c.queue) \in Nat
  BY <1>2, PermitNat, QueueNat
<1> QED BY <1>1, <1>2, <1>3 DEF HeldBytes
LEMMA RunsCall ==
  ASSUME CallsOK(call, gate), NEW c \in Callers, call[c].at # "none"
  PROVE  /\ call[c] \in Calls /\ call[c] # NoCall /\ gate \in Nat /\ gate <= GateBytes /\ GateBytes \in Nat
         /\ call \in [Callers -> Calls] /\ gate \in 0..GateBytes
BY CallersFinite DEF CallsOK, NoCall
LEMMA NotNoCall ==
  ASSUME NEW c \in Running
  PROVE  c # NoCall
BY DEF Running, NoCall

LEMMA AcquireKept ==
  ASSUME CallsOK(call, gate), faults \in 0..MaxFaults, NEW c \in Callers, AcquireAndRead(c)
  PROVE  CallKept
<1> DEFINE o == call[c]
           bytes == Len(Head(o.left))
           permit == IF o.mode = "strict" /\ bytes <= GateBytes THEN bytes ELSE 0
<1>0. o.at = "run" /\ o.left # <<>> /\ GateFits(permit)
  BY DEF AcquireAndRead
<1>1. o \in Calls /\ o # NoCall /\ gate \in Nat /\ gate <= GateBytes /\ GateBytes \in Nat /\ call \in [Callers -> Calls]
  BY <1>0, RunsCall
<1>2. /\ o \in Running /\ o.left \in Seq(Words)
      /\ HeldBytes(o) = Permit(o.item) + QueueBytes(o.queue) /\ Permit(o.item) \in Nat /\ QueueBytes(o.queue) \in Nat
  BY <1>1, RunningFacts
<1>3. Head(o.left) \in Words
  BY <1>0, <1>2, TailFacts
<1>4. bytes \in Nat
  BY <1>3 DEF Words
<1> HIDE DEF bytes
<1>5. permit \in Nat /\ gate + permit <= GateBytes
  BY <1>0, <1>1, <1>4 DEF GateFits
<1> HIDE DEF permit
<1>6. CASE /\ call' = [call EXCEPT ![c].producer = "send", ![c].item = permit]
           /\ gate' = gate + permit /\ UNCHANGED faults
  <2> DEFINE x == [o EXCEPT !.producer = "send", !.item = permit]
  <2>1. call' = [call EXCEPT ![c] = x]
    BY <1>1, <1>6
  <2>2. permit \in Permits /\ permit # Bad /\ Permit(permit) = permit
    BY <1>5 DEF Permits, Permit, Bad
  <2>3. x \in Running /\ x.item = permit /\ x.queue = o.queue /\ x.left = o.left /\ x.failed = o.failed /\ x.at = o.at
    BY <1>2, <2>2 DEF Running
  <2> HIDE DEF x, o
  <2>4. x \in Calls /\ x # NoCall
    BY <1>0, <2>3, NotNoCall DEF Calls
  <2>5. HeldBytes(x) = permit + QueueBytes(o.queue)
    BY <2>2, <2>3, <2>4 DEF HeldBytes
  <2>6. gate' \in 0..GateBytes /\ HeldBytes(x) + gate <= HeldBytes(o) + gate'
    BY <1>1, <1>2, <1>5, <1>6, <2>5
  <2>7. CallClean(o) => CallClean(x)
    BY <1>1, <2>2, <2>3, <2>4 DEF CallClean
  <2> QED BY <1>6, <2>1, <2>4, <2>6, <2>7, CallStep DEF o
<1>7. CASE /\ call' = [call EXCEPT ![c].producer = "send", ![c].item = Bad]
           /\ UNCHANGED gate /\ Fault
  <2> DEFINE x == [o EXCEPT !.producer = "send", !.item = Bad]
  <2>1. call' = [call EXCEPT ![c] = x]
    BY <1>1, <1>7
  <2>2. Bad \in Permits /\ Permit(Bad) = 0
    BY DEF Permits, Permit
  <2>3. x \in Running /\ x.item = Bad /\ x.queue = o.queue /\ x.left = o.left
    BY <1>2, <2>2 DEF Running
  <2> HIDE DEF x, o
  <2>4. x \in Calls /\ x # NoCall
    BY <1>0, <2>3, NotNoCall DEF Calls
  <2>5. HeldBytes(x) = 0 + QueueBytes(o.queue)
    BY <2>2, <2>3, <2>4 DEF HeldBytes
  <2>6. gate' \in 0..GateBytes /\ HeldBytes(x) + gate <= HeldBytes(o) + gate'
    BY <1>1, <1>2, <1>7, <2>5
  <2>7. faults' \in 0..MaxFaults /\ faults' # 0
    BY <1>7, FaultCounted
  <2> QED BY <2>1, <2>4, <2>6, <2>7, CallStep DEF o
<1> QED BY <1>6, <1>7 DEF AcquireAndRead, permit, bytes

LEMMA SendBatchKept ==
  ASSUME CallsOK(call, gate), faults \in 0..MaxFaults, NEW c \in Callers, SendBatch(c)
  PROVE  CallKept
<1> DEFINE o == call[c]
           x == [o EXCEPT !.queue = Append(o.queue, o.item), !.producer = "acquire", !.left = Tail(o.left), !.item = 0]
<1>0. o.at = "run" /\ o.producer = "send" /\ gate' = gate /\ faults' = faults
  BY DEF SendBatch
<1>1. o \in Calls /\ o # NoCall /\ gate \in 0..GateBytes /\ gate \in Nat /\ call \in [Callers -> Calls]
  BY <1>0, RunsCall
<1>2. /\ o \in Running /\ o.left \in Seq(Words) /\ o.left # <<>> /\ o.item \in Permits /\ o.queue \in Seq(Permits)
      /\ HeldBytes(o) = Permit(o.item) + QueueBytes(o.queue) /\ Permit(o.item) \in Nat /\ QueueBytes(o.queue) \in Nat
  BY <1>0, <1>1, RunningFacts
<1>3. Tail(o.left) \in Seq(Words)
  BY <1>2, TailFacts
<1>4. /\ Append(o.queue, o.item) \in Seq(Permits) /\ Len(Append(o.queue, o.item)) = Len(o.queue) + 1
      /\ Len(o.queue) \in Nat
      /\ (\A i \in 1..Len(o.queue) : Append(o.queue, o.item)[i] = o.queue[i])
      /\ Append(o.queue, o.item)[Len(o.queue) + 1] = o.item
  BY <1>2, AppendFacts
<1>5. call' = [call EXCEPT ![c] = x]
  BY <1>1 DEF SendBatch
<1>6. 0 \in Permits /\ 0 # Bad /\ Permit(0) = 0
  BY DEF Permits, Permit, Bad
<1>7. /\ x \in Running /\ x.item = 0 /\ x.queue = Append(o.queue, o.item) /\ x.producer = "acquire"
      /\ x.failed = o.failed /\ x.at = o.at
  BY <1>2, <1>3, <1>4, <1>6 DEF Running
<1> HIDE DEF x, o
<1>8. x \in Calls /\ x # NoCall
  BY <1>7, NotNoCall DEF Calls
<1>9. HeldBytes(x) = 0 + (QueueBytes(o.queue) + Permit(o.item))
  BY <1>2, <1>6, <1>7, <1>8, QueueAppend DEF HeldBytes
<1>10. HeldBytes(x) + gate <= HeldBytes(o) + gate'
  BY <1>0, <1>1, <1>2, <1>9
<1>11. CallClean(o) => CallClean(x)
  <2>1. CallClean(o) => \A i \in 1..Len(x.queue) : x.queue[i] # Bad
    <3> SUFFICES ASSUME CallClean(o), NEW i \in 1..Len(x.queue) PROVE x.queue[i] # Bad
      OBVIOUS
    <3>1. o.item # Bad /\ \A j \in 1..Len(o.queue) : o.queue[j] # Bad
      BY <1>1 DEF CallClean
    <3>2. i \in 1..Len(o.queue) \/ i = Len(o.queue) + 1
      BY <1>4, <1>7
    <3> QED BY <1>4, <1>7, <3>1, <3>2
  <2> QED BY <1>1, <1>6, <1>7, <1>8, <2>1 DEF CallClean
<1>12. gate' \in 0..GateBytes /\ faults' \in 0..MaxFaults /\ (faults' = 0 => faults = 0)
  BY <1>0, <1>1
<1> QED BY <1>5, <1>8, <1>10, <1>11, <1>12, CallStep DEF o

LEMMA ConsumeKept ==
  ASSUME CallsOK(call, gate), faults \in 0..MaxFaults, NEW c \in Callers, ConsumeBatch(c)
  PROVE  CallKept
<1> DEFINE o == call[c]
           h == Head(o.queue)
           q == Tail(o.queue)
<1>0. o.at = "run" /\ o.queue # <<>>
  BY DEF ConsumeBatch
<1>1. /\ o \in Calls /\ o # NoCall /\ gate \in 0..GateBytes /\ gate \in Nat /\ gate <= GateBytes
      /\ GateBytes \in Nat /\ call \in [Callers -> Calls]
  BY <1>0, RunsCall
<1>2. /\ o \in Running /\ o.got \in Nat /\ o.item \in Permits /\ o.queue \in Seq(Permits)
      /\ (o.producer = "send" => o.left # <<>>)
      /\ HeldBytes(o) = Permit(o.item) + QueueBytes(o.queue) /\ Permit(o.item) \in Nat /\ QueueBytes(o.queue) \in Nat
  BY <1>0, <1>1, RunningFacts
<1>3. /\ Len(o.queue) \in Nat \ {0} /\ h = o.queue[1] /\ h \in Permits /\ q \in Seq(Permits)
      /\ Len(q) = Len(o.queue) - 1
      /\ DOMAIN q = 1..(Len(o.queue) - 1) /\ \A i \in DOMAIN q : q[i] = o.queue[i + 1]
  BY <1>0, <1>2, TailFacts
<1>4. QueueBytes(o.queue) = Permit(h) + QueueBytes(q) /\ QueueBytes(q) \in Nat /\ Permit(h) \in Nat
  BY <1>0, <1>2, <1>3, QueueTail, QueueNat, PermitNat
<1>5. HeldBytes(o) <= gate
  BY HeldBelow
<1>6. (\A i \in 1..Len(o.queue) : o.queue[i] # Bad) => h # Bad /\ \A i \in 1..Len(q) : q[i] # Bad
  <2>1. \A i \in 1..Len(q) : i + 1 \in 1..Len(o.queue) /\ q[i] = o.queue[i + 1]
    BY <1>3
  <2>2. 1 \in 1..Len(o.queue)
    BY <1>3
  <2> QED BY <1>3, <2>1, <2>2
<1> HIDE DEF h, q
<1>7. ASSUME NEW x \in Running, call' = [call EXCEPT ![c] = x], x.queue = q, x.item = o.item, x.left = o.left,
             x.producer = o.producer,
             x.at = o.at, gate' = gate \/ gate' = gate - Permit(h), faults' \in 0..MaxFaults,
             faults' = 0 => faults = 0 /\ (h # Bad => ~x.failed \/ o.failed)
      PROVE  CallKept
  <2> HIDE DEF o
  <2>1. x \in Calls /\ x # NoCall
    BY <1>2, <1>7, NotNoCall DEF Calls
  <2>2. HeldBytes(x) = Permit(o.item) + QueueBytes(q)
    BY <1>7, <2>1 DEF HeldBytes
  <2>3. gate' \in 0..GateBytes /\ HeldBytes(x) + gate <= HeldBytes(o) + gate'
    BY <1>1, <1>2, <1>4, <1>5, <1>7, <2>2, SMTT(30)
  <2>4. faults' = 0 /\ CallClean(o) => CallClean(x)
    BY <1>1, <1>6, <1>7, <2>1 DEF CallClean
  <2>5. faults' = 0 => faults = 0
    BY <1>7
  <2> QED BY <1>7, <2>1, <2>3, <2>4, <2>5, CallStep DEF o
<1>8. CASE h = Bad /\ call' = [call EXCEPT ![c].queue = Tail(@), ![c].failed = TRUE] /\ UNCHANGED <<gate, faults>>
  <2> DEFINE x == [o EXCEPT !.queue = q, !.failed = TRUE]
  <2>1. call' = [call EXCEPT ![c] = x]
    BY <1>1, <1>8 DEF q
  <2>2. x \in Running /\ x.queue = q /\ x.item = o.item /\ x.left = o.left /\ x.producer = o.producer /\ x.at = o.at
    BY <1>2, <1>3 DEF Running
  <2> HIDE DEF x
  <2> QED BY <1>7, <1>8, <2>1, <2>2
<1>9. CASE /\ h # Bad /\ gate' = gate - h /\ call' = [call EXCEPT ![c].queue = Tail(@), ![c].got = @ + 1]
           /\ UNCHANGED faults
  <2> DEFINE x == [o EXCEPT !.queue = q, !.got = o.got + 1]
  <2>1. call' = [call EXCEPT ![c] = x]
    BY <1>1, <1>9 DEF q
  <2>0. o.got + 1 \in Nat
    BY <1>2
  <2>2. /\ x \in Running /\ x.queue = q /\ x.item = o.item /\ x.left = o.left /\ x.producer = o.producer /\ x.at = o.at
        /\ x.failed = o.failed
    BY <1>2, <1>3, <2>0 DEF Running
  <2>3. Permit(h) = h /\ o.failed \in BOOLEAN
    BY <1>2, <1>9 DEF Permit, Running
  <2>4. ~x.failed \/ o.failed
    BY <2>2, <2>3
  <2> HIDE DEF x
  <2> QED BY <1>7, <1>9, <2>1, <2>2, <2>3, <2>4
<1>10. CASE h # Bad /\ gate' = gate - h /\ call' = [call EXCEPT ![c].queue = Tail(@), ![c].failed = TRUE] /\ Fault
  <2> DEFINE x == [o EXCEPT !.queue = q, !.failed = TRUE]
  <2>1. call' = [call EXCEPT ![c] = x]
    BY <1>1, <1>10 DEF q
  <2>2. x \in Running /\ x.queue = q /\ x.item = o.item /\ x.left = o.left /\ x.producer = o.producer /\ x.at = o.at
    BY <1>2, <1>3 DEF Running
  <2>3. Permit(h) = h
    BY <1>10 DEF Permit
  <2>4. faults' \in 0..MaxFaults /\ faults' # 0
    BY <1>10, FaultCounted
  <2> HIDE DEF x
  <2> QED BY <1>7, <1>10, <2>1, <2>2, <2>3, <2>4
<1> QED BY <1>8, <1>9, <1>10 DEF ConsumeBatch, h

LEMMA SerialKept ==
  ASSUME CallsOK(call, gate), faults \in 0..MaxFaults, NEW c \in Callers, ReadSerially(c) \/ CallEnds(c)
  PROVE  CallKept
<1> DEFINE o == call[c]
<1>0. o.at = "run" /\ gate' = gate
  BY DEF ReadSerially, CallEnds
<1>1. o \in Calls /\ o # NoCall /\ gate \in 0..GateBytes /\ gate \in Nat /\ call \in [Callers -> Calls]
  BY <1>0, RunsCall
<1>2. /\ o \in Running /\ o.failed \in BOOLEAN /\ (o.producer = "send" => o.left # <<>>)
      /\ HeldBytes(o) = Permit(o.item) + QueueBytes(o.queue) /\ HeldBytes(o) \in Nat
  BY <1>1, RunningFacts, HeldNat
<1>3. ASSUME NEW at \in {"ok", "failed"}, call' = [call EXCEPT ![c].at = at], faults' \in 0..MaxFaults,
             faults' = 0 => faults = 0 /\ (at = "failed" => o.failed)
      PROVE  CallKept
  <2> DEFINE x == [o EXCEPT !.at = at]
  <2>1. call' = [call EXCEPT ![c] = x]
    BY <1>1, <1>3
  <2>2. /\ x \in Running /\ x.queue = o.queue /\ x.item = o.item /\ x.left = o.left /\ x.producer = o.producer
        /\ x.failed = o.failed /\ x.at = at
    BY <1>2 DEF Running
  <2> HIDE DEF x, o
  <2>3. x \in Calls /\ x # NoCall
    BY <1>2, <2>2, NotNoCall DEF Calls
  <2>4. HeldBytes(x) = HeldBytes(o)
    BY <1>2, <2>2, <2>3 DEF HeldBytes
  <2>5. gate' \in 0..GateBytes /\ HeldBytes(x) + gate <= HeldBytes(o) + gate'
    BY <1>0, <1>1, <1>2, <2>4
  <2>6. faults' = 0 /\ CallClean(o) => CallClean(x)
    BY <1>1, <1>3, <2>2, <2>3 DEF CallClean
  <2>7. faults' = 0 => faults = 0
    BY <1>3
  <2> QED BY <1>3, <2>1, <2>3, <2>5, <2>6, <2>7, CallStep DEF o
<1>4. CASE ReadSerially(c)
  <2>1. CASE call' = [call EXCEPT ![c].at = "ok"] /\ UNCHANGED faults
    BY <1>3, <2>1
  <2>2. CASE call' = [call EXCEPT ![c].at = "failed"] /\ Fault
    <3>1. faults' \in 0..MaxFaults /\ faults' # 0
      BY <2>2, FaultCounted
    <3> QED BY <1>3, <2>2, <3>1
  <2> QED BY <1>4, <2>1, <2>2 DEF ReadSerially
<1>5. CASE CallEnds(c)
  <2> DEFINE at == IF o.failed THEN "failed" ELSE "ok"
  <2>1. call' = [call EXCEPT ![c].at = at] /\ faults' = faults
    BY <1>5 DEF CallEnds
  <2>2. at \in {"ok", "failed"} /\ (at = "failed" => o.failed)
    OBVIOUS
  <2> HIDE DEF at
  <2> QED BY <1>3, <2>1, <2>2
<1> QED BY <1>4, <1>5

\* Every step of a prefetched call keeps the gate above what the calls hold.
LEMMA PrefetchStepKept ==
  ASSUME CallsOK(call, gate), faults \in 0..MaxFaults, NEW c \in Callers, PrefetchStep(c)
  PROVE  CallKept
BY AcquireKept, SendBatchKept, ConsumeKept, SerialKept DEF PrefetchStep

\* slice::chunks of words.
LEMMA ChunksWords ==
  ASSUME NEW s \in Words, NEW size \in Nat \ {0}
  PROVE  Chunks(s, size) \in Seq(Words)
<1> DEFINE n == (Len(s) + size - 1) \div size
<1>1. Len(s) \in Nat /\ Len(s) + size - 1 \in Nat
  BY DEF Words
<1>2. n \in Nat
  BY <1>1, DivFacts
<1>3. ASSUME NEW c \in 1..n
      PROVE  SubSeq(s, (c - 1) * size + 1, Min({c * size, Len(s)})) \in Words
  <2> DEFINE a == (c - 1) * size + 1
             b == Min({c * size, Len(s)})
             d == c - 1
  <2>1. c \in Nat /\ d \in Nat
    BY <1>2
  <2>2. c * size \in Int
    BY <2>1
  <2>3. d * size \in Nat
    BY <2>1
  <2>4. a \in Nat /\ 1 <= a
    BY <2>3
  <2>5. b \in Int /\ b <= Len(s)
    BY <1>1, <2>2, MinOfTwo
  <2> HIDE DEF a, b
  <2>6. \A i \in a..b : s[i] \in Nat
    <3> SUFFICES ASSUME NEW i \in a..b PROVE s[i] \in Nat
      OBVIOUS
    <3>1. i \in 1..Len(s)
      BY <1>1, <2>4, <2>5
    <3> QED BY <3>1 DEF Words
  <2>7. SubSeq(s, a, b) \in Seq(Nat)
    BY <2>4, <2>5, <2>6, SubSeqProperties
  <2> QED BY <2>7 DEF Words, a, b
<1>4. Chunks(s, size) = [c \in 1..n |-> SubSeq(s, (c - 1) * size + 1, Min({c * size, Len(s)}))]
  BY DEF Chunks
<1> HIDE DEF n
<1>5. Chunks(s, size) \in [1..n -> Words]
  BY <1>3, <1>4
<1> QED BY <1>2, <1>5

\* A call that starts.
LEMMA StartFacts ==
  ASSUME build.key \in Keys, NEW node \in Inner, NEW attempt \in Nat
  PROVE  LET x == Start(node, attempt) IN x \in Calls /\ HeldBytes(x) = 0 /\ CallClean(x)
<1> DEFINE n == Len(node.pts)
           mode == Param[build.key].prefetch
           job == [node |-> node, attempt |-> attempt]
           size == BatchSize(mode = "strict")
           ids == [i \in 1..n |-> i]
           chunks == Chunks(ids, size)
           x == Start(node, attempt)
<1>1. mode \in {"off", "normal", "strict"}
  BY PartitionAssumption
<1>2. n \in Nat
  BY DEF Inner, Nodes, Words
<1>3. size \in Nat \ {0}
  <2>1. ChunkPoints \in Nat \ {0} /\ GateBytes \in Nat
    BY PrefetchAssumption
  <2>2. GateBytes > 0 => Min({ChunkPoints, GateBytes}) \in Nat \ {0}
    BY <2>1, MinOfTwo
  <2> QED BY <2>1, <2>2 DEF BatchSize
<1> HIDE DEF size, n
<1>4. ids \in Words
  <2>1. ids \in [1..n -> Nat]
    OBVIOUS
  <2> QED BY <1>2, <2>1 DEF Words
<1> HIDE DEF ids
<1>5. chunks \in Seq(Words)
  BY <1>3, <1>4, ChunksWords
<1>6. Len(chunks) \in Nat
  BY <1>5
<1>7. /\ x.at = "run" /\ x.mode = mode /\ x.job = job /\ x.left = chunks /\ x.got = 0 /\ x.total = Len(chunks)
      /\ x.producer = "acquire" /\ x.item = 0 /\ x.queue = <<>> /\ x.failed = FALSE
  BY DEF Start, StartCall, size, ids, n
<1>8. 0 \in Permits /\ 0 # Bad /\ Permit(0) = 0 /\ <<>> \in Seq(Permits)
  BY DEF Permits, Permit, Bad
<1>9. x \in Running
  <2> HIDE DEF mode, chunks
  <2>1. x = [at |-> "run", mode |-> mode, job |-> job, left |-> chunks, got |-> 0, total |-> Len(chunks),
             producer |-> "acquire", item |-> 0, queue |-> <<>>, failed |-> FALSE]
    BY DEF Start, StartCall, size, ids, n, mode, chunks
  <2>2. job \in [node : Inner, attempt : Nat]
    OBVIOUS
  <2> HIDE DEF x, job
  <2> QED BY <1>1, <1>5, <1>6, <1>8, <2>1, <2>2 DEF Running
<1> HIDE DEF x
<1>10. x \in Calls /\ x # NoCall
  BY <1>7, <1>9, NotNoCall DEF Calls
<1>11. HeldBytes(x) = 0
  BY <1>7, <1>8, <1>10, QueueEmpty DEF HeldBytes
<1>12. CallClean(x)
  BY <1>7, <1>8 DEF CallClean
<1> QED BY <1>10, <1>11, <1>12 DEF x
-----------------------------------------------------------------------------
(* The directories. *)

LEMMA DiskFacts ==
  ASSUME NEW d \in Disks
  PROVE  /\ d.file \in [Inodes -> Words] /\ d.work \in Inodes \cup {0} /\ d.workMan \in Manifests
         /\ d.cache \in [Keys -> Inodes \cup {0}] /\ d.cacheMan \in [Keys -> Manifests]
         /\ d.deep \in [1..MaxDepth -> Words] /\ RootFile(d) \in Words /\ 0 \notin Inodes
         /\ \A depth \in 0..MaxDepth : FileOfDepth(d, depth) \in Words
<1>1. /\ d.file \in [Inodes -> Words] /\ d.work \in Inodes \cup {0} /\ d.workMan \in Manifests
      /\ d.cache \in [Keys -> Inodes \cup {0}] /\ d.cacheMan \in [Keys -> Manifests]
      /\ d.deep \in [1..MaxDepth -> Words]
  BY DEF Disks
<1>2. RootFile(d) \in Words
  <2>1. <<>> \in Words
    BY DEF Words
  <2> QED BY <1>1, <2>1 DEF RootFile
<1>3. 0 \notin Inodes
  BY DEF Inodes
<1>4. MaxDepth \in Nat
  BY PartitionAssumption
<1>5. \A depth \in 0..MaxDepth : FileOfDepth(d, depth) \in Words
  <2> SUFFICES ASSUME NEW depth \in 0..MaxDepth PROVE FileOfDepth(d, depth) \in Words
    OBVIOUS
  <2>1. depth # 0 => depth \in 1..MaxDepth
    BY <1>4
  <2> QED BY <1>1, <1>2, <2>1 DEF FileOfDepth
<1> QED BY <1>1, <1>2, <1>3, <1>5

\* There is always an inode without a name.
LEMMA FreeInodeFacts ==
  ASSUME NEW d \in Disks
  PROVE  /\ FreeInode(d) \in Inodes /\ FreeInode(d) # 0 /\ FreeInode(d) # d.work
         /\ \A k \in Keys : FreeInode(d) # d.cache[k]
<1> DEFINE T == {d.cache[k] : k \in Keys}
           U == T \cup {d.work}
           n == Cardinality(Keys)
<1>1. IsFiniteSet(Keys) /\ n \in Nat
  BY PartitionAssumption, FS_CardinalityType
<1>2. d.cache \in Surjection(Keys, T)
  <2>1. d.cache \in [Keys -> T]
    BY DiskFacts
  <2>2. \A t \in T : \E k \in Keys : d.cache[k] = t
    OBVIOUS
  <2> HIDE DEF T
  <2> QED BY <2>1, <2>2 DEF Surjection
<1> HIDE DEF T, n
<1>3. IsFiniteSet(T) /\ Cardinality(T) <= n
  BY <1>1, <1>2, FS_Surjection DEF n
<1>4. Cardinality(T) \in Nat
  BY <1>3, FS_CardinalityType
<1>5. IsFiniteSet(U) /\ Cardinality(U) <= n + 1 /\ Cardinality(U) \in Nat
  <2>1. IsFiniteSet(U) /\ Cardinality(U) = IF d.work \in T THEN Cardinality(T) ELSE Cardinality(T) + 1
    BY <1>3, FS_AddElement
  <2> QED BY <1>1, <1>3, <1>4, <2>1
<1>6. Inodes = 1..(n + 2)
  BY DEF Inodes, n
<1>7. Cardinality(1..(n + 2)) = n + 2
  <2>1. 1 \in Int /\ n + 2 \in Int /\ ~(1 > n + 2) /\ n + 2 - 1 + 1 = n + 2
    BY <1>1
  <2> QED BY <2>1, FS_Interval
<1> HIDE DEF U
<1>8. ~(Inodes \subseteq U)
  <2> SUFFICES ASSUME Inodes \subseteq U PROVE FALSE
    OBVIOUS
  <2>1. Inodes \in SUBSET U
    OBVIOUS
  <2>2. Cardinality(Inodes) <= Cardinality(U)
    BY <1>5, <2>1, FS_Subset
  <2> QED BY <1>1, <1>5, <1>6, <1>7, <2>2
<1>9. \E i \in Inodes : i \notin Used(d)
  <2>1. Used(d) \subseteq U
    BY DEF Used, U, T
  <2> QED BY <1>8, <2>1
<1>10. FreeInode(d) \in Inodes /\ FreeInode(d) \notin Used(d)
  BY <1>9 DEF FreeInode
<1>11. FreeInode(d) # 0
  BY <1>10 DEF Inodes
<1> QED BY <1>10, <1>11 DEF Used

\* The cache is untouched.
SameCache(d, e) ==
  /\ e.cache = d.cache /\ e.cacheMan = d.cacheMan
  /\ \A k \in Keys : d.cache[k] # 0 => e.file[d.cache[k]] = d.file[d.cache[k]]
LEMMA CacheKept ==
  ASSUME NEW d, NEW e, SameCache(d, e), NEW b, NEW c, CacheClean(b, d), b.at # "publish"
  PROVE  CacheClean(c, e)
BY DEF SameCache, CacheClean, EntryClean

\* The depth-0 run file is written, in place or under a new name.
LEMMA SetRootFacts ==
  ASSUME NEW d \in Disks, NEW words \in Words
  PROVE  LET e == SetRootFile(d, words)
         IN  /\ e \in Disks /\ RootFile(e) = words /\ e.work # 0 /\ e.deep = d.deep
             /\ e.cache = d.cache /\ e.cacheMan = d.cacheMan
             /\ (d.work = 0 \/ \A k \in Keys : d.cache[k] # d.work) =>
                  SameCache(d, e) /\ \A k \in Keys : e.cache[k] # e.work
<1> DEFINE i == IF d.work = 0 THEN FreeInode(d) ELSE d.work
           e == SetRootFile(d, words)
<1>1. /\ d.file \in [Inodes -> Words] /\ d.work \in Inodes \cup {0} /\ d.workMan \in Manifests
      /\ d.cache \in [Keys -> Inodes \cup {0}] /\ d.cacheMan \in [Keys -> Manifests]
      /\ d.deep \in [1..MaxDepth -> Words] /\ 0 \notin Inodes
  BY DiskFacts
<1>2. FreeInode(d) \in Inodes /\ \A k \in Keys : FreeInode(d) # d.cache[k]
  BY FreeInodeFacts
<1>3. i \in Inodes /\ i # 0
  BY <1>1, <1>2
<1>4. (d.work = 0 \/ \A k \in Keys : d.cache[k] # d.work) => \A k \in Keys : d.cache[k] # i
  BY <1>2
<1> DEFINE f == [d.file EXCEPT ![i] = words]
<1>5. e = [d EXCEPT !.work = i, !.file = f]
  BY DEF SetRootFile
<1> HIDE DEF i
<1>12. f \in [Inodes -> Words]
  BY <1>1, <1>3
<1> HIDE DEF f
<1>6. e \in Disks
  BY <1>3, <1>5, <1>12 DEF Disks
<1>7. /\ e.work = i /\ e.deep = d.deep /\ e.cache = d.cache /\ e.cacheMan = d.cacheMan
      /\ e.file = [d.file EXCEPT ![i] = words]
  BY <1>5 DEF Disks, f
<1> HIDE DEF e
<1>8. RootFile(e) = words
  BY <1>1, <1>3, <1>7 DEF RootFile
<1>9. \A x \in Inodes : x # i => e.file[x] = d.file[x]
  BY <1>1, <1>7
<1>10. \A k \in Keys : d.cache[k] # 0 => d.cache[k] \in Inodes
  BY <1>1
<1>11. (\A k \in Keys : d.cache[k] # i) => SameCache(d, e) /\ \A k \in Keys : e.cache[k] # e.work
  BY <1>7, <1>9, <1>10 DEF SameCache
<1> QED BY <1>3, <1>4, <1>6, <1>7, <1>8, <1>11 DEF e

\* Inodes without a name are gone.
LEMMA SweptFacts ==
  ASSUME NEW d \in Disks
  PROVE  Swept(d) \in Disks /\ SameCache(d, Swept(d)) /\ Swept(d).work = d.work
<1> DEFINE f == [i \in Inodes |-> IF i \in Used(d) THEN d.file[i] ELSE <<>>]
           e == Swept(d)
<1>1. d.file \in [Inodes -> Words] /\ d.cache \in [Keys -> Inodes \cup {0}] /\ <<>> \in Words
  BY DiskFacts DEF Words
<1>2. f \in [Inodes -> Words]
  BY <1>1
<1>3. \A k \in Keys : d.cache[k] # 0 => f[d.cache[k]] = d.file[d.cache[k]]
  <2> SUFFICES ASSUME NEW k \in Keys, d.cache[k] # 0 PROVE f[d.cache[k]] = d.file[d.cache[k]]
    OBVIOUS
  <2>1. d.cache[k] \in Inodes
    BY <1>1
  <2>2. d.cache[k] \in Used(d)
    BY DEF Used
  <2> QED BY <2>1, <2>2
<1>4. e = [d EXCEPT !.file = f]
  BY DEF Swept
<1> HIDE DEF f
<1>5. e \in Disks /\ e.file = f /\ e.cache = d.cache /\ e.cacheMan = d.cacheMan /\ e.work = d.work
  BY <1>2, <1>4 DEF Disks
<1> HIDE DEF e
<1> QED BY <1>3, <1>5 DEF SameCache, e

\* cleanup_oom_artifacts.
LEMMA CleanedFacts ==
  ASSUME NEW d \in Disks
  PROVE  Cleaned(d) \in Disks /\ SameCache(d, Cleaned(d)) /\ Cleaned(d).work = 0
<1> DEFINE deep == NoDisk.deep
           e == [d EXCEPT !.work = 0, !.workMan = Missing, !.deep = deep]
<1>1. deep \in [1..MaxDepth -> Words] /\ Missing \in Manifests
  BY DEF NoDisk, Words, Manifests
<1> HIDE DEF deep
<1>2. e \in Disks /\ e.work = 0 /\ e.cache = d.cache /\ e.cacheMan = d.cacheMan /\ e.file = d.file
  BY <1>1 DEF Disks
<1>3. Cleaned(d) = Swept(e)
  BY DEF Cleaned, deep
<1> HIDE DEF e
<1>4. Swept(e) \in Disks /\ SameCache(e, Swept(e)) /\ Swept(e).work = e.work
  BY <1>2, SweptFacts
<1>5. SameCache(d, Swept(e))
  BY <1>2, <1>4 DEF SameCache
<1> QED BY <1>2, <1>3, <1>4, <1>5

\* What an error leaves behind.
LEMMA LeftBehindFacts ==
  ASSUME NEW d \in Disks
  PROVE  LET e == [Swept(d) EXCEPT !.deep = [x \in DOMAIN @ |-> Leftover(@[x])]]
         IN  e \in Disks /\ SameCache(d, e) /\ e.work = d.work
<1> DEFINE s == Swept(d)
           deep == [x \in DOMAIN s.deep |-> Leftover(s.deep[x])]
           e == [s EXCEPT !.deep = deep]
<1>1. s \in Disks /\ SameCache(d, s) /\ s.work = d.work
  BY SweptFacts
<1> HIDE DEF s
<1>2. s.deep \in [1..MaxDepth -> Words]
  BY <1>1, DiskFacts
<1>3. \A w : Leftover(w) \in Words
  <2>1. <<>> \in Words /\ <<0>> \in Words
    BY DEF Words
  <2> QED BY <2>1 DEF Leftover
<1>4. deep \in [1..MaxDepth -> Words]
  BY <1>2, <1>3
<1> HIDE DEF deep
<1>5. e \in Disks /\ e.work = s.work /\ e.cache = s.cache /\ e.cacheMan = s.cacheMan /\ e.file = s.file
  BY <1>1, <1>4 DEF Disks
<1>6. SameCache(d, e)
  BY <1>1, <1>5 DEF SameCache
<1> QED BY <1>1, <1>5, <1>6 DEF deep, s

\* A build returns.
LEMMA ReturnKept ==
  ASSUME build \in Active, NEW d \in Disks, NEW ok \in BOOLEAN, Return(ok, d), faults' \in 0..MaxFaults
  PROVE  /\ PartitionInv'
         /\ (/\ faults' = 0 => /\ \E b : CacheClean(b, d) /\ b.at # "publish"
                               /\ ok \/ (build.mismatch /\ d.work = 0)) => PartitionClean'
<1> DEFINE e == [Swept(d) EXCEPT !.deep = [x \in DOMAIN @ |-> Leftover(@[x])]]
<1>1. /\ build' = [at |-> "idle", n |-> build.n, ok |-> ok, mismatch |-> build.mismatch]
      /\ disk' = IF ok THEN Cleaned(d) ELSE e
      /\ todo' = <<>> /\ call' = [c \in Callers |-> NoCall] /\ gate' = 0
  BY DEF Return
<1>2. build.n \in 0..Builds /\ build.mismatch \in BOOLEAN
  BY DEF Active
<1>3. build' \in Idles /\ build'.at = "idle" /\ build'.ok = ok /\ build'.mismatch = build.mismatch
  BY <1>1, <1>2 DEF Idles
<1>4. disk' \in Disks /\ SameCache(d, disk') /\ (ok => disk'.work = 0) /\ (~ok => disk'.work = d.work)
  <2>1. e \in Disks /\ SameCache(d, e) /\ e.work = d.work
    BY LeftBehindFacts
  <2>2. Cleaned(d) \in Disks /\ SameCache(d, Cleaned(d)) /\ Cleaned(d).work = 0
    BY CleanedFacts
  <2> HIDE DEF e
  <2> QED BY <1>1, <2>1, <2>2
<1> HIDE DEF e
<1>5. RunsPlaced(build', disk') /\ ScanPlaced(build', scan')
  BY <1>3 DEF RunsPlaced, ScanPlaced, Owned
<1>6. Pending(build', todo', call')
  BY <1>1 DEF Pending
<1>7. CallsOK(call', gate')
  <2>1. 0 \in 0..GateBytes
    BY CallersFinite
  <2> QED BY <1>1, <2>1, NoCalls
<1>8. PartitionInv'
  BY <1>3, <1>4, <1>5, <1>6, <1>7 DEF PartitionInv
<1>9. ASSUME faults' = 0, NEW b, CacheClean(b, d), b.at # "publish", ok \/ (build.mismatch /\ d.work = 0)
      PROVE  PartitionClean'
  <2>1. CacheClean(build', disk')
    BY <1>4, <1>9, CacheKept
  <2>2. BuildClean(build', disk')
    BY <1>3, <1>4, <1>9 DEF BuildClean, Owned
  <2>3. CallsClean(call')
    BY <1>1 DEF CallsClean, CallClean
  <2> QED BY <1>3, <2>1, <2>2, <2>3 DEF PartitionClean
<1>10. faults' # 0 => PartitionClean'
  BY DEF PartitionClean
<1> QED BY <1>8, <1>9, <1>10
-----------------------------------------------------------------------------
(* The steps of the calling thread. *)

LEMMA Parts ==
  ASSUME PartitionInv
  PROVE  /\ disk \in Disks /\ build \in Idles \cup Active /\ faults \in 0..MaxFaults
         /\ RunsPlaced(build, disk) /\ ScanPlaced(build, scan)
         /\ Pending(build, todo, call) /\ CallsOK(call, gate)
         /\ (build.at # "idle" => build \in Active)
BY DEF PartitionInv, Idles
LEMMA CleanParts ==
  ASSUME PartitionClean, faults = 0
  PROVE  /\ CacheClean(build, disk) /\ BuildClean(build, disk) /\ CallsClean(call)
         /\ (build.at = "scan" => ScanClean(scan))
BY DEF PartitionClean
LEMMA ActiveFacts ==
  ASSUME NEW b \in Active
  PROVE  /\ b.at \in Places /\ b.n \in 0..Builds /\ b.key \in Keys /\ b.src \in Keys
         /\ b.mode \in {"plain", "cache", "manifest", ""}
         /\ b.mismatch \in BOOLEAN /\ b.ok \in BOOLEAN /\ b.failed \in BOOLEAN /\ b.depth \in 0..MaxDepth
         /\ b.runs \in Seq(RunRecords) /\ b.roots \in Seq(Words) \cup Seq(RunRecords)
         /\ b.work \in Seq(Words) /\ b.clusters \in Seq(Words) /\ b.later \in Seq(Nodes)
BY DEF Active

\* A step of the calling thread while nobody else runs.
LEMMA QuietStep ==
  ASSUME PartitionInv, build.at \notin {"split", "recurse"}, UNCHANGED <<todo, pool, faults>>,
         disk' \in Disks, build' \in Active, build'.at \notin {"scan", "split"}, RunsPlaced(build', disk')
  PROVE  PartitionInv'
<1>1. todo' = todo /\ scan' = scan /\ call' = call /\ gate' = gate /\ faults' = faults
  BY DEF pool
<1>2. faults \in 0..MaxFaults /\ Pending(build, todo, call) /\ CallsOK(call, gate)
  BY Parts
<1>3. Pending(build', todo', call')
  BY <1>1, <1>2 DEF Pending
<1>4. ScanPlaced(build', scan')
  BY DEF ScanPlaced
<1>5. CallsOK(call', gate') /\ faults' \in 0..MaxFaults
  BY <1>1, <1>2
<1> QED BY <1>3, <1>4, <1>5 DEF PartitionInv
LEMMA QuietClean ==
  ASSUME PartitionClean, UNCHANGED <<call, faults>>, build'.at # "scan",
         faults = 0 => CacheClean(build', disk') /\ BuildClean(build', disk')
  PROVE  PartitionClean'
<1>1. faults = 0 => CallsClean(call)
  BY CleanParts
<1> QED BY <1>1 DEF PartitionClean

\* rbc_partition_streaming_with_dirs begins.
LEMMA BeginKept ==
  ASSUME PartitionInv, PartitionClean, NEW k \in Keys, NEW src \in Keys, NEW at \in {"load", "root"},
         NEW mode \in {"plain", "cache", "manifest"}, Begin(k, at, mode, src),
         at = "load" => disk.cacheMan[src] # Missing, at = "root" /\ mode = "cache" => disk.cacheMan[k] = Missing
  PROVE  PartitionInv' /\ PartitionClean'
<1>1. /\ build.at = "idle" /\ build.n < Builds /\ disk' = disk /\ UNCHANGED <<todo, pool, faults>>
      /\ build' = [at |-> at, n |-> build.n + 1, key |-> k, mode |-> mode, src |-> src,
                   mismatch |-> src # k, ok |-> TRUE, depth |-> 0, runs |-> <<>>,
                   roots |-> <<>>, work |-> <<>>, clusters |-> <<>>, later |-> <<>>, failed |-> FALSE]
  BY DEF Begin
<1>2. disk \in Disks /\ build \in Idles \cup Active
  BY Parts
<1>3. build.n \in 0..Builds /\ Builds \in Nat /\ MaxDepth \in Nat
  BY <1>2, PartitionAssumption DEF Idles, Active
<1>4. build.n + 1 \in 0..Builds /\ 0 \in 0..MaxDepth
  BY <1>1, <1>3
<1>5. <<>> \in Seq(Words) /\ <<>> \in Seq(RunRecords) /\ <<>> \in Seq(Nodes) /\ (src # k) \in BOOLEAN /\ at \in Places
  BY DEF Places
<1>6. build' \in Active
  BY <1>1, <1>4, <1>5 DEF Active
<1>7. /\ build'.at = at /\ build'.key = k /\ build'.src = src /\ build'.mode = mode
      /\ (build'.mismatch <=> src # k) /\ build'.failed = FALSE
  BY <1>1
<1>8. RunsPlaced(build', disk')
  BY <1>7 DEF RunsPlaced, Owned
<1>9. PartitionInv'
  BY <1>1, <1>2, <1>6, <1>7, <1>8, QuietStep
<1>10. ASSUME faults = 0 PROVE CacheClean(build', disk') /\ BuildClean(build', disk')
  <2>1. CacheClean(build, disk) /\ BuildClean(build, disk)
    BY <1>10, CleanParts
  <2>2. CacheClean(build', disk')
    BY <1>1, <2>1 DEF CacheClean
  <2>3. disk.work = 0
    BY <1>1, <2>1 DEF BuildClean
  <2>4. BuildClean(build', disk')
    BY <1>1, <1>7, <2>3 DEF BuildClean, Owned
  <2> QED BY <2>2, <2>4
<1>11. PartitionClean'
  BY <1>1, <1>7, <1>10, QuietClean DEF pool
<1> QED BY <1>9, <1>11

LEMMA ArriveKept ==
  ASSUME PartitionInv, PartitionClean, Arrive
  PROVE  PartitionInv' /\ PartitionClean'
<1>1. PICK k \in Keys : BeginPlain(k) \/ BeginCached(k) \/ \E src \in Keys : BeginFrom(k, src)
  BY DEF Arrive
<1>2. CASE BeginPlain(k)
  BY <1>2, BeginKept DEF BeginPlain
<1>3. CASE BeginCached(k)
  <2> DEFINE at == IF disk.cacheMan[k] # Missing THEN "load" ELSE "root"
  <2>1. Begin(k, at, "cache", k) /\ at \in {"load", "root"}
    BY <1>3 DEF BeginCached
  <2>2. (at = "load" => disk.cacheMan[k] # Missing) /\ (at = "root" => disk.cacheMan[k] = Missing)
    OBVIOUS
  <2> HIDE DEF at
  <2> QED BY <2>1, <2>2, BeginKept
<1>4. CASE \E src \in Keys : BeginFrom(k, src)
  BY <1>4, BeginKept DEF BeginFrom
<1> QED BY <1>1, <1>2, <1>3, <1>4

\* A build that stops with an error.
LEMMA FailsKept ==
  ASSUME PartitionInv, build.at # "idle", Fails,
         faults = 0 => CacheClean(build, disk) /\ build.at # "publish" /\ build.mismatch /\ disk.work = 0
  PROVE  PartitionInv' /\ PartitionClean'
<1>1. Return(FALSE, disk) /\ faults' = faults
  BY DEF Fails
<1>2. build \in Active /\ disk \in Disks /\ faults' \in 0..MaxFaults
  BY <1>1, Parts
<1>3. FALSE \in BOOLEAN
  OBVIOUS
<1> QED BY <1>1, <1>2, <1>3, ReturnKept

\* A complete entry is neither torn nor missing.
LEMMA EntryParses ==
  ASSUME NEW m \in Entries
  PROVE  m # Torn /\ m # Missing
<1>1. "contents" \in DOMAIN m
  BY DEF Entries
<1>2. "contents" \notin DOMAIN Torn /\ "contents" \notin DOMAIN Missing
  BY DEF Torn, Missing
<1> QED BY <1>1, <1>2

LEMMA LoadRunsKept ==
  ASSUME PartitionInv, PartitionClean, LoadRuns
  PROVE  PartitionInv' /\ PartitionClean'
<1> DEFINE src == build.src
           m == disk.cacheMan[src]
<1>1. build.at = "load" /\ build \in Active /\ disk \in Disks /\ src \in Keys /\ build.key \in Keys
  BY Parts, ActiveFacts DEF LoadRuns
<1>2. /\ disk.cacheMan \in [Keys -> Manifests] /\ disk.cache \in [Keys -> Inodes \cup {0}]
      /\ disk.file \in [Inodes -> Words]
      /\ 0 \notin Inodes
  BY <1>1, DiskFacts
<1>3. CASE Usable(m, build.key, src)
  <2>1. /\ disk' = IF disk.work = 0 THEN [disk EXCEPT !.work = disk.cache[src]] ELSE disk
        /\ build' = [build EXCEPT !.at = "reused", !.runs = m.runs, !.roots = m.leaves]
        /\ UNCHANGED <<todo, pool, faults>>
    BY <1>3 DEF LoadRuns
  <2>2. m \in Entries /\ EntryIn(m)
    BY <1>1, <1>2, <1>3 DEF Usable, Manifests
  <2>3. /\ RunsIn(m.contents, m.runs) /\ RunsIn(m.contents, m.leaves) /\ m.runs \in Seq(RunRecords)
        /\ m.leaves \in Seq(RunRecords)
    BY <2>2 DEF EntryIn, RunsIn
  <2>4. disk.cache[src] # 0 /\ disk.file[disk.cache[src]] = m.contents /\ (disk.work # 0 => RootFile(disk) = m.contents)
    BY <1>3 DEF Usable
  <2> HIDE DEF m
  <2>5. disk' \in Disks /\ SameCache(disk, disk') /\ RootFile(disk') = m.contents
    <3>1. CASE disk.work = 0
      <4>1. disk' = [disk EXCEPT !.work = disk.cache[src]] /\ disk.cache[src] \in Inodes \cup {0}
        BY <1>1, <1>2, <2>1, <3>1
      <4>2. /\ disk' \in Disks /\ disk'.cache = disk.cache /\ disk'.cacheMan = disk.cacheMan
            /\ disk'.file = disk.file /\ disk'.work = disk.cache[src]
        BY <1>1, <4>1 DEF Disks
      <4> QED BY <2>4, <4>2 DEF SameCache, RootFile
    <3>2. CASE disk.work # 0
      BY <1>1, <2>1, <2>4, <3>2 DEF SameCache
    <3> QED BY <3>1, <3>2
  <2>6. build' \in Active
    <3>1. "reused" \in Places
      BY DEF Places
    <3> QED BY <1>1, <2>1, <2>3, <3>1 DEF Active
  <2>7. build'.at = "reused" /\ build'.runs = m.runs /\ build'.roots = m.leaves /\ build'.failed = build.failed
    BY <1>1, <2>1 DEF Active
  <2>8. RunsPlaced(build', disk')
    BY <2>3, <2>5, <2>7 DEF RunsPlaced, Owned
  <2>9. PartitionInv'
    BY <1>1, <2>1, <2>5, <2>6, <2>7, <2>8, QuietStep
  <2>10. ASSUME faults = 0 PROVE CacheClean(build', disk') /\ BuildClean(build', disk')
    <3>1. CacheClean(build, disk) /\ BuildClean(build, disk)
      BY <2>10, CleanParts
    <3>2. CacheClean(build', disk')
      BY <1>1, <2>5, <3>1, CacheKept
    <3>3. ~build.failed
      BY <1>1, <3>1 DEF BuildClean
    <3> QED BY <2>7, <3>2, <3>3 DEF BuildClean, Owned
  <2> QED BY <2>1, <2>7, <2>9, <2>10, QuietClean DEF pool
<1>4. CASE ~Usable(m, build.key, src)
  <2>1. Fails
    BY <1>4 DEF LoadRuns
  <2>2. ASSUME faults = 0 PROVE CacheClean(build, disk) /\ build.mismatch /\ disk.work = 0
    <3>1. CacheClean(build, disk) /\ BuildClean(build, disk)
      BY <2>2, CleanParts
    <3>2. disk.work = 0 /\ (build.mismatch <=> src # build.key) /\ m # Missing
      BY <1>1, <3>1 DEF BuildClean
    <3>3. EntryClean(disk, src)
      BY <1>1, <3>1, <3>2 DEF CacheClean
    <3>4. m # Torn /\ m # Missing
      BY <3>3, EntryParses DEF EntryClean
    <3>5. src = build.key => Usable(m, build.key, src)
      BY <3>2, <3>3, <3>4 DEF EntryClean, Usable
    <3> QED BY <1>4, <3>1, <3>2, <3>5
  <2> QED BY <1>1, <2>1, <2>2, FailsKept
<1> QED BY <1>3, <1>4

\* The root is done.
LEMMA WavesKept ==
  ASSUME PartitionInv, PartitionClean, build.at \in {"reused", "manifest", "publish"}, build' = Waves,
         UNCHANGED <<todo, pool, faults>>, disk' \in Disks, RunsIn(RootFile(disk'), build.runs),
         faults = 0 => CacheClean(build', disk') 
  PROVE  PartitionInv' /\ PartitionClean'
<1>1. build \in Active
  BY Parts
<1>2. MaxDepth \in Nat \ {0}
  BY PartitionAssumption
<1>3. 1 \in 0..MaxDepth /\ "wave" \in Places /\ build.key \in Keys /\ <<>> \in Seq(Words)
  <2>1. "wave" \in Places /\ <<>> \in Seq(Words)
    BY DEF Places
  <2>2. build.key \in Keys
    BY <1>1, ActiveFacts
  <2>3. 1 \in 0..MaxDepth
    BY <1>2
  <2> QED BY <2>1, <2>2, <2>3
<1>4. build' \in Active
  BY <1>1, <1>3 DEF Waves, Active
<1>5. build'.at = "wave" /\ build'.depth = 1 /\ build'.runs = build.runs /\ build'.failed = build.failed
  BY <1>1 DEF Waves, Active
<1>6. FileOfDepth(disk', build'.depth - 1) = RootFile(disk')
  <2>1. build'.depth - 1 = 0
    BY <1>5
  <2> QED BY <2>1 DEF FileOfDepth
<1>7. RunsPlaced(build', disk')
  BY <1>5, <1>6 DEF RunsPlaced, Owned
<1>8. PartitionInv'
  BY <1>4, <1>5, <1>7, QuietStep
<1>9. ASSUME faults = 0 PROVE BuildClean(build', disk')
  <2>1. BuildClean(build, disk)
    BY <1>9, CleanParts
  <2>2. ~build.failed
    BY <2>1 DEF BuildClean
  <2> QED BY <1>5, <2>2 DEF BuildClean, Owned
<1>10. PartitionClean'
  BY <1>5, <1>9, QuietClean DEF pool
<1> QED BY <1>8, <1>10

LEMMA EmitReusedKept ==
  ASSUME PartitionInv, PartitionClean, EmitReusedLeaves
  PROVE  PartitionInv' /\ PartitionClean'
<1>1. build.at = "reused" /\ build' = Waves /\ disk' = disk /\ UNCHANGED <<todo, pool, faults>>
  BY DEF EmitReusedLeaves
<1>2. disk' \in Disks /\ RunsIn(RootFile(disk'), build.runs)
  BY <1>1, Parts DEF RunsPlaced
<1>3. ASSUME faults = 0 PROVE CacheClean(build', disk')
  <2>1. CacheClean(build, disk)
    BY <1>3, CleanParts
  <2>2. SameCache(disk, disk')
    BY <1>1 DEF SameCache
  <2> QED BY <1>1, <2>1, <2>2, CacheKept
<1> QED BY <1>1, <1>2, <1>3, WavesKept

\* A file with a run is not empty.
LEMMA RunsNeedFile ==
  ASSUME NEW file \in Words, NEW runs, RunsIn(file, runs), runs # <<>>
  PROVE  file # <<>>
<1>1. runs \in Seq(RunRecords) /\ 1 \in DOMAIN runs
  BY DEF RunsIn
<1>2. RunIn(file, runs[1])
  BY <1>1 DEF RunsIn
<1>3. ExtentIn(file, runs[1].extents[1])
  BY <1>2 DEF RunIn
<1>4. Len(file) >= 1
  BY <1>3 DEF ExtentIn, Extents, Words
<1> QED BY <1>4

LEMMA PartitionRootKept ==
  ASSUME PartitionInv, PartitionClean, PartitionRoot
  PROVE  PartitionInv' /\ PartitionClean'
<1> DEFINE s == RootSplit(build.key, RootFile(disk))
           at == IF s.runs = <<>> THEN "finish" ELSE "capture"
<1>1. /\ build.at = "root" /\ UNCHANGED <<todo, pool, faults>>
      /\ disk' = IF s.file = RootFile(disk) THEN disk ELSE SetRootFile(disk, s.file)
      /\ build' = [build EXCEPT !.runs = s.runs, !.roots = s.leaves, !.at = at]
  BY DEF PartitionRoot
<1>2. disk \in Disks /\ build \in Active /\ build.key \in Keys /\ RootFile(disk) \in Words
  BY <1>1, Parts, ActiveFacts, DiskFacts
<1>3. SplitIn(RootFile(disk), s)
  BY <1>2, RootSplitFacts
<1> HIDE DEF s
<1>4. s.file \in Words /\ RunsIn(s.file, s.runs) /\ s.leaves \in Seq(Words) /\ s.runs \in Seq(RunRecords)
  BY <1>3 DEF SplitIn, RunsIn
<1>5. /\ disk' \in Disks /\ RootFile(disk') = s.file /\ disk'.cacheMan = disk.cacheMan
      /\ disk.work = 0 => /\ SameCache(disk, disk')
                          /\ s.runs # <<>> => disk'.work # 0 /\ \A k \in Keys : disk'.cache[k] # disk'.work
  <2>1. CASE s.file = RootFile(disk)
    <3>1. disk' = disk
      BY <1>1, <2>1
    <3>2. disk.work = 0 => s.runs = <<>>
      BY <1>4, <2>1, RunsNeedFile DEF RootFile
    <3> QED BY <1>2, <2>1, <3>1, <3>2 DEF SameCache
  <2>2. CASE s.file # RootFile(disk)
    <3>1. disk' = SetRootFile(disk, s.file)
      BY <1>1, <2>2
    <3> QED BY <1>2, <1>4, <3>1, SetRootFacts
  <2> QED BY <2>1, <2>2
<1>6. at \in {"finish", "capture"} /\ at \in Places /\ (at = "capture" => s.runs # <<>>)
  BY DEF Places
<1> HIDE DEF at
<1>7. build' \in Active
  BY <1>1, <1>2, <1>4, <1>6 DEF Active
<1>8. /\ build'.at = at /\ build'.runs = s.runs /\ build'.roots = s.leaves /\ build'.failed = build.failed
      /\ build'.mode = build.mode /\ build'.key = build.key
  BY <1>1, <1>2 DEF Active
<1>9. RunsPlaced(build', disk')
  BY <1>4, <1>5, <1>6, <1>8 DEF RunsPlaced, Owned
<1>10. PartitionInv'
  BY <1>1, <1>5, <1>6, <1>7, <1>8, <1>9, QuietStep
<1>11. ASSUME faults = 0 PROVE CacheClean(build', disk') /\ BuildClean(build', disk')
  <2>1. CacheClean(build, disk) /\ BuildClean(build, disk)
    BY <1>11, CleanParts
  <2>2. disk.work = 0 /\ ~build.failed /\ (build.mode = "cache" => disk.cacheMan[build.key] = Missing)
    BY <1>1, <2>1 DEF BuildClean
  <2>3. CacheClean(build', disk')
    BY <1>1, <1>5, <2>1, <2>2, CacheKept
  <2> QED BY <1>5, <1>6, <1>8, <2>2, <2>3 DEF BuildClean, Owned
<1> QED BY <1>1, <1>6, <1>8, <1>10, <1>11, QuietClean DEF pool

LEMMA AppendRootLeavesKept ==
  ASSUME PartitionInv, PartitionClean, AppendRootLeaves
  PROVE  PartitionInv' /\ PartitionClean'
<1> DEFINE w == WriteRuns(RootFile(disk), build.roots)
<1>1. /\ build.at = "capture" /\ UNCHANGED <<todo, pool, faults>> /\ disk' = SetRootFile(disk, w.file)
      /\ build' = [build EXCEPT !.at = "manifest", !.roots = w.runs]
  BY DEF AppendRootLeaves
<1>2. disk \in Disks /\ build \in Active /\ RootFile(disk) \in Words
  BY <1>1, Parts, DiskFacts
<1>3. build.roots \in Seq(Words) /\ RunsIn(RootFile(disk), build.runs)
  BY <1>1, Parts DEF RunsPlaced
<1>4. w.file \in Words /\ Grows(RootFile(disk), w.file) /\ RunsIn(w.file, w.runs)
  BY <1>2, <1>3, WriteRunsFacts
<1> HIDE DEF w
<1>5. RunsIn(w.file, build.runs) /\ w.runs \in Seq(RunRecords)
  BY <1>2, <1>3, <1>4, RunsKept DEF RunsIn
<1>6. /\ disk' \in Disks /\ RootFile(disk') = w.file /\ disk'.work # 0 /\ disk'.cacheMan = disk.cacheMan
      /\ (\A k \in Keys : disk.cache[k] # disk.work) => SameCache(disk, disk')
  BY <1>1, <1>2, <1>4, SetRootFacts
<1>7. build' \in Active
  <2>1. "manifest" \in Places
    BY DEF Places
  <2> QED BY <1>1, <1>2, <1>5, <2>1 DEF Active
<1>8. /\ build'.at = "manifest" /\ build'.runs = build.runs /\ build'.roots = w.runs /\ build'.failed = build.failed
      /\ build'.mode = build.mode /\ build'.key = build.key
  BY <1>1, <1>2 DEF Active
<1>9. RunsPlaced(build', disk')
  BY <1>4, <1>5, <1>6, <1>8 DEF RunsPlaced, Owned
<1>10. PartitionInv'
  BY <1>1, <1>6, <1>7, <1>8, <1>9, QuietStep
<1>11. ASSUME faults = 0 PROVE CacheClean(build', disk') /\ BuildClean(build', disk')
  <2>1. CacheClean(build, disk) /\ BuildClean(build, disk)
    BY <1>11, CleanParts
  <2>2. /\ ~build.failed /\ (build.mode = "cache" => disk.cacheMan[build.key] = Missing) /\ build.runs # <<>>
        /\ \A k \in Keys : disk.cache[k] # disk.work
    BY <1>1, <2>1 DEF BuildClean
  <2>3. CacheClean(build', disk')
    BY <1>1, <1>6, <2>1, <2>2, CacheKept
  <2> QED BY <1>6, <1>8, <2>2, <2>3 DEF BuildClean, Owned
<1> QED BY <1>1, <1>8, <1>10, <1>11, QuietClean DEF pool

\* The manifest a build writes describes its file.
LEMMA ManifestFacts ==
  ASSUME NEW key \in Keys, NEW file \in Words, NEW runs, RunsIn(file, runs), NEW roots, RunsIn(file, roots)
  PROVE  LET m == Manifest(key, file, runs, roots)
         IN  m \in Entries /\ EntryIn(m) /\ m \in Manifests /\ (runs # <<>> => ValidManifest(m, key))
<1> DEFINE m == Manifest(key, file, runs, roots)
<1>1. runs \in Seq(RunRecords) /\ roots \in Seq(RunRecords)
  BY DEF RunsIn
<1>2. m.key = key /\ m.contents = file /\ m.runs = runs /\ m.leaves = roots /\ m \in Entries
  BY <1>1 DEF Manifest, Entries
<1> HIDE DEF m
<1>3. EntryIn(m)
  BY <1>2 DEF EntryIn
<1>4. m \in Manifests
  BY <1>2, <1>3 DEF Manifests
<1>5. ASSUME NEW r \in ToSet(m.runs \o m.leaves) PROVE r \in RunRecords /\ RunIn(file, r)
  <2>1. PICK i \in DOMAIN (runs \o roots) : r = (runs \o roots)[i]
    BY <1>2 DEF ToSet
  <2>2. /\ Len(runs \o roots) = Len(runs) + Len(roots) /\ runs \o roots \in Seq(RunRecords)
        /\ Len(runs) \in Nat /\ Len(roots) \in Nat
    BY <1>1, ConcatProperties
  <2>3. i \in 1..(Len(runs) + Len(roots))
    BY <2>1, <2>2
  <2>4. (runs \o roots)[i] = IF i <= Len(runs) THEN runs[i] ELSE roots[i - Len(runs)]
    BY <1>1, <2>3, ConcatProperties
  <2>5. CASE i <= Len(runs)
    <3>1. i \in DOMAIN runs /\ r = runs[i]
      BY <1>1, <2>1, <2>2, <2>3, <2>4, <2>5
    <3> QED BY <1>1, <3>1 DEF RunsIn
  <2>6. CASE ~(i <= Len(runs))
    <3> DEFINE j == i - Len(runs)
    <3>1. j \in 1..Len(roots) /\ r = roots[j]
      BY <2>1, <2>2, <2>3, <2>4, <2>6
    <3> HIDE DEF j
    <3>2. j \in DOMAIN roots
      BY <1>1, <3>1
    <3> QED BY <1>1, <3>1, <3>2 DEF RunsIn
  <2> QED BY <2>5, <2>6
<1>6. ASSUME NEW r \in ToSet(m.runs \o m.leaves)
      PROVE  LET lens == [x \in DOMAIN r.extents |-> r.extents[x].len]
             IN  r.len = MapThenSumSet(LAMBDA x : lens[x], DOMAIN r.extents)
  <2> DEFINE lens == [x \in DOMAIN r.extents |-> r.extents[x].len]
  <2>1. r \in RunRecords /\ Len(r.extents) = 1 /\ r.extents[1].len = r.len
    BY <1>5, <1>6 DEF RunIn
  <2>2. r.extents \in Seq(Extents) /\ r.len \in Nat
    BY <2>1 DEF RunRecords
  <2>3. DOMAIN r.extents = {1}
    <3>1. DOMAIN r.extents = 1..1
      BY <2>1, <2>2
    <3> QED BY <3>1
  <2>4. lens[1] = r.len /\ lens[1] \in Nat
    BY <2>1, <2>2, <2>3
  <2> HIDE DEF lens
  <2>5. Sum(lens, {1}) = lens[1]
    BY <2>4, SumOne
  <2>6. MapThenSumSet(LAMBDA x : lens[x], {1}) = Sum(lens, {1})
    BY DEF Sum
  <2>7. r.len = MapThenSumSet(LAMBDA x : lens[x], DOMAIN r.extents)
    BY <2>3, <2>4, <2>5, <2>6
  <2> QED BY <2>7 DEF lens
<1>7. RunsAddUp(m)
  BY <1>6 DEF RunsAddUp
<1>8. InBounds(m)
  <2>1. SUFFICES ASSUME NEW r \in ToSet(m.runs \o m.leaves), NEW e \in ToSet(r.extents)
                 PROVE  e.offset + 1 + e.len <= Len(m.contents)
    BY DEF InBounds
  <2>2. r \in RunRecords /\ Len(r.extents) = 1 /\ ExtentIn(file, r.extents[1])
    BY <1>5, <2>1 DEF RunIn
  <2>3. r.extents \in Seq(Extents)
    BY <2>2 DEF RunRecords
  <2>4. e = r.extents[1]
    BY <2>1, <2>2, <2>3 DEF ToSet
  <2> QED BY <1>2, <2>2, <2>4 DEF ExtentIn, Words, Extents
<1>9. runs # <<>> => ValidManifest(m, key)
  BY <1>2, <1>7, <1>8 DEF ValidManifest
<1> QED BY <1>2, <1>3, <1>4, <1>9 DEF m

LEMMA OwnManifestFacts ==
  ASSUME PartitionInv, build.at \in Owned
  PROVE  /\ OwnManifest \in Entries /\ OwnManifest \in Manifests /\ OwnManifest.contents = RootFile(disk)
         /\ (build.runs # <<>> => ValidManifest(OwnManifest, build.key))
         /\ RunsIn(RootFile(disk), build.runs) /\ RunsIn(RootFile(disk), build.roots)
<1>1. build \in Active /\ disk \in Disks /\ RunsPlaced(build, disk)
  BY Parts DEF Owned
<1>2. build.key \in Keys /\ RootFile(disk) \in Words
  BY <1>1, ActiveFacts, DiskFacts
<1>3. RunsIn(RootFile(disk), build.runs) /\ RunsIn(RootFile(disk), build.roots)
  BY <1>1 DEF RunsPlaced
<1>4. OwnManifest.contents = RootFile(disk)
  BY DEF OwnManifest, Manifest
<1> QED BY <1>2, <1>3, <1>4, ManifestFacts DEF OwnManifest

LEMMA WriteManifestKept ==
  ASSUME PartitionInv, PartitionClean, WriteManifest
  PROVE  PartitionInv' /\ PartitionClean'
<1>1. /\ build.at = "manifest" /\ disk' = [disk EXCEPT !.workMan = OwnManifest] /\ UNCHANGED <<todo, pool, faults>>
      /\ build' = IF build.mode = "cache" THEN [build EXCEPT !.at = "install"] ELSE Waves
  BY DEF WriteManifest
<1>2. build \in Active /\ disk \in Disks
  BY <1>1, Parts
<1>3. OwnManifest \in Manifests /\ RunsIn(RootFile(disk), build.runs) /\ RunsIn(RootFile(disk), build.roots)
  BY <1>1, OwnManifestFacts DEF Owned
<1>4. /\ disk' \in Disks /\ disk'.file = disk.file /\ disk'.work = disk.work /\ disk'.cache = disk.cache
      /\ disk'.cacheMan = disk.cacheMan
  BY <1>1, <1>2, <1>3 DEF Disks
<1>5. RootFile(disk') = RootFile(disk) /\ SameCache(disk, disk')
  BY <1>4 DEF RootFile, SameCache
<1>6. ASSUME faults = 0 PROVE CacheClean(build', disk')
  <2>1. CacheClean(build, disk)
    BY <1>6, CleanParts
  <2> QED BY <1>1, <1>5, <2>1, CacheKept
<1>7. CASE build.mode # "cache"
  <2>1. build' = Waves /\ RunsIn(RootFile(disk'), build.runs)
    BY <1>1, <1>3, <1>5, <1>7
  <2> QED BY <1>1, <1>4, <1>6, <2>1, WavesKept
<1>8. CASE build.mode = "cache"
  <2>1. build' = [build EXCEPT !.at = "install"]
    BY <1>1, <1>8
  <2>2. build' \in Active
    <3>1. "install" \in Places
      BY DEF Places
    <3> QED BY <1>2, <2>1, <3>1 DEF Active
  <2>3. /\ build'.at = "install" /\ build'.runs = build.runs /\ build'.roots = build.roots
        /\ build'.failed = build.failed /\ build'.mode = build.mode /\ build'.key = build.key
    BY <1>2, <2>1 DEF Active
  <2>4. RunsPlaced(build', disk')
    BY <1>3, <1>5, <2>3 DEF RunsPlaced, Owned
  <2>5. PartitionInv'
    BY <1>1, <1>4, <2>2, <2>3, <2>4, QuietStep
  <2>6. ASSUME faults = 0 PROVE BuildClean(build', disk')
    <3>1. BuildClean(build, disk)
      BY <2>6, CleanParts
    <3> QED BY <1>1, <1>4, <1>8, <2>3, <3>1 DEF BuildClean, Owned
  <2> QED BY <1>1, <1>6, <2>3, <2>5, <2>6, QuietClean DEF pool
<1> QED BY <1>7, <1>8

LEMMA InstallRunFileKept ==
  ASSUME PartitionInv, PartitionClean, InstallRunFile
  PROVE  PartitionInv' /\ PartitionClean'
<1> DEFINE key == build.key
           root == RootFile(disk)
           here == FreeInode(disk)
<1>1. build.at = "install" /\ build \in Active /\ disk \in Disks /\ key \in Keys
  BY Parts, ActiveFacts DEF InstallRunFile
<1>2. /\ disk.cache \in [Keys -> Inodes \cup {0}] /\ disk.file \in [Inodes -> Words] /\ root \in Words
      /\ disk.work \in Inodes \cup {0} /\ 0 \notin Inodes
  BY <1>1, DiskFacts
<1>3. here \in Inodes /\ here # disk.work /\ \A k \in Keys : here # disk.cache[k]
  BY <1>1, FreeInodeFacts
<1>4. RunsIn(root, build.runs) /\ RunsIn(root, build.roots)
  BY <1>1, OwnManifestFacts DEF Owned
<1>5. ASSUME faults = 0
      PROVE  /\ disk.cache[key] = 0 /\ CacheClean(build, disk) /\ disk.cacheMan[key] = Missing
             /\ ~build.failed /\ build.runs # <<>> /\ disk.work # 0
  <2>1. CacheClean(build, disk) /\ BuildClean(build, disk)
    BY <1>5, CleanParts
  <2>2. disk.cacheMan[key] = Missing /\ ~build.failed /\ build.runs # <<>> /\ disk.work # 0
    BY <1>1, <2>1 DEF BuildClean, Owned
  <2>3. ~EntryClean(disk, key)
    BY <2>2, EntryParses DEF EntryClean
  <2> QED BY <1>1, <2>1, <2>2, <2>3 DEF CacheClean
<1>6. CASE disk.cache[key] # 0 /\ disk.file[disk.cache[key]] # root
  <2>1. Fails
    BY <1>6 DEF InstallRunFile
  <2> QED BY <1>1, <1>5, <1>6, <2>1, FailsKept
<1>7. CASE ~(disk.cache[key] # 0 /\ disk.file[disk.cache[key]] # root)
  <2>1. /\ \/ disk' = IF disk.cache[key] # 0 THEN disk ELSE [disk EXCEPT !.cache[key] = disk.work]
           \/ disk.cache[key] = 0 /\ disk' = [disk EXCEPT !.cache[key] = here, !.file[here] = root]
        /\ build' = [build EXCEPT !.at = "publish"] /\ UNCHANGED <<todo, pool, faults>>
    BY <1>7 DEF InstallRunFile
  <2>2. /\ disk' \in Disks /\ disk'.work = disk.work /\ disk'.cacheMan = disk.cacheMan
        /\ RootFile(disk') = root
        /\ (disk.work # 0 => disk'.cache[key] # 0 /\ disk'.file[disk'.cache[key]] = root)
        /\ \A k \in Keys \ {key} : /\ disk'.cache[k] = disk.cache[k]
                                   /\ disk.cache[k] # 0 => disk'.file[disk.cache[k]] = disk.file[disk.cache[k]]
    <3>1. CASE disk.cache[key] # 0
      <4>1. disk' = disk
        BY <2>1, <3>1
      <4> QED BY <1>1, <1>7, <3>1, <4>1
    <3>2. CASE disk.cache[key] = 0 /\ disk' = [disk EXCEPT !.cache[key] = disk.work]
      <4> DEFINE f == [disk.cache EXCEPT ![key] = disk.work]
      <4>1. disk' = [disk EXCEPT !.cache = f]
        BY <3>2
      <4>2. f \in [Keys -> Inodes \cup {0}] /\ f[key] = disk.work /\ \A k \in Keys \ {key} : f[k] = disk.cache[k]
        BY <1>1, <1>2
      <4> HIDE DEF f
      <4>3. /\ disk' \in Disks /\ disk'.cache = f /\ disk'.file = disk.file /\ disk'.work = disk.work
            /\ disk'.cacheMan = disk.cacheMan
        BY <1>1, <4>1, <4>2 DEF Disks
      <4> QED BY <4>2, <4>3 DEF RootFile
    <3>3. CASE disk.cache[key] = 0 /\ disk' = [disk EXCEPT !.cache[key] = here, !.file[here] = root]
      <4> DEFINE f == [disk.cache EXCEPT ![key] = here]
                 g == [disk.file EXCEPT ![here] = root]
      <4>1. disk' = [disk EXCEPT !.cache = f, !.file = g]
        BY <3>3
      <4> HIDE DEF here, root
      <4>2. f \in [Keys -> Inodes \cup {0}] /\ f[key] = here /\ \A k \in Keys \ {key} : f[k] = disk.cache[k]
        BY <1>1, <1>2, <1>3
      <4>3. g \in [Inodes -> Words] /\ g[here] = root /\ \A i \in Inodes \ {here} : g[i] = disk.file[i]
        BY <1>2, <1>3
      <4> HIDE DEF f, g
      <4>4. /\ disk' \in Disks /\ disk'.cache = f /\ disk'.file = g /\ disk'.work = disk.work
            /\ disk'.cacheMan = disk.cacheMan
        BY <1>1, <4>1, <4>2, <4>3 DEF Disks
      <4>5. RootFile(disk') = root
        BY <1>2, <1>3, <4>3, <4>4 DEF RootFile, root
      <4>6. \A k \in Keys \ {key} : disk.cache[k] # 0 => g[disk.cache[k]] = disk.file[disk.cache[k]]
        BY <1>2, <1>3, <4>3
      <4>7. here # 0
        BY <1>2, <1>3
      <4> QED BY <4>2, <4>3, <4>4, <4>5, <4>6, <4>7
    <3> QED BY <2>1, <3>1, <3>2, <3>3
  <2>3. build' \in Active
    <3>1. "publish" \in Places
      BY DEF Places
    <3> QED BY <1>1, <2>1, <3>1 DEF Active
  <2>4. /\ build'.at = "publish" /\ build'.runs = build.runs /\ build'.roots = build.roots
        /\ build'.failed = build.failed /\ build'.mode = build.mode /\ build'.key = key
    BY <1>1, <2>1 DEF Active
  <2>5. RunsPlaced(build', disk')
    BY <1>4, <2>2, <2>4 DEF RunsPlaced, Owned
  <2>6. PartitionInv'
    BY <1>1, <2>1, <2>2, <2>3, <2>4, <2>5, QuietStep
  <2>7. ASSUME faults = 0 PROVE CacheClean(build', disk') /\ BuildClean(build', disk')
    <3> HIDE DEF key, root
    <3>1. ASSUME NEW k \in Keys, k # key
          PROVE  EntryClean(disk', k) \/ (disk'.cacheMan[k] = Missing /\ disk'.cache[k] = 0)
      <4>1. EntryClean(disk, k) \/ (disk.cacheMan[k] = Missing /\ disk.cache[k] = 0)
        BY <1>1, <1>5, <2>7, <3>1 DEF CacheClean
      <4> QED BY <2>2, <3>1, <4>1 DEF EntryClean
    <3>2. CacheClean(build', disk')
      BY <1>5, <2>2, <2>4, <2>7, <3>1 DEF CacheClean
    <3>3. BuildClean(build', disk')
      BY <1>5, <2>2, <2>4, <2>7 DEF BuildClean, Owned
    <3> QED BY <3>2, <3>3
  <2> QED BY <2>1, <2>4, <2>6, <2>7, QuietClean DEF pool
<1> QED BY <1>6, <1>7

LEMMA PublishManifestKept ==
  ASSUME PartitionInv, PartitionClean, PublishManifest
  PROVE  PartitionInv' /\ PartitionClean'
<1> DEFINE key == build.key
<1>1. build.at = "publish" /\ build \in Active /\ disk \in Disks /\ key \in Keys
  BY Parts, ActiveFacts DEF PublishManifest
<1>2. disk.cacheMan \in [Keys -> Manifests]
  BY <1>1, DiskFacts
<1>3. /\ OwnManifest \in Entries /\ OwnManifest \in Manifests /\ OwnManifest.contents = RootFile(disk)
      /\ (build.runs # <<>> => ValidManifest(OwnManifest, key)) /\ RunsIn(RootFile(disk), build.runs)
  BY <1>1, OwnManifestFacts DEF Owned
<1>4. ASSUME faults = 0
      PROVE  /\ CacheClean(build, disk) /\ disk.cacheMan[key] = Missing /\ build.runs # <<>>
             /\ disk.cache[key] # 0 /\ disk.file[disk.cache[key]] = RootFile(disk)
  <2>1. CacheClean(build, disk) /\ BuildClean(build, disk)
    BY <1>4, CleanParts
  <2> QED BY <1>1, <2>1 DEF BuildClean, Owned
<1>5. CASE disk.cacheMan[key] \notin {Missing, OwnManifest}
  <2>1. Fails
    BY <1>5 DEF PublishManifest
  <2> QED BY <1>1, <1>4, <1>5, <2>1, FailsKept
<1>6. CASE disk.cacheMan[key] \in {Missing, OwnManifest}
  <2> DEFINE f == [disk.cacheMan EXCEPT ![key] = OwnManifest]
  <2>1. /\ disk' = [disk EXCEPT !.cacheMan = f] /\ build' = Waves /\ UNCHANGED <<todo, pool, faults>>
    BY <1>6 DEF PublishManifest
  <2>2. f \in [Keys -> Manifests] /\ f[key] = OwnManifest /\ \A k \in Keys \ {key} : f[k] = disk.cacheMan[k]
    BY <1>1, <1>2, <1>3
  <2> HIDE DEF f
  <2>3. /\ disk' \in Disks /\ disk'.cacheMan = f /\ disk'.cache = disk.cache /\ disk'.file = disk.file
        /\ disk'.work = disk.work
    BY <1>1, <2>1, <2>2 DEF Disks
  <2>4. RootFile(disk') = RootFile(disk)
    BY <2>3 DEF RootFile
  <2>5. ASSUME faults = 0 PROVE CacheClean(build', disk')
    <3>1. EntryClean(disk', key)
      BY <1>3, <1>4, <2>2, <2>3, <2>5 DEF EntryClean
    <3>2. ASSUME NEW k \in Keys, k # key
          PROVE  EntryClean(disk', k) \/ (disk'.cacheMan[k] = Missing /\ disk'.cache[k] = 0)
      <4>1. EntryClean(disk, k) \/ (disk.cacheMan[k] = Missing /\ disk.cache[k] = 0)
        BY <1>4, <2>5, <3>2 DEF CacheClean
      <4> QED BY <2>2, <2>3, <3>2, <4>1 DEF EntryClean
    <3> QED BY <3>1, <3>2 DEF CacheClean
  <2>6. RunsIn(RootFile(disk'), build.runs)
    BY <1>3, <2>4
  <2> QED BY <1>1, <2>1, <2>3, <2>5, <2>6, WavesKept
<1> QED BY <1>5, <1>6

\* parallel_join_child_runs without L2: every run is a cluster.
LEMMA JoinInlineKept ==
  ASSUME PartitionInv, PartitionClean, JoinInline
  PROVE  PartitionInv' /\ PartitionClean'
<1>1. /\ build.at = "wave" /\ build.depth = 1 /\ build' = [build EXCEPT !.at = "recurse"]
      /\ disk' = disk /\ UNCHANGED <<pool, faults>>
      /\ todo' = [r \in DOMAIN build.runs |->
                    Cluster(ReadChain(FileOfDepth(disk, 0), build.runs[r].extents), 1, Len(Points))]
  BY DEF JoinInline
<1>2. /\ build \in Active /\ disk \in Disks /\ RunsPlaced(build, disk) /\ CallsOK(call, gate)
      /\ faults \in 0..MaxFaults
  BY <1>1, Parts
<1> DEFINE file == FileOfDepth(disk, 0)
<1>3. file \in Words /\ RunsIn(file, build.runs)
  <2>1. build.depth - 1 = 0
    BY <1>1
  <2>2. RunsIn(FileOfDepth(disk, build.depth - 1), build.runs)
    BY <1>1, <1>2 DEF RunsPlaced
  <2>3. FileOfDepth(disk, 0) = RootFile(disk) /\ RootFile(disk) \in Words
    BY <1>2, DiskFacts DEF FileOfDepth
  <2> QED BY <2>1, <2>2, <2>3
<1> HIDE DEF file
<1>4. 1 \in 1..MaxDepth /\ Len(Points) \in Nat
  BY PartitionAssumption
<1>5. \A r \in DOMAIN build.runs : Cluster(ReadChain(file, build.runs[r].extents), 1, Len(Points)) \in Nodes
  BY <1>3, <1>4, RunWords DEF Cluster, Nodes
<1>6. \E n \in Nat : DOMAIN build.runs = 1..n
  BY <1>3 DEF RunsIn
<1>7. todo' \in Seq(Nodes)
  BY <1>1, <1>5, <1>6 DEF file
<1>8. build' \in Active /\ build'.at = "recurse" /\ build'.failed = build.failed
  <2>1. "recurse" \in Places
    BY DEF Places
  <2> QED BY <1>1, <1>2, <2>1 DEF Active
<1>9. PartitionInv'
  <2>1. RunsPlaced(build', disk') /\ ScanPlaced(build', scan') /\ Pending(build', todo', call')
    BY <1>7, <1>8 DEF RunsPlaced, ScanPlaced, Pending, Owned
  <2>2. CallsOK(call', gate') /\ faults' \in 0..MaxFaults /\ disk' \in Disks
    BY <1>1, <1>2 DEF pool
  <2> QED BY <1>8, <2>1, <2>2 DEF PartitionInv
<1>10. ASSUME faults = 0 PROVE CacheClean(build', disk') /\ BuildClean(build', disk')
  <2>1. CacheClean(build, disk) /\ BuildClean(build, disk)
    BY <1>10, CleanParts
  <2>2. SameCache(disk, disk') /\ ~build.failed
    BY <1>1, <2>1 DEF SameCache, BuildClean
  <2>3. CacheClean(build', disk')
    BY <1>1, <2>1, <2>2, CacheKept
  <2> QED BY <1>8, <2>2, <2>3 DEF BuildClean, Owned
<1> QED BY <1>1, <1>8, <1>9, <1>10, QuietClean DEF pool

\* The runs of a level that go on are none at the last depth.
LEMMA LevelFacts ==
  ASSUME build.key \in Keys, NEW file \in Words, RunsIn(file, build.runs),
         NEW small, NEW lists, lists = [r \in DOMAIN ReadBatched(file, build.runs) |->
                               Dedup(ReadBatched(file, build.runs)[r], build.depth, Fanout)],
         build.depth >= MaxDepth => DOMAIN lists \subseteq small,
         NEW I, I \subseteq DOMAIN lists \ small
  PROVE  At(lists, I) \in Seq(Words) /\ (At(lists, I) # <<>> => ~(build.depth >= MaxDepth))
<1> DEFINE read == ReadBatched(file, build.runs)
<1>1. read \in Seq(Words)
  BY ReadBatchedWords
<1> HIDE DEF read
<1>2. \A r \in DOMAIN read : Dedup(read[r], build.depth, Fanout) \in Words
  BY <1>1, DedupWords
<1>3. lists = [r \in DOMAIN read |-> Dedup(read[r], build.depth, Fanout)]
  BY DEF read
<1>4. lists \in Seq(Words)
  BY <1>1, <1>2, <1>3
<1>5. I \in SUBSET DOMAIN lists
  OBVIOUS
<1>6. build.depth >= MaxDepth => I = {}
  OBVIOUS
<1>7. At(lists, I) \in Seq(Words) /\ Len(At(lists, I)) = Cardinality(I)
  BY <1>4, <1>5, AtFacts
<1>8. I = {} => At(lists, I) = <<>>
  <2>1. Cardinality({}) = 0
    BY FS_EmptySet
  <2> QED BY <1>7, <2>1
<1> QED BY <1>6, <1>7, <1>8

LEMMA ScanLevelKept ==
  ASSUME PartitionInv, PartitionClean, NEW ads \in SUBSET DOMAIN build.runs, ScanLevel(ads)
  PROVE  PartitionInv' /\ PartitionClean'
<1> DEFINE file == FileOfDepth(disk, build.depth - 1)
           read == ReadBatched(file, build.runs)
           lists == [r \in DOMAIN read |-> Dedup(read[r], build.depth, Fanout)]
           small == {r \in DOMAIN lists : \/ build.depth >= MaxDepth \/ Len(lists[r]) <= Cmax
                                          \/ build.depth >= 3 /\ Len(lists[r]) <= MinRecurse}
           work == At(lists, ads \ small)
           clusters == At(lists, DOMAIN lists \ (small \cup ads))
           at == IF work # <<>> THEN "scan" ELSE "split"
<1>1. /\ build.at = "wave"
      /\ build' = [build EXCEPT !.at = at, !.runs = <<>>, !.work = work, !.clusters = clusters]
      /\ scan' = IF work # <<>> THEN StartScan(work) ELSE NoScan
      /\ UNCHANGED <<disk, todo, faults, call, gate>>
  BY DEF ScanLevel, Fallback
<1>2. /\ build \in Active /\ disk \in Disks /\ RunsPlaced(build, disk) /\ CallsOK(call, gate)
      /\ faults \in 0..MaxFaults /\ Pending(build, todo, call)
  BY <1>1, Parts
<1>3. build.key \in Keys /\ build.depth \in 0..MaxDepth /\ build.depth >= 1 /\ RunsIn(file, build.runs)
  BY <1>1, <1>2, ActiveFacts DEF RunsPlaced
<1>4. file \in Words
  <2>1. build.depth - 1 \in 0..MaxDepth
    BY <1>3, PartitionAssumption
  <2> QED BY <1>2, <2>1, DiskFacts
<1>5. build.depth >= MaxDepth => DOMAIN lists \subseteq small
  OBVIOUS
<1>6. /\ work \in Seq(Words) /\ clusters \in Seq(Words)
      /\ work # <<>> \/ clusters # <<>> => ~(build.depth >= MaxDepth)
  <2> HIDE DEF small
  <2>1. lists = [r \in DOMAIN ReadBatched(file, build.runs) |->
                   Dedup(ReadBatched(file, build.runs)[r], build.depth, Fanout)]
    OBVIOUS
  <2>2. DOMAIN lists = DOMAIN build.runs
    <3>1. DOMAIN ReadBatched(file, build.runs) = DOMAIN build.runs
      BY DEF ReadBatched
    <3> QED BY <2>1, <3>1
  <2> HIDE DEF lists, file
  <2>3. ads \ small \subseteq DOMAIN lists \ small
    BY <2>2
  <2>4. DOMAIN lists \ (small \cup ads) \subseteq DOMAIN lists \ small
    OBVIOUS
  <2>5. work \in Seq(Words) /\ (work # <<>> => ~(build.depth >= MaxDepth))
    BY <1>3, <1>4, <1>5, <2>1, <2>3, LevelFacts
  <2>6. clusters \in Seq(Words) /\ (clusters # <<>> => ~(build.depth >= MaxDepth))
    BY <1>3, <1>4, <1>5, <2>1, <2>4, LevelFacts
  <2> QED BY <2>5, <2>6
<1> HIDE DEF work, clusters
<1>7. /\ at \in {"scan", "split"} /\ at \in Places /\ <<>> \in Seq(RunRecords)
      /\ (at = "scan" => work # <<>> /\ scan' = StartScan(work))
      /\ (at = "split" => work = <<>>)
  BY <1>1 DEF Places
<1> HIDE DEF at
<1>8. build' \in Active
  BY <1>1, <1>2, <1>6, <1>7 DEF Active
<1>9. /\ build'.at = at /\ build'.runs = <<>> /\ build'.work = work /\ build'.clusters = clusters
      /\ build'.depth = build.depth /\ build'.failed = build.failed
  BY <1>1, <1>2 DEF Active
<1>10. RunsPlaced(build', disk')
  <2>1. RunsIn(FileOfDepth(disk', build'.depth), build'.runs)
    BY <1>7, <1>9 DEF RunsIn
  <2>2. build'.work # <<>> \/ build'.clusters # <<>> => build'.depth < MaxDepth
    BY <1>3, <1>6, <1>7, <1>9, PartitionAssumption
  <2> QED BY <1>3, <1>7, <1>9, <2>1, <2>2 DEF RunsPlaced, Owned
<1>11. ScanPlaced(build', scan') /\ (build'.at = "scan" => ScanClean(scan'))
  <2>1. CASE at = "scan"
    <3>1. ScanOK(scan') /\ ScanClean(scan') /\ scan'.runs = work
      BY <1>6, <1>7, <2>1, StartScanOK
    <3>2. Remaining(work, work)
      BY <1>6 DEF Remaining
    <3> QED BY <1>7, <1>9, <2>1, <3>1, <3>2 DEF ScanPlaced
  <2>2. CASE at = "split"
    BY <1>7, <1>9, <2>2 DEF ScanPlaced
  <2> QED BY <1>7, <2>1, <2>2
<1>12. Pending(build', todo', call')
  BY <1>1, <1>2 DEF Pending
<1>13. PartitionInv'
  BY <1>1, <1>2, <1>8, <1>10, <1>11, <1>12 DEF PartitionInv
<1>14. ASSUME faults = 0 PROVE PartitionClean'
  <2>1. CacheClean(build, disk) /\ BuildClean(build, disk) /\ CallsClean(call)
    BY <1>14, CleanParts
  <2>2. SameCache(disk, disk') /\ ~build.failed
    BY <1>1, <2>1 DEF SameCache, BuildClean
  <2>3. CacheClean(build', disk')
    BY <1>1, <2>1, <2>2, CacheKept
  <2>4. BuildClean(build', disk')
    BY <1>7, <1>9, <2>2 DEF BuildClean, Owned
  <2> QED BY <1>1, <1>11, <2>1, <2>3, <2>4 DEF PartitionClean
<1>15. faults # 0 => PartitionClean'
  BY <1>1 DEF PartitionClean
<1> QED BY <1>13, <1>14, <1>15

LEMMA ScanFaults ==
  ASSUME faults \in 0..MaxFaults, ScanStep, faults' = 0
  PROVE  faults = 0
<1>1. faults' = faults \/ Fault
  BY DEF ScanStep, FillQueue, ReadBatch, SendLoaded, ComputeBatch, SendComputed, ReceiveComputed,
     DrainComputed, AllApplied
<1> QED BY <1>1, FaultCounted

\* A step of the level scan.
LEMMA ScanActionKept ==
  ASSUME PartitionInv, PartitionClean, Scan
  PROVE  PartitionInv' /\ PartitionClean'
<1>1. build.at = "scan" /\ ScanStep /\ UNCHANGED <<disk, build, leaves, todo, call, gate>>
  BY DEF Scan
<1>2. /\ disk \in Disks /\ build \in Active /\ RunsPlaced(build, disk) /\ Pending(build, todo, call)
      /\ CallsOK(call, gate) /\ faults \in 0..MaxFaults /\ ScanOK(scan) /\ Remaining(build.work, scan.runs)
  BY <1>1, Parts DEF ScanPlaced
<1>3. ScanKept
  BY <1>1, <1>2, ScanStepKept
<1>4. ScanPlaced(build', scan') /\ faults' \in 0..MaxFaults
  BY <1>1, <1>2, <1>3 DEF ScanKept, ScanPlaced
<1>5. PartitionInv'
  BY <1>1, <1>2, <1>4 DEF PartitionInv
<1>6. ASSUME faults' = 0 PROVE PartitionClean'
  <2>1. faults = 0
    BY <1>1, <1>2, <1>6, ScanFaults
  <2>2. CacheClean(build, disk) /\ BuildClean(build, disk) /\ CallsClean(call) /\ ScanClean(scan)
    BY <1>1, <2>1, CleanParts
  <2>3. ScanClean(scan')
    BY <1>3, <1>6, <2>2 DEF ScanKept
  <2> QED BY <1>1, <2>2, <2>3 DEF PartitionClean
<1>7. faults' # 0 => PartitionClean'
  BY DEF PartitionClean
<1> QED BY <1>5, <1>6, <1>7

LEMMA ScanEndsKept ==
  ASSUME PartitionInv, PartitionClean, ScanEnds
  PROVE  PartitionInv' /\ PartitionClean'
<1>1. build.at = "scan" /\ scan.at = "join"
  BY DEF ScanEnds, Joined
<1>2. /\ disk \in Disks /\ build \in Active /\ RunsPlaced(build, disk) /\ Pending(build, todo, call)
      /\ CallsOK(call, gate) /\ faults \in 0..MaxFaults /\ ScanOK(scan) /\ Remaining(build.work, scan.runs)
  BY <1>1, Parts DEF ScanPlaced
<1>3. ASSUME faults = 0
      PROVE  CacheClean(build, disk) /\ BuildClean(build, disk) /\ CallsClean(call) /\ ~scan.err
  BY <1>1, <1>3, CleanParts DEF ScanClean, Sound
<1>4. CASE scan.err
  <2>1. Fails
    BY <1>4 DEF ScanEnds
  <2> QED BY <1>1, <1>3, <1>4, <2>1, FailsKept
<1>5. CASE ~scan.err
  <2>1. build' = [build EXCEPT !.at = "split"] /\ UNCHANGED <<disk, leaves, todo, scan, call, gate, faults>>
    BY <1>5 DEF ScanEnds, pool
  <2>2. build' \in Active
    <3>1. "split" \in Places
      BY DEF Places
    <3> QED BY <1>2, <2>1, <3>1 DEF Active
  <2>3. /\ build'.at = "split" /\ build'.runs = build.runs /\ build'.work = build.work
        /\ build'.clusters = build.clusters /\ build'.depth = build.depth /\ build'.failed = build.failed
    BY <1>2, <2>1 DEF Active
  <2>4. RunsPlaced(build', disk')
    BY <1>1, <1>2, <2>1, <2>3 DEF RunsPlaced, Owned
  <2>5. ScanPlaced(build', scan') /\ Pending(build', todo', call')
    BY <1>1, <1>2, <1>5, <2>1, <2>3 DEF ScanPlaced, Pending
  <2>6. PartitionInv'
    BY <1>2, <2>1, <2>2, <2>4, <2>5 DEF PartitionInv
  <2>7. ASSUME faults = 0 PROVE CacheClean(build', disk') /\ BuildClean(build', disk')
    <3>1. SameCache(disk, disk') /\ ~build.failed
      BY <1>1, <1>3, <2>1, <2>7 DEF SameCache, BuildClean
    <3>2. CacheClean(build', disk')
      BY <1>1, <1>3, <2>7, <3>1, CacheKept
    <3> QED BY <2>3, <3>1, <3>2 DEF BuildClean, Owned
  <2> QED BY <2>1, <2>3, <2>6, <2>7, QuietClean
<1> QED BY <1>4, <1>5
-----------------------------------------------------------------------------
(* The runs of a level, and the recursion. *)

\* Nothing happened to the calls.
LEMMA CallsUnchanged ==
  ASSUME CallsOK(call, gate), faults \in 0..MaxFaults, UNCHANGED <<call, gate, faults>>
  PROVE  CallKept
BY DEF CallKept

\* A step of the recursion, of a prefetched call, or of the calling thread between two runs.
LEMMA PoolStep ==
  ASSUME PartitionInv, PartitionClean, build.at \in {"split", "recurse"}, build' \in Active, build'.at = build.at,
         disk' \in Disks, SameCache(disk, disk'), RunsPlaced(build', disk'), ScanPlaced(build', scan'),
         todo' \in Seq(Nodes), CallKept, faults' = 0 /\ ~build.failed => ~build'.failed
  PROVE  PartitionInv' /\ PartitionClean'
<1>1. Pending(build', todo', call')
  BY DEF Pending
<1>2. PartitionInv'
  BY <1>1 DEF PartitionInv, CallKept
<1>3. ASSUME faults' = 0 PROVE PartitionClean'
  <2>1. faults = 0
    BY <1>3 DEF CallKept
  <2>2. CacheClean(build, disk) /\ BuildClean(build, disk) /\ CallsClean(call)
    BY <2>1, CleanParts
  <2>3. ~build.failed
    BY <2>2 DEF BuildClean
  <2>4. CacheClean(build', disk')
    BY <2>2, CacheKept
  <2>5. BuildClean(build', disk')
    BY <1>3, <2>3 DEF BuildClean, Owned
  <2>6. CallsClean(call')
    BY <1>3, <2>2 DEF CallKept
  <2> QED BY <2>4, <2>5, <2>6 DEF PartitionClean
<1>4. faults' # 0 => PartitionClean'
  BY DEF PartitionClean
<1> QED BY <1>2, <1>3, <1>4

\* The file of a depth below the root is appended to.
LEMMA DeepFacts ==
  ASSUME NEW d \in Disks, NEW x \in 1..MaxDepth, NEW words \in Words, Grows(d.deep[x], words)
  PROVE  LET e == [d EXCEPT !.deep[x] = words]
         IN  /\ e \in Disks /\ SameCache(d, e) /\ FileOfDepth(e, x) = words
             /\ \A y \in 1..MaxDepth : Grows(FileOfDepth(d, y), FileOfDepth(e, y))
<1> DEFINE f == [d.deep EXCEPT ![x] = words]
           e == [d EXCEPT !.deep = f]
<1>1. d.deep \in [1..MaxDepth -> Words]
  BY DiskFacts
<1>2. f \in [1..MaxDepth -> Words] /\ f[x] = words /\ \A y \in (1..MaxDepth) \ {x} : f[y] = d.deep[y]
  BY <1>1
<1> HIDE DEF f
<1>3. e \in Disks /\ e.deep = f /\ e.cache = d.cache /\ e.cacheMan = d.cacheMan /\ e.file = d.file
  BY <1>2 DEF Disks
<1> HIDE DEF e
<1>4. \A y \in 1..MaxDepth : FileOfDepth(e, y) = f[y] /\ FileOfDepth(d, y) = d.deep[y]
  BY <1>3 DEF FileOfDepth
<1>5. \A y \in 1..MaxDepth : Grows(d.deep[y], d.deep[y])
  BY <1>1, GrowsFacts
<1>6. \A y \in 1..MaxDepth : Grows(d.deep[y], f[y])
  BY <1>2, <1>5
<1>7. SameCache(d, e)
  BY <1>3 DEF SameCache
<1> QED BY <1>2, <1>3, <1>4, <1>6, <1>7 DEF e, f

\* The runs of a level stay in the file of its depth while others append to the files.
LEMMA DeepPlaced ==
  ASSUME NEW d \in Disks, NEW x \in 1..MaxDepth, NEW words \in Words, Grows(d.deep[x], words),
         NEW b \in Active, b.at \in {"split", "recurse"}, RunsPlaced(b, d)
  PROVE  RunsPlaced(b, [d EXCEPT !.deep[x] = words])
<1> DEFINE e == [d EXCEPT !.deep[x] = words]
<1>1. e \in Disks /\ \A y \in 1..MaxDepth : Grows(FileOfDepth(d, y), FileOfDepth(e, y))
  BY DeepFacts
<1> HIDE DEF e
<1>2. CASE b.at = "recurse"
  BY <1>2 DEF RunsPlaced, Owned, e
<1>3. CASE b.at = "split"
  <2>1. b.depth >= 1 /\ RunsIn(FileOfDepth(d, b.depth), b.runs) /\ b.depth \in 0..MaxDepth
    BY <1>3, ActiveFacts DEF RunsPlaced
  <2>2. b.depth \in 1..MaxDepth
    BY <2>1, PartitionAssumption
  <2>3. FileOfDepth(d, b.depth) \in Words /\ FileOfDepth(e, b.depth) \in Words
    BY <1>1, <2>1, DiskFacts
  <2>4. RunsIn(FileOfDepth(e, b.depth), b.runs)
    BY <1>1, <2>1, <2>2, <2>3, RunsKept
  <2> QED BY <1>3, <2>4 DEF RunsPlaced, Owned, e
<1> QED BY <1>2, <1>3

\* The pipeline of a level has come to its end: the records of every run are spooled, in order.
LEMMA ScanDone ==
  ASSUME NEW s, ScanOK(s), s.at = "join", ~s.err, NEW r \in DOMAIN s.runs
  PROVE  SegmentRecords(s.spool, s.segments[r]) = [i \in DOMAIN s.runs[r] |-> <<r, i>>]
<1> DEFINE w == [spool |-> s.spool, segments |-> s.segments]
<1>1. s.runs \in Seq(Words) /\ s \in ScanRecords(s.runs) /\ ScanPhase(s) /\ ScanSpooled(s)
  BY DEF ScanOK
<1>2. s.exhausted /\ s.applied = s.sent
  BY <1>1 DEF ScanPhase
<1>3. s.sent = Len(s.batches)
  BY <1>1, <1>2 DEF ScanPhase
<1>4. s.batches = BatchesOf(s.runs)
  BY <1>1 DEF ScanRecords
<1>5. Spooled(w, Len(s.runs), HeadsOf(s.runs)[Len(BatchesOf(s.runs))])
  BY <1>1, <1>2, <1>3, <1>4 DEF ScanSpooled
<1>6. w.spool = s.spool /\ w.segments = s.segments
  OBVIOUS
<1> HIDE DEF w
<1> QED BY <1>1, <1>5, <1>6, AllSpooled

\* What the calling thread splits next.
LEMMA NextRun ==
  ASSUME PartitionInv, build.at = "split", build.work # <<>>
  PROVE  LET r == Len(scan.segments) - Len(build.work) + 1
             pts == Head(build.work)
             records == SegmentRecords(scan.spool, scan.segments[r])
         IN  /\ pts \in Words /\ Tail(build.work) \in Seq(Words) /\ Remaining(Tail(build.work), scan.runs)
             /\ \A i \in 1..Len(pts) : i \in DOMAIN records /\ records[i][2] = i
<1> DEFINE n == Len(scan.segments)
           m == Len(build.work)
           r == n - m + 1
           pts == Head(build.work)
           rest == Tail(build.work)
<1>1. ScanOK(scan) /\ Remaining(build.work, scan.runs) /\ scan.at = "join" /\ ~scan.err /\ build \in Active
  BY Parts DEF ScanPlaced
<1>2. build.work \in Seq(Words) /\ scan.runs \in Seq(Words) /\ scan \in ScanRecords(scan.runs)
  BY <1>1, ActiveFacts DEF ScanOK
<1>3. scan.segments \in [1..Len(scan.runs) -> Seq(Extents)] /\ Len(scan.runs) \in Nat
  BY <1>2 DEF ScanRecords
<1>4. scan.segments \in Seq(Seq(Extents)) /\ n = Len(scan.runs)
  BY <1>3
<1>5. /\ m \in Nat \ {0} /\ pts = build.work[1] /\ pts \in Words /\ rest \in Seq(Words) /\ Len(rest) = m - 1
      /\ DOMAIN rest = 1..(m - 1) /\ \A i \in DOMAIN rest : rest[i] = build.work[i + 1]
  BY <1>2, TailFacts
<1>6. n \in Nat /\ m <= n /\ \A j \in 1..m : build.work[j] = scan.runs[n - m + j]
  BY <1>1, <1>3, <1>4 DEF Remaining
<1>7. r \in DOMAIN scan.runs /\ scan.runs[r] = pts
  <2> HIDE DEF n, m, pts
  <2>1. r \in 1..n /\ 1 \in 1..m /\ n - m + 1 = r
    BY <1>5, <1>6
  <2>2. build.work[1] = scan.runs[n - m + 1]
    BY <1>6, <2>1
  <2>3. DOMAIN scan.runs = 1..n
    BY <1>2, <1>4
  <2> HIDE DEF r
  <2> QED BY <1>5, <2>1, <2>2, <2>3
<1>8. Remaining(rest, scan.runs)
  <2>1. Len(rest) <= Len(scan.runs)
    BY <1>4, <1>5, <1>6
  <2>2. ASSUME NEW j \in 1..Len(rest) PROVE rest[j] = scan.runs[Len(scan.runs) - Len(rest) + j]
    <3>1. j \in 1..(m - 1)
      BY <1>5, <2>2
    <3> HIDE DEF rest, n, m
    <3>2. j + 1 \in 1..m /\ n - (m - 1) + j = n - m + (j + 1)
      BY <1>5, <1>6, <3>1
    <3>3. build.work[j + 1] = scan.runs[n - m + (j + 1)]
      BY <1>6, <3>2
    <3> QED BY <1>4, <1>5, <3>1, <3>2, <3>3
  <2> QED BY <2>1, <2>2 DEF Remaining
<1>9. SegmentRecords(scan.spool, scan.segments[r]) = [i \in DOMAIN pts |-> <<r, i>>]
  <2> HIDE DEF r, pts
  <2>1. SegmentRecords(scan.spool, scan.segments[r]) = [i \in DOMAIN scan.runs[r] |-> <<r, i>>]
    BY <1>1, <1>7, ScanDone
  <2> QED BY <1>7, <2>1
<1>10. DOMAIN pts = 1..Len(pts)
  BY <1>5 DEF Words
<1> DEFINE records == SegmentRecords(scan.spool, scan.segments[r])
<1>11. \A i \in 1..Len(pts) : i \in DOMAIN records /\ records[i][2] = i
  <2> HIDE DEF r, pts
  <2> QED BY <1>9, <1>10
<1> QED BY <1>5, <1>8, <1>11

LEMMA RunsJoined ==
  ASSUME NEW file \in Words, NEW a, RunsIn(file, a), NEW b, RunsIn(file, b)
  PROVE  RunsIn(file, a \o b)
<1>1. a \in Seq(RunRecords) /\ b \in Seq(RunRecords)
  BY DEF RunsIn
<1>2. /\ a \o b \in Seq(RunRecords) /\ Len(a \o b) = Len(a) + Len(b) /\ Len(a) \in Nat /\ Len(b) \in Nat
      /\ \A i \in 1..(Len(a) + Len(b)) : (a \o b)[i] = IF i <= Len(a) THEN a[i] ELSE b[i - Len(a)]
  BY <1>1, ConcatProperties
<1>3. ASSUME NEW i \in DOMAIN (a \o b) PROVE RunIn(file, (a \o b)[i])
  <2> DEFINE m == Len(a)
             n == Len(b)
             j == i - m
  <2>1. m \in Nat /\ n \in Nat /\ i \in 1..(m + n) /\ DOMAIN a = 1..m /\ DOMAIN b = 1..n
    BY <1>1, <1>2
  <2>2. (a \o b)[i] = IF i <= m THEN a[i] ELSE b[j]
    BY <1>2, <2>1
  <2> HIDE DEF m, n
  <2>3. IF i <= m THEN i \in 1..m ELSE j \in 1..n
    BY <2>1
  <2> HIDE DEF j
  <2> QED BY <2>1, <2>2, <2>3 DEF RunsIn
<1> QED BY <1>2, <1>3 DEF RunsIn

LEMMA OneElement ==
  ASSUME NEW S, NEW x \in S
  PROVE  <<x>> \in Seq(S)
OBVIOUS

\* The files below the root are those of the depths.
LEMMA DeepIs ==
  ASSUME NEW d, NEW x \in 1..MaxDepth
  PROVE  FileOfDepth(d, x) = d.deep[x]
BY PartitionAssumption DEF FileOfDepth

\* Materialization from the spool segments.
LEMMA MaterializeRunKept ==
  ASSUME PartitionInv, PartitionClean, MaterializeRun
  PROVE  PartitionInv' /\ PartitionClean'
<1> DEFINE r == Len(scan.segments) - Len(build.work) + 1
           pts == Head(build.work)
           work == Tail(build.work)
           rest == [build EXCEPT !.work = work]
           depth == build.depth
           file == FileOfDepth(disk, depth)
           records == SegmentRecords(scan.spool, scan.segments[r])
<1>1. build.at = "split" /\ build.work # <<>> /\ Quiet /\ UNCHANGED <<pool, faults>>
  BY DEF MaterializeRun
<1>2. PICK a \in Assignments(pts) :
      \E s \in {RunSplit(file, pts, a, records, depth)} :
        \/ /\ todo' = <<Cluster(pts, depth, Len(Points))>>
           /\ build' = rest /\ UNCHANGED <<disk, leaves>>
        \/ build' = rest /\ UNCHANGED <<disk, todo>>
        \/ /\ \E w \in {WriteRuns(s.file, Large(s.kids, Cmax))} :
                IF depth <= ChildDepthLimit
                THEN /\ disk' = [disk EXCEPT !.deep[depth] = w.file]
                     /\ build' = [rest EXCEPT !.runs = @ \o w.runs]
                ELSE /\ disk' = [disk EXCEPT !.deep[depth] = s.file]
                     /\ build' = [rest EXCEPT !.clusters = @ \o Large(s.kids, Cmax)]
           /\ UNCHANGED todo
  BY DEF MaterializeRun
<1> DEFINE s == RunSplit(file, pts, a, records, depth)
           large == Large(s.kids, Cmax)
           w == WriteRuns(s.file, large)
<1>3. \/ /\ todo' = <<Cluster(pts, depth, Len(Points))>>
         /\ build' = rest /\ disk' = disk
      \/ build' = rest /\ UNCHANGED <<disk, todo>>
      \/ /\ IF depth <= ChildDepthLimit
            THEN /\ disk' = [disk EXCEPT !.deep[depth] = w.file]
                 /\ build' = [rest EXCEPT !.runs = @ \o w.runs]
            ELSE /\ disk' = [disk EXCEPT !.deep[depth] = s.file]
                 /\ build' = [rest EXCEPT !.clusters = @ \o large]
         /\ UNCHANGED todo
  BY <1>2
<1>4. /\ build \in Active /\ disk \in Disks /\ RunsPlaced(build, disk) /\ CallsOK(call, gate)
      /\ faults \in 0..MaxFaults /\ ScanPlaced(build, scan) /\ Pending(build, todo, call)
  BY <1>1, Parts
<1>5. /\ pts \in Words /\ work \in Seq(Words) /\ Remaining(work, scan.runs)
      /\ \A i \in 1..Len(pts) : i \in DOMAIN records /\ records[i][2] = i
  BY <1>1, NextRun
<1>6. /\ build.key \in Keys /\ depth \in 1..MaxDepth /\ depth < MaxDepth /\ RunsIn(file, build.runs)
      /\ build.runs \in Seq(RunRecords) /\ build.clusters \in Seq(Words)
  <2>1. depth \in 0..MaxDepth /\ depth >= 1 /\ depth < MaxDepth /\ RunsIn(file, build.runs)
    BY <1>1, <1>4, ActiveFacts DEF RunsPlaced
  <2>2. depth \in 1..MaxDepth
    BY <2>1, PartitionAssumption
  <2> QED BY <1>4, <2>1, <2>2, ActiveFacts
<1>7. file \in Words /\ file = disk.deep[depth]
  <2>1. disk.deep \in [1..MaxDepth -> Words]
    BY <1>4, DiskFacts
  <2> QED BY <1>6, <2>1, DeepIs
<1> HIDE DEF records
<1>8. s.file \in Words /\ Grows(file, s.file) /\ s.kids \in Seq(Words)
  <2> HIDE DEF pts, file, depth
  <2> QED BY <1>2, <1>5, <1>6, <1>7, RunSplitFacts
<1> HIDE DEF s
<1>9. large \in Seq(Words)
  BY <1>8, SmallLarge
<1> HIDE DEF large
<1>10. w.file \in Words /\ Grows(s.file, w.file) /\ RunsIn(w.file, w.runs)
  BY <1>8, <1>9, WriteRunsFacts
<1> HIDE DEF w
<1>11. Grows(file, w.file)
  <2> HIDE DEF file
  <2> QED BY <1>7, <1>8, <1>10, GrowsFacts
<1>12. /\ rest \in Active /\ rest.at = "split" /\ rest.runs = build.runs /\ rest.work = work
       /\ rest.clusters = build.clusters /\ rest.depth = depth /\ rest.failed = build.failed
  <2> HIDE DEF work
  <2> QED BY <1>1, <1>4, <1>5 DEF Active
<1> HIDE DEF rest, work
<1>13. RunsPlaced(rest, disk)
  <2>1. RunsIn(FileOfDepth(disk, rest.depth), rest.runs)
    BY <1>6, <1>12
  <2> QED BY <1>6, <1>12, <2>1 DEF RunsPlaced, Owned
<1>14. \A b : b.at = "split" /\ b.work = work => ScanPlaced(b, scan')
  <2>1. scan' = scan
    BY <1>1 DEF pool
  <2>2. ScanOK(scan) /\ scan.at = "join" /\ ~scan.err
    BY <1>1, <1>4 DEF ScanPlaced
  <2> QED BY <1>5, <2>1, <2>2 DEF ScanPlaced
<1>15. CallKept
  BY <1>1, <1>4, CallsUnchanged DEF pool
<1>16. CASE build' = rest /\ disk' = disk /\ (todo' = todo \/ todo' = <<Cluster(pts, depth, Len(Points))>>)
  <2>1. Cluster(pts, depth, Len(Points)) \in Nodes
    <3>1. Len(Points) \in Nat
      BY PartitionAssumption
    <3> HIDE DEF pts
    <3> QED BY <1>5, <1>6, <3>1 DEF Cluster, Nodes
  <2>2. todo' \in Seq(Nodes)
    <3> DEFINE c == Cluster(pts, depth, Len(Points))
    <3>1. todo \in Seq(Nodes) /\ c \in Nodes /\ (todo' = todo \/ todo' = <<c>>)
      BY <1>4, <1>16, <2>1 DEF Pending
    <3> HIDE DEF c
    <3>2. <<c>> \in Seq(Nodes)
      BY <3>1, OneElement
    <3> QED BY <3>1, <3>2
  <2>3. SameCache(disk, disk') /\ disk' \in Disks
    BY <1>4, <1>16 DEF SameCache
  <2>4. RunsPlaced(build', disk') /\ ScanPlaced(build', scan')
    BY <1>12, <1>13, <1>14, <1>16
  <2> QED BY <1>1, <1>12, <1>15, <1>16, <2>2, <2>3, <2>4, PoolStep
<1>17. CASE /\ disk' = [disk EXCEPT !.deep[depth] = w.file] /\ todo' = todo
            /\ build' = [rest EXCEPT !.runs = @ \o w.runs]
  <2>1. disk' \in Disks /\ SameCache(disk, disk') /\ FileOfDepth(disk', depth) = w.file
    <3> HIDE DEF depth
    <3> QED BY <1>4, <1>6, <1>7, <1>10, <1>11, <1>17, DeepFacts, ZenonT(40)
  <2> DEFINE runs == rest.runs \o w.runs
  <2>2. RunsIn(w.file, build.runs)
    BY <1>6, <1>7, <1>10, <1>11, RunsKept
  <2>3. RunsIn(w.file, runs)
    BY <1>10, <1>12, <2>2, RunsJoined
  <2>4. runs \in Seq(RunRecords)
    BY <2>3 DEF RunsIn
  <2>5. build' = [rest EXCEPT !.runs = runs]
    BY <1>17
  <2> HIDE DEF runs
  <2>6. /\ build' \in Active /\ build'.at = "split" /\ build'.runs = runs /\ build'.work = work
        /\ build'.depth = depth /\ build'.failed = build.failed
    BY <1>12, <2>4, <2>5 DEF Active
  <2>7. RunsPlaced(build', disk')
    <3>1. RunsIn(FileOfDepth(disk', build'.depth), build'.runs) /\ build'.depth < MaxDepth /\ build'.depth >= 1
      BY <1>6, <2>1, <2>3, <2>6
    <3> QED BY <2>6, <3>1 DEF RunsPlaced, Owned
  <2>8. ScanPlaced(build', scan') /\ todo' \in Seq(Nodes)
    BY <1>4, <1>14, <1>17, <2>6 DEF Pending
  <2> QED BY <1>1, <1>15, <2>1, <2>6, <2>7, <2>8, PoolStep
<1>18. CASE /\ disk' = [disk EXCEPT !.deep[depth] = s.file] /\ todo' = todo
            /\ build' = [rest EXCEPT !.clusters = @ \o large]
  <2>1. disk' \in Disks /\ SameCache(disk, disk') /\ FileOfDepth(disk', depth) = s.file
    <3> HIDE DEF depth
    <3> QED BY <1>4, <1>6, <1>7, <1>8, <1>18, DeepFacts, ZenonT(40)
  <2> DEFINE clusters == rest.clusters \o large
  <2>2. RunsIn(s.file, build.runs)
    BY <1>6, <1>7, <1>8, RunsKept
  <2>3. clusters \in Seq(Words)
    BY <1>6, <1>9, <1>12, ConcatProperties
  <2>4. build' = [rest EXCEPT !.clusters = clusters]
    BY <1>18
  <2> HIDE DEF clusters
  <2>6. /\ build' \in Active /\ build'.at = "split" /\ build'.runs = build.runs /\ build'.work = work
        /\ build'.depth = depth /\ build'.failed = build.failed
    BY <1>12, <2>3, <2>4 DEF Active
  <2>7. RunsPlaced(build', disk')
    <3>1. RunsIn(FileOfDepth(disk', build'.depth), build'.runs) /\ build'.depth < MaxDepth /\ build'.depth >= 1
      BY <1>6, <2>1, <2>2, <2>6
    <3> QED BY <2>6, <3>1 DEF RunsPlaced, Owned
  <2>8. ScanPlaced(build', scan') /\ todo' \in Seq(Nodes)
    BY <1>4, <1>14, <1>18, <2>6 DEF Pending
  <2> QED BY <1>1, <1>15, <2>1, <2>6, <2>7, <2>8, PoolStep
<1> QED BY <1>3, <1>16, <1>17, <1>18

\* The next depth first, the clusters of this one after.
LEMMA NextLevelKept ==
  ASSUME PartitionInv, PartitionClean, NextLevel
  PROVE  PartitionInv' /\ PartitionClean'
<1> DEFINE own == [i \in DOMAIN build.clusters |-> Cluster(build.clusters[i], build.depth, Len(Points))]
           later == own \o build.later
<1>1. /\ build.at = "split" /\ Quiet /\ UNCHANGED <<disk, faults, call, gate>>
      /\ IF build.runs # <<>>
         THEN build' = [build EXCEPT !.at = "wave", !.depth = @ + 1, !.clusters = <<>>, !.later = later]
              /\ UNCHANGED todo
         ELSE build' = [build EXCEPT !.at = "recurse", !.clusters = <<>>, !.later = <<>>] /\ todo' = later
  BY DEF NextLevel
<1>2. /\ build \in Active /\ disk \in Disks /\ RunsPlaced(build, disk) /\ CallsOK(call, gate)
      /\ faults \in 0..MaxFaults /\ Pending(build, todo, call)
  BY <1>1, Parts
<1>3. /\ build.depth \in 1..MaxDepth /\ build.clusters \in Seq(Words) /\ build.later \in Seq(Nodes)
      /\ RunsIn(FileOfDepth(disk, build.depth), build.runs) /\ (build.runs # <<>> => build.depth < MaxDepth)
  <2>1. /\ build.depth \in 0..MaxDepth /\ build.depth >= 1 /\ RunsIn(FileOfDepth(disk, build.depth), build.runs)
        /\ (build.runs # <<>> => build.depth < MaxDepth)
    BY <1>1, <1>2, ActiveFacts DEF RunsPlaced
  <2>2. build.depth \in 1..MaxDepth
    BY <2>1, PartitionAssumption
  <2> QED BY <1>2, <2>1, <2>2, ActiveFacts
<1>4. later \in Seq(Nodes)
  <2>1. Len(Points) \in Nat
    BY PartitionAssumption
  <2>2. \A i \in DOMAIN build.clusters : Cluster(build.clusters[i], build.depth, Len(Points)) \in Nodes
    BY <1>3, <2>1 DEF Cluster, Nodes
  <2>3. own \in Seq(Nodes)
    BY <1>3, <2>2
  <2> HIDE DEF own
  <2> QED BY <1>3, <2>3, ConcatProperties
<1> HIDE DEF later
<1>5. <<>> \in Seq(Words) /\ <<>> \in Seq(Nodes) /\ "wave" \in Places /\ "recurse" \in Places
  BY DEF Places
<1>6. ASSUME build' \in Active, build'.failed = build.failed, build'.at \in {"wave", "recurse"},
             RunsPlaced(build', disk'), todo' \in Seq(Nodes), build'.at = "wave" => todo' = <<>>
      PROVE  PartitionInv' /\ PartitionClean'
  <2>1. Pending(build', todo', call')
    BY <1>1, <1>6 DEF Pending, Quiet
  <2>2. ScanPlaced(build', scan')
    BY <1>6 DEF ScanPlaced
  <2>3. PartitionInv'
    BY <1>1, <1>2, <1>6, <2>1, <2>2 DEF PartitionInv
  <2>4. ASSUME faults = 0 PROVE CacheClean(build', disk') /\ BuildClean(build', disk')
    <3>1. CacheClean(build, disk) /\ BuildClean(build, disk)
      BY <2>4, CleanParts
    <3>2. SameCache(disk, disk') /\ ~build.failed
      BY <1>1, <3>1 DEF SameCache, BuildClean
    <3>3. CacheClean(build', disk')
      BY <1>1, <3>1, <3>2, CacheKept
    <3> QED BY <1>6, <3>2, <3>3 DEF BuildClean, Owned
  <2> QED BY <1>1, <1>6, <2>3, <2>4, QuietClean
<1>7. CASE build.runs # <<>>
  <2> DEFINE next == build.depth + 1
  <2>1. next \in 0..MaxDepth /\ next >= 1 /\ next - 1 = build.depth
    BY <1>3, <1>7, PartitionAssumption, SMTT(30)
  <2>2. build' = [build EXCEPT !.at = "wave", !.depth = next, !.clusters = <<>>, !.later = later] /\ todo' = todo
    BY <1>1, <1>7
  <2> HIDE DEF next
  <2>3. /\ build' \in Active /\ build'.at = "wave" /\ build'.depth = next /\ build'.runs = build.runs
        /\ build'.failed = build.failed
    BY <1>2, <1>4, <1>5, <2>1, <2>2 DEF Active
  <2>4. RunsPlaced(build', disk')
    <3>1. RunsIn(FileOfDepth(disk', build'.depth - 1), build'.runs) /\ build'.depth >= 1
      BY <1>1, <1>3, <2>1, <2>3
    <3> QED BY <2>3, <3>1 DEF RunsPlaced, Owned
  <2>5. todo' = <<>>
    BY <1>1, <2>2 DEF Quiet
  <2> QED BY <1>5, <1>6, <2>3, <2>4, <2>5
<1>8. CASE build.runs = <<>>
  <2>1. build' = [build EXCEPT !.at = "recurse", !.clusters = <<>>, !.later = <<>>] /\ todo' = later
    BY <1>1, <1>8
  <2>2. build' \in Active /\ build'.at = "recurse" /\ build'.failed = build.failed
    BY <1>2, <1>5, <2>1 DEF Active
  <2>3. RunsPlaced(build', disk')
    BY <2>2 DEF RunsPlaced, Owned
  <2> QED BY <1>4, <1>6, <2>1, <2>2, <2>3
<1> QED BY <1>7, <1>8

\* A call ends or starts: what it held of the gate was given back before.
LEMMA CallSet ==
  ASSUME CallsOK(call, gate), faults \in 0..MaxFaults, NEW c \in Callers, NEW x \in Calls, HeldBytes(x) = 0,
         CallClean(x), call' = [call EXCEPT ![c] = x], UNCHANGED <<gate, faults>>
  PROVE  CallKept
<1>1. gate' \in 0..GateBytes /\ faults' \in 0..MaxFaults /\ (faults' = 0 => faults = 0) /\ gate \in Nat /\ gate' = gate
  BY CallersFinite DEF CallsOK
<1>2. HeldBytes(call[c]) \in Nat
  BY HeldBelow
<1>3. HeldBytes(x) + gate <= HeldBytes(call[c]) + gate'
  BY <1>1, <1>2
<1> QED BY <1>1, <1>3, CallStep
LEMMA NoCallFacts == NoCall \in Calls /\ HeldBytes(NoCall) = 0 /\ CallClean(NoCall)
BY DEF Calls, HeldBytes, CallClean

\* A call runs only in the recursion, and its job is a cluster above the last depth.
LEMMA RunningCall ==
  ASSUME PartitionInv, NEW c \in Callers, call[c].at # "none"
  PROVE  /\ build.at \in {"split", "recurse"} /\ build \in Active /\ call[c] \in Running
         /\ call[c].job.node \in Inner /\ call[c].job.attempt \in Nat
<1>1. CallsOK(call, gate) /\ Pending(build, todo, call)
  BY Parts
<1>2. call[c] \in Calls /\ call[c] # NoCall
  BY <1>1, RunsCall
<1>3. call[c] \in Running
  BY <1>2 DEF Calls
<1>4. build.at \in {"split", "recurse"}
  BY <1>1, <1>2 DEF Pending
<1>5. build \in Active
  BY <1>4, Parts
<1> QED BY <1>3, <1>4, <1>5 DEF Running

LEMMA TakeClusterKept ==
  ASSUME PartitionInv, PartitionClean, NEW c \in Callers, NEW i \in DOMAIN todo, TakeCluster(c, i)
  PROVE  PartitionInv' /\ PartitionClean'
<1> DEFINE node == todo[i]
           own == IF LeafAtOnce(node) THEN SortDedup(node.pts) ELSE Dedup(node.pts, node.depth, Fanout)
           x == Start([node EXCEPT !.pts = own], 1)
<1>1. /\ build.at \in {"split", "recurse"} /\ todo' = RemoveAt(todo, i) /\ UNCHANGED <<disk, build, scan, faults, gate>>
      /\ call' = call \/ (~RecurseLeaf(own, node) /\ call' = [call EXCEPT ![c] = x])
  BY DEF TakeCluster
<1>2. /\ build \in Active /\ disk \in Disks /\ RunsPlaced(build, disk) /\ CallsOK(call, gate) /\ todo \in Seq(Nodes)
      /\ faults \in 0..MaxFaults /\ ScanPlaced(build, scan)
  BY <1>1, Parts DEF Pending
<1>3. node \in Nodes /\ node.pts \in Words /\ node.depth \in 1..MaxDepth
  <2>1. node \in Nodes
    BY <1>2
  <2> HIDE DEF node
  <2> QED BY <2>1 DEF Nodes
<1>4. todo' \in Seq(Nodes)
  <2> DEFINE p == i - 1
  <2>1. p \in 0..(Len(todo) - 1) /\ p + 1 = i
    BY <1>2
  <2> HIDE DEF p
  <2> QED BY <1>1, <1>2, <2>1, RemoveFacts
<1> HIDE DEF node
<1>5. own \in Words
  BY <1>3, SortDedupWords, DedupWords
<1>6. CallKept
  <2>1. CASE call' = call
    BY <1>1, <1>2, <2>1, CallsUnchanged
  <2>2. CASE ~RecurseLeaf(own, node) /\ call' = [call EXCEPT ![c] = x]
    <3>1. ~(node.depth >= MaxDepth)
      BY <2>2 DEF RecurseLeaf, LeafAtOnce
    <3>2. node.depth < MaxDepth
      BY <1>3, <3>1, PartitionAssumption
    <3> HIDE DEF own
    <3>3. [node EXCEPT !.pts = own] \in Inner
      BY <1>3, <1>5, <3>2 DEF Inner, Nodes
    <3>4. build.key \in Keys /\ 1 \in Nat
      BY <1>2, ActiveFacts
    <3>5. x \in Calls /\ HeldBytes(x) = 0 /\ CallClean(x)
      BY <3>3, <3>4, StartFacts
    <3> HIDE DEF x
    <3> QED BY <1>1, <1>2, <2>2, <3>5, CallSet
  <2> QED BY <1>1, <2>1, <2>2
<1>7. /\ SameCache(disk, disk') /\ build' \in Active /\ build'.at = build.at /\ disk' \in Disks
      /\ RunsPlaced(build', disk') /\ ScanPlaced(build', scan') /\ build'.failed = build.failed
  BY <1>1, <1>2 DEF SameCache
<1> QED BY <1>1, <1>4, <1>6, <1>7, PoolStep

LEMMA PrefetchKept ==
  ASSUME PartitionInv, PartitionClean, NEW c \in Callers, Prefetch(c)
  PROVE  PartitionInv' /\ PartitionClean'
<1>1. PrefetchStep(c) /\ UNCHANGED <<disk, build, leaves, todo, scan>>
  BY DEF Prefetch
<1>2. call[c].at = "run"
  BY <1>1 DEF PrefetchStep, AcquireAndRead, SendBatch, ConsumeBatch, ReadSerially, CallEnds
<1>3. build.at \in {"split", "recurse"} /\ build \in Active
  BY <1>2, RunningCall
<1>4. /\ disk \in Disks /\ RunsPlaced(build, disk) /\ CallsOK(call, gate) /\ todo \in Seq(Nodes)
      /\ faults \in 0..MaxFaults /\ ScanPlaced(build, scan)
  BY Parts DEF Pending
<1>5. CallKept
  BY <1>1, <1>4, PrefetchStepKept
<1>6. /\ SameCache(disk, disk') /\ build' \in Active /\ build'.at = build.at /\ disk' \in Disks
      /\ RunsPlaced(build', disk') /\ ScanPlaced(build', scan') /\ build'.failed = build.failed /\ todo' \in Seq(Nodes)
  BY <1>1, <1>3, <1>4 DEF SameCache
<1> QED BY <1>3, <1>5, <1>6, PoolStep

LEMMA ClusterFailsKept ==
  ASSUME PartitionInv, PartitionClean, NEW c \in Callers, ClusterFails(c)
  PROVE  PartitionInv' /\ PartitionClean'
<1>1. /\ call[c].at = "failed" /\ build' = [build EXCEPT !.failed = TRUE] /\ call' = [call EXCEPT ![c] = NoCall]
      /\ UNCHANGED <<disk, leaves, todo, scan, faults, gate>>
  BY DEF ClusterFails
<1>2. build.at \in {"split", "recurse"} /\ build \in Active /\ call[c] \in Running
  BY <1>1, RunningCall
<1>3. /\ disk \in Disks /\ RunsPlaced(build, disk) /\ CallsOK(call, gate) /\ todo \in Seq(Nodes)
      /\ faults \in 0..MaxFaults /\ ScanPlaced(build, scan)
  BY Parts DEF Pending
<1>4. CallKept
  BY <1>1, <1>3, CallSet, NoCallFacts
<1>5. /\ build' \in Active /\ build'.at = build.at /\ build'.runs = build.runs /\ build'.work = build.work
      /\ build'.clusters = build.clusters /\ build'.depth = build.depth /\ build'.roots = build.roots
  BY <1>1, <1>2 DEF Active
<1>6. RunsPlaced(build', disk')
  BY <1>1, <1>2, <1>3, <1>5 DEF RunsPlaced, Owned
<1>7. ScanPlaced(build', scan')
  BY <1>1, <1>3, <1>5 DEF ScanPlaced
<1>8. faults' # 0
  <2>1. SUFFICES ASSUME faults = 0 PROVE FALSE
    BY <1>1
  <2>2. CallClean(call[c]) /\ call[c] # NoCall
    BY <1>2, <2>1, CleanParts, NotNoCall DEF CallsClean
  <2> QED BY <1>1, <2>2 DEF CallClean
<1>9. SameCache(disk, disk') /\ disk' \in Disks /\ todo' \in Seq(Nodes)
  BY <1>1, <1>3 DEF SameCache
<1> QED BY <1>2, <1>4, <1>5, <1>6, <1>7, <1>8, <1>9, PoolStep

\* One group only.
LEMMA RetryOrLeafKept ==
  ASSUME PartitionInv, PartitionClean, NEW c \in Callers, call[c].at = "ok", NEW a, NEW merged,
         RetryOrLeaf(c, a, merged), UNCHANGED <<build, scan, faults, gate>>
  PROVE  PartitionInv' /\ PartitionClean'
<1> DEFINE n == call[c].job.attempt + 1
           x == Start(call[c].job.node, n)
<1>1. UNCHANGED <<disk, todo>> /\ (call' = [call EXCEPT ![c] = x] \/ call' = [call EXCEPT ![c] = NoCall])
  BY DEF RetryOrLeaf
<1>2. /\ build.at \in {"split", "recurse"} /\ build \in Active /\ call[c].job.node \in Inner
      /\ call[c].job.attempt \in Nat
  BY RunningCall
<1>3. /\ disk \in Disks /\ RunsPlaced(build, disk) /\ CallsOK(call, gate) /\ todo \in Seq(Nodes)
      /\ faults \in 0..MaxFaults /\ ScanPlaced(build, scan)
  BY Parts DEF Pending
<1>4. n \in Nat /\ build.key \in Keys
  <2>1. n \in Nat
    BY <1>2
  <2> QED BY <1>2, <2>1, ActiveFacts
<1> HIDE DEF n
<1>5. x \in Calls /\ HeldBytes(x) = 0 /\ CallClean(x)
  BY <1>2, <1>4, StartFacts
<1> HIDE DEF x
<1>6. CallKept
  BY <1>1, <1>3, <1>5, CallSet, NoCallFacts
<1>7. /\ SameCache(disk, disk') /\ build' \in Active /\ build'.at = build.at /\ disk' \in Disks
      /\ RunsPlaced(build', disk') /\ ScanPlaced(build', scan') /\ build'.failed = build.failed /\ todo' \in Seq(Nodes)
  BY <1>1, <1>2, <1>3 DEF SameCache
<1> QED BY <1>2, <1>6, <1>7, PoolStep

\* Several groups: the large ones are clusters a depth below.
LEMMA BelowFacts ==
  ASSUME todo \in Seq(Nodes), NEW node \in Inner, NEW kids \in Seq(Words)
  PROVE  todo \o [i \in DOMAIN kids |-> Cluster(kids[i], node.depth + 1, Len(node.pts))] \in Seq(Nodes)
<1> DEFINE d == node.depth + 1
           n == Len(node.pts)
           more == [i \in DOMAIN kids |-> Cluster(kids[i], d, n)]
<1>1. node.depth \in 1..MaxDepth /\ node.depth < MaxDepth /\ node.pts \in Words
  BY DEF Inner, Nodes
<1>2. d \in 1..MaxDepth /\ n \in Nat
  BY <1>1, PartitionAssumption, SMTT(30) DEF Words
<1> HIDE DEF d, n
<1>3. \A i \in DOMAIN kids : Cluster(kids[i], d, n) \in Nodes
  BY <1>2 DEF Cluster, Nodes
<1>4. more \in Seq(Nodes)
  BY <1>3
<1> HIDE DEF more
<1>5. todo \o more \in Seq(Nodes)
  BY <1>4, ConcatProperties
<1> QED BY <1>5 DEF more, d, n

LEMMA DescendKept ==
  ASSUME PartitionInv, PartitionClean, NEW c \in Callers, call[c].at = "ok", NEW merged \in Seq(Words),
         Descend(c, merged), UNCHANGED <<build, scan, faults, gate>>
  PROVE  PartitionInv' /\ PartitionClean'
<1> DEFINE node == call[c].job.node
           large == Large(merged, Cmax)
           w == WriteRuns(FileOfDepth(disk, node.depth), large)
           below == [r \in DOMAIN w.runs |-> ReadChain(w.file, w.runs[r].extents)]
           Below(kids) == todo \o [i \in DOMAIN kids |-> Cluster(kids[i], node.depth + 1, Len(node.pts))]
<1>1. /\ call' = [call EXCEPT ![c] = NoCall]
      /\ \/ todo' = Below(large) /\ disk' = disk
         \/ todo' = Below(below) /\ disk' = [disk EXCEPT !.deep[node.depth] = w.file]
  BY DEF Descend
<1>2. build.at \in {"split", "recurse"} /\ build \in Active /\ node \in Inner
  BY RunningCall
<1>3. /\ disk \in Disks /\ RunsPlaced(build, disk) /\ CallsOK(call, gate) /\ todo \in Seq(Nodes)
      /\ faults \in 0..MaxFaults /\ ScanPlaced(build, scan)
  BY Parts DEF Pending
<1> HIDE DEF node
<1>4. node.depth \in 1..MaxDepth
  BY <1>2 DEF Inner, Nodes
<1>5. large \in Seq(Words)
  BY SmallLarge
<1> HIDE DEF large
<1>6. disk.deep[node.depth] \in Words /\ FileOfDepth(disk, node.depth) = disk.deep[node.depth]
  <2>1. disk.deep \in [1..MaxDepth -> Words]
    BY <1>3, DiskFacts
  <2> QED BY <1>4, <2>1, DeepIs
<1>7. w.file \in Words /\ Grows(disk.deep[node.depth], w.file) /\ RunsIn(w.file, w.runs)
  BY <1>5, <1>6, WriteRunsFacts
<1> HIDE DEF w
<1>8. below \in Seq(Words)
  <2>1. \A r \in DOMAIN w.runs : ReadChain(w.file, w.runs[r].extents) \in Words
    BY <1>7, RunWords
  <2>2. \E n \in Nat : DOMAIN w.runs = 1..n
    BY <1>7 DEF RunsIn
  <2> QED BY <2>1, <2>2
<1> HIDE DEF below
<1>9. Below(large) \in Seq(Nodes) /\ Below(below) \in Seq(Nodes)
  BY <1>2, <1>3, <1>5, <1>8, BelowFacts
<1> HIDE DEF Below
<1>10. CallKept
  BY <1>1, <1>3, CallSet, NoCallFacts
<1>11. todo' \in Seq(Nodes)
  BY <1>1, <1>9
<1>12. disk' \in Disks /\ SameCache(disk, disk') /\ RunsPlaced(build, disk')
  <2>1. CASE disk' = disk
    BY <1>3, <2>1 DEF SameCache
  <2>2. CASE disk' = [disk EXCEPT !.deep[node.depth] = w.file]
    BY <1>2, <1>3, <1>4, <1>7, <2>2, DeepFacts, DeepPlaced
  <2> QED BY <1>1, <2>1, <2>2
<1>13. /\ build' \in Active /\ build'.at = build.at /\ RunsPlaced(build', disk') /\ ScanPlaced(build', scan')
       /\ build'.failed = build.failed
  BY <1>2, <1>3, <1>12
<1> QED BY <1>2, <1>10, <1>11, <1>12, <1>13, PoolStep

LEMMA SplitClusterKept ==
  ASSUME PartitionInv, PartitionClean, NEW c \in Callers, SplitCluster(c)
  PROVE  PartitionInv' /\ PartitionClean'
<1> DEFINE node == call[c].job.node
<1>1. call[c].at = "ok" /\ UNCHANGED <<build, scan, faults, gate>>
  BY DEF SplitCluster
<1>2. PICK a \in Assignments(node.pts) : RetryOrLeaf(c, a, Separated(node, a)) \/ Descend(c, Separated(node, a))
  BY DEF SplitCluster
<1>3. build \in Active /\ node \in Inner
  BY <1>1, RunningCall
<1> HIDE DEF node
<1>4. node.pts \in Words /\ build.key \in Keys
  BY <1>3, ActiveFacts DEF Inner, Nodes
<1>5. Separated(node, a) \in Seq(Words)
  BY <1>4, SeparatedFacts
<1> QED BY <1>1, <1>2, <1>5, RetryOrLeafKept, DescendKept

LEMMA FinishKept ==
  ASSUME PartitionInv, PartitionClean, Finish
  PROVE  PartitionInv' /\ PartitionClean'
<1>1. /\ build.at \in {"finish", "recurse", "split"} /\ Return(~build.failed, disk) /\ faults' = faults
  BY DEF Finish
<1>2. build \in Active /\ disk \in Disks /\ faults \in 0..MaxFaults
  BY <1>1, Parts
<1>3. (~build.failed) \in BOOLEAN
  OBVIOUS
<1>4. ASSUME faults = 0 PROVE CacheClean(build, disk) /\ build.at # "publish" /\ ~build.failed
  <2>1. CacheClean(build, disk) /\ BuildClean(build, disk)
    BY <1>4, CleanParts
  <2> QED BY <1>1, <2>1 DEF BuildClean
<1> DEFINE ok == ~build.failed
<1>5. ok \in BOOLEAN /\ Return(ok, disk) /\ (faults' = 0 => (\E b : CacheClean(b, disk) /\ b.at # "publish") /\ ok)
  BY <1>1, <1>4
<1> HIDE DEF ok
<1> QED BY <1>1, <1>2, <1>5, ReturnKept
-----------------------------------------------------------------------------
(* An interrupted build. *)

LEMMA Prefix ==
  ASSUME NEW w \in Words, NEW n \in 0..Len(w)
  PROVE  SubSeq(w, 1, n) \in Words
<1>1. Len(w) \in Nat /\ n \in Nat /\ n <= Len(w)
  BY DEF Words
<1>2. \A i \in 1..n : i \in 1..Len(w)
  BY <1>1
<1>3. w \in Seq(Nat) /\ \A i \in 1..n : w[i] \in Nat
  BY <1>2 DEF Words
<1>4. SubSeq(w, 1, n) = [i \in 1..n |-> w[i]]
  BY <1>1, <1>3
<1>5. [i \in 1..n |-> w[i]] \in Seq(Nat)
  BY <1>1, <1>3
<1> QED BY <1>4, <1>5 DEF Words

\* A write that was cut short.
LEMMA CutShortDisks ==
  ASSUME NEW d \in Disks, NEW w \in Words, NEW e \in CutShort(d, w)
  PROVE  e \in Disks
<1> DEFINE m == Len(RootFile(d))
<1>1. PICK n \in {Len(RootFile(d)) + 1, Len(w) - 1} \cap (Len(RootFile(d))..Len(w)) : e = SetRootFile(d, SubSeq(w, 1, n))
  BY DEF CutShort
<1>2. RootFile(d) \in Words
  BY DiskFacts
<1>3. m \in Nat /\ Len(w) \in Nat /\ n \in m..Len(w)
  BY <1>1, <1>2 DEF Words
<1> HIDE DEF m
<1>4. n \in 0..Len(w)
  BY <1>3
<1>5. SubSeq(w, 1, n) \in Words
  BY <1>4, Prefix
<1> QED BY <1>1, <1>5, SetRootFacts

LEMMA TornIsDisk ==
  ASSUME PartitionInv, build.at # "idle", NEW e \in TornDisks \cup {disk}
  PROVE  e \in Disks
<1> DEFINE key == build.key
           root == RootFile(disk)
           here == FreeInode(disk)
<1>1. build \in Active /\ disk \in Disks /\ key \in Keys /\ RunsPlaced(build, disk)
  BY Parts, ActiveFacts
<1>2. /\ root \in Words /\ disk.cache \in [Keys -> Inodes \cup {0}] /\ disk.file \in [Inodes -> Words]
      /\ disk.cacheMan \in [Keys -> Manifests]
  BY <1>1, DiskFacts
<1>3. Torn \in Manifests
  BY DEF Manifests
<1>4. CASE e = disk
  BY <1>1, <1>4
<1>5. CASE build.at = "root" /\ e \in TornDisks
  <2>1. e \in CutShort(disk, RootSplit(key, root).file)
    BY <1>5 DEF TornDisks
  <2>2. SplitIn(root, RootSplit(key, root))
    BY <1>1, <1>2, RootSplitFacts
  <2>3. RootSplit(key, root).file \in Words
    BY <2>2 DEF SplitIn
  <2> QED BY <1>1, <2>1, <2>3, CutShortDisks
<1>6. CASE build.at = "capture" /\ e \in TornDisks
  <2>1. e \in CutShort(disk, WriteRuns(root, build.roots).file)
    BY <1>6 DEF TornDisks
  <2>2. build.roots \in Seq(Words)
    BY <1>1, <1>6 DEF RunsPlaced
  <2>3. WriteRuns(root, build.roots).file \in Words
    BY <1>2, <2>2, WriteRunsFacts
  <2> QED BY <1>1, <2>1, <2>3, CutShortDisks
<1>7. CASE build.at = "manifest" /\ e \in TornDisks
  <2>1. e = [disk EXCEPT !.workMan = Torn]
    BY <1>7 DEF TornDisks
  <2> QED BY <1>1, <1>3, <2>1 DEF Disks
<1>8. CASE build.at = "install" /\ e \in TornDisks
  <2>1. PICK n \in {0, Len(root) - 1} : e = [disk EXCEPT !.cache[key] = here, !.file[here] = SubSeq(root, 1, n)]
    BY <1>8 DEF TornDisks
  <2>2. here \in Inodes
    BY <1>1, FreeInodeFacts
  <2>3. SubSeq(root, 1, n) \in Words
    <3> HIDE DEF root
    <3>1. Len(root) \in Nat
      BY <1>2 DEF Words
    <3>2. CASE n \in 0..Len(root)
      BY <1>2, <3>2, Prefix
    <3>3. CASE n \notin 0..Len(root)
      <4>1. n = 0 - 1
        BY <2>1, <3>1, <3>3
      <4>2. SubSeq(root, 1, n) = <<>>
        BY <1>2, <4>1 DEF Words
      <4> QED BY <4>2 DEF Words
    <3> QED BY <3>2, <3>3
  <2> DEFINE cut == SubSeq(root, 1, n)
             f == [disk.cache EXCEPT ![key] = here]
             g == [disk.file EXCEPT ![here] = cut]
  <2>4. e = [disk EXCEPT !.cache = f, !.file = g]
    BY <2>1
  <2> HIDE DEF here, cut
  <2>5. f \in [Keys -> Inodes \cup {0}]
    BY <1>2, <2>2
  <2>6. g \in [Inodes -> Words]
    BY <1>2, <2>2, <2>3 DEF cut
  <2> HIDE DEF f, g
  <2> QED BY <1>1, <2>4, <2>5, <2>6 DEF Disks
<1>9. CASE build.at = "publish" /\ e \in TornDisks
  <2> DEFINE f == [disk.cacheMan EXCEPT ![key] = Torn]
  <2>1. e = [disk EXCEPT !.cacheMan = f]
    BY <1>9 DEF TornDisks
  <2>2. f \in [Keys -> Manifests]
    BY <1>2, <1>3
  <2> HIDE DEF f
  <2> QED BY <1>1, <2>1, <2>2 DEF Disks
<1>10. build.at \notin {"root", "capture", "manifest", "install", "publish"} => TornDisks = {}
  BY DEF TornDisks
<1> QED BY <1>4, <1>5, <1>6, <1>7, <1>8, <1>9, <1>10

LEMMA InterruptedKept ==
  ASSUME PartitionInv, PartitionClean, Interrupted
  PROVE  PartitionInv' /\ PartitionClean'
<1>1. build.at # "idle" /\ Fault
  BY DEF Interrupted
<1>2. PICK e \in TornDisks \cup {disk} : Return(FALSE, e)
  BY DEF Interrupted
<1>3. build \in Active /\ faults \in 0..MaxFaults
  BY <1>1, Parts
<1>4. e \in Disks
  BY <1>1, <1>2, TornIsDisk
<1>5. faults' \in 0..MaxFaults /\ faults' # 0
  BY <1>1, <1>3, FaultCounted
<1>6. FALSE \in BOOLEAN
  OBVIOUS
<1> QED BY <1>2, <1>3, <1>4, <1>5, <1>6, ReturnKept
-----------------------------------------------------------------------------
(* The specification. *)

\* The directories are empty.
LEMMA NoDiskFacts ==
  NoDisk \in Disks /\ NoDisk.work = 0 /\ \A b : CacheClean(b, NoDisk)
<1> DEFINE file == [i \in Inodes |-> <<>>]
           cache == [k \in Keys |-> 0]
           man == [k \in Keys |-> Missing]
           deep == [d \in 1..MaxDepth |-> <<>>]
<1>1. file \in [Inodes -> Words] /\ deep \in [1..MaxDepth -> Words]
  BY DEF Words
<1>2. cache \in [Keys -> Inodes \cup {0}] /\ man \in [Keys -> Manifests] /\ Missing \in Manifests
  BY DEF Manifests
<1>3. \A k \in Keys : cache[k] = 0 /\ man[k] = Missing
  OBVIOUS
<1>4. NoDisk = [file |-> file, work |-> 0, workMan |-> Missing, cache |-> cache, cacheMan |-> man, deep |-> deep]
  BY DEF NoDisk
<1> HIDE DEF file, cache, man, deep
<1>5. NoDisk \in Disks
  BY <1>1, <1>2, <1>4 DEF Disks
<1>6. NoDisk.work = 0 /\ NoDisk.cache = cache /\ NoDisk.cacheMan = man
  BY <1>4
<1> QED BY <1>3, <1>5, <1>6 DEF CacheClean

\* They are those of a build that was interrupted after its cache entry was published.
LEMMA PublishedFacts ==
  ASSUME NEW k \in Keys
  PROVE  Published(k) \in Disks
<1> DEFINE s == RootSplit(k, <<>>)
           w == WriteRuns(s.file, s.leaves)
           m == Manifest(k, w.file, s.runs, w.runs)
           d == SetRootFile(NoDisk, w.file)
           f == [d.cache EXCEPT ![k] = d.work]
           g == [d.cacheMan EXCEPT ![k] = m]
<1>1. <<>> \in Words
  BY DEF Words
<1>2. SplitIn(<<>>, s)
  BY <1>1, RootSplitFacts
<1>10. Published(k) = [d EXCEPT !.workMan = m, !.cache = f, !.cacheMan = g]
  BY DEF Published
<1> HIDE DEF s
<1>3. s.file \in Words /\ RunsIn(s.file, s.runs) /\ s.leaves \in Seq(Words)
  BY <1>2 DEF SplitIn
<1>4. w.file \in Words /\ Grows(s.file, w.file) /\ RunsIn(w.file, w.runs)
  BY <1>3, WriteRunsFacts
<1> HIDE DEF w
<1>5. RunsIn(w.file, s.runs)
  BY <1>3, <1>4, RunsKept
<1>6. m \in Manifests
  BY <1>4, <1>5, ManifestFacts
<1>7. d \in Disks
  BY <1>4, NoDiskFacts, SetRootFacts
<1> HIDE DEF m, d
<1>8. d.cache \in [Keys -> Inodes \cup {0}] /\ d.cacheMan \in [Keys -> Manifests] /\ d.work \in Inodes \cup {0}
  BY <1>7, DiskFacts
<1>9. f \in [Keys -> Inodes \cup {0}] /\ g \in [Keys -> Manifests]
  BY <1>6, <1>8
<1> HIDE DEF f, g
<1> QED BY <1>6, <1>7, <1>9, <1>10 DEF Disks

LEMMA InitKept ==
  ASSUME Init
  PROVE  PartitionInv /\ PartitionClean
<1>1. /\ build = Idle /\ todo = <<>> /\ call = [c \in Callers |-> NoCall] /\ gate = 0
      /\ \/ disk = NoDisk /\ faults = 0
         \/ (\E k \in Keys : disk = Published(k)) /\ MaxFaults > 0 /\ faults = MaxFaults
  BY DEF Init
<1>2. disk \in Disks /\ faults \in 0..MaxFaults /\ (faults = 0 => disk = NoDisk)
  BY <1>1, NoDiskFacts, PublishedFacts, ScanConstants
<1>3. build \in Idles /\ build.at = "idle" /\ build.ok
  <2>1. 0 \in 0..Builds
    BY PartitionAssumption
  <2> QED BY <1>1, <2>1 DEF Idle, Idles
<1>4. RunsPlaced(build, disk) /\ ScanPlaced(build, scan)
  BY <1>3 DEF RunsPlaced, ScanPlaced, Owned
<1>5. Pending(build, todo, call)
  BY <1>1 DEF Pending
<1>6. CallsOK(call, gate)
  <2>1. 0 \in 0..GateBytes
    BY CallersFinite
  <2> QED BY <1>1, <2>1, NoCalls
<1>7. PartitionInv
  BY <1>2, <1>3, <1>4, <1>5, <1>6 DEF PartitionInv
<1>8. ASSUME faults = 0 PROVE PartitionClean
  <2>1. CacheClean(build, disk) /\ disk.work = 0
    BY <1>2, <1>8, NoDiskFacts
  <2>2. BuildClean(build, disk)
    BY <1>3, <2>1 DEF BuildClean, Owned
  <2>3. CallsClean(call)
    BY <1>1, NoCallFacts DEF CallsClean
  <2> QED BY <1>3, <2>1, <2>2, <2>3 DEF PartitionClean
<1>9. faults # 0 => PartitionClean
  BY DEF PartitionClean
<1> QED BY <1>7, <1>8, <1>9

LEMMA StepKept ==
  ASSUME PartitionInv, PartitionClean, [Next]_vars
  PROVE  PartitionInv' /\ PartitionClean'
<1>1. CASE Arrive
  BY <1>1, ArriveKept
<1>2. CASE Work
  <2>1. CASE build.at = "wave" /\ \E ads \in SUBSET DOMAIN build.runs : ScanLevel(ads)
    BY <2>1, ScanLevelKept
  <2>2. CASE \E c \in Callers : \/ \E i \in DOMAIN todo : TakeCluster(c, i)
                                \/ Prefetch(c) \/ ClusterFails(c) \/ SplitCluster(c)
    BY <2>2, TakeClusterKept, PrefetchKept, ClusterFailsKept, SplitClusterKept
  <2>3. CASE \/ LoadRuns \/ EmitReusedLeaves \/ PartitionRoot \/ AppendRootLeaves \/ WriteManifest
             \/ InstallRunFile \/ PublishManifest
    BY <2>3, LoadRunsKept, EmitReusedKept, PartitionRootKept, AppendRootLeavesKept, WriteManifestKept,
       InstallRunFileKept, PublishManifestKept
  <2>4. CASE JoinInline \/ Scan \/ ScanEnds \/ MaterializeRun \/ NextLevel \/ Finish
    BY <2>4, JoinInlineKept, ScanActionKept, ScanEndsKept, MaterializeRunKept, NextLevelKept, FinishKept
  <2> QED BY <1>2, <2>1, <2>2, <2>3, <2>4 DEF Work
<1>3. CASE Interrupted
  BY <1>3, InterruptedKept
<1>4. CASE UNCHANGED vars
  <2>1. UNCHANGED <<disk, build, todo, scan, faults, call, gate>>
    BY <1>4 DEF vars
  <2>2. PartitionInv'
    BY <2>1 DEF PartitionInv
  <2>3. PartitionClean'
    BY <2>1 DEF PartitionClean
  <2> QED BY <2>2, <2>3
<1>5. Stopped => UNCHANGED vars
  BY DEF Stopped
<1> QED BY <1>1, <1>2, <1>3, <1>4, <1>5 DEF Next

\* The invariants of the partition hold in every state of every run of builds.
LEMMA PartitionHolds == Spec => [](PartitionInv /\ PartitionClean)
<1>1. Init => PartitionInv /\ PartitionClean
  BY InitKept
<1>2. (PartitionInv /\ PartitionClean) /\ [Next]_vars => (PartitionInv /\ PartitionClean)'
  BY StepKept
<1> QED BY <1>1, <1>2, PTL DEF Spec

\* The build, its files, the cache, the gate and the bounds of the level scan keep their
\* types across any number of builds, crashes and I/O errors.
THEOREM PartitionTypeOK == Spec => []TypeOK
<1>1. ASSUME PartitionInv PROVE TypeOK
  <2>1. /\ disk \in Disks /\ build \in Idles \cup Active /\ faults \in 0..MaxFaults
        /\ ScanPlaced(build, scan) /\ CallsOK(call, gate)
    BY <1>1, Parts
  <2>2. build.n \in 0..Builds /\ build.ok \in BOOLEAN
    BY <2>1 DEF Idles, Active
  <2>3. disk.work \in Inodes \cup {0} /\ \A k \in Keys : disk.cache[k] \in Inodes \cup {0}
    BY <2>1, DiskFacts
  <2>4. \A i \in Inodes : disk.file[i] \in Seq(Nat)
    <3>1. disk.file \in [Inodes -> Words]
      BY <2>1, DiskFacts
    <3> QED BY <3>1 DEF Words
  <2>5. gate \in 0..GateBytes
    BY <2>1 DEF CallsOK
  <2>6. build.at = "scan" => /\ scan.applied <= scan.sent /\ scan.sent - scan.applied <= MaxOutstanding
                             /\ Len(scan.plans) <= Inflight /\ Len(scan.computed) <= ReorderCapacity
    BY <2>1 DEF ScanPlaced, ScanOK, ScanBounds
  <2> QED BY <2>1, <2>2, <2>3, <2>4, <2>5, <2>6 DEF TypeOK
<1> QED BY <1>1, PartitionHolds, PTL

\* After a level scan the records that the segments of a run give are those of its points, in
\* order, for every number of runs, points, workers and batches, and whatever order the
\* workers computed the batches in.
THEOREM PartitionRecordsMatch == Spec => []RecordsMatchPoints
<1>1. ASSUME PartitionInv PROVE RecordsMatchPoints
  <2>1. SUFFICES ASSUME build.at = "split", build.work # <<>>, NEW r \in DOMAIN scan.runs
                 PROVE  SegmentRecords(scan.spool, scan.segments[r]) = [i \in DOMAIN scan.runs[r] |-> <<r, i>>]
    BY DEF RecordsMatchPoints
  <2>2. ScanOK(scan) /\ scan.at = "join" /\ ~scan.err
    BY <1>1, <2>1, Parts DEF ScanPlaced
  <2> QED BY <2>2, ScanDone
<1> QED BY <1>1, PartitionHolds, PTL

\* A build answers with an error only after a fault, or when it was given the manifest of
\* other parameters: builds that end well never leave a cache or a work directory that
\* refuses a later build.
THEOREM PartitionErrorsHaveCause == Spec => []ErrorsHaveCause
<1>1. ASSUME PartitionInv, PartitionClean PROVE ErrorsHaveCause
  <2>1. SUFFICES ASSUME build.at = "idle", ~build.ok, ~(faults > 0) PROVE build.mismatch
    BY DEF ErrorsHaveCause
  <2>2. faults \in 0..MaxFaults
    BY <1>1, Parts
  <2>3. faults = 0
    BY <2>1, <2>2, ScanConstants
  <2>4. BuildClean(build, disk)
    BY <1>1, <2>3, CleanParts
  <2> QED BY <2>1, <2>4 DEF BuildClean
<1> QED BY <1>1, PartitionHolds, PTL
=============================================================================
