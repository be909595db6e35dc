------------------------------ MODULE RowReads ------------------------------
(***************************************************************************)
(* Reading rows (forgeann/point_store.rs, external_store.rs, the resident  *)
(* sketches of hash_prune.rs and the planned reads of point_pipeline.rs):  *)
(* the point stores and sketch accessors, and the batches of io_uring      *)
(* reads that strict stores submit on a ring kept per thread.  One thread  *)
(* makes a few reads from one store, one after the other.                  *)
(***************************************************************************)
EXTENDS RowFiles

CONSTANTS
  Stores,       \* the stores a behaviour may read from
  Requests,     \* sequences of row ids
  QueueDepth,   \* URING_WINDOW_GATHER_QUEUE_DEPTH
  MaxReads,     \* bound: reads in a behaviour
  MaxReadFaults \* bound: io_uring reads or set-ups that fail

ASSUME RowReadsAssumption == QueueDepth \in Nat \ {0}

VARIABLES
  store,   \* the store read from
  cache,   \* VectorWindowCache: [budget, used, entries], the oldest entry first
  ring,    \* the thread's io_uring: [flying, done]
  call     \* the read under way, or the last one

readVars == <<store, cache, ring, call>>

-----------------------------------------------------------------------------
(* Stores.  A store is a record [kind, strict, file, num, limit, ids, pick, *)
(* prefix]: ids are the rows a resident subset or a vector run holds.      *)

Sorted(ids) == \A i, j \in DOMAIN ids : i < j => ids[i] < ids[j]
NonDecreasing(ids) == \A i, j \in DOMAIN ids : i < j => ids[i] <= ids[j]
Consecutive(ids) == Runs(Len(ids), LAMBDA s, e : ids[e] = ids[e - 1] + 1)

\* Reads of runs joined into one answer; the first failure ends them.
InRuns(runs, Read(_, _)) ==
  FoldLeft(LAMBDA acc, r :
             IF ~acc.ok THEN acc
             ELSE LET got == Read(r[1], r[2])
                  IN IF got.ok THEN Answered(acc.rows \o got.rows) ELSE Refused,
           Answered(<<>>), runs)

\* DirectPointStore: the count comes from the header, the bytes from the file.
DirectRange(s, start, count) ==
  IF start + count > s.num THEN Refused
  ELSE ReadExactAt(s.file, s.strict, RowOffset(start), count * RowBytes)

DirectPoints(s, ids) ==
  InRuns(Consecutive(ids), LAMBDA a, b : DirectRange(s, ids[a], b - a + 1))

\* MmapPointStore: opened only on a file that holds every row.
MmapOpens(file, num) == RowOffset(num) <= Len(file)

MmapRange(s, start, count) ==
  IF start + count > s.num \/ RowOffset(start + count) > Len(s.file) THEN Refused
  ELSE Answered(RowsIn(SubSeq(s.file, RowOffset(start) + 1, RowOffset(start + count))))

MmapPoints(s, ids) == InRuns(Consecutive(ids), LAMBDA a, b : MmapRange(s, ids[a], b - a + 1))

MmapWindowed(s, ids) ==
  GatherWindows(Len(ids), GatherPlan(SortedRows(ids)), LAMBDA a, n : MmapRange(s, a, n))

\* InmemDatasetPointStore: vertex by vertex.
InmemPoints(s, ids) ==
  IF \A i \in DOMAIN ids : ids[i] < s.num THEN Answered([i \in DOMAIN ids |-> RowImage(ids[i])])
  ELSE Refused

\* The row of a subset that holds an id.  Of several the unstable sort and the
\* deduplication of id_to_row leave any one; pick says which.
LocalRow(s, id) ==
  LET at == {p \in DOMAIN s.ids : s.ids[p] = id} IN IF s.pick = "first" THEN Min(at) ELSE Max(at)

Holds(s, ids) == \A i \in DOMAIN ids : \E p \in DOMAIN s.ids : s.ids[p] = ids[i]
SubsetRow(s, p) == RowImage(s.ids[p])

\* read_sorted_points_into: one pass over sorted ids and a sorted subset.
ResidentMerge(s, ids) ==
  LET cursor(i) == Cardinality({p \in DOMAIN s.ids : s.ids[p] < ids[i]}) + 1
      found(i) == cursor(i) <= Len(s.ids) /\ s.ids[cursor(i)] = ids[i]
  IN IF \A i \in DOMAIN ids : found(i)
     THEN Answered([i \in DOMAIN ids |-> SubsetRow(s, cursor(i))]) ELSE Refused

ResidentPoints(s, ids) ==
  IF ids = s.ids THEN Answered([p \in DOMAIN s.ids |-> SubsetRow(s, p)])
  ELSE IF Sorted(s.ids) /\ NonDecreasing(ids) THEN ResidentMerge(s, ids)
  ELSE IF Holds(s, ids) THEN Answered([i \in DOMAIN ids |-> SubsetRow(s, LocalRow(s, ids[i]))])
  ELSE Refused

\* A range of a sorted subset is copied at once when its ends are count rows apart.
ResidentRange(s, start, count) ==
  LET ids == [i \in 1..count |-> start + i - 1]
      from == {p \in DOMAIN s.ids : s.ids[p] = start}
      last == Min(from) + count - 1
  IN IF Sorted(s.ids) /\ from # {} /\ last <= Len(s.ids) /\ s.ids[last] = start + count - 1
     THEN Answered([i \in 1..count |-> SubsetRow(s, Min(from) + i - 1)])
     ELSE IF Holds(s, ids) THEN Answered([i \in 1..count |-> SubsetRow(s, LocalRow(s, ids[i]))])
     ELSE Refused

\* VectorRunPointStore::materialize: the rows in the order of ids, and the runs
\* of consecutive ids as extents.
Extents(ids) ==
  LET runs == Consecutive(ids)
  IN [k \in DOMAIN runs |-> [start |-> ids[runs[k][1]], offset |-> (runs[k][1] - 1) * RowBytes,
                             len |-> runs[k][2] - runs[k][1] + 1]]

\* extent_for_local_row: the first extent that covers the id of the row.
ExtentOf(s, local) ==
  LET extents == Extents(s.ids)
      k == Min({k \in DOMAIN extents : s.ids[local] >= extents[k].start
                                       /\ s.ids[local] < extents[k].start + extents[k].len})
  IN extents[k]

ReadLocalRows(s, local, count) ==
  LET extent == ExtentOf(s, local)
      skip == s.ids[local] - extent.start
  IN IF skip + count > extent.len THEN Refused
     ELSE ReadExactAt(RowImages(s.ids), FALSE, extent.offset + skip * RowBytes, count * RowBytes)

RunRange(s, start, count) ==
  IF ~Holds(s, <<start>>) THEN Refused
  ELSE LET local == LocalRow(s, start)
       IN IF \A i \in 0..(count - 1) : local + i <= Len(s.ids) /\ s.ids[local + i] = start + i
          THEN ReadLocalRows(s, local, count) ELSE Refused

\* read_points_into_stats: sorted by local row; neighbours in one extent are read
\* together and copied to their places.
RunPoints(s, ids) ==
  IF ~Holds(s, ids) THEN Refused
  ELSE LET rows == SortedRows([i \in DOMAIN ids |-> LocalRow(s, ids[i])])
           runs == Runs(Len(rows), LAMBDA a, e :
                     /\ rows[e].row = rows[e - 1].row + 1
                     /\ ExtentOf(s, rows[e].row) = ExtentOf(s, rows[e - 1].row))
       IN FoldLeft(LAMBDA acc, r :
                     IF ~acc.ok THEN acc
                     ELSE LET got == ReadLocalRows(s, rows[r[1]].row, r[2] - r[1] + 1)
                          IN IF got.ok THEN Answered(Scatter(acc.rows, Window(rows, r[1], r[2]), got.rows))
                             ELSE Refused,
                   Answered(Blank(Len(ids))), runs)

-----------------------------------------------------------------------------
(* Sketches: read_sketch_range_into checks no bound.  Beyond the file a map *)
(* panics and a strict read yields zeros.                                  *)

SketchOpens(file, num) == Len(file) = RowOffset(num)

SketchRange(s, start, count) ==
  IF s.strict THEN ReadExactAt(s.file, TRUE, RowOffset(start), count * RowBytes)
  ELSE IF RowOffset(start + count) > Len(s.file) THEN Refused
  ELSE Answered(RowsIn(SubSeq(s.file, RowOffset(start) + 1, RowOffset(start + count))))

SketchRowCopy(s, r) == IF r >= s.num THEN Refused ELSE SketchRange(s, r, 1)

SketchRows(s, ids) ==
  InRuns(Consecutive(ids), LAMBDA a, b : SketchRange(s, ids[a], b - a + 1))

SketchWindowed(s, ids) ==
  GatherWindows(Len(ids), GatherPlan(SortedRows(ids)), LAMBDA a, n : SketchRange(s, a, n))

SketchPlan(s, ids) == IF s.strict THEN AlignedPlan(SortedRows(ids)) ELSE BoundedPlan(SortedRows(ids))

SketchBounded(s, ids) ==
  GatherWindows(Len(ids), SketchPlan(s, ids), LAMBDA a, n : SketchRange(s, a, n))

\* SketchStore: the sketches of the first rows, in memory.
MemoryRows(ids) == Answered([i \in DOMAIN ids |-> RowImage(ids[i])])
MemoryWindowed(ids) ==
  GatherWindows(Len(ids), GatherPlan(SortedRows(ids)), LAMBDA a, n : MemoryRows([i \in 1..n |-> a + i - 1]))

\* Positions of the requested rows inside and beyond the resident prefix.
HeadPositions(s, ids) == SelectSeq([i \in DOMAIN ids |-> i], LAMBDA i : ids[i] < s.prefix)
TailPositions(s, ids) == SelectSeq([i \in DOMAIN ids |-> i], LAMBDA i : ids[i] >= s.prefix)
At(ids, positions) == [k \in DOMAIN positions |-> ids[positions[k]]]

\* scatter_subset_rows.
ScatterSubset(out, positions, rows) ==
  [i \in DOMAIN out |->
     IF \E k \in DOMAIN positions : positions[k] = i
     THEN rows[CHOOSE k \in DOMAIN positions : positions[k] = i] ELSE out[i]]

PrefixRows(s, ids) ==
  InRuns([i \in DOMAIN ids |-> <<i, i>>],
         LAMBDA a, b : IF ids[a] < s.prefix THEN MemoryRows(<<ids[a]>>) ELSE SketchRowCopy(s, ids[a]))

\* The prefix answers its part, Rest(ids) what lies beyond.
PrefixSplit(s, ids, Rest(_)) ==
  LET head == HeadPositions(s, ids)
      tail == TailPositions(s, ids)
      rest == Rest(At(ids, tail))
      filled == ScatterSubset(Blank(Len(ids)), head, MemoryWindowed(At(ids, head)).rows)
  IN IF tail = <<>> THEN Answered(filled)
     ELSE IF rest.ok THEN Answered(ScatterSubset(filled, tail, rest.rows)) ELSE Refused

PrefixWindowed(s, ids) ==
  IF s.prefix = 0 THEN SketchWindowed(s, ids) ELSE PrefixSplit(s, ids, LAMBDA t : SketchWindowed(s, t))
PrefixBounded(s, ids) ==
  IF s.prefix = 0 THEN SketchBounded(s, ids) ELSE PrefixSplit(s, ids, LAMBDA t : SketchBounded(s, t))

-----------------------------------------------------------------------------
(* The trait's methods, without io_uring.                                  *)

\* LimitedPointStore checks each id and each range against its own count.
WithinLimit(s, ids) == \A i \in DOMAIN ids : ids[i] < s.limit

RangeOf(s, start, count) ==
  IF start + count > s.limit THEN Refused
  ELSE CASE s.kind = "direct" -> DirectRange(s, start, count)
         [] s.kind = "mmap" -> MmapRange(s, start, count)
         [] s.kind = "inmem" -> InmemPoints(s, [i \in 1..count |-> start + i - 1])
         [] s.kind = "resident" -> ResidentRange(s, start, count)
         [] s.kind = "run" -> RunRange(s, start, count)
         [] s.kind = "sketch" -> SketchRange(s, start, count)

PointsOf(s, ids) ==
  IF ~WithinLimit(s, ids) THEN Refused
  ELSE CASE s.kind = "direct" -> DirectPoints(s, ids)
         [] s.kind = "mmap" -> MmapPoints(s, ids)
         [] s.kind = "inmem" -> InmemPoints(s, ids)
         [] s.kind = "resident" -> ResidentPoints(s, ids)
         [] s.kind = "run" -> RunPoints(s, ids)
         [] s.kind = "sketch" /\ s.prefix = 0 -> SketchRows(s, ids)
         [] OTHER -> PrefixRows(s, ids)

DirectWindowed(s, ids) ==
  GatherWindows(Len(ids), GatherPlan(SortedRows(ids)), LAMBDA a, n : DirectRange(s, a, n))

\* Memory-like stores take the trait's default and read the points.
WindowedOf(s, ids) ==
  CASE ~WithinLimit(s, ids) -> Refused
    [] s.kind = "direct" -> DirectWindowed(s, ids)
    [] s.kind = "mmap" -> MmapWindowed(s, ids)
    [] s.kind = "sketch" -> PrefixWindowed(s, ids)
    [] OTHER -> PointsOf(s, ids)

-----------------------------------------------------------------------------
(* VectorWindowCache and the planned reads of the point pipeline.          *)

CacheBytes(rows) == Len(rows) * RowBytes

EmptyCache(budget) == [budget |-> budget, used |-> 0, entries |-> <<>>]

CacheKey(w) == <<w.start, w.count>>
Cached(c, key) == \E i \in DOMAIN c.entries : c.entries[i].key = key
CacheEntry(c, key) == c.entries[CHOOSE i \in DOMAIN c.entries : c.entries[i].key = key]

\* A hit moves the entry to the young end.
CacheGet(c, key) ==
  [c EXCEPT !.entries = Append(SelectSeq(@, LAMBDA e : e.key # key), CacheEntry(c, key))]

\* evict_to_budget.
Evict(c) ==
  LET Bytes(n) == FoldLeft(LAMBDA b, e : b + CacheBytes(e.rows), 0, SubSeq(c.entries, 1, n))
      n == Min({n \in 0..Len(c.entries) : c.used - Bytes(n) <= c.budget})
  IN [c EXCEPT !.used = @ - Bytes(n), !.entries = SubSeq(@, n + 1, Len(@))]

CacheInsert(c, key, rows) ==
  IF rows = <<>> \/ CacheBytes(rows) > c.budget THEN c
  ELSE LET others == SelectSeq(c.entries, LAMBDA e : e.key # key)
           before == IF Cached(c, key) THEN CacheBytes(CacheEntry(c, key).rows) ELSE 0
       IN Evict([c EXCEPT !.used = @ - before + CacheBytes(rows),
                          !.entries = Append(others, [key |-> key, rows |-> rows])])

\* read_points_planned_into_batch_stats with a cache: window by window.
PlannedStep(s, acc, w) ==
  LET got == RangeOf(s, w.start, w.count)
  IN IF ~acc.ok THEN acc
     ELSE IF Cached(acc.cache, CacheKey(w))
     THEN [acc EXCEPT !.cache = CacheGet(@, CacheKey(w)),
                      !.rows = Scatter(@, w, CacheEntry(acc.cache, CacheKey(w)).rows)]
     ELSE IF got.ok
     THEN [acc EXCEPT !.cache = IF @.budget = 0 THEN @ ELSE CacheInsert(@, CacheKey(w), got.rows),
                      !.rows = Scatter(@, w, got.rows)]
     ELSE [acc EXCEPT !.ok = FALSE]

Planned(s, c, ids) ==
  FoldLeft(LAMBDA acc, w : PlannedStep(s, acc, w),
           [ok |-> TRUE, rows |-> Blank(Len(ids)), cache |-> c], BoundedPlan(SortedRows(ids)))

\* Mapped files are opened when they hold every row, sketch files when they hold
\* just that; a DirectPointStore takes its header's word.
Opens(s) ==
  CASE s.kind = "mmap" -> MmapOpens(s.file, s.num)
    [] s.kind = "sketch" -> SketchOpens(s.file, s.num)
    [] OTHER -> TRUE

-----------------------------------------------------------------------------
(* The state machine.                                                      *)

\* The windows that go through io_uring, their places in the output and the
\* rows that are known already; at least two windows are needed.
RingPositions(s, ids) == IF s.kind = "sketch" THEN TailPositions(s, ids) ELSE [i \in DOMAIN ids |-> i]
RingPlan(s, method, ids) ==
  CASE method = "windowed" -> GatherPlan(SortedRows(ids))
    [] method = "planned" -> BoundedPlan(SortedRows(ids))
    [] OTHER -> AlignedPlan(SortedRows(At(ids, TailPositions(s, ids))))

UsesRing(s, c, method, ids) ==
  /\ s.strict /\ ids # <<>>
  /\ \/ s.kind = "direct" /\ method = "windowed" /\ WithinLimit(s, ids)
     \/ s.kind = "direct" /\ method = "planned" /\ c.budget = 0
     \/ s.kind = "sketch" /\ method = "bounded"
  /\ Len(RingPlan(s, method, ids)) >= 2

NoCall == [phase |-> "none", count |-> 0, faults |-> 0, method |-> "", ids |-> <<>>, answer |-> Refused,
           windows |-> <<>>, next |-> 1, reads |-> <<>>, reaped |-> 0, stale |-> FALSE, failed |-> FALSE]

ReadInit ==
  /\ store \in {s \in Stores : Opens(s)}
  /\ cache \in {EmptyCache(b) : b \in store.budgets}
  /\ ring = [flying |-> {}, done |-> <<>>]
  /\ call = NoCall

Ready == call.phase \in {"none", "answered"} /\ call.count < MaxReads

\* A read that no io_uring batch serves answers in one step: nothing else
\* writes the files.
Replies(method, ids, answer) ==
  /\ call' = [NoCall EXCEPT !.phase = "answered", !.count = call.count + 1, !.faults = call.faults,
                            !.method = method, !.ids = ids, !.answer = [ok |-> answer.ok, rows |-> answer.rows]]
  /\ UNCHANGED <<store, ring>>

ReadRange(ids) ==
  /\ Ready
  /\ ids # <<>> /\ \A i \in DOMAIN ids : ids[i] = ids[1] + i - 1
  /\ Replies("range", ids, RangeOf(store, ids[1], Len(ids)))
  /\ UNCHANGED cache

ReadPoints(ids) ==
  /\ Ready
  /\ Replies("points", ids, PointsOf(store, ids))
  /\ UNCHANGED cache

ReadWindowed(ids) ==
  /\ Ready
  /\ ~UsesRing(store, cache, "windowed", ids)
  /\ Replies("windowed", ids, WindowedOf(store, ids))
  /\ UNCHANGED cache

ReadBounded(ids) ==
  /\ Ready
  /\ store.kind = "sketch"
  /\ ~UsesRing(store, cache, "bounded", ids)
  /\ Replies("bounded", ids, PrefixBounded(store, ids))
  /\ UNCHANGED cache

\* read_points_planned_into_batch_stats hands a resident subset its points and
\* everything else its windows.
ReadPlanned(ids) ==
  /\ Ready
  /\ store.kind # "sketch"
  /\ ~UsesRing(store, cache, "planned", ids)
  /\ IF store.kind = "resident"
     THEN Replies("planned", ids, PointsOf(store, ids)) /\ UNCHANGED cache
     ELSE \E got \in {Planned(store, cache, ids)} : Replies("planned", ids, got) /\ cache' = got.cache

\* try_read_windows_with_uring and its two siblings.
ReadWithRing(method, ids) ==
  /\ Ready
  /\ UsesRing(store, cache, method, ids)
  /\ \E positions \in {RingPositions(store, ids)}, plan \in {RingPlan(store, method, ids)} :
       call' = [NoCall EXCEPT
         !.phase = "submit", !.count = call.count + 1, !.faults = call.faults, !.method = method, !.ids = ids,
         !.answer = Answered(ScatterSubset(Blank(Len(ids)), HeadPositions(store, ids),
                                           MemoryWindowed(At(ids, HeadPositions(store, ids))).rows)),
         !.windows = [k \in DOMAIN plan |->
           [plan[k] EXCEPT !.scatter = {[s EXCEPT !.pos = positions[s.pos]] : s \in plan[k].scatter}]],
         !.stale = ring.done # <<>>]
  /\ UNCHANGED <<store, cache, ring>>

\* The error of a batch: a windowed gather falls back to plain reads, the
\* bounded ones return it.
BatchFails(c) ==
  [c EXCEPT !.phase = IF c.method = "windowed" THEN "fallback" ELSE "answered",
            !.failed = TRUE, !.reads = <<>>, !.answer = Refused]

FallBack ==
  /\ call.phase = "fallback"
  /\ call' = [call EXCEPT !.phase = "answered", !.answer = WindowedOf(store, call.ids)]
  /\ UNCHANGED <<store, cache, ring>>

\* The ring cannot be made, or does not take the batch.
RingRefuses ==
  /\ call.phase = "submit"
  /\ call.faults < MaxReadFaults
  /\ call' = BatchFails([call EXCEPT !.faults = @ + 1])
  /\ UNCHANGED <<store, cache, ring>>

SubmitBatch ==
  /\ call.phase = "submit"
  /\ \E last \in {Min({call.next + QueueDepth - 1, Len(call.windows)})} :
       /\ call' = [call EXCEPT !.phase = "wait", !.reaped = 0,
                               !.reads = [i \in 1..(last - call.next + 1) |->
                                            [window |-> call.next + i - 1, rows |-> Blank(call.windows[call.next + i - 1].count)]]]
       /\ ring' = [ring EXCEPT !.flying = @ \cup
                     {[batch |-> <<call.count, call.next>>, slot |-> i, window |-> call.windows[call.next + i - 1]] :
                        i \in 1..(last - call.next + 1)}]
  /\ UNCHANGED <<store, cache>>

\* The kernel finishes a read, in any order: the scratch is filled as far as
\* the file goes and a completion appears in the ring.
Complete(f, fault) ==
  LET mine == call.phase \in {"wait", "reap"} /\ f.batch = <<call.count, call.next>>
      whole == RowWhole(store.file, f.window.start + f.window.count - 1)
  IN /\ f \in ring.flying
     /\ fault => call.faults < MaxReadFaults
     /\ ring' = [flying |-> ring.flying \ {f},
                 done |-> Append(ring.done, [slot |-> f.slot, ok |-> ~fault /\ whole])]
     /\ call' = [call EXCEPT
          !.reads = IF ~mine \/ fault THEN @
                    ELSE [@ EXCEPT ![f.slot].rows = ReadExactAt(store.file, TRUE, RowOffset(f.window.start),
                                                                f.window.count * RowBytes).rows],
          !.faults = IF fault THEN @ + 1 ELSE @]
     /\ UNCHANGED <<store, cache>>

\* submit_and_wait(n) returns with n completions in the ring, of whatever batch.
WaitEnds ==
  /\ call.phase = "wait"
  /\ Len(ring.done) >= Len(call.reads)
  /\ call' = [call EXCEPT !.phase = "reap"]
  /\ UNCHANGED <<store, cache, ring>>

\* A completion is taken; an invalid slot, an error or a short read ends the
\* batch at once and leaves the other completions in the ring.
Reap ==
  /\ call.phase = "reap"
  /\ call.reaped < Len(call.reads)
  /\ ring.done # <<>>
  /\ ring' = [ring EXCEPT !.done = Tail(@)]
  /\ call' = IF Head(ring.done).slot > Len(call.reads) \/ ~Head(ring.done).ok
             THEN BatchFails(call)
             ELSE [call EXCEPT !.reaped = @ + 1]
  /\ UNCHANGED <<store, cache>>

\* Every read of the batch is taken for complete: scatter, next batch or answer.
ScatterBatch ==
  /\ call.phase = "reap"
  /\ call.reaped = Len(call.reads)
  /\ \E rest \in {call.next + Len(call.reads)} :
       call' = [call EXCEPT
         !.phase = IF rest > Len(call.windows) THEN "answered" ELSE "submit",
         !.next = rest, !.reads = <<>>,
         !.answer.rows = FoldLeft(LAMBDA out, r : Scatter(out, call.windows[r.window], r.rows), @, call.reads)]
  /\ UNCHANGED <<store, cache, ring>>

ReadNext ==
  \/ \E ids \in Requests :
       \/ ReadRange(ids) \/ ReadPoints(ids) \/ ReadWindowed(ids) \/ ReadBounded(ids) \/ ReadPlanned(ids)
       \/ \E method \in {"windowed", "planned", "bounded"} : ReadWithRing(method, ids)
  \/ RingRefuses \/ FallBack \/ SubmitBatch \/ WaitEnds \/ Reap \/ ScatterBatch
  \/ \E f \in ring.flying, fault \in BOOLEAN : Complete(f, fault)

-----------------------------------------------------------------------------
(* Properties.                                                             *)

\* Rows a store promises: its own, within its limit.
Available(s, r) ==
  /\ r < s.limit
  /\ IF s.kind \in {"resident", "run"} THEN \E p \in DOMAIN s.ids : s.ids[p] = r ELSE r < s.num

\* A read that answers Ok put row ids[i] of the file at position i, whatever
\* windows, runs, extents, caches and completion orders it went through; it is
\* refused only when a row is missing or io_uring failed.  Excepted is what the
\* code does not detect: completions left in the ring by an earlier failed batch,
\* and strict reads beyond the end of the file.  The cache's byte count is exact
\* and within its budget.
RowsGathered ==
  /\ (call.phase = "answered" /\ ~call.stale) =>
       IF call.answer.ok
       THEN \A i \in DOMAIN call.ids :
              \/ store.strict /\ ~RowWhole(store.file, call.ids[i])
              \/ call.answer.rows[i] = RowImage(call.ids[i])
       ELSE \/ call.failed
            \/ \E i \in DOMAIN call.ids : ~Available(store, call.ids[i])
            \/ store.kind \in {"direct", "sketch"} /\ ~RowWhole(store.file, store.num - 1)
            \/ store.kind = "run" /\ call.method \in {"range", "planned"}
  /\ cache.used = FoldLeft(LAMBDA b, e : b + CacheBytes(e.rows), 0, cache.entries)
  /\ cache.used <= cache.budget

=============================================================================
