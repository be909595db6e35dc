----------------------------- MODULE LevelScan ------------------------------
(***************************************************************************)
(* run_d1_sequential_ads_pipeline (rbc_partition/child_run_io.rs): one     *)
(* pass over the distinct points of all child runs of a level.  The        *)
(* calling thread plans batches, a reader thread loads them, compute       *)
(* workers assign leaders, and the caller applies the results in batch     *)
(* order: it appends the assignment records of every run to one spool and  *)
(* remembers, for each run, the segments that hold its records.            *)
(*                                                                         *)
(* A batch is its number; the record of the i-th point of a run is i.      *)
(* Zero stands for an error on its way through a channel.                  *)
(***************************************************************************)
EXTENDS RunStore

CONSTANTS BatchPoints,  \* distinct points of a batch
          Inflight,     \* d1_level_scan_pipeline_inflight
          ReorderCapacity,  \* d1_level_scan_computed_reorder_capacity
          Threads,      \* threads of the pool
          MaxFaults     \* bound: faults of all the builds of a behaviour

ASSUME ScanAssumption ==
  /\ {BatchPoints, Inflight, Threads} \subseteq Nat \ {0}
  /\ ReorderCapacity \in Nat /\ ReorderCapacity >= Inflight
  /\ MaxFaults \in Nat

VARIABLES scan,         \* the pipeline of the current level
          faults        \* the faults so far

Workers == 1..Min({Inflight, Threads})
MaxOutstanding == Max({ReorderCapacity, Inflight})

\* The heap of run heads, run to its end: the heads after each batch, and the
\* outputs of every batch.
Occurrences(runs) == UNION {{<<r, i>> : i \in DOMAIN runs[r]} : r \in DOMAIN runs}
HeadsOf(runs) ==
  LET heads[b \in 0..Cardinality(Occurrences(runs))] ==
        IF b = 0 THEN [r \in DOMAIN runs |-> 1] ELSE NextHeads(runs, heads[b - 1], BatchPoints)
  IN heads
BatchesOf(runs) ==
  LET heads == HeadsOf(runs)
  IN [b \in 1..Min({e \in DOMAIN heads : HeadPoints(runs, heads[e]) = {}}) |->
        BatchOutputs(heads[b - 1], heads[b])]

NoScan == [at |-> "off"]
StartScan(runs) ==
  [at |-> "fill", runs |-> runs, batches |-> BatchesOf(runs),
   next |-> 1, sent |-> 0, applied |-> 0, pending |-> 0, exhausted |-> FALSE,
   planTx |-> TRUE, rx |-> TRUE, cancel |-> FALSE, err |-> FALSE,
   plans |-> <<>>, loaded |-> <<>>, computed |-> <<>>, held |-> {},
   reader |-> [at |-> "loop", item |-> 0], worker |-> [w \in Workers |-> [at |-> "loop", item |-> 0]],
   spool |-> <<>>, segments |-> [r \in DOMAIN runs |-> <<>>]]

ReaderGone == scan.reader.at = "end"
WorkersGone == \A w \in Workers : scan.worker[w].at = "end"
Fault == faults < MaxFaults /\ faults' = faults + 1

\* The closure of the scope is left: every channel end it owns is dropped.
LeaveScope(s) == [s EXCEPT !.at = "join", !.planTx = FALSE, !.rx = FALSE, !.pending = 0]
-----------------------------------------------------------------------------
(* fill_d1_sequential_ads_plan_queue *)

\* The batch to send: the one that found the queue full, or the next one.
Planned == IF scan.pending # 0 THEN scan.pending ELSE scan.next
PlansLeft == scan.pending # 0 \/ scan.next <= Len(scan.batches)
Advanced == IF scan.pending # 0 THEN scan.next ELSE scan.next + 1
FillQueue ==
  /\ scan.at = "fill" /\ UNCHANGED faults
  /\ \/ /\ ~scan.planTx \/ scan.sent - scan.applied >= MaxOutstanding
        /\ scan' = [scan EXCEPT !.at = "recv"]
     \/ /\ scan.planTx /\ scan.sent - scan.applied < MaxOutstanding
        /\ \/ /\ ~PlansLeft
              /\ scan' = [scan EXCEPT !.planTx = FALSE, !.exhausted = TRUE, !.at = "recv"]
           \/ /\ PlansLeft /\ ReaderGone
              /\ scan' = [LeaveScope(scan) EXCEPT !.err = TRUE]
           \/ /\ PlansLeft /\ ~ReaderGone /\ Len(scan.plans) = Inflight
              /\ scan' = [scan EXCEPT !.pending = Planned, !.next = Advanced, !.at = "recv"]
           \/ /\ PlansLeft /\ ~ReaderGone /\ Len(scan.plans) < Inflight
              /\ scan' = [scan EXCEPT !.plans = Append(@, Planned), !.sent = @ + 1,
                                      !.pending = 0, !.next = Advanced]
-----------------------------------------------------------------------------
(* The reader thread: cancel is looked at before every receive. *)

ReadBatch ==
  /\ scan.reader.at = "loop"
  /\ \/ /\ scan.cancel \/ (scan.plans = <<>> /\ ~scan.planTx)
        /\ scan' = [scan EXCEPT !.reader.at = "end"] /\ UNCHANGED faults
     \/ /\ scan.plans # <<>>
        /\ \/ scan' = [scan EXCEPT !.plans = Tail(@), !.reader = [at |-> "send", item |-> Head(scan.plans)]]
              /\ UNCHANGED faults
           \/ scan' = [scan EXCEPT !.plans = Tail(@), !.reader = [at |-> "send", item |-> 0]] /\ Fault
SendLoaded ==
  /\ scan.reader.at = "send" /\ UNCHANGED faults
  /\ \/ /\ ~scan.rx /\ WorkersGone
        /\ scan' = [scan EXCEPT !.reader = [at |-> "end", item |-> 0]]
     \/ /\ scan.rx \/ ~WorkersGone
        /\ Len(scan.loaded) < Inflight
        /\ scan' = [scan EXCEPT !.loaded = Append(@, scan.reader.item),
                      !.reader = [at |-> IF scan.reader.item = 0 THEN "end" ELSE "loop", item |-> 0]]

(* A compute worker. *)
ComputeBatch(w) ==
  /\ scan.worker[w].at = "loop"
  /\ \/ /\ scan.cancel \/ (scan.loaded = <<>> /\ ReaderGone)
        /\ scan' = [scan EXCEPT !.worker[w].at = "end"] /\ UNCHANGED faults
     \/ /\ scan.loaded # <<>>
        /\ \/ scan' = [scan EXCEPT !.loaded = Tail(@), !.worker[w] = [at |-> "send", item |-> Head(scan.loaded)]]
              /\ UNCHANGED faults
           \/ /\ Head(scan.loaded) # 0 /\ Fault
              /\ scan' = [scan EXCEPT !.loaded = Tail(@), !.worker[w] = [at |-> "send", item |-> 0]]
SendComputed(w) ==
  /\ scan.worker[w].at = "send" /\ UNCHANGED faults
  /\ \/ /\ ~scan.rx
        /\ scan' = [scan EXCEPT !.worker[w] = [at |-> "end", item |-> 0]]
     \/ /\ scan.rx /\ Len(scan.computed) < ReorderCapacity
        /\ scan' = [scan EXCEPT !.computed = Append(@, scan.worker[w].item),
                      !.worker[w] = [at |-> IF scan.worker[w].item = 0 THEN "end" ELSE "loop", item |-> 0]]
-----------------------------------------------------------------------------
(* apply_d1_level_scan_computed_batch, for the outputs of one batch.       *)
ApplyOutput(w, out) ==
  [spool |-> w.spool \o [i \in DOMAIN out.records |-> <<out.run, out.records[i]>>],
   segments |-> [w.segments EXCEPT ![out.run] =
                   Append(@, [offset |-> Len(w.spool), len |-> Len(out.records)])]]
ApplyBatch(w, outputs) == FoldLeft(ApplyOutput, w, outputs)
SpooledInOrder(w, batches, order) == FoldLeft(LAMBDA v, b : ApplyBatch(v, batches[b]), w, order)
ApplyBatches(s, order) ==
  LET w == SpooledInOrder([spool |-> s.spool, segments |-> s.segments], s.batches, order)
  IN [s EXCEPT !.spool = w.spool, !.segments = w.segments, !.applied = @ + Len(order),
               !.held = @ \ ToSet(order)]
\* drain_ordered_d1_level_scan_batches: as far as the batches are in order.
\* Mutant: everything held is applied, in the order of arrival.
DrainArrived(s) == ApplyBatches(s, SetToSeq(s.held))
DrainOrdered(s) ==
  LET due == {b \in s.held : \A c \in (s.applied + 1)..b : c \in s.held}
  IN ApplyBatches(s, [i \in 1..Cardinality(due) |-> s.applied + i])

Finished == scan.exhausted /\ scan.applied = scan.sent
ReceiveComputed ==
  /\ scan.at = "recv" /\ ~Finished
  /\ \/ /\ scan.computed = <<>> /\ WorkersGone
        /\ scan' = [scan EXCEPT !.err = TRUE, !.at = "drain", !.cancel = TRUE, !.planTx = FALSE, !.pending = 0]
        /\ UNCHANGED faults
     \/ /\ scan.computed # <<>> /\ Head(scan.computed) = 0
        /\ scan' = [scan EXCEPT !.computed = Tail(@), !.err = TRUE, !.at = "drain",
                                !.cancel = TRUE, !.planTx = FALSE, !.pending = 0]
        /\ UNCHANGED faults
     \/ /\ scan.computed # <<>> /\ Head(scan.computed) # 0
        /\ LET got == [scan EXCEPT !.computed = Tail(@), !.held = @ \cup {Head(scan.computed)}]
           IN \/ scan' = [DrainOrdered(got) EXCEPT !.at = "fill"] /\ UNCHANGED faults
              \/ scan' = [LeaveScope(got) EXCEPT !.err = TRUE] /\ Fault  \* the spool is not writable
DrainComputed ==
  /\ scan.at = "drain" /\ UNCHANGED faults
  /\ \/ scan.computed # <<>> /\ scan' = [scan EXCEPT !.computed = Tail(@)]
     \/ scan.computed = <<>> /\ WorkersGone /\ scan' = LeaveScope(scan)
AllApplied ==
  /\ scan.at = "recv" /\ Finished
  /\ scan' = LeaveScope(scan) /\ UNCHANGED faults
Joined == scan.at = "join" /\ ReaderGone /\ WorkersGone

ScanStep ==
  \/ FillQueue \/ ReadBatch \/ SendLoaded
  \/ \E w \in Workers : ComputeBatch(w) \/ SendComputed(w)
  \/ ReceiveComputed \/ DrainComputed \/ AllApplied
=============================================================================
