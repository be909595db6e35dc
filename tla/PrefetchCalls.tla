--------------------------- MODULE PrefetchCalls ----------------------------
(***************************************************************************)
(* for_each_prefetched_point_batch_profiled and StrictPrefetchGate         *)
(* (rbc_partition/prefetch_pipeline.rs): a producer thread reads the       *)
(* chunks of a list of points into a bounded queue, the caller consumes    *)
(* them, and calls of concurrent clusters share one gate of bytes.         *)
(*                                                                         *)
(* The bytes of a chunk are its points.  A queued batch is the permit it   *)
(* carries, or Bad for a read error.                                       *)
(***************************************************************************)
EXTENDS LevelScan

CONSTANTS Callers,          \* threads that run a prefetched call
          ChunkPoints,      \* points of a batch
          QueueDepth,       \* OOM_STRICT_PREFETCH_QUEUE_DEPTH
          GateBytes         \* capacity of the shared gate

ASSUME PrefetchAssumption ==
  {ChunkPoints, QueueDepth} \subseteq Nat \ {0} /\ GateBytes \in Nat /\ IsFiniteSet(Callers)

VARIABLES call,             \* the call of each thread
          gate              \* bytes the gate has handed out

Bad == -1
NoCall == [at |-> "none"]
\* The sizes of the chunks of n points; strict calls fit a batch to the budget.
BatchSize(strict) == IF strict /\ GateBytes > 0 THEN Min({ChunkPoints, GateBytes}) ELSE ChunkPoints
StartCall(n, mode, job) ==
  [at |-> "run", mode |-> mode, job |-> job, left |-> Chunks([i \in 1..n |-> i], BatchSize(mode = "strict")),
   got |-> 0, total |-> Len(Chunks([i \in 1..n |-> i], BatchSize(mode = "strict"))),
   producer |-> "acquire", item |-> 0, queue |-> <<>>, failed |-> FALSE]

(* acquire_blocking, then the read.  A request above the capacity of the   *)
(* gate gets no permit; the permit of a failed read is released at once.   *)
\* Mutant: what is already handed out is forgotten.
GateFitsAlone(bytes) == bytes <= GateBytes
GateFits(bytes) == gate + bytes <= GateBytes
AcquireAndRead(c) ==
  LET bytes == Len(Head(call[c].left))
      permit == IF call[c].mode = "strict" /\ bytes <= GateBytes THEN bytes ELSE 0
  IN /\ call[c].at = "run" /\ call[c].mode # "off"
     /\ call[c].producer = "acquire" /\ call[c].left # <<>>
     /\ GateFits(permit)
     /\ \/ /\ call' = [call EXCEPT ![c].producer = "send", ![c].item = permit]
           /\ gate' = gate + permit /\ UNCHANGED faults
        \/ /\ call' = [call EXCEPT ![c].producer = "send", ![c].item = Bad]
           /\ UNCHANGED gate /\ Fault

\* try_send: the receiver lives until the scope joins, so it only spins.
SendBatch(c) ==
  /\ call[c].at = "run" /\ call[c].producer = "send"
  /\ Len(call[c].queue) < QueueDepth
  /\ call' = [call EXCEPT ![c].queue = Append(@, call[c].item), ![c].producer = "acquire",
                          ![c].left = Tail(@), ![c].item = 0]
  /\ UNCHANGED <<gate, faults>>

\* One batch: the permit is released whether or not the closure fails.
\* Mutant: an accepted batch keeps its permit.
ConsumeKeepsPermit(c) ==
  /\ call[c].at = "run" /\ ~call[c].failed /\ call[c].queue # <<>>
  /\ \/ /\ Head(call[c].queue) = Bad
        /\ call' = [call EXCEPT ![c].queue = Tail(@), ![c].failed = TRUE] /\ UNCHANGED <<gate, faults>>
     \/ /\ Head(call[c].queue) # Bad
        /\ call' = [call EXCEPT ![c].queue = Tail(@), ![c].got = @ + 1] /\ UNCHANGED <<gate, faults>>
ConsumeBatch(c) ==
  /\ call[c].at = "run" /\ ~call[c].failed /\ call[c].queue # <<>>
  /\ \/ /\ Head(call[c].queue) = Bad
        /\ call' = [call EXCEPT ![c].queue = Tail(@), ![c].failed = TRUE] /\ UNCHANGED <<gate, faults>>
     \/ /\ Head(call[c].queue) # Bad
        /\ gate' = gate - Head(call[c].queue)
        /\ \/ call' = [call EXCEPT ![c].queue = Tail(@), ![c].got = @ + 1] /\ UNCHANGED faults
           \/ call' = [call EXCEPT ![c].queue = Tail(@), ![c].failed = TRUE] /\ Fault

\* A store that disables the pipeline reads its chunks one after another.
ReadSerially(c) ==
  /\ call[c].at = "run" /\ call[c].mode = "off"
  /\ \/ call' = [call EXCEPT ![c].at = "ok"] /\ UNCHANGED faults
     \/ call' = [call EXCEPT ![c].at = "failed"] /\ Fault
  /\ UNCHANGED gate

\* The scope joins: the producer has sent its last chunk.
CallEnds(c) ==
  /\ call[c].at = "run" /\ call[c].mode # "off"
  /\ call[c].left = <<>>
  /\ call[c].failed \/ call[c].got = call[c].total
  /\ call' = [call EXCEPT ![c].at = IF call[c].failed THEN "failed" ELSE "ok"]
  /\ UNCHANGED <<gate, faults>>

\* The bytes a call may still give back: a failed consumer drops its queue
\* and the permits in it (StrictPrefetchBatch has no Drop).
Returnable(c) ==
  IF call[c].at # "run" \/ call[c].failed THEN 0
  ELSE FoldLeft(LAMBDA bytes, permit : bytes + Max({permit, 0}), 0, Append(call[c].queue, call[c].item))
Leaked == gate - MapThenSumSet(Returnable, Callers)

\* After a failure: a producer that spins on the queue of a failed
\* consumer, or one that waits for bytes nobody will give back.
PrefetchStuck ==
  /\ faults > 0
  /\ \E c \in Callers :
       /\ call[c].at = "run" /\ call[c].left # <<>>
       /\ \/ call[c].failed /\ call[c].producer = "send" /\ Len(call[c].queue) = QueueDepth
          \/ call[c].mode = "strict" /\ call[c].producer = "acquire" /\ Leaked + Len(Head(call[c].left)) > GateBytes
PrefetchStep(c) == AcquireAndRead(c) \/ SendBatch(c) \/ ConsumeBatch(c) \/ ReadSerially(c) \/ CallEnds(c)
=============================================================================
