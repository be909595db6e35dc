--------------------------- MODULE LeafScheduler ---------------------------
(***************************************************************************)
(* ForgeannScheduler (ForgeANN/src/forgeann/scheduler.rs): one Rayon pool  *)
(* runs the RBC producer, which emits leaves into a bounded backlog, and   *)
(* the leaf drainers, which take batches of leaves from it and build them. *)
(*                                                                         *)
(* The producer is a rayon::join tree, so several threads (Emitters) emit  *)
(* at once.  Drainers are the pool threads that run drainer tasks; Main is *)
(* the thread inside the scope closure of run_scheduler_scope.  Every      *)
(* atomic access of the code that another thread can observe is a step of  *)
(* its own; accesses nobody can tell apart are one step.                   *)
(***************************************************************************)
EXTENDS Integers, Sequences, FiniteSets, FiniteSetsExt, Functions

CONSTANTS
  Leaves,           \* the leaves the producer may emit
  Size,             \* Size[l]: points of a leaf, also its estimated work
  Emitters,         \* branches of the producer's rayon::join tree
  Drainers,         \* pool threads free to run drainer tasks
  Main,             \* the thread of the scope closure
  NoLeaf,           \* no leaf in hand
  NoLimit,          \* no leaf-drainer limit guard held
  BacklogCapacity,  \* SchedulerBudget.leaf_backlog_capacity
  WorkerCapacity,   \* max_leaf_worker_capacity(): worker_count - 1, at least 1
  SoftLimit,        \* producer_leaf_backlog_soft_limit, 0 when off
  WorkTarget,       \* target_queued_work_ms(), 0 when the work graph is off
  WordMod,          \* the modulus of the atomic work counter (2^64)
  BatchEnabled,     \* LeafBatchDrainPolicy.enabled
  BatchLeaves,      \* LeafBatchDrainPolicy.max_leaves
  BatchPoints,      \* LeafBatchDrainPolicy.max_points
  MinBacklog,       \* LeafBatchDrainPolicy.min_backlog
  PostScale,        \* LeafBatchDrainPolicy.post_producer_scale
  PostLeaves,       \* LeafBatchDrainPolicy.post_producer_max_leaves
  PostPoints,       \* LeafBatchDrainPolicy.post_producer_max_points
  MaxHydrations,    \* max_active_hydrations, 0 when unlimited
  LimitPairs,       \* <<limit, backpressure limit>> pairs a guard may ask for
  LargeEmitters,    \* emitters whose branch runs large assignments
  LeafFaults,       \* how building a leaf may end badly: {"err", "panic"} or less
  ProducerFaults    \* how the producer's own work may end badly

Threads == Emitters \cup Drainers \cup {Main}

ASSUME SchedulerAssumption ==
  /\ IsFiniteSet(Leaves)
  /\ IsFiniteSet(Emitters)
  /\ IsFiniteSet(Drainers)
  /\ Emitters \cap Drainers = {}
  /\ Main \notin Emitters \cup Drainers
  /\ NoLeaf \notin Leaves
  /\ NoLimit \notin LimitPairs
  /\ WordMod \in Nat \ {0}
  /\ Size \in [Leaves -> 0..(WordMod - 1)]
  /\ BacklogCapacity \in Nat \ {0}
  /\ WorkerCapacity \in Nat \ {0}
  /\ SoftLimit \in Nat
  /\ WorkTarget \in Nat
  /\ BatchEnabled \in BOOLEAN
  /\ BatchLeaves \in Nat \ {0}
  /\ BatchPoints \in Nat \ {0}
  /\ MinBacklog \in Nat
  /\ PostScale \in Nat \ {0}
  /\ PostLeaves \in Nat \ {0}
  /\ PostPoints \in Nat \ {0}
  /\ MaxHydrations \in Nat
  /\ LimitPairs \subseteq (1..WorkerCapacity) \X (1..WorkerCapacity)
  /\ LargeEmitters \subseteq Emitters
  /\ LeafFaults \subseteq {"err", "panic"}
  /\ ProducerFaults \subseteq {"err", "panic"}

VARIABLES
  backlog,          \* leaf_backlog: ArrayQueue, first in first out
  outstanding,      \* outstanding_leaf_tasks
  inflight,         \* inflight_leaf_tasks
  queuedWork,       \* queued_work_ms, modulo WordMod
  active,           \* active_leaf_drainers
  retiring,         \* retiring_leaf_drainers
  tasks,            \* drainer tasks spawned into the pool and not started yet
  hydrations,       \* active_leaf_batch_hydrations
  producerActive,   \* producer_active
  firstError,       \* first_error is Some
  largeAssignments, \* active_large_assignment_count
  limits,           \* leaf_drainer_limits
  fresh,            \* leaves not emitted yet
  processed,        \* leaves whose edges reached the sink
  failed,           \* leaves taken whose edges did not reach the sink
  discarded,        \* leaves dropped by discard_queued_leaf_backlog
  pc,               \* where each thread stands
  ret,              \* where an emitter goes on after it spawned and helped
  item,             \* the leaf an emitter is trying to enqueue
  batch,            \* leaves a thread took and has not finished
  popped,           \* the leaf a thread popped and not debited yet
  lim,              \* <<leaves, points>> limits of the batch being taken
  seen,             \* a counter value the thread read and still relies on
  tgt,              \* the drainer target a drainer computed
  status,           \* outcome of the batch a thread is finishing
  guard,            \* the leaf-drainer limit guard an emitter holds
  large,            \* whether an emitter holds a LargeAssignmentGuard
  res,              \* what each emitter returned
  leaked,           \* drainer tasks that panicked; active still counts them
  result            \* what run_scheduler_scope returns

queueVars == <<backlog, outstanding, inflight, queuedWork>>
drainVars == <<active, retiring, tasks>>
signalVars == <<largeAssignments, limits, guard, large>>
leafVars == <<fresh, processed, failed, discarded>>
takeVars == <<batch, popped, lim>>
localVars == <<ret, item, seen, tgt, status>>
endVars == <<producerActive, res, leaked, result>>
vars == <<queueVars, drainVars, signalVars, leafVars, takeVars, localVars,
          endVars, hydrations, firstError, pc>>

Goto(t, l) == pc' = [pc EXCEPT ![t] = l]

-----------------------------------------------------------------------------
(* How many drainers the backlog deserves.                                 *)

\* leaf_drainer_limit and leaf_drainer_backpressure_limit after
\* refresh_leaf_drainer_limits: the least entry, 0 when there is none.
LeafDrainerLimit == IF limits = <<>> THEN 0 ELSE Min({p[1] : p \in Range(limits)})
BackpressureLimit == IF limits = <<>> THEN 0 ELSE Min({p[2] : p \in Range(limits)})

EffectiveLeafDrainerLimit(b) ==
  IF \/ LeafDrainerLimit = 0
     \/ b * 4 < BacklogCapacity * 3
     \/ BackpressureLimit = 0
  THEN LeafDrainerLimit
  ELSE Max({Min({BackpressureLimit, WorkerCapacity}), 1})

LeafWorkerLimit(b) ==
  LET assigned == IF largeAssignments > 0 THEN Min({WorkerCapacity, 2})
                                          ELSE WorkerCapacity
      limit == EffectiveLeafDrainerLimit(b)
      cap == IF limit = 0 THEN assigned ELSE Min({assigned, limit})
  IN Min({b, cap})

\* effective_leaf_batch_limits, with the min_backlog test of
\* try_take_queued_leaf_batch: <<leaves, points>>.
EffectiveBatchLimits(available) ==
  IF ~BatchEnabled \/ available < MinBacklog
  THEN <<1, 1>>
  ELSE IF \/ producerActive
          \/ PostScale <= 1
          \/ available < Max({BatchLeaves * WorkerCapacity, MinBacklog})
       THEN <<BatchLeaves, BatchPoints>>
       ELSE <<PostLeaves, PostPoints>>

SumSize(S) == MapThenSumSet(LAMBDA l : Size[l], S)

\* Mutant: a debit that saturates at zero instead of wrapping.
DebitSaturating(w, l) == IF w < Size[l] THEN 0 ELSE w - Size[l]

Credit(w, l) == IF WorkTarget = 0 THEN w ELSE (w + Size[l]) % WordMod
Debit(w, l) == IF WorkTarget = 0 THEN w ELSE (w - Size[l]) % WordMod

-----------------------------------------------------------------------------
Init ==
  /\ backlog = <<>>
  /\ outstanding = 0
  /\ inflight = 0
  /\ queuedWork = 0
  /\ active = 0
  /\ retiring = 0
  /\ tasks = 0
  /\ hydrations = 0
  /\ producerActive = TRUE
  /\ firstError = FALSE
  /\ largeAssignments = 0
  /\ limits = <<>>
  /\ fresh = Leaves
  /\ processed = {}
  /\ failed = {}
  /\ discarded = {}
  /\ pc = [t \in Threads |-> CASE t \in Emitters -> "produce"
                               [] t \in Drainers -> "parked"
                               [] OTHER -> "joinProducers"]
  /\ ret = [e \in Emitters |-> "deferred"]
  /\ item = [e \in Emitters |-> NoLeaf]
  /\ batch = [t \in Threads |-> {}]
  /\ popped = [t \in Threads |-> NoLeaf]
  /\ lim = [t \in Threads |-> <<1, 1>>]
  /\ seen = [t \in Threads |-> 0]
  /\ tgt = [d \in Drainers |-> 0]
  /\ status = [t \in Threads |-> "ok"]
  /\ guard = [e \in Emitters |-> NoLimit]
  /\ large = [e \in Emitters |-> FALSE]
  /\ res = [e \in Emitters |-> "ok"]
  /\ leaked = 0
  /\ result = "running"

-----------------------------------------------------------------------------
(* The producer's side: guards and emit_leaf.                              *)

BeginLeafDrainerLimit(e, p) ==
  /\ pc[e] = "produce"
  /\ guard[e] = NoLimit
  /\ guard' = [guard EXCEPT ![e] = p]
  /\ limits' = Append(limits, p)
  /\ UNCHANGED <<queueVars, drainVars, leafVars, takeVars, localVars, endVars,
                 hydrations, firstError, pc, largeAssignments, large>>

\* k is the position of the last entry equal to p or, if none is, of the last one.
LimitPosition(p, k) ==
  /\ limits[k] = p \/ (p \notin Range(limits) /\ k = Len(limits))
  /\ \A j \in DOMAIN limits : j > k => limits[j] # p

FinishLeafDrainerLimit(e) ==
  /\ pc[e] \in {"produce", "unwind"}
  /\ guard[e] # NoLimit
  /\ \E k \in DOMAIN limits :
       /\ LimitPosition(guard[e], k)
       /\ limits' = SubSeq(limits, 1, k - 1) \o SubSeq(limits, k + 1, Len(limits))
  /\ guard' = [guard EXCEPT ![e] = NoLimit]
  /\ UNCHANGED <<queueVars, drainVars, leafVars, takeVars, localVars, endVars,
                 hydrations, firstError, pc, largeAssignments, large>>

BeginLargeAssignment(e) ==
  /\ pc[e] = "produce"
  /\ e \in LargeEmitters
  /\ ~large[e]
  /\ large' = [large EXCEPT ![e] = TRUE]
  /\ largeAssignments' = largeAssignments + 1
  /\ UNCHANGED <<queueVars, drainVars, leafVars, takeVars, localVars, endVars,
                 hydrations, firstError, pc, limits, guard>>

FinishLargeAssignment(e) ==
  /\ pc[e] \in {"produce", "unwind"}
  /\ large[e]
  /\ large' = [large EXCEPT ![e] = FALSE]
  /\ largeAssignments' = largeAssignments - 1
  /\ UNCHANGED <<queueVars, drainVars, leafVars, takeVars, localVars, endVars,
                 hydrations, firstError, pc, limits, guard>>

\* The emitter's branch of the producer ends with r; its guards drop next.
EmitterReturns(e, r) ==
  /\ res' = [res EXCEPT ![e] = r]
  /\ Goto(e, "unwind")

ProducerBranchEnds(e) ==
  /\ pc[e] = "produce"
  /\ \E r \in {"ok"} \cup ProducerFaults : EmitterReturns(e, r)
  /\ UNCHANGED <<queueVars, drainVars, signalVars, leafVars, takeVars, localVars,
                 producerActive, leaked, result, hydrations, firstError>>

EmitterUnwound(e) ==
  /\ pc[e] = "unwind"
  /\ guard[e] = NoLimit
  /\ ~large[e]
  /\ Goto(e, "returned")
  /\ UNCHANGED <<queueVars, drainVars, signalVars, leafVars, takeVars, localVars,
                 endVars, hydrations, firstError>>

\* emit_leaf (m = "emitted") and emit_leaf_deferred (m = "deferred") begin
\* with check_for_error.
EmitLeaf(e, l, m) ==
  /\ pc[e] = "produce"
  /\ l \in fresh
  /\ \/ /\ firstError
        /\ EmitterReturns(e, "err")
        /\ UNCHANGED <<fresh, item, ret>>
     \/ /\ ~firstError
        /\ fresh' = fresh \ {l}
        /\ item' = [item EXCEPT ![e] = l]
        /\ ret' = [ret EXCEPT ![e] = m]
        /\ Goto(e, "count")
        /\ UNCHANGED res
  /\ UNCHANGED <<queueVars, drainVars, signalVars, takeVars, processed, failed,
                 discarded, seen, tgt, status, producerActive, leaked, result,
                 hydrations, firstError>>

\* emit_leaf_inline_from_dataset and its variants: the emitter builds the leaf
\* itself, outside the backlog and its counters.
EmitLeafInline(e, l) ==
  /\ pc[e] = "produce"
  /\ l \in fresh
  /\ fresh' = fresh \ {l}
  /\ \/ /\ ~firstError
        /\ processed' = processed \cup {l}
        /\ UNCHANGED <<failed, res, pc>>
     \/ /\ failed' = failed \cup {l}
        /\ \E r \in LeafFaults \cup IF firstError THEN {"err"} ELSE {} :
              EmitterReturns(e, r)
        /\ UNCHANGED processed
  /\ UNCHANGED <<queueVars, drainVars, signalVars, takeVars, discarded, localVars,
                 producerActive, leaked, result, hydrations, firstError>>

\* try_enqueue_queued_leaf, first access: the leaf is counted before it is queued.
CountLeaf(e) ==
  /\ pc[e] = "count"
  /\ outstanding' = outstanding + 1
  /\ Goto(e, "push")
  /\ UNCHANGED <<backlog, inflight, queuedWork, drainVars, signalVars, leafVars,
                 takeVars, localVars, endVars, hydrations, firstError>>

\* Mutant: the push ignores the capacity of the queue.
PushLeafUnbounded(e) ==
  /\ pc[e] = "push"
  /\ backlog' = Append(backlog, item[e])
  /\ Goto(e, "credit")
  /\ UNCHANGED <<outstanding, inflight, queuedWork, drainVars, signalVars, leafVars,
                 takeVars, localVars, endVars, hydrations, firstError>>

PushLeaf(e) ==
  /\ pc[e] = "push"
  /\ \/ /\ Len(backlog) < BacklogCapacity
        /\ backlog' = Append(backlog, item[e])
        /\ Goto(e, "credit")
     \/ /\ Len(backlog) = BacklogCapacity
        /\ Goto(e, "uncount")
        /\ UNCHANGED backlog
  /\ UNCHANGED <<outstanding, inflight, queuedWork, drainVars, signalVars, leafVars,
                 takeVars, localVars, endVars, hydrations, firstError>>

\* Mutant: the failed push keeps its count.
UncountLeafForgotten(e) ==
  /\ pc[e] = "uncount"
  /\ Goto(e, "spawnLen")
  /\ UNCHANGED <<queueVars, drainVars, signalVars, leafVars, takeVars, localVars,
                 endVars, hydrations, firstError>>

\* Mutant: the failed push drops its leaf instead of handing it back.
UncountLeafDropsLeaf(e) ==
  /\ pc[e] = "uncount"
  /\ outstanding' = outstanding - 1
  /\ item' = [item EXCEPT ![e] = NoLeaf]
  /\ Goto(e, "spawnLen")
  /\ UNCHANGED <<backlog, inflight, queuedWork, drainVars, signalVars, leafVars,
                 takeVars, ret, seen, tgt, status, endVars, hydrations, firstError>>

\* The push failed: take the count back, then spawn, help and try again.
UncountLeaf(e) ==
  /\ pc[e] = "uncount"
  /\ outstanding' = outstanding - 1
  /\ Goto(e, "spawnLen")
  /\ UNCHANGED <<backlog, inflight, queuedWork, drainVars, signalVars, leafVars,
                 takeVars, localVars, endVars, hydrations, firstError>>

\* add_queued_leaf_credit runs after the push, when the leaf may be gone already.
CreditLeaf(e) ==
  /\ pc[e] = "credit"
  /\ queuedWork' = Credit(queuedWork, item[e])
  /\ item' = [item EXCEPT ![e] = NoLeaf]
  /\ Goto(e, "spawnLen")
  /\ UNCHANGED <<backlog, outstanding, inflight, drainVars, signalVars, leafVars,
                 takeVars, ret, seen, tgt, status, endVars, hydrations, firstError>>

\* maybe_wait_for_producer_leaf_backlog_soft_limit, one turn of its loop
\* (wait_for_leaf_backlog_below): go on, fail, or spawn and help.
SoftLimitWait(e) ==
  /\ pc[e] = "soft"
  /\ \/ /\ SoftLimit = 0 \/ (Len(backlog) <= SoftLimit /\ ~firstError)
        /\ Goto(e, "creditWait")
        /\ UNCHANGED <<res, ret>>
     \/ /\ SoftLimit # 0
        /\ firstError
        /\ EmitterReturns(e, "err")
        /\ UNCHANGED ret
     \/ /\ SoftLimit # 0
        /\ Len(backlog) > SoftLimit
        /\ ~firstError
        /\ ret' = [ret EXCEPT ![e] = "soft"]
        /\ Goto(e, "spawnLen")
        /\ UNCHANGED res
  /\ UNCHANGED <<queueVars, drainVars, signalVars, leafVars, takeVars, item, seen,
                 tgt, status, producerActive, leaked, result, hydrations, firstError>>

\* maybe_wait_for_work_graph_credit, one turn of its loop.
CreditWait(e) ==
  LET over == queuedWork >= WorkTarget /\ outstanding # 0
  IN
  /\ pc[e] = "creditWait"
  /\ \/ /\ WorkTarget = 0 \/ (~over /\ ~firstError)
        /\ Goto(e, "produce")
        /\ ret' = [ret EXCEPT ![e] = "deferred"]
        /\ UNCHANGED res
     \/ /\ WorkTarget # 0
        /\ firstError
        /\ EmitterReturns(e, "err")
        /\ UNCHANGED ret
     \/ /\ WorkTarget # 0
        /\ over
        /\ ~firstError
        /\ ret' = [ret EXCEPT ![e] = "creditWait"]
        /\ Goto(e, "spawnLen")
        /\ UNCHANGED res
  /\ UNCHANGED <<queueVars, drainVars, signalVars, leafVars, takeVars, item, seen,
                 tgt, status, producerActive, leaked, result, hydrations, firstError>>

-----------------------------------------------------------------------------
(* maybe_spawn_leaf_drainer: read the backlog, read the drainer count, CAS. *)

AfterSpawn(t) ==
  CASE t \in Drainers -> "parked"
    [] t = Main -> "wait"
    [] OTHER -> IF item[t] # NoLeaf THEN "take"
                ELSE CASE ret[t] = "deferred" -> "produce"
                       [] ret[t] = "emitted" -> "soft"
                       [] OTHER -> "take"

SpawnReadBacklog(t) ==
  /\ pc[t] = "spawnLen"
  /\ IF backlog = <<>>
     THEN Goto(t, AfterSpawn(t)) /\ UNCHANGED seen
     ELSE Goto(t, "spawnActive") /\ seen' = [seen EXCEPT ![t] = Len(backlog)]
  /\ UNCHANGED <<queueVars, drainVars, signalVars, leafVars, takeVars, ret, item,
                 tgt, status, endVars, hydrations, firstError>>

SpawnReadActive(t) ==
  /\ pc[t] = "spawnActive"
  /\ IF active >= LeafWorkerLimit(seen[t])
     THEN Goto(t, AfterSpawn(t)) /\ seen' = [seen EXCEPT ![t] = 0]
     ELSE Goto(t, "spawnCas") /\ seen' = [seen EXCEPT ![t] = active]
  /\ UNCHANGED <<queueVars, drainVars, signalVars, leafVars, takeVars, ret, item,
                 tgt, status, endVars, hydrations, firstError>>

\* Mutant: the count is raised without comparing it with the value read.
SpawnWithoutCas(t) ==
  /\ pc[t] = "spawnCas"
  /\ active' = active + 1
  /\ tasks' = tasks + 1
  /\ seen' = [seen EXCEPT ![t] = 0]
  /\ Goto(t, "spawnLen")
  /\ UNCHANGED <<queueVars, retiring, signalVars, leafVars, takeVars, ret, item, tgt,
                 status, endVars, hydrations, firstError>>

SpawnCas(t) ==
  /\ pc[t] = "spawnCas"
  /\ IF active = seen[t]
     THEN active' = active + 1 /\ tasks' = tasks + 1
     ELSE UNCHANGED <<active, tasks>>
  /\ seen' = [seen EXCEPT ![t] = 0]
  /\ Goto(t, "spawnLen")
  /\ UNCHANGED <<queueVars, retiring, signalVars, leafVars, takeVars, ret, item, tgt,
                 status, endVars, hydrations, firstError>>

-----------------------------------------------------------------------------
(* Taking a batch and building it: the drainers' work, and what emitters   *)
(* and Main do when they help (try_help_from_backlog).                     *)

\* Where a thread goes on when the backlog gave it nothing or its batch is done.
AfterHelp(t) ==
  CASE t \in Drainers -> "check"
    [] t = Main -> "wait"
    [] OTHER -> IF item[t] # NoLeaf THEN "count" ELSE ret[t]

AfterNothing(t) == IF t \in Drainers THEN "leave" ELSE AfterHelp(t)

\* A batch of several leaves is hydrated before it is built.
RunBatch(S) == IF Cardinality(S) > 1 /\ MaxHydrations > 0 THEN "hydrate" ELSE "build"

\* leaf_backlog.pop() inside try_take_queued_leaf.
TakeLeaf(t) ==
  /\ pc[t] = "take"
  /\ \/ /\ backlog = <<>>
        /\ Goto(t, IF batch[t] = {} THEN AfterNothing(t) ELSE RunBatch(batch[t]))
        /\ lim' = [lim EXCEPT ![t] = <<1, 1>>]
        /\ UNCHANGED <<backlog, batch, popped>>
     \/ /\ backlog # <<>>
        /\ backlog' = Tail(backlog)
        /\ batch' = [batch EXCEPT ![t] = @ \cup {Head(backlog)}]
        /\ popped' = [popped EXCEPT ![t] = Head(backlog)]
        /\ Goto(t, "debit")
        /\ UNCHANGED lim
  /\ UNCHANGED <<outstanding, inflight, queuedWork, drainVars, signalVars, leafVars,
                 localVars, endVars, hydrations, firstError>>

\* remove_queued_leaf_credit and start_leaf_execution, then whether
\* try_take_queued_leaf_batch goes on taking.
DebitLeaf(t) ==
  LET l == IF Cardinality(batch[t]) = 1
           THEN EffectiveBatchLimits(Len(backlog) + 1)
           ELSE lim[t]
      more == Cardinality(batch[t]) < l[1] /\ SumSize(batch[t]) < l[2]
  IN
  /\ pc[t] = "debit"
  /\ queuedWork' = Debit(queuedWork, popped[t])
  /\ inflight' = inflight + 1
  /\ popped' = [popped EXCEPT ![t] = NoLeaf]
  /\ lim' = [lim EXCEPT ![t] = IF more THEN l ELSE <<1, 1>>]
  /\ Goto(t, IF more THEN "take" ELSE RunBatch(batch[t]))
  /\ UNCHANGED <<backlog, outstanding, drainVars, signalVars, leafVars, batch,
                 localVars, endVars, hydrations, firstError>>

\* The batch ends with s before any of its edges reached the sink.
BatchFails(t, s) ==
  /\ failed' = failed \cup batch[t]
  /\ status' = [status EXCEPT ![t] = s]
  /\ Goto(t, "finish")

\* Mutant: the limit itself still lets one more in.
AcquireHydrationSlotAtLimit(t) ==
  /\ pc[t] = "hydrate"
  /\ \/ /\ firstError
        /\ BatchFails(t, "err")
        /\ UNCHANGED hydrations
     \/ /\ ~firstError
        /\ hydrations <= MaxHydrations
        /\ hydrations' = hydrations + 1
        /\ Goto(t, "hydrating")
        /\ UNCHANGED <<failed, status>>
     \/ /\ ~firstError
        /\ hydrations > MaxHydrations
        /\ UNCHANGED <<hydrations, failed, status, pc>>
  /\ UNCHANGED <<queueVars, drainVars, signalVars, fresh, processed, discarded,
                 takeVars, ret, item, seen, tgt, endVars, firstError>>

\* One turn of the loop of acquire_leaf_batch_hydration_slot: fail, get in, or yield.
AcquireHydrationSlot(t) ==
  /\ pc[t] = "hydrate"
  /\ \/ /\ firstError
        /\ BatchFails(t, "err")
        /\ UNCHANGED hydrations
     \/ /\ ~firstError
        /\ hydrations < MaxHydrations
        /\ hydrations' = hydrations + 1
        /\ Goto(t, "hydrating")
        /\ UNCHANGED <<failed, status>>
     \/ /\ ~firstError
        /\ hydrations >= MaxHydrations
        /\ UNCHANGED <<hydrations, failed, status, pc>>
  /\ UNCHANGED <<queueVars, drainVars, signalVars, fresh, processed, discarded,
                 takeVars, ret, item, seen, tgt, endVars, firstError>>

\* Mutant: the slot is given back only when the hydration succeeds.
HydrateLeaksSlot(t) ==
  /\ pc[t] = "hydrating"
  /\ \/ /\ Goto(t, "build")
        /\ hydrations' = hydrations - 1
        /\ UNCHANGED <<failed, status>>
     \/ /\ \E s \in LeafFaults : BatchFails(t, s)
        /\ UNCHANGED hydrations
  /\ UNCHANGED <<queueVars, drainVars, signalVars, fresh, processed, discarded,
                 takeVars, ret, item, seen, tgt, endVars, firstError>>

\* hydrate_resident_subset_with_stats returns or fails; the slot's guard drops.
Hydrate(t) ==
  /\ pc[t] = "hydrating"
  /\ hydrations' = hydrations - 1
  /\ \/ /\ Goto(t, "build")
        /\ UNCHANGED <<failed, status>>
     \/ \E s \in LeafFaults : BatchFails(t, s)
  /\ UNCHANGED <<queueVars, drainVars, signalVars, fresh, processed, discarded,
                 takeVars, ret, item, seen, tgt, endVars, firstError>>

\* Every leaf build begins with check_for_error.  A batch that fails may have
\* delivered the edges of some leaves (never all): a prefix when they are built
\* one by one, none when the collector was not flushed.
BuildBatch(t) ==
  /\ pc[t] = "build"
  /\ \/ /\ ~firstError
        /\ processed' = processed \cup batch[t]
        /\ status' = [status EXCEPT ![t] = "ok"]
        /\ UNCHANGED failed
     \/ \E done \in SUBSET batch[t] :
          /\ done # batch[t]
          /\ processed' = processed \cup done
          /\ failed' = failed \cup (batch[t] \ done)
          /\ \E s \in LeafFaults \cup IF firstError THEN {"err"} ELSE {} :
                status' = [status EXCEPT ![t] = s]
  /\ Goto(t, "finish")
  /\ UNCHANGED <<queueVars, drainVars, signalVars, fresh, discarded, takeVars, ret,
                 item, seen, tgt, endVars, hydrations, firstError>>

\* Mutant: a batch that panicked is not finished (no guard runs on unwind).
FinishLeafExecutionNoGuard(t) ==
  /\ pc[t] = "finish"
  /\ \E l \in batch[t] : batch' = [batch EXCEPT ![t] = @ \ {l}]
  /\ IF status[t] = "panic"
     THEN UNCHANGED <<inflight, outstanding>>
     ELSE inflight' = inflight - 1 /\ outstanding' = outstanding - 1
  /\ UNCHANGED <<backlog, queuedWork, drainVars, signalVars, leafVars, popped, lim,
                 localVars, endVars, hydrations, firstError, pc>>

\* FinishBatchOnDrop: one finish_leaf_execution per leaf, whatever the outcome.
FinishLeafExecution(t) ==
  /\ pc[t] = "finish"
  /\ \E l \in batch[t] : batch' = [batch EXCEPT ![t] = @ \ {l}]
  /\ inflight' = inflight - 1
  /\ outstanding' = outstanding - 1
  /\ UNCHANGED <<backlog, queuedWork, drainVars, signalVars, leafVars, popped, lim,
                 localVars, endVars, hydrations, firstError, pc>>

\* The helper of an emitter or of Main returns: Ok, Err (not recorded in
\* first_error, propagated by ?), or a panic that unwinds its caller.
HelperReturns(t) ==
  /\ pc[t] = "finish"
  /\ batch[t] = {}
  /\ t \notin Drainers
  /\ status' = [status EXCEPT ![t] = "ok"]
  /\ \/ /\ status[t] = "ok"
        /\ Goto(t, AfterHelp(t))
        /\ UNCHANGED <<res, result, item, failed>>
     \/ /\ status[t] # "ok"
        /\ t = Main
        /\ result' = status[t]
        /\ Goto(t, "joinScope")
        /\ UNCHANGED <<res, item, failed>>
     \/ /\ status[t] # "ok"
        /\ t \in Emitters
        /\ EmitterReturns(t, status[t])
        /\ item' = [item EXCEPT ![t] = NoLeaf]
        /\ failed' = failed \cup ({item[t]} \ {NoLeaf})
        /\ UNCHANGED result
  /\ UNCHANGED <<queueVars, drainVars, signalVars, fresh, processed, discarded,
                 takeVars, ret, seen, tgt, producerActive, leaked, hydrations,
                 firstError>>

-----------------------------------------------------------------------------
(* Drainer tasks: run_leaf_drainer and finish_leaf_drainer.                *)

StartDrainer(d) ==
  /\ pc[d] = "parked"
  /\ tasks > 0
  /\ tasks' = tasks - 1
  /\ Goto(d, "check")
  /\ UNCHANGED <<queueVars, active, retiring, signalVars, leafVars, takeVars,
                 localVars, endVars, hydrations, firstError>>

\* check_for_error, leaf_backlog.len() and the target of
\* try_reserve_leaf_drainer_retirement.
DrainerChecks(d) ==
  /\ pc[d] = "check"
  /\ \/ /\ firstError
        /\ Goto(d, "leave")
        /\ UNCHANGED tgt
     \/ /\ ~firstError
        /\ backlog = <<>>
        /\ Goto(d, "take")
        /\ UNCHANGED tgt
     \/ /\ ~firstError
        /\ backlog # <<>>
        /\ tgt' = [tgt EXCEPT ![d] = LeafWorkerLimit(Len(backlog))]
        /\ Goto(d, "readActive")
  /\ UNCHANGED <<queueVars, drainVars, signalVars, leafVars, takeVars, ret, item,
                 seen, status, endVars, hydrations, firstError>>

DrainerReadsActive(d) ==
  /\ pc[d] = "readActive"
  /\ seen' = [seen EXCEPT ![d] = active]
  /\ Goto(d, "reserve")
  /\ UNCHANGED <<queueVars, drainVars, signalVars, leafVars, takeVars, ret, item,
                 tgt, status, endVars, hydrations, firstError>>

\* active.saturating_sub(retiring) <= target keeps the drainer; otherwise it
\* reserves its retirement by a CAS on retiring_leaf_drainers.
ReserveRetirement(d) ==
  /\ pc[d] = "reserve"
  /\ IF seen[d] - retiring <= tgt[d]
     THEN Goto(d, "take") /\ UNCHANGED retiring
     ELSE Goto(d, "retire") /\ retiring' = retiring + 1
  /\ seen' = [seen EXCEPT ![d] = 0]
  /\ tgt' = [tgt EXCEPT ![d] = 0]
  /\ UNCHANGED <<queueVars, active, tasks, signalVars, leafVars, takeVars, ret, item,
                 status, endVars, hydrations, firstError>>

\* What a drainer does with the outcome of its batch.  A panic unwinds the
\* task past finish_leaf_drainer: active_leaf_drainers keeps counting it.
DrainerBatchDone(d) ==
  /\ pc[d] = "finish"
  /\ batch[d] = {}
  /\ d \in Drainers
  /\ status' = [status EXCEPT ![d] = "ok"]
  /\ \/ /\ status[d] = "ok"
        /\ Goto(d, AfterHelp(d))
        /\ UNCHANGED leaked
     \/ /\ status[d] = "err"
        /\ Goto(d, "record")
        /\ UNCHANGED leaked
     \/ /\ status[d] = "panic"
        /\ Goto(d, "parked")
        /\ leaked' = leaked + 1
  /\ UNCHANGED <<queueVars, drainVars, signalVars, leafVars, takeVars, ret, item,
                 seen, tgt, producerActive, res, result, hydrations, firstError>>

RecordError(d) ==
  /\ pc[d] = "record"
  /\ firstError' = TRUE
  /\ Goto(d, "leave")
  /\ UNCHANGED <<queueVars, drainVars, signalVars, leafVars, takeVars, localVars,
                 endVars, hydrations>>

DrainerUnreserves(d) ==
  /\ pc[d] = "retire"
  /\ retiring' = retiring - 1
  /\ Goto(d, "leave")
  /\ UNCHANGED <<queueVars, active, tasks, signalVars, leafVars, takeVars,
                 localVars, endVars, hydrations, firstError>>

\* Mutant: the drainer leaves without looking at the backlog once more.
DrainerLeavesNoRespawn(d) ==
  /\ pc[d] = "leave"
  /\ active' = active - 1
  /\ Goto(d, "parked")
  /\ UNCHANGED <<queueVars, retiring, tasks, signalVars, leafVars, takeVars,
                 localVars, endVars, hydrations, firstError>>

DrainerLeaves(d) ==
  /\ pc[d] = "leave"
  /\ active' = active - 1
  /\ Goto(d, "spawnLen")
  /\ UNCHANGED <<queueVars, retiring, tasks, signalVars, leafVars, takeVars,
                 localVars, endVars, hydrations, firstError>>

-----------------------------------------------------------------------------
(* The end of run_scheduler_scope.                                         *)

\* The producer closure returns when every branch has; mark_producer_finished.
\* A panic in a branch unwinds the closure instead.
ProducerReturns ==
  LET ended(r) == \E e \in Emitters : res[e] = r
  IN
  /\ pc[Main] = "joinProducers"
  /\ \A e \in Emitters : pc[e] = "returned"
  /\ \/ /\ ended("panic")
        /\ result' = "panic"
        /\ Goto(Main, "joinScope")
        /\ UNCHANGED producerActive
     \/ /\ ~ended("panic")
        /\ producerActive' = FALSE
        /\ result' = IF ended("err") THEN "err" ELSE result
        /\ Goto(Main, IF ended("err") THEN "discard" ELSE "spawnLen")
  /\ UNCHANGED <<queueVars, drainVars, signalVars, leafVars, takeVars, localVars,
                 res, leaked, hydrations, firstError>>

\* discard_queued_leaf_backlog: pop, then give back the credit and the count.
DiscardPop ==
  /\ pc[Main] = "discard"
  /\ \/ /\ backlog = <<>>
        /\ Goto(Main, "wait")
        /\ UNCHANGED <<backlog, batch, popped>>
     \/ /\ backlog # <<>>
        /\ backlog' = Tail(backlog)
        /\ batch' = [batch EXCEPT ![Main] = {Head(backlog)}]
        /\ popped' = [popped EXCEPT ![Main] = Head(backlog)]
        /\ Goto(Main, "drop")
  /\ UNCHANGED <<outstanding, inflight, queuedWork, drainVars, signalVars, leafVars,
                 lim, localVars, endVars, hydrations, firstError>>

DiscardDrop ==
  /\ pc[Main] = "drop"
  /\ queuedWork' = Debit(queuedWork, popped[Main])
  /\ outstanding' = outstanding - 1
  /\ discarded' = discarded \cup {popped[Main]}
  /\ batch' = [batch EXCEPT ![Main] = {}]
  /\ popped' = [popped EXCEPT ![Main] = NoLeaf]
  /\ Goto(Main, "discard")
  /\ UNCHANGED <<backlog, inflight, drainVars, signalVars, fresh, processed, failed,
                 lim, localVars, endVars, hydrations, firstError>>

\* Mutant: an empty backlog is taken for idle.
WaitUntilBacklogEmpty ==
  /\ pc[Main] = "wait"
  /\ Goto(Main, IF backlog = <<>> THEN "final" ELSE "take")
  /\ UNCHANGED <<queueVars, drainVars, signalVars, leafVars, takeVars, localVars,
                 endVars, hydrations, firstError>>

\* One turn of the loop of wait_until_idle.
WaitUntilIdle ==
  /\ pc[Main] = "wait"
  /\ \/ /\ outstanding = 0
        /\ Goto(Main, "final")
        /\ UNCHANGED result
     \/ /\ outstanding # 0
        /\ firstError
        /\ result' = "err"
        /\ Goto(Main, "joinScope")
     \/ /\ outstanding # 0
        /\ ~firstError
        /\ Goto(Main, "take")
        /\ UNCHANGED result
  /\ UNCHANGED <<queueVars, drainVars, signalVars, leafVars, takeVars, localVars,
                 producerActive, res, leaked, hydrations, firstError>>

\* The last check_for_error of wait_until_idle, and result.and(idle_result).
FinalCheck ==
  /\ pc[Main] = "final"
  /\ result' = IF firstError \/ result = "err" THEN "err" ELSE "ok"
  /\ Goto(Main, "joinScope")
  /\ UNCHANGED <<queueVars, drainVars, signalVars, leafVars, takeVars, localVars,
                 producerActive, res, leaked, hydrations, firstError>>

\* pool.scope_fifo returns once every drainer task has ended, and resumes the
\* panic of one that panicked.
ScopeReturns ==
  /\ pc[Main] = "joinScope"
  /\ tasks = 0
  /\ \A d \in Drainers : pc[d] = "parked"
  /\ result' = IF leaked > 0 THEN "panic" ELSE result
  /\ Goto(Main, "returned")
  /\ UNCHANGED <<queueVars, drainVars, signalVars, leafVars, takeVars, localVars,
                 producerActive, res, leaked, hydrations, firstError>>

Done == pc[Main] = "returned" /\ UNCHANGED vars

EmitterStep(e) ==
  \/ ProducerBranchEnds(e)
  \/ EmitterUnwound(e)
  \/ \E l \in Leaves, m \in {"emitted", "deferred"} : EmitLeaf(e, l, m)
  \/ \E l \in Leaves : EmitLeafInline(e, l)
  \/ CountLeaf(e)
  \/ PushLeaf(e)
  \/ UncountLeaf(e)
  \/ CreditLeaf(e)
  \/ SoftLimitWait(e)
  \/ CreditWait(e)

GuardStep(e) ==
  \/ \E p \in LimitPairs : BeginLeafDrainerLimit(e, p)
  \/ FinishLeafDrainerLimit(e)
  \/ BeginLargeAssignment(e)
  \/ FinishLargeAssignment(e)

\* What any thread may be doing: spawning drainers, or taking and building a batch.
WorkStep(t) ==
  \/ SpawnReadBacklog(t)
  \/ SpawnReadActive(t)
  \/ SpawnCas(t)
  \/ TakeLeaf(t)
  \/ DebitLeaf(t)
  \/ AcquireHydrationSlot(t)
  \/ Hydrate(t)
  \/ BuildBatch(t)
  \/ FinishLeafExecution(t)
  \/ HelperReturns(t)

DrainerStep(d) ==
  \/ StartDrainer(d)
  \/ DrainerChecks(d)
  \/ DrainerReadsActive(d)
  \/ ReserveRetirement(d)
  \/ DrainerBatchDone(d)
  \/ RecordError(d)
  \/ DrainerUnreserves(d)
  \/ DrainerLeaves(d)

MainStep ==
  \/ ProducerReturns
  \/ DiscardPop
  \/ DiscardDrop
  \/ WaitUntilIdle
  \/ FinalCheck
  \/ ScopeReturns

Next ==
  \/ \E e \in Emitters : EmitterStep(e) \/ GuardStep(e)
  \/ \E t \in Threads : WorkStep(t)
  \/ \E d \in Drainers : DrainerStep(d)
  \/ MainStep
  \/ Done

Spec == Init /\ [][Next]_vars

\* The pool runs every thread that can go on, and runs every spawned task: the
\* thread that waits in the scope runs them itself if no other does.
Fairness ==
  /\ \A e \in Emitters : /\ WF_vars(EmitterStep(e) \/ WorkStep(e))
                         /\ WF_vars(FinishLeafDrainerLimit(e))
                         /\ WF_vars(FinishLargeAssignment(e))
  /\ \A d \in Drainers : WF_vars(DrainerStep(d) \/ WorkStep(d))
  /\ WF_vars(MainStep \/ WorkStep(Main))

FairSpec == Spec /\ Fairness

-----------------------------------------------------------------------------
(* Properties.                                                             *)

WorkPCs == {"spawnLen", "spawnActive", "spawnCas", "take", "debit", "hydrate",
            "hydrating", "build", "finish"}
EmitterPCs == WorkPCs \cup {"produce", "count", "push", "uncount", "credit", "soft",
                            "creditWait", "unwind", "returned"}
DrainerPCs == WorkPCs \cup {"parked", "check", "readActive", "reserve", "record",
                            "retire", "leave"}
MainPCs == WorkPCs \cup {"joinProducers", "discard", "drop", "wait", "final",
                         "joinScope", "returned"}

\* The types of the data, grouped as the variables are.
QueueTypes ==
  /\ backlog \in Seq(Leaves)
  /\ Len(backlog) <= BacklogCapacity
  /\ queuedWork \in 0..(WordMod - 1)

SignalTypes ==
  /\ limits \in Seq(LimitPairs)
  /\ guard \in [Emitters -> LimitPairs \cup {NoLimit}]
  /\ large \in [Emitters -> BOOLEAN]

LeafTypes ==
  /\ fresh \subseteq Leaves
  /\ processed \subseteq Leaves
  /\ failed \subseteq Leaves
  /\ discarded \subseteq Leaves

TakeTypes ==
  /\ batch \in [Threads -> SUBSET Leaves]
  /\ popped \in [Threads -> Leaves \cup {NoLeaf}]
  /\ lim \in [Threads -> Nat \X Nat]

LocalTypes ==
  /\ ret \in [Emitters -> {"deferred", "emitted", "soft", "creditWait"}]
  /\ item \in [Emitters -> Leaves \cup {NoLeaf}]
  /\ seen \in [Threads -> Nat]
  /\ tgt \in [Drainers -> Nat]
  /\ status \in [Threads -> {"ok", "err", "panic"}]

EndTypes ==
  /\ producerActive \in BOOLEAN
  /\ res \in [Emitters -> {"ok", "err", "panic"}]
  /\ leaked \in Nat
  /\ result \in {"running", "ok", "err", "panic"}

DataTypes ==
  /\ QueueTypes
  /\ SignalTypes
  /\ LeafTypes
  /\ TakeTypes
  /\ LocalTypes
  /\ EndTypes
  /\ tasks \in Nat
  /\ firstError \in BOOLEAN

\* Every thread is at a control point of its role.
ControlTypes ==
  /\ pc \in [Threads -> EmitterPCs \cup DrainerPCs \cup MainPCs]
  /\ \A e \in Emitters : pc[e] \in EmitterPCs
  /\ \A d \in Drainers : pc[d] \in DrainerPCs
  /\ pc[Main] \in MainPCs

CounterTypes ==
  /\ outstanding \in Nat
  /\ inflight \in Nat
  /\ active \in Nat
  /\ retiring \in Nat
  /\ hydrations \in Nat
  /\ largeAssignments \in Nat

\* Every variable stays within its type: the backlog within its capacity, and
\* the counters that the code keeps in unsigned atomics never below zero.
TypeOK == DataTypes /\ ControlTypes /\ CounterTypes

\* The leaves the counter stands for: queued, counted by an emitter that has
\* not queued them, or in the hands of a thread that has not finished them.
CountedItems == {item[e] : e \in {e \in Emitters : pc[e] \in {"push", "uncount"}}}
LiveLeaves == Range(backlog) \cup CountedItems \cup UNION {batch[t] : t \in Threads}

\* The leaves a thread has started: taken, debited and not finished.
StartedLeaves == UNION {batch[t] \ {popped[t]} : t \in Threads}

\* outstanding_leaf_tasks counts exactly the live leaves and inflight_leaf_tasks
\* the started ones, through every interleaving of enqueue, failed enqueue,
\* take, finish and discard.
OutstandingExact ==
  /\ outstanding = Cardinality(LiveLeaves)
  /\ inflight = Cardinality(StartedLeaves)

\* A leaf a thread holds and has neither built nor given up, or an emitter holds
\* and has not queued.
Pending(t) == IF pc[t] = "finish" THEN {} ELSE batch[t]
Held(e) == IF pc[e] = "credit" THEN {} ELSE {item[e]} \ {NoLeaf}

\* No leaf is lost or built twice: each is in exactly one of the places a leaf
\* can be (not emitted, held, queued, taken, processed, failed, discarded).
ExactlyOnce ==
  LET taken == UNION {Pending(t) : t \in Threads}
      held == UNION {Held(e) : e \in Emitters}
      places == <<fresh, held, Range(backlog), taken, processed, failed, discarded>>
  IN
  /\ UNION Range(places) = Leaves
  /\ \A i, j \in DOMAIN places : i # j => places[i] \cap places[j] = {}
  /\ \A i, j \in DOMAIN backlog : backlog[i] = backlog[j] => i = j
  /\ \A s, t \in Threads : s # t => batch[s] \cap batch[t] = {}
  /\ \A d, e \in Emitters : d # e => Held(d) \cap Held(e) = {}

\* When run_scheduler_scope answers Ok, nothing is queued or in flight and every
\* emitted leaf has met its fate: wait_until_idle did not stop early.
OkMeansSettled ==
  (pc[Main] \in {"joinScope", "returned"} /\ result = "ok") =>
    /\ LiveLeaves = {}
    /\ \A e \in Emitters : pc[e] = "returned"
    /\ Leaves \ fresh = processed \cup failed \cup discarded

\* queued_work_ms is the estimated work of what is queued, plus what was popped
\* and not debited, minus what was pushed and not credited - modulo the counter's
\* word, because a drainer may debit a leaf before its emitter credits it.
CreditExact ==
  WorkTarget # 0 =>
    LET debits == {popped[t] : t \in Threads} \ {NoLeaf}
        uncredited == {item[e] : e \in {e \in Emitters : pc[e] = "credit"}}
    IN queuedWork =
         (SumSize(Range(backlog)) + SumSize(debits) - SumSize(uncredited)) % WordMod

\* active_leaf_drainers counts the tasks waiting for a thread, the drainers that
\* have not left and the tasks that panicked; retiring_leaf_drainers those that
\* reserved a retirement.  There are never more than the pool's leaf capacity.
Draining == {d \in Drainers :
               pc[d] \notin {"parked", "spawnLen", "spawnActive", "spawnCas"}}
Retiring == {d \in Drainers : pc[d] = "retire"}
DrainersExact ==
  /\ active = tasks + Cardinality(Draining) + leaked
  /\ retiring = Cardinality(Retiring)
  /\ active <= WorkerCapacity

\* No lost wakeup: while leaves are queued and nothing failed, a drainer task
\* runs or waits to run, or a thread is about to look whether to spawn one - also
\* when a drainer that saw an empty backlog or retires races with an emitter.
NoStrandedBacklog ==
  (backlog # <<>> /\ ~firstError /\ leaked = 0 /\ result = "running") =>
    \/ tasks > 0
    \/ \E d \in Drainers : pc[d] # "parked"
    \/ \E t \in Emitters \cup {Main} :
         pc[t] \in {"credit", "spawnLen", "spawnActive", "spawnCas"}

\* The hydration slots in use never exceed the policy's limit and come back
\* however the hydration ended.
Hydrating == {t \in Threads : pc[t] = "hydrating"}
HydrationBound ==
  /\ hydrations = Cardinality(Hydrating)
  /\ hydrations <= MaxHydrations

\* run_scheduler_scope answers Ok only if the edges of every emitted leaf
\* reached the sink (the tests take an Ok scope to have built every leaf).
OkMeansBuilt ==
  (pc[Main] = "returned" /\ result = "ok") => Leaves \ fresh = processed

\* run_scheduler_scope always returns: no wait of the producer, of a drainer or
\* of wait_until_idle lasts forever.
Termination == <>(pc[Main] = "returned")

\* Once wait_until_idle has returned, with or without an error, the drainer
\* tasks of the scope come to an end and run_scheduler_scope returns.
ScopeJoins == pc[Main] = "joinScope" ~> pc[Main] = "returned"

=============================================================================
