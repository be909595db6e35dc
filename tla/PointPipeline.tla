--------------------------- MODULE PointPipeline ---------------------------
(***************************************************************************)
(* for_each_pipelined_point_batch (forgeann/point_pipeline.rs): a producer *)
(* thread feeds the batches of a point list to I/O workers, the workers    *)
(* read them under a shared byte budget, and the caller consumes them in   *)
(* input order, parking the batches that arrive early.  A batch holds its  *)
(* permit from before its read until it is consumed or dropped.            *)
(***************************************************************************)
EXTENDS Integers, Sequences, FiniteSets, FiniteSetsExt, Functions

CONSTANTS
  Configs,       \* records [points, batchPoints, budget, threads, depth]
  RowBytes,      \* bytes of a row
  ReadFaults,    \* how a read may end badly: {"err", "panic"} or less
  ConsumeFaults  \* {"err"} when the caller's closure may fail

ASSUME PipelineAssumption ==
  /\ Configs \subseteq [points : Nat, batchPoints : Nat, budget : Nat,
                        threads : Nat, depth : Nat]
  /\ RowBytes \in Nat \ {0}
  /\ ReadFaults \subseteq {"err", "panic"}
  /\ ConsumeFaults \subseteq {"err"}

VARIABLES
  call,       \* the sizes this call computed from its configuration
  used,       \* BudgetState.used
  nextJob,    \* the first batch the producer thread has not sent
  jobs,       \* the job channel
  wpc,        \* where each I/O worker stands
  job,        \* the batch each worker works on
  outcome,    \* the outcome a worker is about to send
  ready,      \* the ready channel: [seq, ok] records
  pending,    \* batches that arrived before their turn
  expected,   \* expected_seq
  delivered,  \* the batches the closure consumed, in order
  cpc,        \* where the calling thread stands
  faults,     \* the faults that happened
  result

workerVars == <<wpc, job, outcome>>
callerVars == <<pending, expected, delivered, cpc, result>>
vars == <<call, used, nextJob, jobs, workerVars, ready, callerVars, faults>>

-----------------------------------------------------------------------------
(* How the call sizes its budget and its batches.                          *)

IoThreads(c) == Max({c.threads, 1})

\* Mutant: the budget is taken as configured.
BudgetAsConfigured(c) == Max({c.budget, 1})

Budget(c) == Max({c.budget, RowBytes * IoThreads(c)})

EffectiveBatchPoints(c) ==
  LET byBudget == Max({(Budget(c) \div RowBytes) \div IoThreads(c), 1})
  IN Min({Max({c.batchPoints, 1}), byBudget})

\* The locals of the call: the bytes of each batch, the budget and the channels.
Sizes(c) ==
  LET size == EffectiveBatchPoints(c)
      count == (c.points + size - 1) \div size
  IN [bytes |-> [i \in 0..(count - 1) |-> RowBytes * Min({size, c.points - i * size})],
      count |-> count,
      total |-> RowBytes * c.points,
      budget |-> Budget(c),
      threads |-> IoThreads(c),
      depth |-> Max({c.depth, 1})]

Bytes(i) == call.bytes[i]
Batches == 0..(call.count - 1)
Workers == 1..call.threads

-----------------------------------------------------------------------------
Init ==
  /\ call \in {Sizes(c) : c \in Configs}
  /\ used = 0
  /\ nextJob = 0
  /\ jobs = <<>>
  /\ wpc = [w \in Workers |-> "idle"]
  /\ job = [w \in Workers |-> 0]
  /\ outcome = [w \in Workers |-> TRUE]
  /\ ready = <<>>
  /\ pending = {}
  /\ expected = 0
  /\ delivered = <<>>
  /\ cpc = IF call.count = 0 THEN "returned" ELSE "recv"
  /\ faults = {}
  /\ result = IF call.count = 0 THEN "ok" ELSE "running"

\* Mutant: a release wakes a waiter only when the budget was used up.
ReleaseWhenFull(bytes, pcs) ==
  LET waiting == {w \in Workers : pcs[w] = "waiting"}
  IN
  /\ used' = Max({used - bytes, 0})
  /\ IF waiting = {} \/ used # call.budget
     THEN wpc' = pcs
     ELSE \E w \in waiting : wpc' = [pcs EXCEPT ![w] = "acquire"]

\* Mutant: a release wakes nobody.
ReleaseSilent(bytes, pcs) ==
  /\ used' = Max({used - bytes, 0})
  /\ wpc' = pcs

\* PointPipelineBudget::release, with notify_one: the workers' places go from
\* pcs to pcs with one waiter awake, if there is one.
Release(bytes, pcs) ==
  LET waiting == {w \in Workers : pcs[w] = "waiting"}
  IN
  /\ used' = Max({used - bytes, 0})
  /\ IF waiting = {}
     THEN wpc' = pcs
     ELSE \E w \in waiting : wpc' = [pcs EXCEPT ![w] = "acquire"]

-----------------------------------------------------------------------------
(* The producer thread and the I/O workers.                                *)

\* Mutant: the job channel is not bounded.
SendJobUnbounded ==
  /\ call.count > 0
  /\ nextJob < call.count
  /\ jobs' = Append(jobs, nextJob)
  /\ nextJob' = nextJob + 1
  /\ UNCHANGED <<call, used, workerVars, ready, callerVars, faults>>

\* job_tx.send; it never fails, since the caller keeps a receiver.
SendJob ==
  /\ call.count > 0
  /\ nextJob < call.count
  /\ Len(jobs) < call.depth
  /\ jobs' = Append(jobs, nextJob)
  /\ nextJob' = nextJob + 1
  /\ UNCHANGED <<call, used, workerVars, ready, callerVars, faults>>

TakeJob(w) ==
  /\ wpc[w] = "idle"
  /\ jobs # <<>>
  /\ job' = [job EXCEPT ![w] = Head(jobs)]
  /\ jobs' = Tail(jobs)
  /\ wpc' = [wpc EXCEPT ![w] = "acquire"]
  /\ UNCHANGED <<call, used, nextJob, outcome, ready, callerVars, faults>>

\* The job channel is empty and the producer dropped its sender.
WorkerExits(w) ==
  /\ wpc[w] = "idle"
  /\ call.count > 0
  /\ jobs = <<>>
  /\ nextJob = call.count
  /\ wpc' = [wpc EXCEPT ![w] = "exited"]
  /\ UNCHANGED <<call, used, nextJob, jobs, job, outcome, ready, callerVars, faults>>

\* PointPipelineBudget::acquire, from the lock to the error, the wait or the
\* permit.
Acquire(w) ==
  LET bytes == Bytes(job[w])
      tooLarge == bytes > call.budget
      fits == used + bytes <= call.budget
  IN
  /\ wpc[w] = "acquire"
  /\ outcome' = [outcome EXCEPT ![w] = ~tooLarge]
  /\ used' = IF fits THEN used + bytes ELSE used
  /\ wpc' = [wpc EXCEPT ![w] = IF tooLarge THEN "send"
                               ELSE IF fits THEN "read" ELSE "waiting"]
  /\ UNCHANGED <<call, nextJob, jobs, job, ready, callerVars, faults>>

\* Mutant: a failed read keeps its permit.
ReadLeaksPermit(w) ==
  /\ wpc[w] = "read"
  /\ \/ /\ wpc' = [wpc EXCEPT ![w] = "send"]
        /\ outcome' = [outcome EXCEPT ![w] = TRUE]
        /\ UNCHANGED <<used, faults>>
     \/ \E f \in ReadFaults :
          /\ wpc' = [wpc EXCEPT ![w] = IF f = "err" THEN "send" ELSE "exited"]
          /\ outcome' = [outcome EXCEPT ![w] = FALSE]
          /\ faults' = faults \cup {f}
          /\ UNCHANGED used
  /\ UNCHANGED <<call, nextJob, jobs, job, ready, callerVars>>

\* The read of read_one_batch.  An error or a panic drops the permit; a panic
\* also ends the worker.
Read(w) ==
  /\ wpc[w] = "read"
  /\ \/ /\ wpc' = [wpc EXCEPT ![w] = "send"]
        /\ outcome' = [outcome EXCEPT ![w] = TRUE]
        /\ UNCHANGED <<used, faults>>
     \/ \E f \in ReadFaults :
          /\ Release(Bytes(job[w]),
                     [wpc EXCEPT ![w] = IF f = "err" THEN "send" ELSE "exited"])
          /\ outcome' = [outcome EXCEPT ![w] = FALSE]
          /\ faults' = faults \cup {f}
  /\ UNCHANGED <<call, nextJob, jobs, job, ready, callerVars>>

\* ready_tx.send; it never fails, since the caller keeps the receiver even
\* after its loop ended with an error.
SendReady(w) ==
  /\ wpc[w] = "send"
  /\ Len(ready) < call.depth
  /\ ready' = Append(ready, [seq |-> job[w], ok |-> outcome[w]])
  /\ wpc' = [wpc EXCEPT ![w] = "idle"]
  /\ UNCHANGED <<call, used, nextJob, jobs, job, outcome, callerVars, faults>>

-----------------------------------------------------------------------------
(* The calling thread.                                                     *)

\* The loop ends with an error; the parked batches are dropped next.
CallerFails ==
  /\ cpc' = "drop"
  /\ result' = "err"

Receive ==
  /\ cpc = "recv"
  /\ expected < call.count
  /\ expected \notin pending
  /\ \/ /\ ready # <<>>
        /\ ready' = Tail(ready)
        /\ IF Head(ready).ok
           THEN pending' = pending \cup {Head(ready).seq} /\ UNCHANGED <<cpc, result>>
           ELSE CallerFails /\ UNCHANGED pending
     \/ /\ ready = <<>>
        /\ \A w \in Workers : wpc[w] = "exited"
        /\ CallerFails
        /\ UNCHANGED <<ready, pending>>
  /\ UNCHANGED <<call, used, nextJob, jobs, workerVars, expected, delivered, faults>>

\* Mutant: the loop consumes whatever arrived first.
ConsumeArrival ==
  /\ cpc = "recv"
  /\ \E b \in pending :
       /\ pending' = pending \ {b}
       /\ Release(Bytes(b), wpc)
       /\ delivered' = Append(delivered, b)
       /\ expected' = expected + 1
  /\ UNCHANGED <<call, nextJob, jobs, job, outcome, ready, faults, cpc, result>>

\* The closure consumes the batch that is due; its permit drops with the batch,
\* whether the closure succeeds or fails.
Consume ==
  /\ cpc = "recv"
  /\ expected \in pending
  /\ pending' = pending \ {expected}
  /\ Release(Bytes(expected), wpc)
  /\ \/ /\ delivered' = Append(delivered, expected)
        /\ expected' = expected + 1
        /\ UNCHANGED <<cpc, result, faults>>
     \/ /\ ConsumeFaults # {}
        /\ CallerFails
        /\ faults' = faults \cup {"consume"}
        /\ UNCHANGED <<delivered, expected>>
  /\ UNCHANGED <<call, nextJob, jobs, job, outcome, ready>>

LoopEnds ==
  /\ cpc = "recv"
  /\ expected = call.count
  /\ cpc' = "join"
  /\ result' = "ok"
  /\ UNCHANGED <<call, used, nextJob, jobs, workerVars, ready, pending, expected,
                 delivered, faults>>

DropPending ==
  /\ cpc = "drop"
  /\ \/ /\ pending = {}
        /\ cpc' = "join"
        /\ UNCHANGED <<used, wpc, pending>>
     \/ /\ pending # {}
        /\ pending' = pending \ {Min(pending)}
        /\ Release(Bytes(Min(pending)), wpc)
        /\ UNCHANGED cpc
  /\ UNCHANGED <<call, nextJob, jobs, job, outcome, ready, expected, delivered,
                 result, faults>>

\* std::thread::scope joins the producer and the workers, and panics if one of
\* them did.
ScopeJoins ==
  /\ cpc = "join"
  /\ nextJob = call.count
  /\ \A w \in Workers : wpc[w] = "exited"
  /\ cpc' = "returned"
  /\ result' = IF "panic" \in faults THEN "panic" ELSE result
  /\ UNCHANGED <<call, used, nextJob, jobs, workerVars, ready, pending, expected,
                 delivered, faults>>

WorkerStep(w) ==
  \/ TakeJob(w)
  \/ WorkerExits(w)
  \/ Acquire(w)
  \/ Read(w)
  \/ SendReady(w)

CallerStep ==
  \/ Receive
  \/ Consume
  \/ LoopEnds
  \/ DropPending
  \/ ScopeJoins

Next ==
  \/ SendJob
  \/ \E w \in Workers : WorkerStep(w)
  \/ CallerStep

Spec == Init /\ [][Next]_vars

\* The operating system runs every thread that is not blocked.
Fairness ==
  /\ WF_vars(SendJob)
  /\ \A c \in Configs : \A w \in 1..IoThreads(c) :
       WF_vars(w \in Workers /\ WorkerStep(w))
  /\ WF_vars(CallerStep)

FairSpec == Spec /\ Fairness

-----------------------------------------------------------------------------
(* Properties.                                                             *)

\* Every variable stays within its type, and both channels within their depth.
TypeOK ==
  /\ call \in {Sizes(c) : c \in Configs}
  /\ used \in 0..call.budget
  /\ nextJob \in 0..call.count
  /\ jobs \in Seq(Batches) /\ Len(jobs) <= call.depth
  /\ wpc \in [Workers -> {"idle", "acquire", "waiting", "read", "send", "exited"}]
  /\ job \in [Workers -> Nat]
  /\ outcome \in [Workers -> BOOLEAN]
  /\ ready \in Seq([seq : Batches, ok : BOOLEAN]) /\ Len(ready) <= call.depth
  /\ pending \subseteq Batches
  /\ expected \in 0..call.count
  /\ delivered \in Seq(Batches)
  /\ cpc \in {"recv", "drop", "join", "returned"}
  /\ faults \subseteq {"err", "panic", "consume"}
  /\ result \in {"running", "ok", "err", "panic"}

\* The batches that hold a permit: being read, read and on their way to the
\* caller, or parked.
Holding ==
  {job[w] : w \in {w \in Workers : wpc[w] = "read" \/ (wpc[w] = "send" /\ outcome[w])}}
  \cup {r.seq : r \in {r \in Range(ready) : r.ok}}
  \cup pending

\* The budget in use is the sum of the live permits, whoever holds them and
\* however their reads end: no permit leaks and none is given back twice.
PermitsExact == used = MapThenSumSet(Bytes, Holding)

\* No lost wakeup: notify_one suffices, although waiters of different sizes and
\* newcomers compete.  While a waiter would fit, some worker is about to try.
NoLostWakeup ==
  \A w \in Workers :
    (wpc[w] = "waiting" /\ used + Bytes(job[w]) <= call.budget)
      => \E v \in Workers : wpc[v] = "acquire"

\* The closure sees every batch once and in the order of the input points, in
\* whatever order the reads end; hydrate_resident_subset_with_stats pairs the
\* rows with the ids by that order.
InOrder ==
  /\ delivered = [i \in 1..expected |-> i - 1]
  /\ result = "ok" => expected = call.count

\* Without a fault the call does not fail: no batch is larger than the budget,
\* and the workers do not end before the last batch.
NoSpuriousError == result \in {"err", "panic"} => faults # {}

\* With one worker, or with a budget for all rows at once, the call returns
\* unless a read or the closure fails.
Roomy == call.threads = 1 \/ call.total <= call.budget
ReturnsWhenRoomy == Roomy ~> (cpc = "returned" \/ faults # {})

\* The call returns whatever the configuration (batch_sizing_reserves_budget_
\* for_each_io_worker expects it for a budget of one batch per worker).
Returns == <>(cpc = "returned")

=============================================================================
