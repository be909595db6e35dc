--------------------------- MODULE ResidentGroups ---------------------------
(***************************************************************************)
(* The resident subtrees of the first recursion level at work              *)
(* (rbc_partition/child_run_io.rs): a hydrator loads one group after the   *)
(* other under the byte limiter and passes it through the ready queue; the *)
(* builder takes the groups in order, and for each one runs emitters that  *)
(* submit leaves to the morsel queue and worker threads that drain it.     *)
(*                                                                         *)
(* Waiting on the morsel queue's one condition variable is a FIFO of       *)
(* threads: parking_lot wakes the one that waited longest, never one that  *)
(* was not notified.  A wait of an emitter also ends after 10 ms.          *)
(***************************************************************************)
EXTENDS ResidentPlan

CONSTANTS Workers,        \* leaf morsel worker threads
          Emitters,       \* threads that emit leaves of the group being built
          Instances,      \* what one call may be given, see Init
          MaxFaults       \* bound on I/O errors in one behaviour

\* The threads of a call are at least one worker and one emitter, its queue has
\* room for a leaf (D1ResidentLeafMorselPolicy::from_params), and its
\* configuration is one that ConfigOf computes.
ASSUME ResidentAssumption ==
    /\ MaxFaults \in Nat
    /\ IsFiniteSet(Workers) /\ IsFiniteSet(Emitters) /\ Workers \cap Emitters = {}
    /\ \A c \in Instances :
        /\ c.runs \in Seq(Seq(Nat))
        /\ c.n \in Nat /\ c.dim \in Nat /\ c.cmax \in Nat /\ c.width \in Nat
        /\ c.config.budget \in Nat /\ c.config.maxRun \in Nat /\ c.config.ratio \in Nat
        /\ c.config.slots \in 1 .. 4
        /\ c.workers \in SUBSET Workers /\ c.workers # {}
        /\ c.emitters \in SUBSET Emitters /\ c.emitters # {}
        /\ c.cap \in Nat \ {0} /\ c.discards \in BOOLEAN

VARIABLES inst,     \* the inputs of this call
          plan,     \* groups, levelwise runs and slots the planner chose
          live,     \* live_bytes of the limiter
          hyd,      \* the hydrator: [pc, i, ok]
          ready,    \* the ready queue: group numbers, 0 for an error
          rx,       \* the builder still holds the receiving end
          abort,    \* abort_pipeline
          bld,      \* the builder: [pc, i, err]
          todo,     \* leaves of the group under construction not yet emitted
          heap,     \* the morsel queue's leaves, as sizes with sequence numbers
          closed,   \* the sink was dropped
          waiters,  \* threads waiting on the queue's condition variable
          thread,   \* what each worker and emitter does
          batch,    \* the leaves each worker holds
          built,    \* how many leaves of each group were worked on to the end
          faults    \* I/O errors so far

build == <<todo, heap, closed, waiters, thread, batch>>
vars == <<inst, plan, live, hyd, ready, rx, abort, bld, build, built, faults>>

Threads == Workers \cup Emitters
Groups == DOMAIN plan.groups
Pipelined == plan.slots > 1 /\ Len(plan.groups) > 1
ReadyCap == Min({plan.slots, Len(plan.groups)})
Budget == LimiterBudget(inst.config, inst.n, inst.dim)

\* What hydrating a group takes from the limiter: its vectors and sketches.
PermitBytes ==
    [g \in Groups |->
        AtLeast1(plan.groups[g].bytes
                 + SketchBytes(inst.width, Cardinality(PointsOf(plan.groups[g].runs))))]

\* What the groups in the ready queue hold of it; an error holds nothing.
QueuedBytes ==
    LET bytes == [k \in DOMAIN ready |-> IF ready[k] = 0 THEN 0 ELSE PermitBytes[ready[k]]]
    IN MapThenSumSet(LAMBDA k : bytes[k], DOMAIN ready)

\* The sizes of the leaves a group is cut into: per run, full ones and a rest.
LeavesOf(g) ==
    LET cut(run) == [k \in 1 .. ExpectedLeaves(Len(run), inst.cmax) |->
                        Min({inst.cmax, Len(run) - (k - 1) * inst.cmax})]
    IN FlattenSeq([r \in DOMAIN plan.groups[g].runs |-> cut(plan.groups[g].runs[r])])

\* Mutant: room is looked for before the new bytes are counted.
CanAdmitLate(bytes) == Budget = 0 \/ live < Budget
CanAdmit(bytes) == \/ Budget = 0
                   \/ bytes > Budget /\ live = 0
                   \/ bytes <= Budget /\ live + bytes <= Budget

Idle == [t \in Threads |-> "off"]

Init ==
    /\ inst \in Instances
    /\ plan = ResidentDecision(inst.runs, inst.config, inst.n, inst.dim, inst.cmax,
                               inst.width)
    /\ live = 0 /\ ready = <<>> /\ rx = TRUE /\ abort = FALSE /\ faults = 0
    /\ hyd = [pc |-> IF Pipelined THEN "next" ELSE "done", i |-> 1, ok |-> TRUE]
    /\ bld = [pc |-> "start", i |-> 1, err |-> plan.refused]
    /\ todo = <<>> /\ heap = {} /\ closed = FALSE /\ waiters = <<>>
    /\ thread = Idle /\ batch = [w \in Workers |-> <<>>]
    /\ built = [g \in Groups |-> 0]

-----------------------------------------------------------------------------
(* The limiter and the hydrator thread.                                    *)

\* The hydrator's loop takes the next group, unless it finds the abort flag.
NextGroup ==
    /\ hyd.pc = "next"
    /\ hyd' = [hyd EXCEPT !.pc = IF abort \/ hyd.i > Len(plan.groups) THEN "done"
                                ELSE "acquire"]
    /\ UNCHANGED <<inst, plan, live, ready, rx, abort, bld, build, built, faults>>

\* D1ResidentSubtreeLimiter::acquire: it waits for bytes, and for nothing else.
Acquire ==
    /\ hyd.pc = "acquire"
    /\ CanAdmit(PermitBytes[hyd.i])
    /\ live' = live + PermitBytes[hyd.i]
    /\ hyd' = [hyd EXCEPT !.pc = "load"]
    /\ UNCHANGED <<inst, plan, ready, rx, abort, bld, build, built, faults>>

\* hydrate_d1_resident_subtree_group: vectors, then sketches; an error drops
\* the permit.
Hydrate ==
    /\ hyd.pc = "load"
    /\ \/ hyd' = [hyd EXCEPT !.pc = "send", !.ok = TRUE] /\ UNCHANGED <<live, faults>>
       \/ /\ faults < MaxFaults /\ faults' = faults + 1
          /\ live' = live - PermitBytes[hyd.i]
          /\ hyd' = [hyd EXCEPT !.pc = "send", !.ok = FALSE]
    /\ UNCHANGED <<inst, plan, ready, rx, abort, bld, build, built>>

\* send_timeout in its loop: a full queue is tried again, an abort or a
\* receiver that is gone ends the thread, which drops what it holds.
SendReady ==
    /\ hyd.pc = "send"
    /\ \/ /\ abort \/ ~rx
          /\ live' = IF hyd.ok THEN live - PermitBytes[hyd.i] ELSE live
          /\ hyd' = [hyd EXCEPT !.pc = "done"]
          /\ UNCHANGED ready
       \/ /\ ~abort /\ rx /\ Len(ready) < ReadyCap
          /\ ready' = Append(ready, IF hyd.ok THEN hyd.i ELSE 0)
          /\ hyd' = IF hyd.ok THEN [hyd EXCEPT !.pc = "next", !.i = @ + 1]
                    ELSE [hyd EXCEPT !.pc = "done"]
          /\ UNCHANGED live
    /\ UNCHANGED <<inst, plan, rx, abort, bld, build, built, faults>>

-----------------------------------------------------------------------------
(* The builder.                                                            *)

\* build_d1_resident_subtree_group starts: a queue, workers, emitters.
BeginBuild(g) ==
    /\ bld' = [bld EXCEPT !.pc = "build"]
    /\ todo' = LeavesOf(g) /\ heap' = {} /\ closed' = FALSE /\ waiters' = <<>>
    /\ thread' = [t \in Threads |->
                    IF t \in inst.workers THEN "pop"
                    ELSE IF t \in inst.emitters THEN "emit" ELSE "off"]
    /\ batch' = [w \in Workers |-> <<>>]

\* A serial call hydrates inline; nothing else holds bytes then.
SerialGroup ==
    /\ ~Pipelined /\ bld.pc = "start" /\ ~bld.err /\ bld.i <= Len(plan.groups)
    /\ CanAdmit(PermitBytes[bld.i])
    /\ \/ /\ live' = live + PermitBytes[bld.i] /\ BeginBuild(bld.i)
          /\ UNCHANGED faults
       \/ /\ faults < MaxFaults /\ faults' = faults + 1
          /\ bld' = [bld EXCEPT !.pc = "join", !.err = TRUE]
          /\ UNCHANGED <<live, build>>
    /\ UNCHANGED <<inst, plan, hyd, ready, rx, abort, built>>

\* recv: the next group in order, the hydrator's error, or a closed queue.
RecvReady ==
    /\ Pipelined /\ bld.pc = "start" /\ ~bld.err /\ bld.i <= Len(plan.groups)
    /\ \/ /\ ready # <<>> /\ Head(ready) = bld.i
          /\ ready' = Tail(ready) /\ BeginBuild(bld.i) /\ UNCHANGED rx
       \/ /\ \/ ready # <<>> /\ Head(ready) # bld.i
             \/ ready = <<>> /\ hyd.pc = "done"
          /\ ready' = IF ready = <<>> THEN ready ELSE Tail(ready)
          /\ bld' = [bld EXCEPT !.pc = "drop", !.err = TRUE]
          /\ UNCHANGED <<build, rx>>
    /\ UNCHANGED <<inst, plan, live, hyd, abort, built, faults>>

\* Every group is built, or the call was refused: out of the loop.
LoopEnds ==
    /\ bld.pc = "start" /\ (bld.err \/ bld.i > Len(plan.groups))
    /\ bld' = [bld EXCEPT !.pc = IF Pipelined THEN "drop" ELSE "join"]
    /\ UNCHANGED <<inst, plan, live, hyd, ready, rx, abort, build, built, faults>>

\* The receiver is dropped before the abort flag is raised.  Whether the
\* groups still queued are dropped with it depends on the channel
\* (inst.discards).
DropReceiver ==
    /\ bld.pc = "drop" /\ rx
    /\ rx' = FALSE
    /\ IF inst.discards
       THEN /\ ready' = <<>>
            /\ live' = live - QueuedBytes
       ELSE UNCHANGED <<ready, live>>
    /\ UNCHANGED <<inst, plan, hyd, abort, bld, build, built, faults>>

RaiseAbort ==
    /\ bld.pc = "drop" /\ ~rx
    /\ abort' = (abort \/ bld.err) /\ bld' = [bld EXCEPT !.pc = "join"]
    /\ UNCHANGED <<inst, plan, live, hyd, ready, rx, build, built, faults>>

\* The hydrator is joined and the call returns; the channel goes with it.
Return ==
    /\ bld.pc = "join" /\ hyd.pc = "done"
    /\ bld' = [bld EXCEPT !.pc = "returned"]
    /\ live' = live - QueuedBytes
    /\ ready' = <<>>
    /\ UNCHANGED <<inst, plan, hyd, rx, abort, build, built, faults>>

-----------------------------------------------------------------------------
(* The leaf morsel queue of the group under construction.                  *)

Building == bld.pc = "build"
Woken(t) == CASE thread[t] = "popWait" -> "pop" [] thread[t] = "emitWait" -> "emit"
\* notify_one wakes the longest waiter, and takes it off the queue.
NotifyOne(th) ==
    IF waiters = <<>> THEN /\ thread' = th /\ UNCHANGED waiters
    ELSE /\ thread' = [th EXCEPT ![Head(waiters)] = Woken(Head(waiters))]
         /\ waiters' = Tail(waiters)

\* D1ResidentLeafMorselQueue::submit, one turn of its loop.
\* Mutant: a leaf put into the queue notifies nobody.
SubmitSilent(e) ==
    /\ Building /\ thread[e] = "emit" /\ todo # <<>>
    /\ IF Cardinality(heap) < inst.cap
       THEN /\ heap' = heap \cup {<<Head(todo), Len(todo)>>} /\ todo' = Tail(todo)
            /\ UNCHANGED <<thread, waiters>>
       ELSE /\ thread' = [thread EXCEPT ![e] = "emitWait"]
            /\ waiters' = Append(waiters, e)
            /\ UNCHANGED <<heap, todo>>
    /\ UNCHANGED <<inst, plan, live, hyd, ready, rx, abort, bld, closed, batch, built, faults>>
Submit(e) ==
    /\ Building /\ thread[e] = "emit" /\ todo # <<>>
    /\ IF Cardinality(heap) < inst.cap
       THEN /\ heap' = heap \cup {<<Head(todo), Len(todo)>>} /\ todo' = Tail(todo)
            /\ NotifyOne(thread)
       ELSE /\ thread' = [thread EXCEPT ![e] = "emitWait"]
            /\ waiters' = Append(waiters, e)
            /\ UNCHANGED <<heap, todo>>
    /\ UNCHANGED <<inst, plan, live, hyd, ready, rx, abort, bld, closed, batch, built, faults>>

\* wait_for gives up after 10 ms and the loop starts over.  An error of a
\* worker is not recorded before finish_d1_resident_leaf_morsels joins it, so
\* check_error never ends this loop.
\* Mutant: a waiter whose wait ended stays in line for a notification.
TimeoutStaysInLine(e) ==
    /\ Building /\ thread[e] = "emitWait"
    /\ thread' = [thread EXCEPT ![e] = "emit"]
    /\ UNCHANGED <<inst, plan, live, hyd, ready, rx, abort, bld, todo, heap, closed, waiters,
                   batch, built, faults>>
SubmitTimeout(e) ==
    /\ Building /\ thread[e] = "emitWait"
    /\ thread' = [thread EXCEPT ![e] = "emit"]
    /\ waiters' = RemoveFirst(waiters, e)
    /\ UNCHANGED <<inst, plan, live, hyd, ready, rx, abort, bld, todo, heap, closed, batch,
                   built, faults>>

\* An emitter has nothing left to emit, or its own scan fails, and then only
\* the leaves other emitters already hold are still emitted.
EmitterEnds(e) ==
    /\ Building /\ thread[e] = "emit"
    /\ \/ todo = <<>> /\ UNCHANGED <<todo, bld, faults>>
       \/ /\ todo # <<>> /\ faults < MaxFaults /\ faults' = faults + 1
          /\ \E k \in 0 .. Min({Len(todo), Cardinality(inst.emitters) - 1}) :
                todo' = SubSeq(todo, 1, k)
          /\ bld' = [bld EXCEPT !.err = TRUE]
    /\ thread' = [thread EXCEPT ![e] = "ended"]
    /\ UNCHANGED <<inst, plan, live, hyd, ready, rx, abort, heap, closed, waiters, batch,
                   built>>

\* The largest leaf first, of equal ones the oldest (D1ResidentLeafMorselItem).
Largest == CHOOSE x \in heap :
             \A y \in heap : x[1] > y[1] \/ (x[1] = y[1] /\ x[2] >= y[2])

\* pop: a leaf, the end of a closed queue, or a wait.
Pop(w) ==
    /\ Building /\ thread[w] = "pop"
    /\ IF heap # {}
       THEN /\ batch' = [batch EXCEPT ![w] = <<Largest[1]>>]
            /\ heap' = heap \ {Largest}
            /\ NotifyOne([thread EXCEPT ![w] = "fill"])
       ELSE /\ UNCHANGED <<batch, heap>>
            /\ IF closed THEN thread' = [thread EXCEPT ![w] = "ended"] /\ UNCHANGED waiters
               ELSE thread' = [thread EXCEPT ![w] = "popWait"] /\ waiters' = Append(waiters, w)
    /\ UNCHANGED <<inst, plan, live, hyd, ready, rx, abort, bld, todo, closed, built, faults>>

BatchPoints(w) == FoldSeq(LAMBDA n, s : s + n, 0, batch[w])
BatchWork(w) == FoldSeq(LAMBDA n, s : s + n * n, 0, batch[w])
MayGrow(w) ==
    /\ Len(batch[w]) < inst.batchLeaves /\ BatchPoints(w) < inst.batchPoints
    /\ heap # {}
    /\ BatchPoints(w) + Largest[1] <= inst.batchPoints
    /\ BatchWork(w) + Largest[1] * Largest[1] <= inst.batchWork

\* try_pop_for_batch: the batch grows while its limits allow.
FillBatch(w) ==
    /\ Building /\ thread[w] = "fill"
    /\ IF MayGrow(w)
       THEN /\ batch' = [batch EXCEPT ![w] = Append(@, Largest[1])]
            /\ heap' = heap \ {Largest}
            /\ NotifyOne(thread)
       ELSE /\ thread' = [thread EXCEPT ![w] = "drain"] /\ UNCHANGED <<batch, heap, waiters>>
    /\ UNCHANGED <<inst, plan, live, hyd, ready, rx, abort, bld, todo, closed, built, faults>>

\* The worker builds the leaves of its batch one by one; an error ends it.
DrainLeaf(w) ==
    /\ Building /\ thread[w] = "drain"
    /\ IF batch[w] = <<>>
       THEN /\ thread' = [thread EXCEPT ![w] = "pop"] /\ UNCHANGED <<batch, built, faults>>
       ELSE \/ /\ batch' = [batch EXCEPT ![w] = Tail(@)]
               /\ built' = [built EXCEPT ![bld.i] = @ + 1]
               /\ UNCHANGED <<thread, faults>>
            \/ /\ faults < MaxFaults /\ faults' = faults + 1
               /\ batch' = [batch EXCEPT ![w] = <<>>]
               /\ thread' = [thread EXCEPT ![w] = "failed"]
               /\ UNCHANGED built
    /\ UNCHANGED <<inst, plan, live, hyd, ready, rx, abort, bld, todo, heap, closed, waiters>>

\* The emitters are through: dropping the sink closes the queue and wakes all.
CloseQueue ==
    /\ Building /\ ~closed /\ \A e \in inst.emitters : thread[e] = "ended"
    /\ closed' = TRUE /\ waiters' = <<>>
    /\ thread' = [t \in Threads |-> IF thread[t] = "popWait" THEN "pop" ELSE thread[t]]
    /\ UNCHANGED <<inst, plan, live, hyd, ready, rx, abort, bld, todo, heap, batch, built,
                   faults>>

\* finish_d1_resident_leaf_morsels joins the workers; the group's store, and
\* with it the permit, is dropped.
\* Mutant: the error of a joined worker is not recorded.
EndGroupForgets ==
    /\ Building /\ closed /\ \A w \in inst.workers : thread[w] \in {"ended", "failed"}
    /\ live' = live - PermitBytes[bld.i]
    /\ thread' = Idle /\ bld' = [bld EXCEPT !.pc = "start", !.i = @ + 1]
    /\ UNCHANGED <<inst, plan, hyd, ready, rx, abort, todo, heap, closed, waiters, batch,
                   built, faults>>
EndGroup ==
    /\ Building /\ closed /\ \A w \in inst.workers : thread[w] \in {"ended", "failed"}
    /\ live' = live - PermitBytes[bld.i]
    /\ thread' = Idle
    /\ bld' = [bld EXCEPT !.pc = "start", !.i = @ + 1,
                          !.err = @ \/ \E w \in inst.workers : thread[w] = "failed"]
    /\ UNCHANGED <<inst, plan, hyd, ready, rx, abort, todo, heap, closed, waiters, batch,
                   built, faults>>

Done == bld.pc = "returned" /\ UNCHANGED vars

WorkerStep(w) == Pop(w) \/ FillBatch(w) \/ DrainLeaf(w)
EmitterStep(e) == Submit(e) \/ SubmitTimeout(e) \/ EmitterEnds(e)
HydratorStep == NextGroup \/ Acquire \/ Hydrate \/ SendReady
BuilderStep == \/ SerialGroup \/ RecvReady \/ LoopEnds \/ DropReceiver \/ RaiseAbort
               \/ Return \/ CloseQueue \/ EndGroup

Next == \/ HydratorStep \/ BuilderStep \/ Done
        \/ \E w \in Workers : WorkerStep(w)
        \/ \E e \in Emitters : EmitterStep(e)

\* Threads of the operating system that can run do run.
Spec == /\ Init /\ [][Next]_vars
        /\ WF_vars(HydratorStep) /\ WF_vars(BuilderStep)
        /\ \A w \in Workers : WF_vars(WorkerStep(w))
        /\ \A e \in Emitters : WF_vars(EmitterStep(e))

-----------------------------------------------------------------------------
\* The call, its threads, the queue and the bytes of the limiter keep their types at every
\* step of the resident pipeline.
TypeOK ==
    /\ plan.slots \in 1 .. 4 /\ live \in Nat /\ Len(ready) <= ReadyCap
    /\ hyd.pc \in {"next", "acquire", "load", "send", "done"} /\ hyd.i \in 1 .. Len(plan.groups) + 1
    /\ bld.pc \in {"start", "build", "drop", "join", "returned"}
    /\ bld.i \in 1 .. Len(plan.groups) + 1
    /\ Cardinality(heap) <= inst.cap
    /\ \A t \in Threads : thread[t] \in {"off", "pop", "popWait", "fill", "drain", "ended",
                                         "failed", "emit", "emitWait"}
    /\ ToSet(waiters) = {t \in Threads : thread[t] \in {"popWait", "emitWait"}}

\* The groups whose bytes are in memory: loading or waiting to be sent, queued,
\* or under construction.
HoldingBytes ==
    (IF hyd.pc = "load" \/ (hyd.pc = "send" /\ hyd.ok) THEN {hyd.i} ELSE {})
      \cup (ToSet(ready) \ {0}) \cup (IF Building THEN {bld.i} ELSE {})

\* The limiter counts exactly the bytes of the groups in memory, they exceed
\* its budget only when a single group is larger than all of it, and a call
\* that has returned left none behind, whatever failed on the way
\* (D1ResidentSubtreePermit is dropped with the store it rides on).
BytesBounded ==
    /\ live = MapThenSumSet(LAMBDA g : PermitBytes[g], HoldingBytes)
    /\ live <= Budget \/ Budget = 0 \/ Cardinality(HoldingBytes) = 1
    /\ bld.pc = "returned" => live = 0

\* A call that returns Ok has built every leaf of every non-empty run that it
\* did not leave to the level scan, each once; a leaf lost with a failing
\* worker, a group that never arrived or an emitter that gave up make the call
\* fail (finish_d1_resident_leaf_morsels, process_d1_resident_subtree_groups).
OkBuildsEveryLeaf ==
    (bld.pc = "returned" /\ ~bld.err) =>
        /\ \A g \in Groups : built[g] = Len(LeavesOf(g))
        /\ LET filled(runs) == Cardinality({i \in DOMAIN runs : runs[i] # <<>>})
               grouped == [g \in Groups |-> filled(plan.groups[g].runs)]
           IN filled(inst.runs) = filled(plan.levelwise)
                                    + MapThenSumSet(LAMBDA g : grouped[g], Groups)

(* The three ways a call is known not to come back.                        *)

\* All workers have failed; their errors are recorded when they are joined,
\* which waits for the emitters, which wait for room in the queue.
WorkersGone ==
    /\ Building /\ \A w \in inst.workers : thread[w] = "failed"
    /\ Cardinality(heap) = inst.cap /\ todo # <<>>

\* More emitters than places in the queue: the notification of a leaf that
\* was put in woke an emitter, which went back to sleep.
WakeupSwallowed ==
    /\ Building /\ inst.cap < Cardinality(inst.emitters)
    /\ heap # {} /\ \A w \in inst.workers : thread[w] \in {"popWait", "failed"}

\* The hydrator waits for bytes held by groups that nobody will receive, in a
\* channel that keeps them until both ends are gone.
QueuedForNobody ==
    /\ ~inst.discards /\ bld.pc = "join" /\ bld.err
    /\ hyd.pc = "acquire" /\ ready # <<>>
    /\ ~CanAdmit(PermitBytes[hyd.i])

\* Every call comes back, except where it ends in one of these three states
\* (waits of process_d1_resident_subtree_groups and of the morsel queue).
CallReturns ==
    <>[](bld.pc = "returned" \/ WorkersGone \/ WakeupSwallowed \/ QueuedForNobody)
=============================================================================
