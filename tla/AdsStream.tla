----------------------------- MODULE AdsStream ------------------------------
(***************************************************************************)
(* assign_point_leaders_adsampling_streaming (adsampling.rs): chunk jobs   *)
(* in a rayon scope assign points to leaders and send their results over a *)
(* bounded channel; the caller, itself on a pool thread, receives them and *)
(* visits them in chunk order.  On an empty channel it yields, and rayon   *)
(* may then run a chunk job on the caller's own thread.                    *)
(***************************************************************************)
EXTENDS LeafKernel

CONSTANTS
  StreamInputs,   \* calls: [points, leaders, fanout, ads, rows (of a chunk)]
  PoolThreads,    \* rayon::current_num_threads()
  ChannelSlots,   \* capacity of the channel (2 * PoolThreads in the code)
  MaxStreamFaults \* bound: failing reads and failing visits

ASSUME AdsStreamAssumption ==
  PoolThreads \in Nat \ {0} /\ ChannelSlots \in Nat \ {0} /\ MaxStreamFaults \in Nat

VARIABLES
  jobs,   \* state of each chunk job: queued, running, failed/ready (result not sent), sent
  chan,   \* the channel: chunks and whether each is Ok
  caller  \* the receiving side: the call, its answers, pending, next, error, nested job

streamVars == <<jobs, chan, caller>>

\* cur.chunks(chunk_rows).
ChunkCount(call) == (Len(call.points) + call.rows - 1) \div call.rows
ChunkOf(call, c) == SubSeq(call.points, (c - 1) * call.rows + 1, Min({c * call.rows, Len(call.points)}))

\* assign_point_chunk_adsampling_layout: the leaders of each point of the chunk.
AssignChunk(call, c) ==
  LET points == ChunkOf(call, c)
  IN [i \in DOMAIN points |-> AssignLeaders(points[i], call.leaders, call.fanout, call.ads)]

NoCaller == [call |-> [points |-> <<>>, leaders |-> <<>>, fanout |-> 0,
                       ads |-> [seed |-> 0, ratio |-> <<>>], rows |-> 1],
             answers |-> <<>>, pending |-> {}, next |-> 1, error |-> FALSE, nested |-> 0, visited |-> <<>>, pc |-> "idle", faults |-> 0]

StreamIdle == jobs = <<>> /\ chan = <<>> /\ caller = NoCaller

\* The kernel is a pure function of its input: the model evaluates it at the start.
StreamInit ==
  /\ chan = <<>>
  /\ \E call \in StreamInputs :
       /\ jobs = [c \in 1..ChunkCount(call) |-> "queued"]
       /\ caller = [NoCaller EXCEPT !.call = call, !.pc = "receive",
                                    !.answers = [c \in 1..ChunkCount(call) |-> AssignChunk(call, c)]]

Fault == caller.faults < MaxStreamFaults

\* A pool thread other than the caller's takes a job.
StartChunk(c) ==
  /\ jobs[c] = "queued"
  /\ Cardinality({d \in DOMAIN jobs : jobs[d] \in {"running", "ready", "failed"} /\ d # caller.nested}) < PoolThreads - 1
  /\ jobs' = [jobs EXCEPT ![c] = "running"]
  /\ UNCHANGED <<chan, caller>>

\* The job has read its points and assigned them, or the read failed.
FinishChunk(c) ==
  /\ jobs[c] = "running"
  /\ \/ jobs' = [jobs EXCEPT ![c] = "ready"] /\ UNCHANGED caller
     \/ Fault /\ jobs' = [jobs EXCEPT ![c] = "failed"] /\ caller' = [caller EXCEPT !.faults = @ + 1]
  /\ UNCHANGED chan

\* tx.send blocks while the channel is full.
SendChunk(c) ==
  /\ jobs[c] \in {"ready", "failed"} /\ Len(chan) < ChannelSlots
  /\ jobs' = [jobs EXCEPT ![c] = "sent"]
  /\ chan' = Append(chan, [chunk |-> c, ok |-> jobs[c] = "ready"])
  /\ caller' = [caller EXCEPT !.nested = IF @ = c THEN 0 ELSE @]

\* The loop that removes the next chunks from the pending map: after the first error the
\* rest is dropped unvisited.
DrainPending(st) ==
  FoldLeft(LAMBDA s, i :
    LET hit == {m \in s.pending : m.chunk = s.next}
    IN IF hit = {} THEN s
       ELSE [s EXCEPT !.pending = @ \ hit, !.next = @ + 1,
                      !.error = @ \/ \E m \in hit : ~m.ok,
                      !.visited = IF s.error \/ \E m \in hit : ~m.ok THEN @ ELSE Append(@, s.next)],
    st, [i \in DOMAIN jobs |-> i])

\* try_recv delivers; a visit may fail, and then no later chunk is visited.
Receive ==
  /\ caller.pc = "receive" /\ caller.nested = 0 /\ chan # <<>>
  /\ LET got == DrainPending([caller EXCEPT !.pending = @ \cup {Head(chan)}])
     IN \/ caller' = got
        \/ /\ Fault
           /\ \E v \in (Len(caller.visited) + 1)..Len(got.visited) :
                caller' = [got EXCEPT !.error = TRUE, !.faults = @ + 1, !.visited = SubSeq(@, 1, v)]
  /\ chan' = Tail(chan)
  /\ UNCHANGED jobs

\* try_recv finds the channel empty and yield_now runs a queued job here.
YieldRuns(c) ==
  /\ caller.pc = "receive" /\ caller.nested = 0 /\ chan = <<>> /\ jobs[c] = "queued"
  /\ jobs' = [jobs EXCEPT ![c] = "running"]
  /\ caller' = [caller EXCEPT !.nested = c]
  /\ UNCHANGED chan

\* Every sender is gone and the channel is empty.
StreamEnds ==
  /\ caller.pc = "receive" /\ caller.nested = 0 /\ chan = <<>> /\ \A c \in DOMAIN jobs : jobs[c] = "sent"
  /\ caller' = [caller EXCEPT !.pc = IF caller.error THEN "failed" ELSE "done"]
  /\ UNCHANGED <<jobs, chan>>

\* The call has returned, or the caller sits in its own send for ever (OwnSendBlocked).
OwnSendBlocked == caller.nested # 0 /\ jobs[caller.nested] \in {"ready", "failed"} /\ Len(chan) = ChannelSlots
StreamStops == caller.pc \in {"done", "failed"} \/ OwnSendBlocked
StreamRests == StreamStops /\ UNCHANGED streamVars

StreamNext ==
  \/ \E c \in DOMAIN jobs : StartChunk(c) \/ FinishChunk(c) \/ SendChunk(c) \/ YieldRuns(c)
  \/ Receive \/ StreamEnds \/ StreamRests

\* Pool threads run their jobs, the receiver keeps polling, and an idle pool takes queued
\* jobs: by another thread, or by the yielding caller.
StreamFairness ==
  /\ WF_streamVars(\E c \in DOMAIN jobs : StartChunk(c) \/ YieldRuns(c))
  /\ WF_streamVars(\E c \in DOMAIN jobs : FinishChunk(c))
  /\ WF_streamVars(\E c \in DOMAIN jobs : SendChunk(c))
  /\ WF_streamVars(Receive) /\ WF_streamVars(StreamEnds)

-----------------------------------------------------------------------------
\* Chunks are visited in order, each once and with the leaders the kernel gives; a call
\* that returns Ok has visited them all, one that fails had a failing read or visit.
ChunksInOrder ==
  /\ caller.visited = [i \in DOMAIN caller.visited |-> i]
  /\ caller.pc = "done" => Len(caller.visited) = Len(jobs)
  /\ caller.pc = "failed" => caller.faults > 0

\* The assignment of a point: as many leaders as asked for, each once, nearest first, and
\* the exact ones when no ratio is below one.
LeadersRight ==
  \A c \in DOMAIN caller.answers : \A i \in DOMAIN caller.answers[c] :
    LET x == ChunkOf(caller.call, c)[i]
        got == caller.answers[c][i]
        D(j) == FullDist(x, caller.call.leaders[j])
    IN /\ Len(got) = Min({caller.call.fanout, Len(caller.call.leaders)})
       /\ IsInjective(got)
       /\ \A a, b \in DOMAIN got : a < b => D(got[a]) <= D(got[b])
       /\ Lossless(caller.call.ads) =>
            LET exact == ExactLeaders(x, caller.call.leaders, caller.call.fanout)
            IN [a \in DOMAIN got |-> D(got[a])] = [a \in DOMAIN exact |-> D(exact[a])]
=============================================================================
