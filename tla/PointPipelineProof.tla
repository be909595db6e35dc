------------------------ MODULE PointPipelineProof ------------------------
(***************************************************************************)
(* Proofs about PointPipeline, for every configuration of a call, every    *)
(* number of points, workers and batches, and every fault.                 *)
(***************************************************************************)
EXTENDS PointPipeline, DataTheorems

-----------------------------------------------------------------------------
(* What a call computes from its configuration.                            *)

\* One batch of full size fits into the budget, and each worker can have one.
LEMMA BatchFits ==
  ASSUME NEW c \in Configs
  PROVE  /\ IoThreads(c) \in Nat \ {0}
         /\ Budget(c) \in Nat \ {0}
         /\ EffectiveBatchPoints(c) \in Nat \ {0}
         /\ RowBytes * EffectiveBatchPoints(c) <= Budget(c)
<1> DEFINE R == RowBytes
           T == IoThreads(c)
           B == Budget(c)
           E == EffectiveBatchPoints(c)
           q == (B \div R) \div T
<1>0. /\ c.threads \in Nat /\ c.budget \in Nat /\ c.batchPoints \in Nat
      /\ R \in Nat \ {0}
  BY PipelineAssumption
<1>1. T \in Nat \ {0}
  BY <1>0, MaxOfTwo DEF IoThreads
<1> HIDE DEF T
<1>2. R * T \in Nat \ {0}
  BY <1>0, <1>1
<1>3. B \in Nat \ {0} /\ B >= R * T
  BY <1>0, <1>2, MaxOfTwo DEF Budget, T
<1> HIDE DEF B
<1>4. B \div R \in Nat /\ R * (B \div R) <= B /\ B < R * (B \div R) + R
  BY <1>0, <1>3, DivFacts
<1> DEFINE d == B \div R
<1>5. d \in Nat /\ R * d <= B /\ R * T < R * d + R
  BY <1>0, <1>1, <1>3, <1>4
<1> HIDE DEF d
<1>6. T <= d
  BY <1>0, <1>1, <1>5, TimesCancel
<1>7. d \div T \in Nat /\ T * (d \div T) <= d /\ d < T * (d \div T) + T
  BY <1>1, <1>5, DivFacts
<1> DEFINE e == d \div T
<1>8. e \in Nat /\ T * e <= d /\ d < T * e + T
  BY <1>7
<1> HIDE DEF e
<1>9. e # 0
  <2>1. e = 0 => T * e = 0
    BY <1>1
  <2> QED BY <1>1, <1>5, <1>6, <1>8, <2>1
<1>10. e <= d
  BY <1>1, <1>5, <1>8
<1>11. E = Min({Max({c.batchPoints, 1}), Max({e, 1})})
  BY DEF EffectiveBatchPoints, B, T, e, d
<1>12. Max({c.batchPoints, 1}) \in Nat \ {0} /\ Max({e, 1}) = e
  BY <1>0, <1>8, <1>9, MaxOfTwo
<1> DEFINE b == Max({c.batchPoints, 1})
<1> HIDE DEF b, E
<1>13. E \in Nat \ {0} /\ E <= e
  <2>1. b \in Nat \ {0} /\ E = Min({b, e})
    BY <1>11, <1>12 DEF b
  <2>2. Min({b, e}) = IF b <= e THEN b ELSE e
    BY <1>8, <2>1, MinOfTwo
  <2> QED BY <1>8, <1>9, <2>1, <2>2
<1>14. R * E <= R * d
  BY <1>0, <1>5, <1>8, <1>10, <1>13, TimesMonotone
<1>15. R * E <= B
  BY <1>0, <1>3, <1>5, <1>13, <1>14
<1> QED BY <1>1, <1>3, <1>13, <1>15 DEF T, B, E

\* All batches have the size of the first one, but the last, which may be smaller; none
\* is empty and none exceeds the budget.
LEMMA SizesFacts ==
  ASSUME NEW c \in Configs, NEW z, z = Sizes(c)
  PROVE  /\ z.count \in Nat
         /\ z.bytes \in [0..(z.count - 1) -> Nat \ {0}]
         /\ z.budget \in Nat \ {0} /\ z.threads \in Nat \ {0} /\ z.depth \in Nat \ {0}
         /\ \A i \in 0..(z.count - 1) :
              /\ z.bytes[i] <= z.budget
              /\ z.bytes[i] <= z.bytes[0]
              /\ i # z.count - 1 => z.bytes[i] = z.bytes[0]
<1> DEFINE R == RowBytes
           p == c.points
           s == EffectiveBatchPoints(c)
           n == (p + s - 1) \div s
<1>0. p \in Nat /\ c.depth \in Nat /\ R \in Nat \ {0}
  BY PipelineAssumption
<1>1. /\ IoThreads(c) \in Nat \ {0} /\ Budget(c) \in Nat \ {0} /\ s \in Nat \ {0}
      /\ R * s <= Budget(c)
  BY BatchFits
<1>2. z.count = n /\ z.bytes = [i \in 0..(n - 1) |-> R * Min({s, p - i * s})]
      /\ z.budget = Budget(c) /\ z.threads = IoThreads(c) /\ z.depth = Max({c.depth, 1})
  BY DEF Sizes
<1> HIDE DEF s
<1>3. n \in Nat /\ s * n <= p + s - 1 /\ p + s - 1 < s * n + s
  BY <1>0, <1>1, DivFacts
<1> HIDE DEF n
<1>4. ASSUME NEW i \in 0..(n - 1)
      PROVE  /\ p - i * s \in Nat \ {0}
             /\ i # n - 1 => p - i * s >= s
  <2>1. s * (i + 1) <= s * n
    BY <1>1, <1>3, TimesMonotone
  <2>2. s * (i + 1) = i * s + s
    BY <1>1
  <2>3. i * s \in Nat
    BY <1>1
  <2>4. p - i * s \in Nat \ {0}
    BY <1>0, <1>1, <1>3, <2>1, <2>2, <2>3
  <2>5. ASSUME i # n - 1 PROVE p - i * s >= s
    <3>1. s * (i + 2) <= s * n
      BY <1>1, <1>3, <2>5, TimesMonotone
    <3>2. s * (i + 2) = i * s + s + s
      BY <1>1
    <3> QED BY <1>0, <1>1, <1>3, <2>3, <3>1, <3>2
  <2> QED BY <2>4, <2>5
<1>5. ASSUME NEW i \in 0..(n - 1)
      PROVE  /\ Min({s, p - i * s}) \in Nat \ {0}
             /\ Min({s, p - i * s}) <= s
             /\ i # n - 1 => Min({s, p - i * s}) = s
  <2>1. p - i * s \in Nat \ {0} /\ (i # n - 1 => p - i * s >= s)
    BY <1>4
  <2> DEFINE r == p - i * s
  <2> HIDE DEF r
  <2>2. r \in Nat \ {0} /\ (i # n - 1 => r >= s)
    BY <2>1 DEF r
  <2>3. Min({s, r}) = IF s <= r THEN s ELSE r
    BY <1>1, <2>2, MinOfTwo
  <2>4. Min({s, r}) \in Nat \ {0} /\ Min({s, r}) <= s /\ (i # n - 1 => Min({s, r}) = s)
    BY <1>1, <2>2, <2>3
  <2> QED BY <2>4 DEF r
<1>6. ASSUME NEW i \in 0..(n - 1)
      PROVE  /\ z.bytes[i] \in Nat \ {0}
             /\ z.bytes[i] <= R * s
             /\ i # n - 1 => z.bytes[i] = R * s
  <2> DEFINE m == Min({s, p - i * s})
  <2>1. m \in Nat \ {0} /\ m <= s /\ (i # n - 1 => m = s)
    BY <1>5
  <2>2. z.bytes[i] = R * m
    BY <1>2
  <2> HIDE DEF m
  <2>3. R * m <= R * s
    BY <1>0, <1>1, <2>1, TimesMonotone
  <2>4. R * m \in Nat \ {0}
    BY <1>0, <2>1
  <2> QED BY <2>1, <2>2, <2>3, <2>4
<1>7. R * s \in Nat
  BY <1>0, <1>1
<1>8. \A i \in 0..(n - 1) : z.bytes[i] <= Budget(c)
  BY <1>1, <1>6, <1>7
<1>9. \A i \in 0..(n - 1) : z.bytes[i] <= z.bytes[0] /\ (i # n - 1 => z.bytes[i] = z.bytes[0])
  <2> SUFFICES ASSUME NEW i \in 0..(n - 1)
               PROVE  z.bytes[i] <= z.bytes[0] /\ (i # n - 1 => z.bytes[i] = z.bytes[0])
    OBVIOUS
  <2>1. CASE n = 1
    <3>1. i = 0
      BY <2>1
    <3> QED BY <1>3, <1>6, <2>1, <3>1
  <2>2. CASE n # 1
    <3>1. 0 \in 0..(n - 1) /\ 0 # n - 1
      BY <1>3, <2>2
    <3>2. z.bytes[0] = R * s
      BY <1>6, <3>1
    <3> QED BY <1>6, <3>2
  <2> QED BY <2>1, <2>2
<1>10. z.depth \in Nat \ {0}
  BY <1>0, <1>2, MaxOfTwo
<1>11. z.bytes \in [0..(n - 1) -> Nat \ {0}]
  BY <1>2, <1>6
<1> QED BY <1>1, <1>2, <1>3, <1>8, <1>9, <1>10, <1>11

-----------------------------------------------------------------------------
(* The inductive invariant.                                                *)

\* The batches below Taken have left the job channel.
Taken == nextJob - Len(jobs)
Busy(w) == wpc[w] \in {"acquire", "waiting", "read", "send"}

\* The job channel holds the next batches in order; all others are before them.
JobsInv ==
  /\ \A i \in DOMAIN jobs : jobs[i] = Taken + i - 1
  /\ \A w \in Workers : Busy(w) => job[w] \in Batches /\ job[w] < Taken
  /\ \A i \in DOMAIN ready : ready[i].seq < Taken
  /\ \A b \in pending : b < Taken

\* A batch is in the hands of one worker, in the ready channel or parked, and only once.
DistinctInv ==
  /\ \A v, w \in Workers : Busy(v) /\ Busy(w) /\ v # w => job[v] # job[w]
  /\ \A i, j \in DOMAIN ready : i # j => ready[i].seq # ready[j].seq
  /\ \A w \in Workers : \A i \in DOMAIN ready : Busy(w) => job[w] # ready[i].seq
  /\ \A w \in Workers : Busy(w) => job[w] \notin pending
  /\ \A i \in DOMAIN ready : ready[i].seq \notin pending

\* A batch is parked, in the ready channel or in the hands of a worker.
Somewhere(b) ==
  \/ b \in pending
  \/ \E i \in DOMAIN ready : ready[i].seq = b
  \/ \E w \in Workers : Busy(w) /\ job[w] = b

\* Nothing on its way to the caller is an error, no batch that was taken and not yet
\* consumed is missing, and workers end only when there is nothing left to take.
Clean ==
  /\ result \in {"running", "ok"}
  /\ \A w \in Workers : wpc[w] = "send" => outcome[w]
  /\ \A w \in Workers : wpc[w] = "exited" => nextJob = call.count /\ jobs = <<>>
  /\ \A i \in DOMAIN ready : ready[i].ok
  /\ \A b \in expected..(Taken - 1) : Somewhere(b)

NoFaultInv == faults = {} => Clean

\* The call has a result exactly when its loop has ended.
LoopInv == cpc = "recv" <=> result = "running"

\* How many full batches the budget holds.  The last batch may be smaller; when it fits
\* on top of them it never waits, otherwise it counts like a full one.
LastBatch == call.count - 1
Slots == call.budget \div call.bytes[0]
LastFits == call.bytes[0] * Slots + call.bytes[LastBatch] <= call.budget
Counted(S) == IF LastFits THEN S \ {LastBatch} ELSE S
Trying == {job[w] : w \in {w \in Workers : wpc[w] = "acquire"}}

\* While a worker waits, the batches that hold a permit or are about to ask for one are
\* enough to fill the budget.
WakeInv ==
  \A w \in Workers : wpc[w] = "waiting" =>
    /\ LastFits => job[w] # LastBatch
    /\ Cardinality(Counted(Holding \cup Trying)) >= Slots

IInv ==
  /\ TypeOK /\ JobsInv /\ DistinctInv /\ NoFaultInv /\ LoopInv /\ InOrder
  /\ PermitsExact /\ WakeInv

-----------------------------------------------------------------------------
(* Facts used by the steps.                                                *)

PCs == {"idle", "acquire", "waiting", "read", "send", "exited"}

\* The sizes of the call: every batch is non-empty, fits the budget and is as large as the
\* first, but for the last, which may be smaller.
LEMMA CallFacts ==
  ASSUME TypeOK
  PROVE  /\ call.count \in Nat
         /\ call.bytes \in [Batches -> Nat \ {0}]
         /\ call.budget \in Nat \ {0} /\ call.threads \in Nat \ {0} /\ call.depth \in Nat \ {0}
         /\ \A i \in Batches : /\ Bytes(i) \in Nat \ {0}
                               /\ Bytes(i) <= call.budget
                               /\ Bytes(i) <= call.bytes[0]
                               /\ i # LastBatch => Bytes(i) = call.bytes[0]
<1>1. PICK c \in Configs : call = Sizes(c)
  BY DEF TypeOK
<1>2. /\ call.count \in Nat
      /\ call.bytes \in [0..(call.count - 1) -> Nat \ {0}]
      /\ call.budget \in Nat \ {0} /\ call.threads \in Nat \ {0} /\ call.depth \in Nat \ {0}
      /\ \A i \in 0..(call.count - 1) :
           /\ call.bytes[i] <= call.budget
           /\ call.bytes[i] <= call.bytes[0]
           /\ i # call.count - 1 => call.bytes[i] = call.bytes[0]
  BY <1>1, SizesFacts
<1> QED BY <1>2 DEF Batches, Bytes, LastBatch

\* What a release does to the budget and to the waiting workers.
LEMMA ReleaseFacts ==
  ASSUME TypeOK, NEW n \in Nat, NEW pcs \in [Workers -> PCs], Release(n, pcs)
  PROVE  /\ used' \in 0..call.budget
         /\ n <= used => used' = used - n
         /\ wpc' \in [Workers -> PCs]
         /\ \A w \in Workers : \/ wpc'[w] = pcs[w]
                               \/ pcs[w] = "waiting" /\ wpc'[w] = "acquire"
         /\ \/ wpc' = pcs /\ \A w \in Workers : pcs[w] # "waiting"
            \/ \E w \in Workers : pcs[w] = "waiting" /\ wpc' = [pcs EXCEPT ![w] = "acquire"]
<1>1. used \in Nat /\ used <= call.budget /\ call.budget \in Nat
  BY CallFacts DEF TypeOK
<1>2. used' = Max({used - n, 0})
  BY DEF Release
<1>3. used' = IF used - n >= 0 THEN used - n ELSE 0
  BY <1>1, <1>2, MaxOfTwo
<1>4. used' \in 0..call.budget /\ (n <= used => used' = used - n)
  BY <1>1, <1>3
<1>5. \/ wpc' = pcs /\ \A w \in Workers : pcs[w] # "waiting"
      \/ \E w \in Workers : pcs[w] = "waiting" /\ wpc' = [pcs EXCEPT ![w] = "acquire"]
  BY DEF Release
<1>6. CASE wpc' = pcs
  BY <1>4, <1>5, <1>6
<1>7. CASE \E w \in Workers : pcs[w] = "waiting" /\ wpc' = [pcs EXCEPT ![w] = "acquire"]
  <2>1. PICK w \in Workers : pcs[w] = "waiting" /\ wpc' = [pcs EXCEPT ![w] = "acquire"]
    BY <1>7
  <2>2. wpc' \in [Workers -> PCs]
    BY <2>1 DEF PCs
  <2>3. \A v \in Workers : wpc'[v] = pcs[v] \/ (pcs[v] = "waiting" /\ wpc'[v] = "acquire")
    BY <2>1
  <2> QED BY <1>4, <1>5, <2>2, <2>3
<1> QED BY <1>5, <1>6, <1>7

\* The call's sizes do not change.
LEMMA CallFixed ==
  ASSUME [Next]_vars
  PROVE  call' = call
BY DEF Next, WorkerStep, CallerStep, vars, SendJob, TakeJob, WorkerExits, Acquire, Read, SendReady,
       Receive, Consume, LoopEnds, DropPending, ScopeJoins

\* The parked batch that is dropped next is a parked batch.
LEMMA MinPending ==
  ASSUME TypeOK, pending # {}
  PROVE  Min(pending) \in pending
<1>1. pending \subseteq Nat
  BY CallFacts DEF TypeOK, Batches
<1>2. PICK n \in pending : \A m \in pending : n <= m
  BY <1>1, LeastNat
<1> QED BY <1>2 DEF Min

-----------------------------------------------------------------------------
(* Types.                                                                  *)

\* Every step keeps the types.
LEMMA TypeStep ==
  ASSUME TypeOK, JobsInv, [Next]_vars
  PROVE  TypeOK'
<1>0. call' = call
  BY CallFixed
<1> DEFINE B == Batches
           W == Workers
<1>1. B' = B /\ W' = W
  BY <1>0 DEF Batches, Workers
<1>2. /\ call.count \in Nat /\ call.budget \in Nat /\ call.depth \in Nat \ {0}
      /\ \A i \in B : Bytes(i) \in Nat \ {0} /\ Bytes(i) <= call.budget
  BY CallFacts
<1>3. \A w \in W : Busy(w) => job[w] \in B
  BY DEF JobsInv
<1>4. /\ B \subseteq Nat /\ PCs = {"idle", "acquire", "waiting", "read", "send", "exited"}
  BY <1>2 DEF Batches, PCs
<1>5. CASE SendJob
  <2>1. nextJob \in B /\ nextJob' \in 0..call.count
    BY <1>2, <1>5 DEF SendJob, TypeOK, Batches
  <2>2. jobs' \in Seq(B) /\ Len(jobs') <= call.depth
    BY <1>2, <1>5, <2>1, AppendFacts DEF SendJob, TypeOK
  <2> QED BY <1>0, <1>1, <1>5, <2>1, <2>2 DEF SendJob, TypeOK, workerVars, callerVars
<1>6. ASSUME NEW w \in W, TakeJob(w) PROVE TypeOK'
  <2>1. jobs' \in Seq(B) /\ Len(jobs') <= call.depth /\ Head(jobs) \in Nat
    <3>1. jobs \in Seq(B) /\ Len(jobs) <= call.depth /\ jobs # <<>> /\ jobs' = Tail(jobs)
      BY <1>6 DEF TakeJob, TypeOK
    <3>2. /\ Head(jobs) \in B /\ Len(jobs) \in Nat
          /\ Tail(jobs) \in Seq(B) /\ Len(Tail(jobs)) = Len(jobs) - 1
      BY <3>1, TailFacts
    <3>3. Len(jobs') <= call.depth
      BY <1>2, <3>1, <3>2
    <3>4. Head(jobs) \in Nat
      BY <1>4, <3>2
    <3> QED BY <3>1, <3>2, <3>3, <3>4, Zenon
  <2> QED BY <1>0, <1>1, <1>6, <2>1 DEF TakeJob, TypeOK, callerVars
<1>7. ASSUME NEW w \in W, WorkerExits(w) PROVE TypeOK'
  BY <1>0, <1>1, <1>7 DEF WorkerExits, TypeOK, callerVars
<1>8. ASSUME NEW w \in W, Acquire(w) PROVE TypeOK'
  <2>1. Bytes(job[w]) \in Nat
    BY <1>2, <1>3, <1>8 DEF Acquire, Busy
  <2>2. used' \in 0..call.budget
    BY <1>2, <1>8, <2>1 DEF Acquire, TypeOK
  <2>3. outcome' \in [W -> BOOLEAN] /\ wpc' \in [W -> PCs]
    BY <1>4, <1>8 DEF Acquire, TypeOK
  <2> QED BY <1>0, <1>1, <1>4, <1>8, <2>2, <2>3 DEF Acquire, TypeOK, callerVars
<1>9. ASSUME NEW w \in W, Read(w) PROVE TypeOK'
  <2>1. Bytes(job[w]) \in Nat
    BY <1>2, <1>3, <1>9 DEF Read, Busy
  <2>2. used' \in 0..call.budget /\ wpc' \in [W -> PCs] /\ outcome' \in [W -> BOOLEAN]
        /\ faults' \subseteq {"err", "panic", "consume"}
    <3>1. CASE /\ wpc' = [wpc EXCEPT ![w] = "send"]
               /\ outcome' = [outcome EXCEPT ![w] = TRUE] /\ UNCHANGED <<used, faults>>
      BY <1>4, <3>1 DEF TypeOK
    <3>2. ASSUME NEW f \in ReadFaults,
                 Release(Bytes(job[w]), [wpc EXCEPT ![w] = IF f = "err" THEN "send" ELSE "exited"]),
                 outcome' = [outcome EXCEPT ![w] = FALSE], faults' = faults \cup {f}
          PROVE  used' \in 0..call.budget /\ wpc' \in [W -> PCs] /\ outcome' \in [W -> BOOLEAN]
                 /\ faults' \subseteq {"err", "panic", "consume"}
      <4>1. [wpc EXCEPT ![w] = IF f = "err" THEN "send" ELSE "exited"] \in [Workers -> PCs]
        BY <1>4 DEF TypeOK
      <4>2. used' \in 0..call.budget /\ wpc' \in [W -> PCs]
        BY <2>1, <3>2, <4>1, ReleaseFacts
      <4>3. f \in {"err", "panic"}
        BY PipelineAssumption
      <4> QED BY <3>2, <4>2, <4>3 DEF TypeOK
    <3> QED BY <1>9, <3>1, <3>2 DEF Read
  <2> QED BY <1>0, <1>1, <1>4, <1>9, <2>2 DEF Read, TypeOK, callerVars
<1>10. ASSUME NEW w \in W, SendReady(w) PROVE TypeOK'
  <2>1. [seq |-> job[w], ok |-> outcome[w]] \in [seq : B, ok : BOOLEAN]
    BY <1>3, <1>10 DEF SendReady, Busy, TypeOK
  <2>2. ready' \in Seq([seq : B, ok : BOOLEAN]) /\ Len(ready') <= call.depth
    BY <1>2, <1>10, <2>1, AppendFacts DEF SendReady, TypeOK
  <2> QED BY <1>0, <1>1, <1>10, <2>2 DEF SendReady, TypeOK, callerVars
<1>11. CASE Receive
  <2>1. CASE ready # <<>> /\ ready' = Tail(ready)
    <3>1. /\ ready' \in Seq([seq : B, ok : BOOLEAN]) /\ Len(ready') <= call.depth
          /\ Head(ready) \in [seq : B, ok : BOOLEAN]
      <4>1. ready \in Seq([seq : B, ok : BOOLEAN]) /\ Len(ready) <= call.depth
        BY DEF TypeOK
      <4>2. /\ Head(ready) \in [seq : B, ok : BOOLEAN] /\ Len(ready) \in Nat
            /\ Tail(ready) \in Seq([seq : B, ok : BOOLEAN]) /\ Len(Tail(ready)) = Len(ready) - 1
        BY <2>1, <4>1, TailFacts
      <4> QED BY <1>2, <2>1, <4>1, <4>2
    <3>2. pending' \subseteq B /\ cpc' \in {"recv", "drop", "join", "returned"}
          /\ result' \in {"running", "ok", "err", "panic"}
      BY <1>11, <2>1, <3>1 DEF Receive, CallerFails, TypeOK
    <3> QED BY <1>0, <1>1, <1>11, <3>1, <3>2 DEF Receive, TypeOK, workerVars
  <2>2. CASE ready = <<>> /\ UNCHANGED <<ready, pending>>
    BY <1>0, <1>1, <1>11, <2>2 DEF Receive, CallerFails, TypeOK, workerVars
  <2> QED BY <1>11, <2>1, <2>2 DEF Receive
<1>12. CASE Consume
  <2>1. expected \in B /\ expected + 1 \in 0..call.count /\ Bytes(expected) \in Nat
    BY <1>2, <1>12 DEF Consume, TypeOK, Batches
  <2>2. wpc \in [Workers -> PCs]
    BY <1>4 DEF TypeOK
  <2>3. used' \in 0..call.budget /\ wpc' \in [W -> PCs]
    BY <1>12, <2>1, <2>2, ReleaseFacts DEF Consume
  <2>4. delivered' \in Seq(B) /\ expected' \in 0..call.count
    <3>1. delivered \in Seq(B) /\ expected \in 0..call.count
      BY DEF TypeOK
    <3>2. Append(delivered, expected) \in Seq(B)
      BY <2>1, <3>1, AppendFacts
    <3> QED BY <1>12, <2>1, <3>1, <3>2 DEF Consume
  <2> QED BY <1>0, <1>1, <1>4, <1>12, <2>3, <2>4 DEF Consume, CallerFails, TypeOK
<1>13. CASE LoopEnds
  BY <1>0, <1>1, <1>13 DEF LoopEnds, TypeOK, workerVars
<1>14. CASE DropPending
  <2>1. CASE pending = {} /\ cpc' = "join" /\ UNCHANGED <<used, wpc, pending>>
    BY <1>0, <1>1, <1>14, <2>1 DEF DropPending, TypeOK
  <2>2. CASE /\ pending # {} /\ pending' = pending \ {Min(pending)}
             /\ Release(Bytes(Min(pending)), wpc) /\ UNCHANGED cpc
    <3>1. Min(pending) \in B /\ Bytes(Min(pending)) \in Nat
      BY <1>2, <2>2, MinPending DEF TypeOK
    <3>2. wpc \in [Workers -> PCs]
      BY <1>4 DEF TypeOK
    <3>3. used' \in 0..call.budget /\ wpc' \in [W -> PCs]
      BY <2>2, <3>1, <3>2, ReleaseFacts
    <3> QED BY <1>0, <1>1, <1>4, <1>14, <2>2, <3>3 DEF DropPending, TypeOK
  <2> QED BY <1>14, <2>1, <2>2 DEF DropPending
<1>15. CASE ScopeJoins
  BY <1>0, <1>1, <1>15 DEF ScopeJoins, TypeOK, workerVars
<1>16. CASE UNCHANGED vars
  BY <1>0, <1>1, <1>16 DEF vars, workerVars, callerVars, TypeOK
<1> QED
  BY <1>5, <1>6, <1>7, <1>8, <1>9, <1>10, <1>11, <1>12, <1>13, <1>14, <1>15, <1>16
     DEF Next, WorkerStep, CallerStep
-----------------------------------------------------------------------------
(* The batches of a call.                                                  *)

\* A release wakes a waiting worker and leaves every busy worker busy.
LEMMA ReleaseBusy ==
  ASSUME TypeOK, NEW n, NEW pcs \in [Workers -> PCs], Release(n, pcs), call' = call
  PROVE  \A w \in Workers : Busy(w)' <=> pcs[w] \in {"acquire", "waiting", "read", "send"}
<1>1. \/ wpc' = pcs
      \/ \E w \in Workers : pcs[w] = "waiting" /\ wpc' = [pcs EXCEPT ![w] = "acquire"]
  BY DEF Release
<1> QED BY <1>1 DEF Busy

\* Every step keeps the batches in the job channel consecutive and all others before them.
LEMMA JobsStep ==
  ASSUME TypeOK, JobsInv, [Next]_vars
  PROVE  JobsInv'
<1>0. call' = call
  BY CallFixed
<1>1. Batches' = Batches /\ Workers' = Workers
  BY <1>0 DEF Batches, Workers
<1>2. /\ call.count \in Nat /\ nextJob \in Nat
      /\ jobs \in Seq(Batches) /\ Len(jobs) \in Nat /\ DOMAIN jobs = 1..Len(jobs)
      /\ ready \in Seq([seq : Batches, ok : BOOLEAN]) /\ DOMAIN ready = 1..Len(ready)
      /\ Batches \subseteq Nat /\ pending \subseteq Batches /\ Taken \in Int
  BY CallFacts, LenProperties, SMTT(30) DEF TypeOK, Batches, Taken
<1>3. wpc \in [Workers -> PCs] /\ job \in [Workers -> Nat]
  BY DEF TypeOK, PCs
<1>4. ASSUME UNCHANGED <<nextJob, jobs, job, ready>>, \A b \in pending' : b \in pending,
             \A w \in Workers : Busy(w)' => Busy(w)
      PROVE  JobsInv'
  <2>1. Taken' = Taken
    BY <1>4 DEF Taken
  <2> QED BY <1>1, <1>4, <2>1 DEF JobsInv
<1>5. CASE SendJob
  <2>1. nextJob \in Batches
    BY <1>2, <1>5 DEF SendJob, TypeOK, Batches
  <2>2. /\ Len(jobs') = Len(jobs) + 1 /\ DOMAIN jobs' = 1..(Len(jobs) + 1)
        /\ \A i \in DOMAIN jobs : jobs'[i] = jobs[i]
        /\ jobs'[Len(jobs) + 1] = nextJob
    BY <1>2, <1>5, <2>1, AppendFacts DEF SendJob
  <2>3. Taken' = Taken
    BY <1>2, <1>5, <2>2 DEF SendJob, Taken
  <2>4. \A i \in DOMAIN jobs' : jobs'[i] = Taken + i - 1
    <3> SUFFICES ASSUME NEW i \in 1..(Len(jobs) + 1)
                 PROVE  jobs'[i] = Taken + i - 1
      BY <2>2
    <3>1. CASE i = Len(jobs) + 1
      BY <1>2, <2>2, <3>1 DEF Taken
    <3>2. CASE i # Len(jobs) + 1
      <4>1. i \in DOMAIN jobs
        BY <1>2, <3>2
      <4> QED BY <2>2, <4>1 DEF JobsInv
    <3> QED BY <3>1, <3>2
  <2>5. \A w \in Workers : Busy(w)' = Busy(w)
    BY <1>5 DEF SendJob, workerVars, Busy
  <2> QED BY <1>1, <1>5, <2>3, <2>4, <2>5 DEF JobsInv, SendJob, workerVars, callerVars
<1>6. ASSUME NEW w \in Workers, TakeJob(w) PROVE JobsInv'
  <2>1. /\ Len(jobs) \in Nat \ {0} /\ Head(jobs) = jobs[1] /\ Head(jobs) \in Batches
        /\ Len(jobs') = Len(jobs) - 1 /\ DOMAIN jobs' = 1..(Len(jobs) - 1)
        /\ \A i \in DOMAIN jobs' : jobs'[i] = jobs[i + 1]
    BY <1>2, <1>6, TailFacts DEF TakeJob
  <2>2. Taken' = Taken + 1 /\ Head(jobs) = Taken
    BY <1>2, <1>6, <2>1, SMTT(30) DEF TakeJob, Taken, JobsInv
  <2>3. \A i \in DOMAIN jobs' : jobs'[i] = Taken' + i - 1
    <3> SUFFICES ASSUME NEW i \in 1..(Len(jobs) - 1)
                 PROVE  jobs'[i] = Taken + 1 + i - 1
      BY <2>1, <2>2
    <3>1. i + 1 \in DOMAIN jobs /\ jobs'[i] = jobs[i + 1]
      BY <1>2, <2>1
    <3>2. jobs[i + 1] = Taken + (i + 1) - 1
      BY <3>1 DEF JobsInv
    <3> QED BY <1>2, <3>1, <3>2
  <2>4. ASSUME NEW v \in Workers, Busy(v)' PROVE job'[v] \in Batches /\ job'[v] < Taken'
    <3>1. CASE v = w
      BY <1>2, <1>3, <1>6, <2>1, <2>2, <3>1 DEF TakeJob
    <3>2. CASE v # w
      <4>1. Busy(v) /\ job'[v] = job[v]
        BY <1>3, <1>6, <2>4, <3>2 DEF TakeJob, Busy
      <4>2. job[v] \in Batches /\ job[v] < Taken
        BY <4>1 DEF JobsInv
      <4>3. job[v] \in Nat
        BY <1>2, <4>2
      <4> HIDE DEF Taken
      <4>4. job[v] < Taken + 1
        BY <1>2, <4>2, <4>3
      <4> QED BY <2>2, <4>1, <4>2, <4>4
    <3> QED BY <3>1, <3>2
  <2>5. /\ \A i \in DOMAIN ready : ready[i].seq < Taken'
        /\ \A b \in pending : b < Taken'
    <3>1. \A i \in DOMAIN ready : ready[i].seq \in Nat
      <4>1. \A i \in 1..Len(ready) : ready[i] \in [seq : Batches, ok : BOOLEAN]
        BY <1>2, ElementOfSeq
      <4> QED BY <1>2, <4>1
    <3> QED BY <1>2, <2>2, <3>1 DEF JobsInv
  <2> QED BY <1>1, <1>6, <2>3, <2>4, <2>5 DEF JobsInv, TakeJob, callerVars
<1>7. ASSUME NEW w \in Workers, WorkerExits(w) PROVE JobsInv'
  BY <1>3, <1>4, <1>7 DEF WorkerExits, callerVars, Busy
<1>8. ASSUME NEW w \in Workers, Acquire(w) PROVE JobsInv'
  BY <1>3, <1>4, <1>8 DEF Acquire, callerVars, Busy
<1>9. ASSUME NEW w \in Workers, Read(w) PROVE JobsInv'
  <2>1. \A v \in Workers : Busy(v)' => Busy(v)
    <3>1. CASE wpc' = [wpc EXCEPT ![w] = "send"]
      BY <1>3, <1>9, <3>1 DEF Read, Busy
    <3>2. ASSUME NEW f \in ReadFaults,
                 Release(Bytes(job[w]), [wpc EXCEPT ![w] = IF f = "err" THEN "send" ELSE "exited"])
          PROVE  \A v \in Workers : Busy(v)' => Busy(v)
      <4>1. [wpc EXCEPT ![w] = IF f = "err" THEN "send" ELSE "exited"] \in [Workers -> PCs]
        BY <1>3 DEF PCs
      <4> QED BY <1>0, <1>3, <1>9, <3>2, <4>1, ReleaseBusy DEF Busy, Read
    <3> QED BY <1>9, <3>1, <3>2 DEF Read
  <2> QED BY <1>4, <1>9, <2>1 DEF Read, callerVars
<1>10. ASSUME NEW w \in Workers, SendReady(w) PROVE JobsInv'
  <2>1. Busy(w) /\ job[w] \in Batches /\ job[w] < Taken /\ outcome[w] \in BOOLEAN
    BY <1>10 DEF SendReady, Busy, JobsInv, TypeOK
  <2>2. /\ DOMAIN ready' = 1..(Len(ready) + 1) /\ DOMAIN ready = 1..Len(ready) /\ Len(ready) \in Nat
        /\ \A i \in DOMAIN ready : ready'[i] = ready[i]
        /\ ready'[Len(ready) + 1] = [seq |-> job[w], ok |-> outcome[w]]
    BY <1>2, <1>10, <2>1, AppendFacts DEF SendReady
  <2>3. Taken' = Taken
    BY <1>10 DEF SendReady, Taken
  <2>4. \A i \in DOMAIN ready' : ready'[i].seq < Taken
    BY <2>1, <2>2 DEF JobsInv
  <2>5. \A v \in Workers : Busy(v)' => Busy(v)
    BY <1>3, <1>10 DEF SendReady, Busy
  <2> QED BY <1>1, <1>10, <2>3, <2>4, <2>5 DEF JobsInv, SendReady, callerVars
<1>11. CASE Receive
  <2>1. \A w \in Workers : Busy(w)' = Busy(w)
    BY <1>11 DEF Receive, workerVars, Busy
  <2>2. CASE ready # <<>> /\ ready' = Tail(ready)
    <3>1. /\ Len(ready) \in Nat \ {0} /\ Head(ready) = ready[1]
          /\ DOMAIN ready = 1..Len(ready) /\ DOMAIN ready' = 1..(Len(ready) - 1)
          /\ \A i \in DOMAIN ready' : ready'[i] = ready[i + 1]
      BY <1>2, <2>2, TailFacts
    <3>2. Taken' = Taken
      BY <1>11 DEF Receive, Taken
    <3>3. \A i \in DOMAIN ready' : ready'[i].seq < Taken
      BY <3>1 DEF JobsInv
    <3>4. \A b \in pending' : b < Taken
      <4>1. Head(ready).seq < Taken /\ \A b \in pending : b < Taken
        BY <3>1 DEF JobsInv
      <4>2. pending' = pending \/ pending' = pending \cup {Head(ready).seq}
        BY <1>11, <2>2 DEF Receive
      <4> QED BY <4>1, <4>2
    <3> QED BY <1>1, <1>11, <2>1, <3>2, <3>3, <3>4 DEF JobsInv, Receive, workerVars
  <2>3. CASE ready = <<>> /\ UNCHANGED <<ready, pending>>
    BY <1>4, <1>11, <2>1, <2>3 DEF Receive, workerVars
  <2> QED BY <1>11, <2>2, <2>3 DEF Receive
<1>12. CASE Consume
  <2>1. \A w \in Workers : Busy(w)' => Busy(w)
    BY <1>0, <1>3, <1>12, ReleaseBusy DEF Consume, Busy
  <2> QED BY <1>4, <1>12, <2>1 DEF Consume
<1>13. CASE LoopEnds
  BY <1>4, <1>13 DEF LoopEnds, workerVars, Busy
<1>14. CASE DropPending
  <2>1. \A w \in Workers : Busy(w)' => Busy(w)
    BY <1>0, <1>3, <1>14, ReleaseBusy DEF DropPending, Busy
  <2> QED BY <1>4, <1>14, <2>1 DEF DropPending
<1>15. CASE ScopeJoins
  BY <1>4, <1>15 DEF ScopeJoins, workerVars, Busy
<1>16. CASE UNCHANGED vars
  BY <1>4, <1>16 DEF vars, workerVars, callerVars, Busy
<1> QED
  BY <1>5, <1>6, <1>7, <1>8, <1>9, <1>10, <1>11, <1>12, <1>13, <1>14, <1>15, <1>16
     DEF Next, WorkerStep, CallerStep
\* A batch is never in two places.
LEMMA DistinctStep ==
  ASSUME TypeOK, JobsInv, DistinctInv, [Next]_vars
  PROVE  DistinctInv'
<1>0. call' = call
  BY CallFixed
<1>1. Batches' = Batches /\ Workers' = Workers
  BY <1>0 DEF Batches, Workers
<1>2. /\ jobs \in Seq(Batches) /\ Len(jobs) \in Nat /\ DOMAIN jobs = 1..Len(jobs)
      /\ ready \in Seq([seq : Batches, ok : BOOLEAN])
      /\ DOMAIN ready = 1..Len(ready) /\ Len(ready) \in Nat
      /\ Batches \subseteq Nat /\ Taken \in Int
  BY CallFacts, LenProperties DEF TypeOK, Batches, Taken
<1>3. wpc \in [Workers -> PCs] /\ job \in [Workers -> Nat]
  BY DEF TypeOK, PCs
<1>4. ASSUME UNCHANGED <<job, ready>>, \A b \in pending' : b \in pending,
             \A w \in Workers : Busy(w)' => Busy(w)
      PROVE  DistinctInv'
  BY <1>1, <1>4 DEF DistinctInv
<1>5. CASE SendJob
  BY <1>4, <1>5 DEF SendJob, workerVars, callerVars, Busy
<1>6. ASSUME NEW w \in Workers, TakeJob(w) PROVE DistinctInv'
  <2>1. /\ Len(jobs) \in Nat \ {0} /\ Head(jobs) = jobs[1]
    BY <1>2, <1>6, TailFacts DEF TakeJob
  <2>2. Head(jobs) = Taken
    BY <1>2, <1>6, <2>1 DEF JobsInv
  <2>3. /\ UNCHANGED <<ready, pending>> /\ ~Busy(w) /\ job'[w] = Taken
        /\ \A v \in Workers \ {w} : (Busy(v)' <=> Busy(v)) /\ job'[v] = job[v]
    BY <1>3, <1>6, <2>2 DEF TakeJob, Busy, callerVars
  <2>4. /\ \A v \in Workers : Busy(v) => job[v] # Taken
        /\ \A i \in DOMAIN ready : ready[i].seq # Taken
        /\ Taken \notin pending
    <3> HIDE DEF Taken
    <3>1. \A v \in Workers : Busy(v) => job[v] < Taken /\ job[v] \in Nat
      BY <1>3 DEF JobsInv
    <3>2. \A i \in DOMAIN ready : ready[i].seq < Taken
      BY DEF JobsInv
    <3>3. \A i \in 1..Len(ready) : ready[i] \in [seq : Batches, ok : BOOLEAN]
      BY <1>2, ElementOfSeq
    <3>4. \A i \in DOMAIN ready : ready[i].seq \in Nat
      BY <1>2, <3>3
    <3>5. \A b \in pending : b < Taken
      BY DEF JobsInv
    <3> QED BY <1>2, <3>1, <3>2, <3>4, <3>5
  <2> HIDE DEF Taken, Busy
  <2> QED BY <1>1, <2>3, <2>4 DEF DistinctInv
<1>7. ASSUME NEW w \in Workers, WorkerExits(w) PROVE DistinctInv'
  BY <1>3, <1>4, <1>7 DEF WorkerExits, callerVars, Busy
<1>8. ASSUME NEW w \in Workers, Acquire(w) PROVE DistinctInv'
  BY <1>3, <1>4, <1>8 DEF Acquire, callerVars, Busy
<1>9. ASSUME NEW w \in Workers, Read(w) PROVE DistinctInv'
  <2>1. \A v \in Workers : Busy(v)' => Busy(v)
    <3>1. CASE wpc' = [wpc EXCEPT ![w] = "send"]
      BY <1>3, <1>9, <3>1 DEF Read, Busy
    <3>2. ASSUME NEW f \in ReadFaults,
                 Release(Bytes(job[w]), [wpc EXCEPT ![w] = IF f = "err" THEN "send" ELSE "exited"])
          PROVE  \A v \in Workers : Busy(v)' => Busy(v)
      <4>1. [wpc EXCEPT ![w] = IF f = "err" THEN "send" ELSE "exited"] \in [Workers -> PCs]
        BY <1>3 DEF PCs
      <4> QED BY <1>0, <1>3, <1>9, <3>2, <4>1, ReleaseBusy DEF Busy, Read
    <3> QED BY <1>9, <3>1, <3>2 DEF Read
  <2> QED BY <1>4, <1>9, <2>1 DEF Read, callerVars
<1>10. ASSUME NEW w \in Workers, SendReady(w) PROVE DistinctInv'
  <2>1. job[w] \in Batches /\ outcome[w] \in BOOLEAN
    BY <1>10 DEF SendReady, Busy, JobsInv, TypeOK
  <2>2. /\ DOMAIN ready' = 1..(Len(ready) + 1)
        /\ \A i \in DOMAIN ready : ready'[i] = ready[i]
        /\ ready'[Len(ready) + 1] = [seq |-> job[w], ok |-> outcome[w]]
    BY <1>2, <1>10, <2>1, AppendFacts DEF SendReady
  <2>3. /\ DOMAIN ready' = DOMAIN ready \cup {Len(ready) + 1}
        /\ \A i \in DOMAIN ready : ready'[i].seq = ready[i].seq
        /\ ready'[Len(ready) + 1].seq = job[w]
    BY <1>2, <2>2
  <2>4. /\ UNCHANGED <<job, pending>> /\ Busy(w) /\ ~Busy(w)'
        /\ \A v \in Workers \ {w} : Busy(v)' <=> Busy(v)
    BY <1>3, <1>10 DEF SendReady, Busy, callerVars
  <2> HIDE DEF Busy
  <2>5. \A v \in Workers : Busy(v) /\ v # w => job[v] # job[w]
    BY <2>4 DEF DistinctInv
  <2>6. \A i \in DOMAIN ready : ready[i].seq # job[w]
    BY <2>4 DEF DistinctInv
  <2>7. job[w] \notin pending
    BY <2>4 DEF DistinctInv
  <2> QED BY <1>1, <2>3, <2>4, <2>5, <2>6, <2>7 DEF DistinctInv
<1>11. CASE Receive
  <2>1. \A w \in Workers : Busy(w)' = Busy(w) /\ UNCHANGED job
    BY <1>11 DEF Receive, workerVars, Busy
  <2>2. CASE ready # <<>> /\ ready' = Tail(ready)
    <3>1. /\ Len(ready) \in Nat \ {0} /\ Head(ready) = ready[1]
          /\ DOMAIN ready' = 1..(Len(ready) - 1)
          /\ \A i \in DOMAIN ready' : ready'[i] = ready[i + 1]
      BY <1>2, <2>2, TailFacts
    <3>2. \A i \in DOMAIN ready' : /\ i + 1 \in DOMAIN ready /\ i + 1 # 1 /\ i \in Nat
                                   /\ ready'[i].seq = ready[i + 1].seq
      BY <1>2, <3>1
    <3>3. 1 \in DOMAIN ready
      BY <1>2, <3>1
    <3>4. \A b \in pending' : b \in pending \/ b = ready[1].seq
      BY <1>11, <2>2, <3>1 DEF Receive
    <3> HIDE DEF Busy
    <3>5. \A i, j \in DOMAIN ready' : i # j => ready'[i].seq # ready'[j].seq
      <4> SUFFICES ASSUME NEW i \in DOMAIN ready', NEW j \in DOMAIN ready', i # j
                   PROVE  ready'[i].seq # ready'[j].seq
        OBVIOUS
      <4>1. i + 1 # j + 1
        BY <3>2
      <4>2. ready[i + 1].seq # ready[j + 1].seq
        BY <3>2, <4>1 DEF DistinctInv
      <4> QED BY <3>2, <4>2
    <3>6. \A i \in DOMAIN ready' : ready'[i].seq \notin pending'
      <4> SUFFICES ASSUME NEW i \in DOMAIN ready' PROVE ready'[i].seq \notin pending'
        OBVIOUS
      <4>1. ready[i + 1].seq # ready[1].seq /\ ready[i + 1].seq \notin pending
        BY <3>2, <3>3 DEF DistinctInv
      <4> QED BY <3>2, <3>4, <4>1
    <3>7. \A w \in Workers : \A i \in DOMAIN ready' : Busy(w) => job[w] # ready'[i].seq
      BY <3>2 DEF DistinctInv
    <3>8. \A w \in Workers : Busy(w) => job[w] \notin pending'
      BY <3>3, <3>4 DEF DistinctInv
    <3>9. \A v, w \in Workers : Busy(v) /\ Busy(w) /\ v # w => job[v] # job[w]
      BY DEF DistinctInv
    <3> QED BY <1>1, <2>1, <3>5, <3>6, <3>7, <3>8, <3>9 DEF DistinctInv
  <2>3. CASE ready = <<>> /\ UNCHANGED <<ready, pending>>
    BY <1>4, <1>11, <2>1, <2>3 DEF Receive, workerVars
  <2> QED BY <1>11, <2>2, <2>3 DEF Receive
<1>12. CASE Consume
  <2>1. \A w \in Workers : Busy(w)' => Busy(w)
    BY <1>0, <1>3, <1>12, ReleaseBusy DEF Consume, Busy
  <2> QED BY <1>4, <1>12, <2>1 DEF Consume
<1>13. CASE LoopEnds
  BY <1>4, <1>13 DEF LoopEnds, workerVars, Busy
<1>14. CASE DropPending
  <2>1. \A w \in Workers : Busy(w)' => Busy(w)
    BY <1>0, <1>3, <1>14, ReleaseBusy DEF DropPending, Busy
  <2> QED BY <1>4, <1>14, <2>1 DEF DropPending
<1>15. CASE ScopeJoins
  BY <1>4, <1>15 DEF ScopeJoins, workerVars, Busy
<1>16. CASE UNCHANGED vars
  BY <1>4, <1>16 DEF vars, workerVars, callerVars, Busy
<1> QED
  BY <1>5, <1>6, <1>7, <1>8, <1>9, <1>10, <1>11, <1>12, <1>13, <1>14, <1>15, <1>16
     DEF Next, WorkerStep, CallerStep

\* The call's result is set when its loop ends.
LEMMA LoopStep ==
  ASSUME TypeOK, LoopInv, [Next]_vars
  PROVE  LoopInv'
BY DEF Next, WorkerStep, CallerStep, LoopInv, TypeOK, vars, callerVars, CallerFails, SendJob, TakeJob,
       WorkerExits, Acquire, Read, SendReady, Receive, Consume, LoopEnds, DropPending, ScopeJoins

\* The closure gets the batches in order, and the call ends well only after the last.
LEMMA InOrderStep ==
  ASSUME TypeOK, LoopInv, InOrder, [Next]_vars
  PROVE  InOrder'
<1>0. call' = call
  BY CallFixed
<1>1. CASE UNCHANGED <<delivered, expected, result>>
  BY <1>0, <1>1 DEF InOrder
<1>2. CASE UNCHANGED <<delivered, expected>> /\ result' \in {"err", "panic"}
  BY <1>0, <1>2 DEF InOrder
<1>3. CASE Consume /\ delivered' = Append(delivered, expected) /\ expected' = expected + 1
           /\ UNCHANGED result
  <2>1. /\ delivered \in Seq(Batches) /\ expected \in Nat /\ expected \in Batches
        /\ result = "running"
    BY <1>3, CallFacts DEF Consume, TypeOK, LoopInv
  <2>2. /\ DOMAIN delivered = 1..Len(delivered) /\ Len(delivered) \in Nat
        /\ delivered' \in Seq(Batches) /\ DOMAIN delivered' = 1..(Len(delivered) + 1)
        /\ \A i \in DOMAIN delivered : delivered'[i] = delivered[i]
        /\ delivered'[Len(delivered) + 1] = expected
    BY <1>3, <2>1, AppendFacts
  <2>3. DOMAIN delivered = 1..expected /\ \A i \in 1..expected : delivered[i] = i - 1
    BY DEF InOrder
  <2>4. Len(delivered) = expected
    <3> DEFINE n == Len(delivered)
    <3>1. n \in Nat /\ 1..n = 1..expected
      BY <2>2, <2>3
    <3> HIDE DEF n
    <3>2. n = expected
      BY <2>1, <3>1
    <3> QED BY <3>2 DEF n
  <2>5. \A i \in 1..(expected + 1) : delivered'[i] = i - 1
    <3> SUFFICES ASSUME NEW i \in 1..(expected + 1) PROVE delivered'[i] = i - 1
      OBVIOUS
    <3>1. CASE i = expected + 1
      BY <2>1, <2>2, <2>4, <3>1
    <3>2. CASE i # expected + 1
      <4>1. i \in 1..expected
        BY <2>1, <3>2
      <4> QED BY <2>2, <2>3, <4>1
    <3> QED BY <3>1, <3>2
  <2>6. delivered' = [i \in 1..Len(delivered') |-> delivered'[i]]
    BY <2>2, LenProperties
  <2>7. Len(delivered') = expected + 1
    BY <1>3, <2>1, <2>4, AppendFacts
  <2>8. delivered' = [i \in 1..(expected + 1) |-> i - 1]
    BY <2>5, <2>6, <2>7
  <2> QED BY <1>3, <2>1, <2>8 DEF InOrder
<1>4. CASE LoopEnds
  BY <1>0, <1>4 DEF LoopEnds, InOrder
<1>5. CASE ScopeJoins
  BY <1>0, <1>5 DEF ScopeJoins, InOrder
<1>6. CASE Consume
  BY <1>2, <1>3, <1>6 DEF Consume, CallerFails
<1>7. CASE Receive
  BY <1>1, <1>2, <1>7 DEF Receive, CallerFails
<1>8. CASE DropPending
  BY <1>1, <1>8 DEF DropPending
<1>9. CASE SendJob \/ UNCHANGED vars
  BY <1>1, <1>9 DEF SendJob, vars, callerVars
<1>10. ASSUME NEW w \in Workers, WorkerStep(w) PROVE InOrder'
  BY <1>1, <1>10 DEF WorkerStep, TakeJob, WorkerExits, Acquire, Read, SendReady, callerVars
<1> QED BY <1>4, <1>5, <1>6, <1>7, <1>8, <1>9, <1>10 DEF Next, CallerStep
\* Without a fault no error arises, and no batch gets lost.
LEMMA NoFaultStep ==
  ASSUME TypeOK, JobsInv, NoFaultInv, LoopInv, InOrder, [Next]_vars
  PROVE  NoFaultInv'
<1>0. call' = call
  BY CallFixed
<1>1. Batches' = Batches /\ Workers' = Workers
  BY <1>0 DEF Batches, Workers
<1>2. /\ jobs \in Seq(Batches) /\ Len(jobs) \in Nat /\ DOMAIN jobs = 1..Len(jobs)
      /\ ready \in Seq([seq : Batches, ok : BOOLEAN])
      /\ DOMAIN ready = 1..Len(ready) /\ Len(ready) \in Nat
      /\ Taken \in Int /\ expected \in Nat /\ call.count \in Nat /\ nextJob \in Nat
      /\ call.threads \in Nat \ {0} /\ Batches \subseteq Nat
      /\ \A i \in Batches : Bytes(i) \in Nat /\ Bytes(i) <= call.budget
      /\ call.budget \in Nat
  BY CallFacts, LenProperties DEF TypeOK, Batches, Taken
<1>3. wpc \in [Workers -> PCs] /\ job \in [Workers -> Nat] /\ outcome \in [Workers -> BOOLEAN]
  BY DEF TypeOK, PCs
<1> SUFFICES ASSUME faults' = {}
             PROVE  Clean'
  BY DEF NoFaultInv
<1>4. faults = {}
  BY DEF Next, WorkerStep, CallerStep, vars, callerVars, SendJob, TakeJob, WorkerExits, Acquire, Read,
         SendReady, Receive, Consume, LoopEnds, DropPending, ScopeJoins
<1>5. Clean
  BY <1>4 DEF NoFaultInv
<1>6. ASSUME UNCHANGED <<nextJob, jobs>>
      PROVE  Taken' = Taken
  BY <1>6 DEF Taken
<1>7. ASSUME UNCHANGED <<job, ready, pending>>, \A w \in Workers : Busy(w) => Busy(w)'
      PROVE  \A b : Somewhere(b) => Somewhere(b)'
  BY <1>1, <1>7 DEF Somewhere
<1>8. CASE SendJob
  <2>1. nextJob \in Batches
    BY <1>2, <1>8 DEF SendJob, TypeOK, Batches
  <2>2. Len(jobs') = Len(jobs) + 1
    BY <1>2, <1>8, <2>1, AppendFacts DEF SendJob
  <2>3. Taken' = Taken
    BY <1>2, <1>8, <2>2 DEF SendJob, Taken
  <2>4. \A w \in Workers : wpc[w] # "exited"
    BY <1>2, <1>5, <1>8 DEF SendJob, Clean
  <2>5. \A b : Somewhere(b) => Somewhere(b)'
    BY <1>7, <1>8 DEF SendJob, workerVars, callerVars, Busy
  <2> QED BY <1>1, <1>5, <1>8, <2>3, <2>4, <2>5 DEF SendJob, workerVars, callerVars, Clean
<1>9. ASSUME NEW w \in Workers, TakeJob(w) PROVE Clean'
  <2>1. /\ Len(jobs) \in Nat \ {0} /\ Head(jobs) = jobs[1] /\ Len(jobs') = Len(jobs) - 1
    BY <1>2, <1>9, TailFacts DEF TakeJob
  <2>2. Head(jobs) = Taken /\ Taken' = Taken + 1
    <3>1. 1 \in DOMAIN jobs
      BY <1>2, <2>1
    <3>2. jobs[1] = Taken + 1 - 1
      BY <3>1 DEF JobsInv
    <3>3. Taken' = Taken + 1
      BY <1>2, <1>9, <2>1 DEF TakeJob, Taken
    <3> QED BY <1>2, <2>1, <3>2, <3>3
  <2>3. ~Busy(w) /\ Busy(w)' /\ job'[w] = Taken
        /\ \A v \in Workers \ {w} : (Busy(v)' <=> Busy(v)) /\ job'[v] = job[v]
    BY <1>3, <1>9, <2>2 DEF TakeJob, Busy
  <2> HIDE DEF Busy, Taken
  <2>4. \A b : Somewhere(b) => Somewhere(b)'
    BY <1>1, <1>9, <2>3 DEF Somewhere, TakeJob, callerVars
  <2>5. \A b : b = Taken => Somewhere(b)'
    BY <1>1, <2>3 DEF Somewhere
  <2>6. \A b \in expected'..(Taken' - 1) : Somewhere(b)'
    <3>1. expected' = expected
      BY <1>9 DEF TakeJob, callerVars
    <3>2. \A b \in expected'..(Taken' - 1) : b \in expected..(Taken - 1) \/ b = Taken
      BY <1>2, <2>2, <3>1
    <3> QED BY <1>5, <2>4, <2>5, <3>2 DEF Clean
  <2>7. \A v \in Workers : wpc[v] # "exited"
    BY <1>5, <1>9 DEF TakeJob, Clean
  <2>8. \A v \in Workers : wpc'[v] # "exited" /\ (wpc'[v] = "send" => outcome'[v])
    BY <1>3, <1>5, <1>9, <2>7 DEF TakeJob, Clean
  <2> QED BY <1>1, <1>5, <1>9, <2>6, <2>8 DEF TakeJob, callerVars, Clean
<1>10. ASSUME NEW w \in Workers, WorkerExits(w) PROVE Clean'
  <2>1. \A v \in Workers : Busy(v) => Busy(v)'
    BY <1>3, <1>10 DEF WorkerExits, Busy
  <2>2. \A b \in expected'..(Taken' - 1) : Somewhere(b)'
    BY <1>5, <1>6, <1>7, <1>10, <2>1 DEF WorkerExits, callerVars, Clean
  <2> QED BY <1>0, <1>1, <1>3, <1>5, <1>10, <2>2 DEF WorkerExits, callerVars, Clean
<1>11. ASSUME NEW w \in Workers, Acquire(w) PROVE Clean'
  <2>1. \A v \in Workers : Busy(v) => Busy(v)'
    BY <1>3, <1>11 DEF Acquire, Busy
  <2>2. \A b \in expected'..(Taken' - 1) : Somewhere(b)'
    BY <1>5, <1>6, <1>7, <1>11, <2>1 DEF Acquire, callerVars, Clean
  <2>3. job[w] \in Batches
    BY <1>11 DEF JobsInv, Acquire, Busy
  <2>4. ~(Bytes(job[w]) > call.budget)
    <3>1. Bytes(job[w]) \in Nat /\ Bytes(job[w]) <= call.budget
      BY <1>2, <2>3
    <3> QED BY <1>2, <3>1
  <2>5. \A v \in Workers : (wpc'[v] = "send" => outcome'[v]) /\ (wpc'[v] = "exited" => wpc[v] = "exited")
    BY <1>3, <1>5, <1>11, <2>4 DEF Acquire, Clean
  <2> QED BY <1>0, <1>1, <1>5, <1>11, <2>2, <2>5 DEF Acquire, callerVars, Clean
<1>12. ASSUME NEW w \in Workers, Read(w) PROVE Clean'
  <2>1. wpc' = [wpc EXCEPT ![w] = "send"] /\ outcome' = [outcome EXCEPT ![w] = TRUE]
    BY <1>12 DEF Read
  <2>2. \A v \in Workers : Busy(v) => Busy(v)'
    BY <1>3, <2>1 DEF Busy
  <2>3. \A b \in expected'..(Taken' - 1) : Somewhere(b)'
    BY <1>5, <1>6, <1>7, <1>12, <2>2 DEF Read, callerVars, Clean
  <2>4. \A v \in Workers : (wpc'[v] = "send" => outcome'[v]) /\ (wpc'[v] = "exited" => wpc[v] = "exited")
    BY <1>3, <1>5, <2>1 DEF Clean
  <2> QED BY <1>0, <1>1, <1>5, <1>12, <2>3, <2>4 DEF Read, callerVars, Clean
<1>13. ASSUME NEW w \in Workers, SendReady(w) PROVE Clean'
  <2>1. job[w] \in Batches /\ outcome[w] = TRUE
    BY <1>3, <1>5, <1>13 DEF SendReady, Busy, JobsInv, Clean
  <2>2. /\ DOMAIN ready' = 1..(Len(ready) + 1)
        /\ \A i \in DOMAIN ready : ready'[i] = ready[i]
        /\ ready'[Len(ready) + 1] = [seq |-> job[w], ok |-> outcome[w]]
    BY <1>2, <1>13, <2>1, AppendFacts DEF SendReady
  <2>3. /\ DOMAIN ready' = DOMAIN ready \cup {Len(ready) + 1}
        /\ \A i \in DOMAIN ready : ready'[i].seq = ready[i].seq /\ ready'[i].ok = ready[i].ok
        /\ ready'[Len(ready) + 1].seq = job[w] /\ ready'[Len(ready) + 1].ok
    BY <1>2, <2>1, <2>2
  <2>4. \A v \in Workers \ {w} : Busy(v) => Busy(v)'
    BY <1>3, <1>13 DEF SendReady, Busy
  <2>5. \A b : Somewhere(b) => Somewhere(b)'
    <3> HIDE DEF Busy
    <3> QED BY <1>1, <1>13, <2>3, <2>4 DEF Somewhere, SendReady, callerVars
  <2>6. \A i \in DOMAIN ready' : ready'[i].ok
    BY <1>5, <2>3 DEF Clean
  <2>7. \A v \in Workers : (wpc'[v] = "send" => wpc[v] = "send") /\ (wpc'[v] = "exited" => wpc[v] = "exited")
    BY <1>3, <1>13 DEF SendReady
  <2> QED BY <1>0, <1>1, <1>5, <1>6, <1>13, <2>5, <2>6, <2>7 DEF SendReady, callerVars, Clean
<1>14. CASE Receive
  <2>1. \A w \in Workers : Busy(w) => Busy(w)'
    BY <1>14 DEF Receive, workerVars, Busy
  <2>2. CASE ready # <<>> /\ ready' = Tail(ready)
    <3>1. /\ Len(ready) \in Nat \ {0} /\ Head(ready) = ready[1]
          /\ DOMAIN ready' = 1..(Len(ready) - 1)
          /\ \A i \in DOMAIN ready' : ready'[i] = ready[i + 1]
      BY <1>2, <2>2, TailFacts
    <3>2. Head(ready).ok
      BY <1>2, <1>5, <3>1 DEF Clean
    <3>3. pending' = pending \cup {ready[1].seq} /\ UNCHANGED <<cpc, result>>
      BY <1>14, <2>2, <3>1, <3>2 DEF Receive
    <3>4. \A i \in DOMAIN ready : i = 1 \/ (i - 1 \in DOMAIN ready' /\ ready'[i - 1] = ready[i])
      BY <1>2, <3>1, SMTT(30)
    <3>5. ASSUME NEW b, Somewhere(b) PROVE Somewhere(b)'
      <4>1. CASE b \in pending
        BY <3>3, <4>1 DEF Somewhere
      <4>2. CASE \E i \in DOMAIN ready : ready[i].seq = b
        BY <3>3, <3>4, <4>2 DEF Somewhere
      <4>3. CASE \E w \in Workers : Busy(w) /\ job[w] = b
        BY <1>1, <1>14, <2>1, <4>3 DEF Somewhere, Receive, workerVars
      <4> QED BY <3>5, <4>1, <4>2, <4>3 DEF Somewhere
    <3>6. \A i \in DOMAIN ready' : ready'[i].ok
      BY <1>2, <1>5, <3>1 DEF Clean
    <3> QED BY <1>0, <1>1, <1>5, <1>6, <1>14, <3>3, <3>5, <3>6 DEF Receive, workerVars, Clean
  <2>3. CASE ready = <<>> /\ \A w \in Workers : wpc[w] = "exited"
    <3>1. 1 \in Workers
      BY <1>2 DEF Workers
    <3>2. Taken = call.count
      BY <1>2, <1>5, <2>3, <3>1 DEF Clean, Taken
    <3>3. expected \in expected..(Taken - 1)
      BY <1>2, <1>14, <3>2 DEF Receive
    <3>4. Somewhere(expected)
      BY <1>5, <3>3 DEF Clean
    <3>5. DOMAIN ready = {}
      BY <1>2, <2>3
    <3>6. FALSE
      BY <1>14, <2>3, <3>4, <3>5 DEF Somewhere, Receive, Busy
    <3> QED BY <3>6
  <2> QED BY <1>14, <2>2, <2>3 DEF Receive
<1>15. CASE Consume
  <2>1. /\ Release(Bytes(expected), wpc) /\ expected' = expected + 1
        /\ UNCHANGED <<nextJob, jobs, job, outcome, ready, result>> /\ pending' = pending \ {expected}
    BY <1>15 DEF Consume
  <2>2. \A w \in Workers : Busy(w) => Busy(w)'
    BY <1>0, <1>3, <2>1, ReleaseBusy DEF Busy
  <2>3. \A w \in Workers : (wpc'[w] = "send" => wpc[w] = "send") /\ (wpc'[w] = "exited" => wpc[w] = "exited")
    BY <1>3, <2>1 DEF Release
  <2>4. \A b : Somewhere(b) /\ b # expected => Somewhere(b)'
    BY <1>1, <2>1, <2>2 DEF Somewhere
  <2>5. \A b \in expected'..(Taken' - 1) : Somewhere(b)'
    <3>1. \A b \in expected'..(Taken' - 1) : b \in expected..(Taken - 1) /\ b # expected
      BY <1>2, <1>6, <2>1
    <3> QED BY <1>5, <2>4, <3>1 DEF Clean
  <2> QED BY <1>0, <1>1, <1>5, <2>1, <2>3, <2>5 DEF Clean
<1>16. CASE LoopEnds
  <2>1. \A b : Somewhere(b) => Somewhere(b)'
    BY <1>7, <1>16 DEF LoopEnds, workerVars, Busy
  <2> QED BY <1>0, <1>1, <1>5, <1>6, <1>16, <2>1 DEF LoopEnds, workerVars, Clean
<1>17. CASE DropPending
  <2>1. result = "ok"
    BY <1>5, <1>17 DEF DropPending, LoopInv, Clean
  <2>2. expected = call.count
    BY <2>1 DEF InOrder
  <2>3. nextJob <= call.count
    BY <1>2 DEF TypeOK
  <2>4. expected'..(Taken' - 1) = {}
    BY <1>2, <1>6, <1>17, <2>2, <2>3 DEF DropPending, Taken
  <2>5. \A w \in Workers : (wpc'[w] = "send" => wpc[w] = "send") /\ (wpc'[w] = "exited" => wpc[w] = "exited")
    BY <1>3, <1>17 DEF DropPending, Release
  <2> QED BY <1>0, <1>1, <1>5, <1>17, <2>4, <2>5 DEF DropPending, Clean
<1>18. CASE ScopeJoins
  <2>1. \A b : Somewhere(b) => Somewhere(b)'
    BY <1>7, <1>18 DEF ScopeJoins, workerVars, Busy
  <2> QED BY <1>0, <1>1, <1>4, <1>5, <1>6, <1>18, <2>1 DEF ScopeJoins, workerVars, Clean
<1>19. CASE UNCHANGED vars
  <2>1. \A b : Somewhere(b) => Somewhere(b)'
    BY <1>7, <1>19 DEF vars, workerVars, callerVars, Busy
  <2> QED BY <1>0, <1>1, <1>5, <1>6, <1>19, <2>1 DEF vars, workerVars, callerVars, Clean
<1> QED
  BY <1>8, <1>9, <1>10, <1>11, <1>12, <1>13, <1>14, <1>15, <1>16, <1>17, <1>18, <1>19
     DEF Next, WorkerStep, CallerStep
-----------------------------------------------------------------------------
(* The permits.                                                            *)

Holder(w) == wpc[w] = "read" \/ (wpc[w] = "send" /\ outcome[w])
InReady(b) == \E i \in DOMAIN ready : ready[i].ok /\ ready[i].seq = b

\* A batch holds a permit when a worker that reads or sends it, the ready channel or the
\* caller has it.
LEMMA HoldingIff ==
  ASSUME NEW b
  PROVE  b \in Holding <=> \/ \E w \in Workers : Holder(w) /\ job[w] = b
                           \/ InReady(b)
                           \/ b \in pending
BY DEF Holding, Holder, InReady, Range

\* The batches that hold a permit are batches of the call.
LEMMA HoldingFinite ==
  ASSUME TypeOK, JobsInv
  PROVE  Holding \subseteq Batches /\ IsFiniteSet(Holding) /\ IsFiniteSet(Batches)
<1>1. call.count \in Nat
  BY CallFacts
<1>2. IsFiniteSet(Batches)
  BY <1>1, FS_Interval DEF Batches
<1>3. /\ ready \in Seq([seq : Batches, ok : BOOLEAN]) /\ DOMAIN ready = 1..Len(ready)
  BY LenProperties DEF TypeOK
<1>4. \A i \in 1..Len(ready) : ready[i] \in [seq : Batches, ok : BOOLEAN]
  BY <1>3, ElementOfSeq
<1>5. \A b : InReady(b) => b \in Batches
  BY <1>3, <1>4 DEF InReady
<1>6. \A w \in Workers : Holder(w) => job[w] \in Batches
  BY DEF JobsInv, Busy, Holder
<1>7. pending \subseteq Batches
  BY DEF TypeOK
<1>8. Holding \subseteq Batches
  BY <1>5, <1>6, <1>7, HoldingIff
<1> QED BY <1>2, <1>8, FS_Subset

\* What a step does to the permits and to the workers that want one: nothing is given
\* and nobody starts to wait; a batch that fits gets its permit; a worker whose batch does
\* not fit starts to wait; a batch gives its permit back, which wakes a waiting worker.
StillWaiting(w) == wpc'[w] = "waiting" => wpc[w] = "waiting" /\ job'[w] = job[w]

Kept ==
  /\ Holding' = Holding /\ used' = used /\ Trying \subseteq Trying'
  /\ \A w \in Workers : StillWaiting(w)

Gained(b) ==
  /\ b \in Batches \ Holding /\ Holding' = Holding \cup {b} /\ used' = used + Bytes(b)
  /\ used' <= call.budget /\ Trying \subseteq Trying' \cup {b}
  /\ \A w \in Workers : StillWaiting(w)

Blocked(w) ==
  /\ wpc[w] = "acquire" /\ job[w] \in Batches \ Holding /\ used + Bytes(job[w]) > call.budget
  /\ Holding' = Holding /\ used' = used /\ UNCHANGED job
  /\ \A v \in Workers \ {w} : StillWaiting(v)

Freed(b) ==
  /\ b \in Holding /\ Holding' = Holding \ {b} /\ used' = Max({used - Bytes(b), 0})
  /\ UNCHANGED job
  /\ \/ \A w \in Workers : wpc'[w] # "waiting"
     \/ \E w \in Workers :
          /\ wpc[w] = "waiting" /\ wpc'[w] = "acquire"
          /\ \A v \in Workers \ {w} : /\ wpc'[v] = "waiting" <=> wpc[v] = "waiting"
                                      /\ wpc'[v] = "acquire" <=> wpc[v] = "acquire"

\* The waiting and the trying workers after a release.
LEMMA ReleaseWakes ==
  ASSUME TypeOK, NEW b, NEW pcs \in [Workers -> PCs], Release(Bytes(b), pcs), UNCHANGED job,
         b \in Holding, Holding' = Holding \ {b},
         \A w \in Workers : /\ pcs[w] = "waiting" <=> wpc[w] = "waiting"
                            /\ pcs[w] = "acquire" <=> wpc[w] = "acquire"
  PROVE  Freed(b)
<1>1. used' = Max({used - Bytes(b), 0})
  BY DEF Release
<1>2. CASE wpc' = pcs /\ \A w \in Workers : pcs[w] # "waiting"
  BY <1>1, <1>2 DEF Freed
<1>3. CASE \E w \in Workers : pcs[w] = "waiting" /\ wpc' = [pcs EXCEPT ![w] = "acquire"]
  BY <1>1, <1>3 DEF Freed
<1> QED BY <1>2, <1>3 DEF Release

\* Every step of the pipeline is one of these four, as far as permits are concerned.
LEMMA PermitStep ==
  ASSUME TypeOK, JobsInv, DistinctInv, [Next]_vars
  PROVE  \/ Kept
         \/ \E b : Gained(b)
         \/ \E w \in Workers : Blocked(w)
         \/ \E b : Freed(b)
<1>0. call' = call
  BY CallFixed
<1>1. Batches' = Batches /\ Workers' = Workers
  BY <1>0 DEF Batches, Workers
<1>2. /\ ready \in Seq([seq : Batches, ok : BOOLEAN])
      /\ DOMAIN ready = 1..Len(ready) /\ Len(ready) \in Nat
      /\ used \in Nat /\ call.budget \in Nat
      /\ \A i \in Batches : Bytes(i) \in Nat /\ Bytes(i) <= call.budget
  BY CallFacts, LenProperties DEF TypeOK
<1>3. wpc \in [Workers -> PCs] /\ job \in [Workers -> Nat] /\ outcome \in [Workers -> BOOLEAN]
  BY DEF TypeOK, PCs
<1>4. \A b : b \in Holding <=> \/ \E w \in Workers : Holder(w) /\ job[w] = b
                               \/ InReady(b)
                               \/ b \in pending
  BY HoldingIff
<1>5. \A b : b \in Holding' <=> \/ \E w \in Workers : Holder(w)' /\ job'[w] = b
                                \/ InReady(b)'
                                \/ b \in pending'
  BY <1>1 DEF Holding, Holder, InReady, Range
<1>6. \A b : b \in Trying <=> \E w \in Workers : wpc[w] = "acquire" /\ job[w] = b
  BY DEF Trying
<1>7. \A b : b \in Trying' <=> \E w \in Workers : wpc'[w] = "acquire" /\ job'[w] = b
  BY <1>1 DEF Trying
<1>8. ASSUME NEW w \in Workers, Busy(w) PROVE job[w] \in Batches /\ ~InReady(job[w]) /\ job[w] \notin pending
  BY <1>8 DEF JobsInv, DistinctInv, InReady
<1>9. ASSUME NEW w \in Workers, Busy(w), NEW v \in Workers, Holder(v), job[v] = job[w] PROVE v = w
  BY <1>9 DEF DistinctInv, Busy, Holder
<1>10. CASE /\ UNCHANGED <<wpc, job, outcome, ready, pending, used>>
  <2>1. \A w \in Workers : Holder(w)' <=> Holder(w)
    BY <1>10 DEF Holder
  <2>2. \A b : InReady(b)' <=> InReady(b)
    BY <1>10 DEF InReady
  <2>3. Holding' = Holding
    BY <1>4, <1>5, <1>10, <2>1, <2>2
  <2>4. Trying' = Trying
    BY <1>6, <1>7, <1>10
  <2> QED BY <1>10, <2>3, <2>4 DEF Kept, StillWaiting
<1>11. ASSUME NEW w \in Workers, TakeJob(w) PROVE Kept
  <2>1. \A v \in Workers : /\ Holder(v)' <=> Holder(v)
                           /\ Holder(v) => job'[v] = job[v]
                           /\ wpc[v] = "acquire" => wpc'[v] = "acquire" /\ job'[v] = job[v]
                           /\ StillWaiting(v)
    BY <1>3, <1>11 DEF TakeJob, Holder, StillWaiting
  <2>2. \A b : InReady(b)' <=> InReady(b)
    BY <1>11 DEF TakeJob, InReady
  <2>3. used' = used /\ pending' = pending
    BY <1>11 DEF TakeJob, callerVars
  <2>4. Holding' = Holding
    BY <1>4, <1>5, <2>1, <2>2, <2>3
  <2> QED BY <1>6, <1>7, <2>1, <2>3, <2>4 DEF Kept
<1>12. ASSUME NEW w \in Workers, WorkerExits(w) PROVE Kept
  <2>1. \A v \in Workers : /\ Holder(v)' <=> Holder(v)
                           /\ wpc[v] = "acquire" => wpc'[v] = "acquire"
                           /\ StillWaiting(v)
    BY <1>3, <1>12 DEF WorkerExits, Holder, StillWaiting
  <2>2. \A b : InReady(b)' <=> InReady(b)
    BY <1>12 DEF WorkerExits, InReady
  <2>3. used' = used /\ pending' = pending /\ job' = job
    BY <1>12 DEF WorkerExits, callerVars
  <2>4. Holding' = Holding
    BY <1>4, <1>5, <2>1, <2>2, <2>3
  <2> QED BY <1>6, <1>7, <2>1, <2>3, <2>4 DEF Kept
<1>13. ASSUME NEW w \in Workers, Acquire(w) PROVE Blocked(w) \/ Gained(job[w])
  <2>1. Busy(w) /\ job[w] \in Batches /\ ~Holder(w)
    BY <1>8, <1>13 DEF Acquire, Busy, Holder
  <2>2. job[w] \notin Holding
    BY <1>4, <1>8, <1>9, <2>1
  <2>3. Bytes(job[w]) \in Nat /\ ~(Bytes(job[w]) > call.budget)
    <3>1. Bytes(job[w]) \in Nat /\ Bytes(job[w]) <= call.budget
      BY <1>2, <2>1
    <3> QED BY <1>2, <3>1
  <2>4. \A b : InReady(b)' <=> InReady(b)
    BY <1>13 DEF Acquire, InReady
  <2>5. pending' = pending /\ job' = job
    BY <1>13 DEF Acquire, callerVars
  <2>6. \A v \in Workers \ {w} : (Holder(v)' <=> Holder(v)) /\ StillWaiting(v)
    BY <1>3, <1>13 DEF Acquire, Holder, StillWaiting
  <2>7. CASE used + Bytes(job[w]) <= call.budget
    <3>1. Holder(w)' /\ StillWaiting(w)
      BY <1>3, <1>13, <2>3, <2>7 DEF Acquire, Holder, StillWaiting
    <3>2. Holding' = Holding \cup {job[w]}
      BY <1>4, <1>5, <2>1, <2>4, <2>5, <2>6, <3>1
    <3>3. used' = used + Bytes(job[w])
      BY <1>13, <2>7 DEF Acquire
    <3>4. \A v \in Workers \ {w} : wpc'[v] = wpc[v]
      BY <1>3, <1>13 DEF Acquire
    <3>5. Trying \subseteq Trying' \cup {job[w]}
      BY <1>6, <1>7, <2>5, <3>4
    <3> QED BY <2>1, <2>2, <2>6, <2>7, <3>1, <3>2, <3>3, <3>5 DEF Gained
  <2>8. CASE ~(used + Bytes(job[w]) <= call.budget)
    <3>1. ~Holder(w)' /\ used' = used /\ wpc[w] = "acquire"
      BY <1>3, <1>13, <2>3, <2>8 DEF Acquire, Holder
    <3>2. Holding' = Holding
      BY <1>4, <1>5, <2>1, <2>4, <2>5, <2>6, <3>1
    <3>3. used + Bytes(job[w]) > call.budget
      BY <1>2, <2>3, <2>8
    <3> QED BY <2>1, <2>2, <2>5, <2>6, <3>1, <3>2, <3>3 DEF Blocked
  <2> QED BY <2>7, <2>8
<1>14. ASSUME NEW w \in Workers, Read(w) PROVE Kept \/ Freed(job[w])
  <2>1. Busy(w) /\ Holder(w)
    BY <1>14 DEF Read, Busy, Holder
  <2>2. pending' = pending /\ job' = job /\ (\A b : InReady(b)' <=> InReady(b))
    BY <1>14 DEF Read, callerVars, InReady
  <2>3. CASE wpc' = [wpc EXCEPT ![w] = "send"] /\ outcome' = [outcome EXCEPT ![w] = TRUE] /\ UNCHANGED used
    <3>1. \A v \in Workers : /\ Holder(v)' <=> Holder(v)
                             /\ wpc[v] = "acquire" => wpc'[v] = "acquire"
                             /\ StillWaiting(v)
      BY <1>3, <1>14, <2>2, <2>3 DEF Holder, StillWaiting, Read
    <3>2. Holding' = Holding
      BY <1>4, <1>5, <2>2, <3>1
    <3> QED BY <1>6, <1>7, <2>2, <2>3, <3>1, <3>2 DEF Kept
  <2>4. ASSUME NEW f \in ReadFaults, outcome' = [outcome EXCEPT ![w] = FALSE],
               Release(Bytes(job[w]), [wpc EXCEPT ![w] = IF f = "err" THEN "send" ELSE "exited"])
        PROVE  Freed(job[w])
    <3> DEFINE pcs == [wpc EXCEPT ![w] = IF f = "err" THEN "send" ELSE "exited"]
    <3>1. pcs \in [Workers -> PCs]
      BY <1>3 DEF PCs
    <3>2. \A v \in Workers : /\ pcs[v] = "waiting" <=> wpc[v] = "waiting"
                             /\ pcs[v] = "acquire" <=> wpc[v] = "acquire"
      BY <1>3, <1>14 DEF Read
    <3>3. \A v \in Workers : wpc'[v] = pcs[v] \/ (pcs[v] = "waiting" /\ wpc'[v] = "acquire")
      BY <2>4, <3>1 DEF Release
    <3>4. ~Holder(w)' /\ \A v \in Workers \ {w} : Holder(v)' <=> Holder(v)
      BY <1>3, <2>4, <3>3 DEF Holder
    <3>5. job[w] \in Holding /\ Holding' = Holding \ {job[w]}
      BY <1>4, <1>5, <1>8, <1>9, <2>1, <2>2, <3>4
    <3> HIDE DEF pcs
    <3>6. Release(Bytes(job[w]), pcs)
      BY <2>4 DEF pcs
    <3> QED BY <2>2, <3>1, <3>2, <3>5, <3>6, ReleaseWakes
  <2> QED BY <1>14, <2>3, <2>4 DEF Read
<1>15. ASSUME NEW w \in Workers, SendReady(w) PROVE Kept
  <2>1. Busy(w) /\ job[w] \in Batches /\ outcome[w] \in BOOLEAN
    BY <1>3, <1>8, <1>15 DEF SendReady, Busy
  <2>2. /\ DOMAIN ready' = 1..(Len(ready) + 1)
        /\ \A i \in DOMAIN ready : ready'[i] = ready[i]
        /\ ready'[Len(ready) + 1] = [seq |-> job[w], ok |-> outcome[w]]
    BY <1>2, <1>15, <2>1, AppendFacts DEF SendReady
  <2>3. DOMAIN ready' = DOMAIN ready \cup {Len(ready) + 1}
    BY <1>2, <2>2
  <2>4. \A b : InReady(b)' <=> InReady(b) \/ (outcome[w] /\ b = job[w])
    <3>1. \A i \in DOMAIN ready : ready'[i].seq = ready[i].seq /\ ready'[i].ok = ready[i].ok
      BY <2>2
    <3>2. ready'[Len(ready) + 1].seq = job[w] /\ ready'[Len(ready) + 1].ok = outcome[w]
      BY <2>2
    <3> DEFINE n == Len(ready) + 1
    <3> HIDE DEF n
    <3>3. DOMAIN ready' = DOMAIN ready \cup {n} /\ ready'[n].seq = job[w] /\ ready'[n].ok = outcome[w]
      BY <2>3, <3>2 DEF n
    <3> QED BY <2>1, <3>1, <3>3, Zenon DEF InReady
  <2>5. /\ Holder(w) <=> outcome[w]
        /\ ~Holder(w)' /\ StillWaiting(w) /\ wpc[w] # "acquire"
        /\ \A v \in Workers \ {w} : /\ Holder(v)' <=> Holder(v)
                                    /\ StillWaiting(v)
                                    /\ wpc'[v] = wpc[v]
    BY <1>3, <1>15, <2>1 DEF SendReady, Holder, StillWaiting
  <2>6. used' = used /\ pending' = pending /\ job' = job
    BY <1>15 DEF SendReady, callerVars
  <2>7. Holding' = Holding
    BY <1>4, <1>5, <2>4, <2>5, <2>6
  <2>8. Trying \subseteq Trying'
    BY <1>6, <1>7, <2>5, <2>6
  <2> QED BY <2>5, <2>6, <2>7, <2>8 DEF Kept
<1>16. CASE Receive
  <2>1. UNCHANGED <<used, wpc, job, outcome>>
    BY <1>16 DEF Receive, workerVars
  <2>2. CASE ready # <<>> /\ ready' = Tail(ready)
    <3>1. /\ Len(ready) \in Nat \ {0} /\ Head(ready) = ready[1]
          /\ DOMAIN ready' = 1..(Len(ready) - 1)
          /\ \A i \in DOMAIN ready' : ready'[i] = ready[i + 1]
      BY <1>2, <2>2, TailFacts
    <3>2. /\ 1 \in DOMAIN ready
          /\ \A i \in DOMAIN ready : i = 1 \/ (i - 1 \in DOMAIN ready' /\ ready'[i - 1] = ready[i])
          /\ \A i \in DOMAIN ready' : i + 1 \in DOMAIN ready /\ ready'[i] = ready[i + 1]
      BY <1>2, <3>1
    <3>3. \A b : InReady(b) <=> InReady(b)' \/ (ready[1].ok /\ b = ready[1].seq)
      BY <3>2 DEF InReady
    <3>4. pending' = IF ready[1].ok THEN pending \cup {ready[1].seq} ELSE pending
      BY <1>16, <2>2, <3>1 DEF Receive
    <3>5. \A w \in Workers : Holder(w)' <=> Holder(w)
      BY <2>1 DEF Holder
    <3>6. Holding' = Holding
      BY <1>4, <1>5, <2>1, <3>3, <3>4, <3>5
    <3>7. Trying' = Trying
      BY <1>6, <1>7, <2>1
    <3> QED BY <2>1, <3>6, <3>7 DEF Kept, StillWaiting
  <2>3. CASE UNCHANGED <<ready, pending>>
    BY <1>10, <2>1, <2>3
  <2> QED BY <1>16, <2>2, <2>3 DEF Receive
<1>17. ASSUME NEW b \in pending, pending' = pending \ {b}, Release(Bytes(b), wpc),
              UNCHANGED <<job, outcome, ready>>
       PROVE  Freed(b)
  <2>1. b \in Holding
    BY <1>4, <1>17
  <2>2. \A w \in Workers : wpc'[w] = wpc[w] \/ (wpc[w] = "waiting" /\ wpc'[w] = "acquire")
    BY <1>3, <1>17 DEF Release
  <2>3. \A w \in Workers : Holder(w)' <=> Holder(w)
    BY <1>17, <2>2 DEF Holder
  <2>4. \A c : InReady(c)' <=> InReady(c)
    BY <1>17 DEF InReady
  <2>5. \A w \in Workers : Holder(w) => job[w] # b
    BY <1>8, <1>17 DEF Holder, Busy
  <2>6. ~InReady(b)
    BY <1>17 DEF DistinctInv, InReady
  <2>7. Holding' = Holding \ {b}
    BY <1>4, <1>5, <1>17, <2>3, <2>4, <2>5, <2>6
  <2> QED BY <1>3, <1>17, <2>1, <2>7, ReleaseWakes
<1>18. CASE Consume
  BY <1>17, <1>18 DEF Consume
<1>19. CASE DropPending
  <2>1. CASE pending = {} /\ UNCHANGED <<used, wpc, pending>>
    BY <1>10, <1>19, <2>1 DEF DropPending
  <2>2. CASE /\ pending # {} /\ pending' = pending \ {Min(pending)} /\ Release(Bytes(Min(pending)), wpc)
    BY <1>17, <1>19, <2>2, MinPending DEF DropPending
  <2> QED BY <1>19, <2>1, <2>2 DEF DropPending
<1>20. CASE SendJob \/ LoopEnds \/ ScopeJoins \/ UNCHANGED vars
  BY <1>10, <1>20 DEF SendJob, LoopEnds, ScopeJoins, vars, workerVars, callerVars
<1> QED
  BY <1>11, <1>12, <1>13, <1>14, <1>15, <1>16, <1>18, <1>19, <1>20
     DEF Next, WorkerStep, CallerStep
\* The budget in use is the sum of the live permits, as a sum over a function.
LEMMA PermitsSum ==
  PermitsExact <=> used = Sum(call.bytes, Holding)
BY DEF PermitsExact, Sum, MapThenSumSet, MapThenFoldSet, Bytes

\* Every step adjusts the budget in use by the permit it gives or takes back.
LEMMA PermitsStep ==
  ASSUME TypeOK, JobsInv, DistinctInv, PermitsExact, [Next]_vars
  PROVE  PermitsExact'
<1>0. call' = call
  BY CallFixed
<1>1. SUFFICES used' = Sum(call.bytes, Holding')
  <2>1. PermitsExact' <=> used' = Sum(call'.bytes, Holding')
    BY DEF PermitsExact, Sum, MapThenSumSet, MapThenFoldSet, Bytes
  <2> QED BY <1>0, <2>1
<1>2. used = Sum(call.bytes, Holding)
  BY PermitsSum
<1>3. Holding \subseteq Batches /\ IsFiniteSet(Holding)
  BY HoldingFinite
<1>4. /\ used \in Nat
      /\ \A i \in Batches : call.bytes[i] \in Nat /\ Bytes(i) = call.bytes[i]
  BY CallFacts DEF TypeOK, Bytes
<1>5. CASE Kept
  BY <1>2, <1>5 DEF Kept
<1>6. ASSUME NEW b, Gained(b) PROVE used' = Sum(call.bytes, Holding')
  <2>1. b \in Batches /\ b \notin Holding /\ Holding' = Holding \cup {b} /\ used' = used + call.bytes[b]
    BY <1>4, <1>6 DEF Gained
  <2>2. \A y \in Holding \cup {b} : call.bytes[y] \in Nat
    BY <1>3, <1>4, <2>1
  <2>3. Sum(call.bytes, Holding \cup {b}) = call.bytes[b] + Sum(call.bytes, Holding)
    BY <1>3, <2>1, <2>2, SumAdd
  <2> QED BY <1>2, <1>4, <2>1, <2>3
<1>7. ASSUME NEW w \in Workers, Blocked(w) PROVE used' = Sum(call.bytes, Holding')
  BY <1>2, <1>7 DEF Blocked
<1>8. ASSUME NEW b, Freed(b) PROVE used' = Sum(call.bytes, Holding')
  <2>1. b \in Holding /\ Holding' = Holding \ {b} /\ used' = Max({used - call.bytes[b], 0})
    BY <1>3, <1>4, <1>8 DEF Freed
  <2>2. \A y \in Holding : call.bytes[y] \in Nat
    BY <1>3, <1>4
  <2>3. Sum(call.bytes, Holding) = call.bytes[b] + Sum(call.bytes, Holding \ {b})
    BY <1>3, <2>1, <2>2, SumRemove
  <2>4. IsFiniteSet(Holding \ {b})
    BY <1>3, FS_Subset
  <2>5. Sum(call.bytes, Holding \ {b}) \in Nat
    BY <2>2, <2>4, SumNat
  <2> DEFINE s == Sum(call.bytes, Holding \ {b})
             c == call.bytes[b]
  <2>6. c \in Nat /\ s \in Nat /\ used = c + s
    BY <1>2, <2>1, <2>2, <2>3, <2>5
  <2> HIDE DEF s, c
  <2>7. Max({used - c, 0}) = s
    BY <1>4, <2>6, MaxOfTwo
  <2> QED BY <2>1, <2>7 DEF s, c
<1> QED BY <1>5, <1>6, <1>7, <1>8, PermitStep

-----------------------------------------------------------------------------
(* Why notify_one suffices.  All batches have one size, but the last.      *)

Full(S) == S \ {LastBatch}

\* The budget some batches use.
LEMMA SumUniform ==
  ASSUME TypeOK, call.count # 0, NEW S, S \subseteq Batches
  PROVE  /\ IsFiniteSet(S) /\ Cardinality(Full(S)) \in Nat
         /\ Sum(call.bytes, S) = call.bytes[0] * Cardinality(Full(S))
                                 + (IF LastBatch \in S THEN call.bytes[LastBatch] ELSE 0)
<1>1. /\ call.count \in Nat /\ call.bytes \in [Batches -> Nat \ {0}]
      /\ \A i \in Batches : call.bytes[i] \in Nat /\ (i # LastBatch => call.bytes[i] = call.bytes[0])
  BY CallFacts DEF Bytes
<1>2. IsFiniteSet(S)
  <2>1. IsFiniteSet(Batches)
    BY <1>1, FS_Interval DEF Batches
  <2> QED BY <2>1, FS_Subset
<1> DEFINE s == call.bytes[0]
           C == {T \in SUBSET S : LastBatch \notin T => Sum(call.bytes, T) = s * Cardinality(T)}
<1>3. \A T \in SUBSET S : IsFiniteSet(T) /\ Cardinality(T) \in Nat
  BY <1>2, FS_Subset, FS_CardinalityType
<1>4. s \in Nat
  <2>1. 0 \in Batches
    BY <1>1 DEF Batches
  <2> QED BY <1>1, <2>1
<1>5. ASSUME NEW U \in SUBSET S, \A V \in SUBSET U : V # U => V \in C
      PROVE  U \in C
  <2> SUFFICES ASSUME LastBatch \notin U PROVE Sum(call.bytes, U) = s * Cardinality(U)
    OBVIOUS
  <2>1. CASE U = {}
    <3>1. Sum(call.bytes, U) = 0 /\ Cardinality(U) = 0
      BY <2>1, SumEmpty, FS_EmptySet
    <3>2. s * 0 = 0
      BY <1>4
    <3> QED BY <3>1, <3>2
  <2>2. ASSUME NEW x \in U PROVE Sum(call.bytes, U) = s * Cardinality(U)
    <3>1. Sum(call.bytes, U) = call.bytes[x] + Sum(call.bytes, U \ {x})
      BY <1>1, <1>3, SumRemove
    <3>2. call.bytes[x] = s /\ s \in Nat
      BY <1>1, <1>4
    <3>3. Sum(call.bytes, U \ {x}) = s * Cardinality(U \ {x})
      BY <1>5
    <3>4. Cardinality(U \ {x}) = Cardinality(U) - 1 /\ Cardinality(U) \in Nat /\ Cardinality(U \ {x}) \in Nat
      BY <1>3, FS_RemoveElement
    <3> DEFINE n == Cardinality(U \ {x})
    <3> HIDE DEF n, s
    <3>5. s * (n + 1) = s * n + s
      BY <3>2, <3>4, TimesOne DEF n
    <3>6. s * n \in Nat
      BY <3>2, <3>4 DEF n
    <3>7. Cardinality(U) = n + 1 /\ Sum(call.bytes, U) = s + s * n
      BY <3>1, <3>2, <3>3, <3>4 DEF n
    <3> QED BY <3>2, <3>5, <3>6, <3>7
  <2> QED BY <2>1, <2>2
<1> HIDE DEF s, C
<1>6. ASSUME NEW T \in SUBSET S, LastBatch \notin T PROVE Sum(call.bytes, T) = s * Cardinality(T)
  <2>1. \A U \in SUBSET T : (\A V \in SUBSET U : V # U => V \in C) => U \in C
    BY <1>5
  <2>2. T \in C
    BY <1>3, <2>1, FiniteSetInduction
  <2> QED BY <1>6, <2>2 DEF C
<1>7. Sum(call.bytes, Full(S)) = s * Cardinality(Full(S))
  BY <1>6 DEF Full
<1>8. Cardinality(Full(S)) \in Nat
  BY <1>3 DEF Full
<1>9. CASE LastBatch \in S
  <2>1. Sum(call.bytes, S) = call.bytes[LastBatch] + Sum(call.bytes, S \ {LastBatch})
    BY <1>1, <1>2, <1>9, SumRemove
  <2>2. s * Cardinality(Full(S)) \in Nat /\ call.bytes[LastBatch] \in Nat
    BY <1>1, <1>4, <1>8, <1>9
  <2> QED BY <1>2, <1>7, <1>8, <1>9, <2>1, <2>2 DEF Full, s
<1>10. CASE LastBatch \notin S
  <2>1. Full(S) = S
    BY <1>10 DEF Full
  <2>2. s * Cardinality(Full(S)) + 0 = s * Cardinality(Full(S))
    BY <1>4, <1>8
  <2> QED BY <1>2, <1>7, <1>8, <1>10, <2>1, <2>2 DEF s
<1> QED BY <1>9, <1>10
\* A batch that fits finds a free slot, and one that does not finds the slots taken.  The
\* last batch, when it is small enough, needs no slot.
LEMMA FitLemma ==
  ASSUME TypeOK, NEW H, H \subseteq Batches, NEW b \in Batches \ H,
         Sum(call.bytes, H) <= call.budget
  PROVE  /\ Slots \in Nat /\ IsFiniteSet(Counted(H)) /\ Cardinality(Counted(H)) \in Nat
         /\ (Sum(call.bytes, H) + Bytes(b) <= call.budget /\ (LastFits => b # LastBatch))
              => Cardinality(Counted(H)) + 1 <= Slots
         /\ Sum(call.bytes, H) + Bytes(b) > call.budget
              => Cardinality(Counted(H)) >= Slots /\ (LastFits => b # LastBatch)
<1> DEFINE s == call.bytes[0]
           l == call.bytes[LastBatch]
           n == Cardinality(Full(H))
           k == Slots
           M == call.budget
           u == Sum(call.bytes, H)
           c == call.bytes[b]
<1>1. call.count \in Nat \ {0} /\ 0 \in Batches /\ LastBatch \in Batches
  BY CallFacts DEF Batches, LastBatch
<1>2. /\ s \in Nat \ {0} /\ l \in Nat \ {0} /\ l <= s /\ M \in Nat
      /\ c = IF b = LastBatch THEN l ELSE s
  BY <1>1, CallFacts DEF Bytes
<1>3. /\ IsFiniteSet(H) /\ n \in Nat
      /\ u = s * n + (IF LastBatch \in H THEN l ELSE 0)
  BY <1>1, SumUniform
<1>4. k \in Nat /\ s * k <= M /\ M < s * k + s
  BY <1>2, DivFacts DEF Slots
<1>5. LastFits <=> s * k + l <= M
  BY DEF LastFits
<1>6. IsFiniteSet(Full(H)) /\ IsFiniteSet(H) /\ Cardinality(H) \in Nat
      /\ Cardinality(H) = IF LastBatch \in H THEN n + 1 ELSE n
  <2>1. CASE LastBatch \in H
    <3>1. IsFiniteSet(H \ {LastBatch}) /\ Cardinality(H \ {LastBatch}) = Cardinality(H) - 1
          /\ Cardinality(H) \in Nat
      BY <1>3, <2>1, FS_RemoveElement, FS_CardinalityType
    <3> QED BY <1>3, <2>1, <3>1 DEF Full
  <2>2. CASE LastBatch \notin H
    <3>1. Full(H) = H
      BY <2>2 DEF Full
    <3> QED BY <1>3, <2>2, <3>1, FS_CardinalityType
  <2> QED BY <2>1, <2>2
<1>7. /\ IsFiniteSet(Counted(H)) /\ Cardinality(Counted(H)) \in Nat
      /\ Cardinality(Counted(H)) = IF LastFits \/ LastBatch \notin H THEN n ELSE n + 1
  <2>1. LastFits => Counted(H) = Full(H)
    BY DEF Counted, Full
  <2>2. ~LastFits => Counted(H) = H
    BY DEF Counted
  <2> QED BY <1>3, <1>6, <2>1, <2>2
<1>8. Bytes(b) = c /\ u <= M /\ (b = LastBatch => LastBatch \notin H)
  BY DEF Bytes
<1> HIDE DEF s, l, n, k, M, u, c
<1> DEFINE P == s * n
           Q == s * k
           m == Cardinality(Counted(H))
<1>9. P \in Nat /\ Q \in Nat
  BY <1>2, <1>3, <1>4
<1>10. /\ P + s < Q + s => n + 1 <= k
       /\ Q < P + s => k <= n
       /\ Q < P + s + s => k <= n + 1
       /\ P < Q + s => n <= k
  <2>1. s * (n + 1) = P + s /\ s * (n + 2) = P + s + s
    BY <1>2, <1>3
  <2>2. (s * (n + 1) < s * k + s => n + 1 <= k) /\ (s * n < s * k + s => n <= k)
    BY <1>2, <1>3, <1>4, TimesCancel
  <2>3. s * k < s * n + s => k <= n
    BY <1>2, <1>3, <1>4, TimesCancel
  <2>4. s * k < s * (n + 1) + s => k <= n + 1
    BY <1>2, <1>3, <1>4, TimesCancel
  <2>5. (P + s < Q + s => n + 1 <= k) /\ (P < Q + s => n <= k)
    BY <2>1, <2>2
  <2> QED BY <2>1, <2>3, <2>4, <2>5
<1>11. /\ P + 2 * s <= M => n + 2 <= k
       /\ P + s <= M => n + 1 <= k
  <2>1. s * (n + 1) = P + s /\ s * (n + 2) = P + s + s
    BY <1>2, <1>3
  <2>2. (s * (n + 1) < s * k + s => n + 1 <= k) /\ (s * (n + 2) < s * k + s => n + 2 <= k)
    BY <1>2, <1>3, <1>4, TimesCancel
  <2> HIDE DEF P
  <2>3. (P + s < s * k + s => n + 1 <= k) /\ (P + s + s < s * k + s => n + 2 <= k)
    BY <2>1, <2>2
  <2> QED BY <1>2, <1>4, <1>9, <2>3
<1>12. M < Q + s /\ Q <= M /\ u = P + (IF LastBatch \in H THEN l ELSE 0) /\ (LastFits <=> Q + l <= M)
  BY <1>3, <1>4, <1>5
<1> HIDE DEF P, Q, m
<1>13. /\ P + s < Q + s => n + 1 <= k
       /\ P + s <= M => n + 1 <= k
       /\ Q < P + s => k <= n
       /\ Q < P + s + s => k <= n + 1
       /\ P < Q + s => n <= k
  BY <1>10, <1>11
<1>14. ASSUME u + c <= M, LastFits => b # LastBatch PROVE m + 1 <= k
  <2>1. CASE LastFits
    BY <1>2, <1>3, <1>4, <1>7, <1>8, <1>9, <1>12, <1>13, <1>14, <2>1 DEF m
  <2>2. CASE ~LastFits /\ LastBatch \notin H /\ b # LastBatch
    BY <1>2, <1>3, <1>4, <1>7, <1>8, <1>9, <1>12, <1>13, <1>14, <2>2 DEF m
  <2>3. CASE ~LastFits /\ b = LastBatch
    BY <1>2, <1>3, <1>4, <1>7, <1>8, <1>9, <1>12, <1>13, <1>14, <2>3 DEF m
  <2>4. CASE ~LastFits /\ LastBatch \in H
    <3>1. P + l + s <= M /\ M < Q + l
      BY <1>2, <1>3, <1>4, <1>7, <1>8, <1>9, <1>12, <1>14, <2>4
    <3>2. P + s < Q
      BY <1>2, <1>9, <3>1
    <3>3. s * (n + 1) + s = P + s + s /\ (s * (n + 1) + s < s * k + s => n + 2 <= k)
      <4>1. s * (n + 1) + s = s * (n + 2) /\ s * (n + 2) = s * n + s + s
        BY <1>2, <1>3
      <4>2. s * (n + 2) < s * k + s => n + 2 <= k
        BY <1>2, <1>3, <1>4, TimesCancel
      <4> QED BY <4>1, <4>2 DEF P
    <3>4. n + 2 <= k
      <4>1. P + s + s < Q + s
        BY <1>2, <1>9, <3>2
      <4> QED BY <3>3, <4>1 DEF Q
    <3>5. m = n + 1
      BY <1>7, <2>4 DEF m
    <3> QED BY <1>3, <1>4, <3>4, <3>5
  <2> QED BY <1>8, <2>1, <2>2, <2>3, <2>4
<1>15. ASSUME u + c > M PROVE m >= k /\ (LastFits => b # LastBatch)
  <2>1. CASE LastFits /\ b = LastBatch
    <3>1. P + l > M /\ Q + l <= M /\ P <= M
      BY <1>2, <1>3, <1>4, <1>7, <1>8, <1>9, <1>12, <1>15, <2>1
    <3>2. Q < P
      BY <1>2, <1>9, <3>1
    <3>3. M >= Q + s
      <4>1. s * (k + 1) = s * k + s /\ (s * n < s * (k + 1) => n <= k)
        BY <1>2, <1>3, <1>4, TimesCancel
      <4>2. s * k < s * n => k + 1 <= n
        <5>1. s * (k + 1) = s * k + s
          BY <1>2, <1>4
        <5>2. s * (k + 1) < s * n + s => k + 1 <= n
          BY <1>2, <1>3, <1>4, TimesCancel
        <5> QED BY <1>2, <1>9, <5>1, <5>2 DEF P, Q
      <4>3. k + 1 <= n
        BY <3>2, <4>2 DEF P, Q
      <4>4. s * (k + 1) <= s * n
        BY <1>2, <1>3, <1>4, <4>3, TimesMonotone
      <4>5. Q + s <= P
        BY <4>1, <4>4 DEF P, Q
      <4> QED BY <1>2, <1>9, <3>1, <4>5
    <3> QED BY <1>2, <1>9, <1>12, <3>3
  <2>2. CASE LastFits /\ b # LastBatch
    <3>1. Q < P + s
      BY <1>2, <1>3, <1>9, <1>12, <1>15, <2>2
    <3> QED BY <1>7, <1>13, <2>2, <3>1 DEF m
  <2>3. CASE ~LastFits /\ LastBatch \notin H
    <3>1. Q < P + s
      BY <1>2, <1>3, <1>9, <1>12, <1>15, <2>3
    <3> QED BY <1>7, <1>13, <2>3, <3>1 DEF m
  <2>4. CASE ~LastFits /\ LastBatch \in H
    <3>1. Q < P + s + s
      BY <1>2, <1>3, <1>8, <1>9, <1>12, <1>15, <2>4
    <3> QED BY <1>7, <1>13, <2>4, <3>1 DEF m
  <2> QED BY <2>1, <2>2, <2>3, <2>4
<1> QED BY <1>4, <1>7, <1>8, <1>14, <1>15 DEF m, k, u, c, M
\* More batches count for more.
LEMMA CountedGrows ==
  ASSUME NEW Y, IsFiniteSet(Y), NEW X, X \subseteq Y
  PROVE  /\ IsFiniteSet(Counted(X)) /\ Cardinality(Counted(X)) \in Nat
         /\ Cardinality(Counted(Y)) \in Nat /\ Cardinality(Counted(X)) <= Cardinality(Counted(Y))
<1>1. Counted(X) \subseteq Counted(Y) /\ Counted(Y) \subseteq Y
  BY DEF Counted
<1>2. IsFiniteSet(Counted(Y))
  BY <1>1, FS_Subset
<1> QED BY <1>1, <1>2, FS_Subset, FS_CardinalityType

\* The batches of the waiting workers hold no permit and are not being tried.
LEMMA WaitingOutside ==
  ASSUME TypeOK, JobsInv, DistinctInv, NEW w \in Workers, wpc[w] \in {"waiting", "acquire"}
  PROVE  /\ job[w] \in Batches /\ job[w] \notin Holding
         /\ wpc[w] = "waiting" => job[w] \notin Trying
<1>1. Busy(w) /\ ~Holder(w)
  BY DEF Busy, Holder
<1>2. job[w] \in Batches /\ ~InReady(job[w]) /\ job[w] \notin pending
  BY <1>1 DEF JobsInv, DistinctInv, InReady
<1>3. \A v \in Workers : Holder(v) => job[v] # job[w]
  BY <1>1 DEF DistinctInv, Busy, Holder
<1>4. wpc[w] = "waiting" => job[w] \notin Trying
  BY <1>1 DEF DistinctInv, Busy, Trying
<1> QED BY <1>2, <1>3, <1>4, HoldingIff

\* Waiting workers find the budget filled by those that hold permits or are about to try.
LEMMA WakeStep ==
  ASSUME TypeOK, JobsInv, DistinctInv, PermitsExact, WakeInv, [Next]_vars
  PROVE  WakeInv'
<1> DEFINE A == Holding \cup Trying
           B == Holding' \cup Trying'
<1>0. call' = call
  BY CallFixed
<1>1. Batches' = Batches /\ Workers' = Workers /\ Slots' = Slots /\ LastBatch' = LastBatch /\ LastFits' = LastFits
  BY <1>0 DEF Batches, Workers, Slots, LastBatch, LastFits
<1>2. Counted(Holding \cup Trying)' = Counted(B)
  BY <1>1 DEF Counted
<1>3. SUFFICES ASSUME NEW w \in Workers, wpc'[w] = "waiting"
               PROVE  (LastFits => job'[w] # LastBatch) /\ Cardinality(Counted(B)) >= Slots
  BY <1>1, <1>2 DEF WakeInv
<1>4. TypeOK' /\ JobsInv'
  BY TypeStep, JobsStep
<1>5. Holding \subseteq Batches /\ IsFiniteSet(Batches)
  BY HoldingFinite
<1>6. A \subseteq Batches /\ IsFiniteSet(A)
  <2>1. Trying \subseteq Batches
    BY DEF Trying, JobsInv, Busy
  <2> QED BY <1>5, <2>1, FS_Subset
<1>7. Trying' \subseteq Batches
  BY <1>1, <1>4 DEF Trying, JobsInv, Busy
<1>8. ASSUME Holding' \subseteq Batches PROVE IsFiniteSet(B)
  BY <1>5, <1>7, <1>8, FS_Subset
<1>9. Cardinality(Counted(A)) \in Nat /\ IsFiniteSet(Counted(A))
  BY <1>6, CountedGrows
<1>10. \A v \in Workers : wpc[v] = "waiting" =>
         (LastFits => job[v] # LastBatch) /\ Cardinality(Counted(A)) >= Slots
  BY DEF WakeInv
<1>11. call.budget \in Nat /\ used \in Nat /\ used <= call.budget /\ used = Sum(call.bytes, Holding)
  BY CallFacts, PermitsSum DEF TypeOK
<1>12. ASSUME NEW b \in Batches \ Holding
       PROVE  /\ Slots \in Nat /\ Cardinality(Counted(Holding)) \in Nat
              /\ used + Bytes(b) > call.budget
                   => Cardinality(Counted(Holding)) >= Slots /\ (LastFits => b # LastBatch)
  BY <1>5, <1>11, FitLemma
<1>13. ASSUME A \subseteq B, IsFiniteSet(B), StillWaiting(w)
       PROVE  (LastFits => job'[w] # LastBatch) /\ Cardinality(Counted(B)) >= Slots
  <2>1. wpc[w] = "waiting" /\ job'[w] = job[w]
    BY <1>3, <1>13 DEF StillWaiting
  <2>2. (LastFits => job[w] # LastBatch) /\ Cardinality(Counted(A)) >= Slots
    BY <1>10, <2>1
  <2>3. /\ Cardinality(Counted(A)) <= Cardinality(Counted(B))
        /\ Cardinality(Counted(B)) \in Nat
    BY <1>13, CountedGrows
  <2>4. job[w] \in Batches \ Holding
    BY <2>1, WaitingOutside
  <2>5. Slots \in Nat
    BY <1>12, <2>4
  <2> HIDE DEF A, B
  <2>6. Cardinality(Counted(B)) >= Slots
    BY <1>9, <2>2, <2>3, <2>5
  <2> QED BY <2>1, <2>2, <2>6
<1>14. CASE Kept
  <2>1. A \subseteq B /\ Holding' \subseteq Batches
    BY <1>5, <1>14 DEF Kept
  <2> QED BY <1>8, <1>13, <1>14, <2>1 DEF Kept
<1>15. ASSUME NEW b, Gained(b)
       PROVE  (LastFits => job'[w] # LastBatch) /\ Cardinality(Counted(B)) >= Slots
  <2>1. A \subseteq B /\ Holding' \subseteq Batches
    BY <1>5, <1>15 DEF Gained
  <2> QED BY <1>8, <1>13, <1>15, <2>1 DEF Gained
<1>16. ASSUME NEW x \in Workers, Blocked(x)
       PROVE  (LastFits => job'[w] # LastBatch) /\ Cardinality(Counted(B)) >= Slots
  <2>1. /\ job[x] \in Batches \ Holding /\ used + Bytes(job[x]) > call.budget
        /\ Holding' = Holding /\ job' = job /\ (w # x => StillWaiting(w))
    BY <1>16 DEF Blocked
  <2>2. /\ Slots \in Nat /\ Cardinality(Counted(Holding)) \in Nat
        /\ Cardinality(Counted(Holding)) >= Slots /\ (LastFits => job[x] # LastBatch)
    BY <1>12, <2>1
  <2>3. /\ Cardinality(Counted(Holding)) <= Cardinality(Counted(B))
        /\ Cardinality(Counted(B)) \in Nat
    BY <1>5, <1>8, <2>1, CountedGrows
  <2>4. LastFits => job'[w] # LastBatch
    BY <1>3, <1>10, <2>1, <2>2 DEF StillWaiting
  <2> HIDE DEF B
  <2> QED BY <2>2, <2>3, <2>4
<1>17. ASSUME NEW b, Freed(b)
       PROVE  (LastFits => job'[w] # LastBatch) /\ Cardinality(Counted(B)) >= Slots
  <2>1. /\ Holding' = Holding \ {b} /\ job' = job
    BY <1>17 DEF Freed
  <2>2. PICK x \in Workers :
          /\ wpc[x] = "waiting" /\ wpc'[x] = "acquire"
          /\ \A v \in Workers \ {x} : /\ wpc'[v] = "waiting" <=> wpc[v] = "waiting"
                                      /\ wpc'[v] = "acquire" <=> wpc[v] = "acquire"
    BY <1>3, <1>17 DEF Freed
  <2>3. wpc[w] = "waiting"
    BY <1>3, <2>2
  <2>4. (LastFits => job[w] # LastBatch) /\ (LastFits => job[x] # LastBatch) /\ Cardinality(Counted(A)) >= Slots
    BY <1>10, <2>2, <2>3
  <2>5. job[x] \in Batches /\ job[x] \notin Holding /\ job[x] \notin Trying
    BY <2>2, WaitingOutside
  <2>6. Slots \in Nat
    BY <1>12, <2>5
  <2> DEFINE E == Counted(A) \ {b}
             F == E \cup {job[x]}
  <2>7. IsFiniteSet(E) /\ Cardinality(E) \in Nat /\ Cardinality(E) >= Cardinality(Counted(A)) - 1
    <3>1. CASE b \in Counted(A)
      <4>1. IsFiniteSet(E) /\ Cardinality(E) = Cardinality(Counted(A)) - 1
        BY <1>9, <3>1, FS_RemoveElement
      <4>2. Cardinality(E) \in Nat
        BY <4>1, FS_CardinalityType
      <4> QED BY <1>9, <4>1, <4>2
    <3>2. CASE b \notin Counted(A)
      <4>1. E = Counted(A)
        BY <3>2
      <4> HIDE DEF E, A
      <4>2. Cardinality(E) \in Nat /\ Cardinality(E) = Cardinality(Counted(A)) /\ IsFiniteSet(E)
        BY <1>9, <4>1
      <4> QED BY <4>2
    <3> QED BY <3>1, <3>2
  <2>8. job[x] \notin E
    BY <2>5 DEF Counted
  <2>9. IsFiniteSet(F) /\ Cardinality(F) = Cardinality(E) + 1
    BY <2>7, <2>8, FS_AddElement
  <2>10. Trying' = Trying \cup {job[x]}
    BY <1>1, <2>1, <2>2 DEF Trying
  <2>11. F \subseteq Counted(B)
    BY <2>1, <2>4, <2>10 DEF Counted
  <2>12. IsFiniteSet(B)
    BY <1>5, <1>8, <2>1
  <2>13. IsFiniteSet(Counted(B)) /\ Cardinality(Counted(B)) \in Nat
    BY <2>12, CountedGrows
  <2>14. Cardinality(F) <= Cardinality(Counted(B))
    BY <2>11, <2>13, FS_Subset
  <2>15. LastFits => job'[w] # LastBatch
    BY <2>1, <2>4
  <2> HIDE DEF A, B, E, F
  <2>16. Cardinality(Counted(B)) >= Slots
    BY <1>9, <2>4, <2>6, <2>7, <2>9, <2>13, <2>14
  <2> QED BY <2>15, <2>16
<1> QED BY <1>14, <1>15, <1>16, <1>17, PermitStep

\* While a waiter's batch would fit, another worker is about to try for a permit.
LEMMA WakeSuffices ==
  ASSUME TypeOK, JobsInv, DistinctInv, PermitsExact, WakeInv
  PROVE  NoLostWakeup
<1> SUFFICES ASSUME NEW w \in Workers, wpc[w] = "waiting", used + Bytes(job[w]) <= call.budget,
                    \A v \in Workers : wpc[v] # "acquire"
             PROVE  FALSE
  BY DEF NoLostWakeup
<1>1. Trying = {}
  BY DEF Trying
<1>2. (LastFits => job[w] # LastBatch) /\ Cardinality(Counted(Holding \cup Trying)) >= Slots
  BY DEF WakeInv
<1>3. job[w] \in Batches \ Holding
  BY WaitingOutside
<1>4. Holding \subseteq Batches
  BY HoldingFinite
<1>5. used = Sum(call.bytes, Holding) /\ used <= call.budget
  BY CallFacts, PermitsSum DEF TypeOK
<1>6. /\ Slots \in Nat /\ Cardinality(Counted(Holding)) \in Nat
      /\ Cardinality(Counted(Holding)) + 1 <= Slots
  BY <1>2, <1>3, <1>4, <1>5, FitLemma
<1>7. Holding \cup Trying = Holding
  BY <1>1
<1>8. Cardinality(Counted(Holding)) >= Slots
  BY <1>2, <1>7
<1> QED BY <1>6, <1>8
-----------------------------------------------------------------------------
(* The theorems.                                                           *)

\* A call starts in the invariant.
LEMMA InitEstablishes == Init => IInv
<1> SUFFICES ASSUME Init PROVE IInv
  OBVIOUS
<1>1. PICK c \in Configs : call = Sizes(c)
  BY DEF Init
<1>2. /\ call.count \in Nat /\ call.budget \in Nat \ {0} /\ call.threads \in Nat \ {0}
      /\ call.depth \in Nat \ {0}
  BY <1>1, SizesFacts
<1>3. jobs = <<>> /\ ready = <<>> /\ delivered = <<>> /\ pending = {}
  BY DEF Init
<1>4. /\ <<>> \in Seq(Batches) /\ <<>> \in Seq([seq : Batches, ok : BOOLEAN]) /\ Len(<<>>) = 0
      /\ DOMAIN <<>> = {}
  OBVIOUS
<1>5. TypeOK
  <2>1. /\ used \in 0..call.budget /\ nextJob \in 0..call.count /\ expected \in 0..call.count
        /\ Len(jobs) <= call.depth /\ Len(ready) <= call.depth
    BY <1>2, <1>3, <1>4 DEF Init
  <2>2. jobs \in Seq(Batches) /\ ready \in Seq([seq : Batches, ok : BOOLEAN]) /\ delivered \in Seq(Batches)
    BY <1>3, <1>4
  <2> QED BY <1>1, <2>1, <2>2 DEF Init, TypeOK
<1>6. Taken = 0
  <2>1. nextJob = 0 /\ Len(jobs) = 0
    BY <1>3, <1>4 DEF Init
  <2> QED BY <2>1 DEF Taken
<1>7. \A w \in Workers : wpc[w] = "idle" /\ ~Busy(w)
  BY DEF Init, Busy
<1>8. JobsInv /\ DistinctInv /\ WakeInv
  BY <1>3, <1>4, <1>7 DEF JobsInv, DistinctInv, WakeInv
<1>9. LoopInv
  BY DEF Init, LoopInv
<1>10. InOrder
  <2>1. expected = 0 /\ (result = "ok" => call.count = 0)
    BY DEF Init
  <2>2. [i \in 1..0 |-> i - 1] = <<>>
    OBVIOUS
  <2> QED BY <1>3, <2>1, <2>2 DEF InOrder
<1>11. NoFaultInv
  <2>1. expected..(Taken - 1) = {}
    BY <1>6 DEF Init
  <2>2. result \in {"running", "ok"}
    BY DEF Init
  <2> QED BY <1>3, <1>4, <1>7, <2>1, <2>2 DEF NoFaultInv, Clean
<1>12. PermitsExact
  <2>1. Holding = {}
    BY <1>3, <1>4, <1>7, HoldingIff DEF Holder, InReady
  <2>2. used = 0
    BY DEF Init
  <2> QED BY <2>1, <2>2, SumEmpty, PermitsSum
<1> QED BY <1>5, <1>8, <1>9, <1>10, <1>11, <1>12 DEF IInv

\* Every step keeps the invariant.
LEMMA StepPreserves == IInv /\ [Next]_vars => IInv'
<1> SUFFICES ASSUME IInv, [Next]_vars PROVE IInv'
  OBVIOUS
<1>1. TypeOK /\ JobsInv /\ DistinctInv /\ NoFaultInv /\ LoopInv /\ InOrder /\ PermitsExact /\ WakeInv
  BY DEF IInv
<1>2. TypeOK' /\ JobsInv' /\ DistinctInv'
  BY <1>1, TypeStep, JobsStep, DistinctStep
<1>3. NoFaultInv' /\ LoopInv' /\ InOrder'
  BY <1>1, NoFaultStep, LoopStep, InOrderStep
<1>4. PermitsExact' /\ WakeInv'
  BY <1>1, PermitsStep, WakeStep
<1> QED BY <1>2, <1>3, <1>4 DEF IInv

\* The inductive invariant holds in every state of every call.
LEMMA Invariance == Spec => []IInv
BY InitEstablishes, StepPreserves, PTL DEF Spec

\* Every variable keeps its type: in particular the budget in use never exceeds the budget
\* (PointPipelineBudget::acquire) and neither channel its depth.
THEOREM TypeCorrect == Spec => []TypeOK
<1>1. IInv => TypeOK
  BY DEF IInv
<1> QED BY <1>1, Invariance, PTL

\* No permit leaks and none is given back twice: the budget in use is the sum of the live
\* permits, whatever the reads and the closure do.
THEOREM PermitsAreExact == Spec => []PermitsExact
<1>1. IInv => PermitsExact
  BY DEF IInv
<1> QED BY <1>1, Invariance, PTL

\* PointPipelineBudget::release may use notify_one: in every call, with any number of
\* workers, a waiter whose batch fits is never left alone with nobody about to try.
THEOREM NoWakeupIsLost == Spec => []NoLostWakeup
<1>1. IInv => NoLostWakeup
  BY WakeSuffices DEF IInv
<1> QED BY <1>1, Invariance, PTL

\* The closure of for_each_pipelined_point_batch sees the batches in input order, each
\* once, and all of them when the call returns without an error.
THEOREM DeliveredInOrder == Spec => []InOrder
<1>1. IInv => InOrder
  BY DEF IInv
<1> QED BY <1>1, Invariance, PTL

\* A call whose reads and closure do not fail does not fail.
THEOREM ErrorsHaveAFault == Spec => []NoSpuriousError
<1>1. IInv => NoSpuriousError
  BY DEF IInv, NoFaultInv, Clean, NoSpuriousError
<1> QED BY <1>1, Invariance, PTL
=============================================================================
