------------------------ MODULE LeafSchedulerProof ------------------------
(***************************************************************************)
(* Proofs about LeafScheduler, for every number of leaves, emitters and    *)
(* drainers, every capacity and every policy.                              *)
(***************************************************************************)
EXTENDS LeafScheduler, DataTheorems

-----------------------------------------------------------------------------
(* Facts about the operators the model is built from.                      *)

\* The least element of a non-empty set of naturals is one of its elements.
LEMMA MinOfNat ==
  ASSUME NEW S, S \subseteq Nat, S # {}
  PROVE  Min(S) \in S
<1> DEFINE less == {ss \in Nat \X Nat : ss[1] < ss[2]}
<1>1. IsWellFoundedOn(less, Nat)
  BY NatLessThanWellFounded DEF OpToRel
<1> HIDE DEF less
<1>2. PICK x \in S : \A y \in S : ~(<<y, x>> \in less)
  BY <1>1, WFMin
<1>3. ASSUME NEW y \in S PROVE x <= y
  <2>1. <<y, x>> \in Nat \X Nat
    OBVIOUS
  <2>2. <<y, x>> \notin less
    BY <1>2
  <2>3. ~(y < x)
    BY <2>1, <2>2 DEF less
  <2> QED BY <2>3
<1> QED BY <1>2, <1>3 DEF Min

\* Pushing a leaf adds it to the queued leaves.
LEMMA RangeAppend ==
  ASSUME NEW S, NEW s \in Seq(S), NEW x \in S
  PROVE  Range(Append(s, x)) = Range(s) \cup {x}
<1>1. /\ Append(s, x) \in Seq(S)
      /\ Len(Append(s, x)) = Len(s) + 1
      /\ \A i \in 1..Len(s) : Append(s, x)[i] = s[i]
      /\ Append(s, x)[Len(s) + 1] = x
  BY AppendProperties
<1>2. DOMAIN s = 1..Len(s) /\ DOMAIN Append(s, x) = 1..(Len(s) + 1) /\ Len(s) \in Nat
  BY <1>1, LenProperties
<1> QED BY <1>1, <1>2 DEF Range

\* Pushing a leaf that is not queued keeps the queue without duplicates.
LEMMA AppendDistinct ==
  ASSUME NEW S, NEW s \in Seq(S), NEW x \in S, x \notin Range(s),
         \A i, j \in DOMAIN s : s[i] = s[j] => i = j
  PROVE  LET a == Append(s, x) IN \A i, j \in DOMAIN a : a[i] = a[j] => i = j
<1> DEFINE a == Append(s, x)
<1>1. /\ a \in Seq(S)
      /\ Len(a) = Len(s) + 1
      /\ \A i \in 1..Len(s) : a[i] = s[i]
      /\ a[Len(s) + 1] = x
  BY AppendProperties
<1>2. DOMAIN s = 1..Len(s) /\ DOMAIN a = 1..(Len(s) + 1) /\ Len(s) \in Nat
  BY <1>1, LenProperties
<1>3. \A i \in 1..Len(s) : s[i] # x
  BY <1>2 DEF Range
<1> HIDE DEF a
<1>4. \A i, j \in DOMAIN a : a[i] = a[j] => i = j
  BY <1>1, <1>2, <1>3
<1> QED BY <1>4 DEF a

\* Popping a queue without duplicates removes its head and nothing else.
LEMMA RangeTail ==
  ASSUME NEW S, NEW s \in Seq(S), s # <<>>,
         \A i, j \in DOMAIN s : s[i] = s[j] => i = j
  PROVE  /\ Head(s) \in Range(s)
         /\ Range(Tail(s)) = Range(s) \ {Head(s)}
         /\ \A i, j \in DOMAIN Tail(s) : Tail(s)[i] = Tail(s)[j] => i = j
<1>1. /\ Len(s) \in Nat \ {0}
      /\ DOMAIN s = 1..Len(s)
      /\ Tail(s) \in Seq(S)
      /\ Len(Tail(s)) = Len(s) - 1
      /\ \A i \in 1..Len(Tail(s)) : Tail(s)[i] = s[i + 1]
  BY EmptySeq, LenProperties, HeadTailProperties
<1>2. DOMAIN Tail(s) = 1..(Len(s) - 1)
  BY <1>1, LenProperties
<1>3. Head(s) = s[1]
  BY <1>1
<1>4. Head(s) \in Range(s)
  BY <1>1, <1>3 DEF Range
<1>5. ASSUME NEW l \in Range(Tail(s)) PROVE l \in Range(s) \ {Head(s)}
  <2>1. PICK i \in 1..(Len(s) - 1) : l = s[i + 1]
    BY <1>1, <1>2 DEF Range
  <2>2. i + 1 \in DOMAIN s /\ 1 \in DOMAIN s /\ i + 1 # 1
    BY <1>1
  <2> QED BY <2>1, <2>2, <1>3 DEF Range
<1>6. ASSUME NEW l \in Range(s) \ {Head(s)} PROVE l \in Range(Tail(s))
  <2>1. PICK i \in 1..Len(s) : l = s[i]
    BY <1>1 DEF Range
  <2>2. i - 1 \in 1..(Len(s) - 1)
    BY <2>1, <1>1, <1>3
  <2>3. Tail(s)[i - 1] = s[i]
    BY <2>2, <1>1
  <2> QED BY <2>1, <2>2, <2>3, <1>2 DEF Range
<1>7. \A i, j \in DOMAIN Tail(s) : Tail(s)[i] = Tail(s)[j] => i = j
  BY <1>1, <1>2
<1> QED BY <1>4, <1>5, <1>6, <1>7

\* Removing position k keeps a sequence of limits.
LEMMA RemoveLimit ==
  ASSUME NEW S, NEW s \in Seq(S), NEW k \in DOMAIN s
  PROVE  SubSeq(s, 1, k - 1) \o SubSeq(s, k + 1, Len(s)) \in Seq(S)
<1>1. k \in 1..Len(s) /\ Len(s) \in Nat /\ \A i \in 1..Len(s) : s[i] \in S
  BY LenProperties, ElementOfSeq
<1>2. SubSeq(s, 1, k - 1) \in Seq(S)
  BY <1>1, SubSeqProperties
<1>3. SubSeq(s, k + 1, Len(s)) \in Seq(S)
  BY <1>1, SubSeqProperties
<1> QED BY <1>2, <1>3, ConcatProperties

-----------------------------------------------------------------------------
(* What the drainer targets and the batch limits may be.                   *)

\* The two limits that refresh_leaf_drainer_limits stores are naturals.
LEMMA LimitTypes ==
  ASSUME TypeOK
  PROVE  /\ LeafDrainerLimit \in 0..WorkerCapacity
         /\ BackpressureLimit \in 0..WorkerCapacity
<1>1. WorkerCapacity \in Nat
  BY SchedulerAssumption
<1>2. CASE limits = <<>>
  BY <1>1, <1>2 DEF LeafDrainerLimit, BackpressureLimit
<1>3. CASE limits # <<>>
  <2> DEFINE A == {p[1] : p \in Range(limits)}
             B == {p[2] : p \in Range(limits)}
  <2>1. limits \in Seq(LimitPairs)
    BY DEF TypeOK, DataTypes, SignalTypes
  <2>2. Range(limits) \subseteq (1..WorkerCapacity) \X (1..WorkerCapacity)
    BY <2>1, RangeOfSeq, SchedulerAssumption
  <2>3. Range(limits) # {}
    <3>1. 1 \in DOMAIN limits
      BY <2>1, <1>3, EmptySeq, LenProperties
    <3> QED BY <3>1 DEF Range
  <2>4. A \subseteq 1..WorkerCapacity /\ B \subseteq 1..WorkerCapacity
    BY <2>2
  <2>5. A # {} /\ B # {}
    BY <2>3
  <2>6. Min(A) \in A /\ Min(B) \in B
    <3>1. A \subseteq Nat /\ B \subseteq Nat
      BY <2>4, <1>1
    <3> HIDE DEF A, B
    <3> QED BY <3>1, <2>5, MinOfNat
  <2>7. Min(A) \in 0..WorkerCapacity /\ Min(B) \in 0..WorkerCapacity
    <3>1. 1..WorkerCapacity \subseteq 0..WorkerCapacity
      BY <1>1
    <3> HIDE DEF A, B
    <3> QED BY <2>4, <2>6, <3>1, Zenon
  <2> QED BY <2>7, <1>3 DEF LeafDrainerLimit, BackpressureLimit
<1> QED BY <1>2, <1>3

\* leaf_worker_limit_for_backlog never asks for more drainers than the pool has
\* leaf capacity, nor for more than there are queued leaves.
LEMMA LeafWorkerLimitBound ==
  ASSUME TypeOK, NEW b \in Nat
  PROVE  /\ LeafWorkerLimit(b) \in Nat
         /\ LeafWorkerLimit(b) <= WorkerCapacity
         /\ LeafWorkerLimit(b) <= b
<1>1. WorkerCapacity \in Nat \ {0} /\ BacklogCapacity \in Nat
  BY SchedulerAssumption
<1>2. /\ LeafDrainerLimit \in 0..WorkerCapacity
      /\ BackpressureLimit \in 0..WorkerCapacity
  BY LimitTypes
<1>3. EffectiveLeafDrainerLimit(b) \in Nat
  <2>1. Min({BackpressureLimit, WorkerCapacity}) \in Nat
    BY <1>1, <1>2, MinOfTwo
  <2>2. Max({Min({BackpressureLimit, WorkerCapacity}), 1}) \in Nat
    <3> DEFINE m == Min({BackpressureLimit, WorkerCapacity})
    <3> HIDE DEF m
    <3>1. Max({m, 1}) = IF m >= 1 THEN m ELSE 1
      BY <2>1, MaxOfTwo DEF m
    <3> QED BY <2>1, <3>1 DEF m
  <2> QED BY <1>1, <1>2, <2>2 DEF EffectiveLeafDrainerLimit
<1> DEFINE assigned == IF largeAssignments > 0 THEN Min({WorkerCapacity, 2})
                                               ELSE WorkerCapacity
           limit == EffectiveLeafDrainerLimit(b)
           cap == IF limit = 0 THEN assigned ELSE Min({assigned, limit})
<1>4. assigned \in 0..WorkerCapacity
  BY <1>1, MinOfTwo
<1>5. limit \in Nat
  BY <1>3
<1>6. cap \in 0..WorkerCapacity
  <2> HIDE DEF assigned, limit
  <2>1. Min({assigned, limit}) = IF assigned <= limit THEN assigned ELSE limit
    BY <1>1, <1>4, <1>5, MinOfTwo
  <2> QED BY <1>1, <1>4, <1>5, <2>1
<1>7. LeafWorkerLimit(b) = Min({b, cap})
  BY DEF LeafWorkerLimit
<1>8. Min({b, cap}) = IF b <= cap THEN b ELSE cap
  <2> HIDE DEF cap
  <2> QED BY <1>1, <1>6, MinOfTwo
<1> HIDE DEF cap
<1> QED BY <1>1, <1>6, <1>7, <1>8

\* The limits of a batch are naturals.
LEMMA BatchLimitTypes ==
  ASSUME NEW n \in Nat
  PROVE  EffectiveBatchLimits(n) \in Nat \X Nat
BY SchedulerAssumption DEF EffectiveBatchLimits

-----------------------------------------------------------------------------
(* The inductive invariant.                                                *)

\* An emitter holds its leaf from the check until the leaf is credited; it helps
\* only while it retries or waits.
EmitterLocal(e) ==
  /\ pc[e] \in {"count", "push", "uncount", "credit"} => item[e] # NoLeaf
  /\ pc[e] \in {"produce", "soft", "creditWait", "unwind", "returned"} => item[e] = NoLeaf
  /\ (/\ pc[e] \in {"take", "debit", "hydrate", "hydrating", "build", "finish"}
      /\ item[e] = NoLeaf) => ret[e] \in {"soft", "creditWait"}

\* A thread holds a batch from the first pop to the last finish, and a popped
\* leaf of it until that leaf is debited or discarded.
BatchLocal(t) ==
  /\ pc[t] \in {"debit", "drop"} => popped[t] # NoLeaf /\ popped[t] \in batch[t]
  /\ pc[t] \notin {"debit", "drop"} => popped[t] = NoLeaf
  /\ batch[t] # {} => pc[t] \in {"take", "debit", "hydrate", "hydrating", "build",
                                 "finish", "drop"}
  /\ pc[t] = "drop" => batch[t] = {popped[t]}

\* The fate of a batch is settled before its leaves are finished.
FinishLocal(t) == pc[t] = "finish" => batch[t] \subseteq processed \cup failed

\* A thread is about to raise a count that it saw below the capacity.
SpawnLocal(t) == pc[t] = "spawnCas" => seen[t] < WorkerCapacity

LocalInv ==
  /\ \A e \in Emitters : EmitterLocal(e)
  /\ \A t \in Threads : BatchLocal(t) /\ FinishLocal(t) /\ SpawnLocal(t)

\* The counter of queued work stays within its word.
LEMMA WorkType ==
  ASSUME NEW w \in 0..(WordMod - 1), NEW l \in Leaves
  PROVE  Credit(w, l) \in 0..(WordMod - 1) /\ Debit(w, l) \in 0..(WordMod - 1)
<1>1. WordMod \in Nat \ {0} /\ Size[l] \in 0..(WordMod - 1)
  BY SchedulerAssumption
<1>2. w \in Int /\ w + Size[l] \in Int /\ w - Size[l] \in Int
  BY <1>1
<1>3. /\ (w + Size[l]) % WordMod \in 0..(WordMod - 1)
      /\ (w - Size[l]) % WordMod \in 0..(WordMod - 1)
  BY <1>1, <1>2
<1> QED BY <1>3 DEF Credit, Debit

\* Who is a thread, and in which role.
LEMMA ThreadFacts ==
  /\ \A e \in Emitters : e \in Threads
  /\ \A d \in Drainers : d \in Threads
  /\ Main \in Threads
BY DEF Threads

\* A thread has exactly one role.
LEMMA RoleFacts ==
  /\ \A t \in Threads : t \in Emitters \/ t \in Drainers \/ t = Main
  /\ \A e \in Emitters : e \notin Drainers /\ e # Main
  /\ Main \notin Drainers
BY SchedulerAssumption DEF Threads

\* A fault is an error or a panic.
LEMMA FaultFacts ==
  /\ \A r \in LeafFaults : r \in {"err", "panic"}
  /\ \A r \in ProducerFaults : r \in {"err", "panic"}
BY SchedulerAssumption

\* A group of variables that does not change keeps its types.
LEMMA Frames ==
  /\ QueueTypes /\ UNCHANGED queueVars => QueueTypes'
  /\ SignalTypes /\ UNCHANGED signalVars => SignalTypes'
  /\ LeafTypes /\ UNCHANGED leafVars => LeafTypes'
  /\ TakeTypes /\ UNCHANGED takeVars => TakeTypes'
  /\ LocalTypes /\ UNCHANGED localVars => LocalTypes'
  /\ EndTypes /\ UNCHANGED endVars => EndTypes'
  /\ tasks \in Nat /\ UNCHANGED drainVars => tasks' \in Nat
BY DEF drainVars, QueueTypes, queueVars, SignalTypes, signalVars, LeafTypes, leafVars, TakeTypes,
       takeVars, LocalTypes, localVars, EndTypes, endVars

\* Every step keeps the data within its types.
LEMMA DataStep ==
  ASSUME TypeOK, LocalInv, [Next]_vars
  PROVE  DataTypes'
<1> USE ThreadFacts, FaultFacts
<1>1. ASSUME NEW e \in Emitters, ProducerBranchEnds(e)
      PROVE  DataTypes'
  <2>1. EndTypes'
    BY <1>1 DEF TypeOK, DataTypes, EndTypes, endVars, ProducerBranchEnds, EmitterReturns
  <2> QED BY <1>1, <2>1, Frames DEF TypeOK, DataTypes, ProducerBranchEnds, EmitterReturns
<1>2. ASSUME NEW e \in Emitters, EmitterUnwound(e)
      PROVE  DataTypes'
  BY <1>2, Frames DEF TypeOK, DataTypes, EmitterUnwound
<1>3. ASSUME NEW e \in Emitters, CountLeaf(e)
      PROVE  DataTypes'
  <2>1. QueueTypes'
    BY <1>3 DEF TypeOK, DataTypes, QueueTypes, queueVars, CountLeaf
  <2> QED BY <1>3, <2>1, Frames DEF TypeOK, DataTypes, CountLeaf
<1>4. ASSUME NEW e \in Emitters, PushLeaf(e)
      PROVE  DataTypes'
  <2>1. QueueTypes'
    <3>1. /\ item[e] \in Leaves /\ backlog \in Seq(Leaves)
          /\ Len(backlog) <= BacklogCapacity /\ BacklogCapacity \in Nat
      BY <1>4, SchedulerAssumption
      DEF TypeOK, DataTypes, QueueTypes, LocalTypes, LocalInv, EmitterLocal, PushLeaf
    <3>2. Append(backlog, item[e]) \in Seq(Leaves)
      BY <3>1, AppendProperties
    <3>3. Len(Append(backlog, item[e])) = Len(backlog) + 1 /\ Len(backlog) \in Nat
      BY <3>1, AppendProperties, LenProperties
    <3>4. \/ backlog' = Append(backlog, item[e]) /\ Len(backlog) < BacklogCapacity
          \/ backlog' = backlog
      BY <1>4 DEF PushLeaf
    <3>5. Len(backlog) < BacklogCapacity => Len(Append(backlog, item[e])) <= BacklogCapacity
      BY <3>1, <3>3
    <3>6. backlog' \in Seq(Leaves) /\ Len(backlog') <= BacklogCapacity
      BY <3>1, <3>2, <3>4, <3>5, Zenon
    <3> QED BY <1>4, <3>6 DEF TypeOK, DataTypes, QueueTypes, PushLeaf
  <2> QED BY <1>4, <2>1, Frames DEF TypeOK, DataTypes, PushLeaf
<1>5. ASSUME NEW e \in Emitters, UncountLeaf(e)
      PROVE  DataTypes'
  <2>1. QueueTypes'
    BY <1>5 DEF TypeOK, DataTypes, QueueTypes, queueVars, UncountLeaf
  <2> QED BY <1>5, <2>1, Frames DEF TypeOK, DataTypes, UncountLeaf
<1>6. ASSUME NEW e \in Emitters, CreditLeaf(e)
      PROVE  DataTypes'
  <2>1. QueueTypes'
    <3>1. item[e] \in Leaves
      BY <1>6 DEF TypeOK, DataTypes, LocalTypes, LocalInv, EmitterLocal, CreditLeaf
    <3>2. Credit(queuedWork, item[e]) \in 0..(WordMod - 1)
      BY <3>1, WorkType DEF TypeOK, DataTypes, QueueTypes
    <3> QED BY <1>6, <3>2 DEF TypeOK, DataTypes, QueueTypes, CreditLeaf
  <2>2. LocalTypes'
    BY <1>6 DEF TypeOK, DataTypes, LocalTypes, localVars, CreditLeaf
  <2> QED BY <1>6, <2>1, <2>2, Frames DEF TypeOK, DataTypes, CreditLeaf
<1>7. ASSUME NEW e \in Emitters, SoftLimitWait(e)
      PROVE  DataTypes'
  <2>1. LocalTypes'
    BY <1>7 DEF TypeOK, DataTypes, LocalTypes, localVars, SoftLimitWait, EmitterReturns
  <2>2. EndTypes'
    BY <1>7 DEF TypeOK, DataTypes, EndTypes, endVars, SoftLimitWait, EmitterReturns
  <2> QED BY <1>7, <2>1, <2>2, Frames DEF TypeOK, DataTypes, SoftLimitWait, EmitterReturns
<1>8. ASSUME NEW e \in Emitters, CreditWait(e)
      PROVE  DataTypes'
  <2>1. LocalTypes'
    BY <1>8 DEF TypeOK, DataTypes, LocalTypes, localVars, CreditWait, EmitterReturns
  <2>2. EndTypes'
    BY <1>8 DEF TypeOK, DataTypes, EndTypes, endVars, CreditWait, EmitterReturns
  <2> QED BY <1>8, <2>1, <2>2, Frames DEF TypeOK, DataTypes, CreditWait, EmitterReturns
<1>9. ASSUME NEW e \in Emitters, FinishLeafDrainerLimit(e)
      PROVE  DataTypes'
  <2>1. SignalTypes'
    <3>1. limits' \in Seq(LimitPairs)
      BY <1>9, RemoveLimit DEF TypeOK, DataTypes, SignalTypes, FinishLeafDrainerLimit
    <3> QED BY <1>9, <3>1 DEF TypeOK, DataTypes, SignalTypes, FinishLeafDrainerLimit
  <2> QED BY <1>9, <2>1, Frames DEF TypeOK, DataTypes, FinishLeafDrainerLimit
<1>10. ASSUME NEW e \in Emitters, BeginLargeAssignment(e)
      PROVE  DataTypes'
  <2>1. SignalTypes'
    BY <1>10 DEF TypeOK, DataTypes, SignalTypes, signalVars, BeginLargeAssignment
  <2> QED BY <1>10, <2>1, Frames DEF TypeOK, DataTypes, BeginLargeAssignment
<1>11. ASSUME NEW e \in Emitters, FinishLargeAssignment(e)
      PROVE  DataTypes'
  <2>1. SignalTypes'
    BY <1>11 DEF TypeOK, DataTypes, SignalTypes, signalVars, FinishLargeAssignment
  <2> QED BY <1>11, <2>1, Frames DEF TypeOK, DataTypes, FinishLargeAssignment
<1>12. ASSUME NEW e \in Emitters, NEW l \in Leaves, NEW m \in {"emitted", "deferred"},
             EmitLeaf(e, l, m)
      PROVE  DataTypes'
  <2>1. LeafTypes'
    BY <1>12 DEF TypeOK, DataTypes, LeafTypes, leafVars, EmitLeaf, EmitterReturns
  <2>2. LocalTypes'
    BY <1>12 DEF TypeOK, DataTypes, LocalTypes, localVars, EmitLeaf, EmitterReturns
  <2>3. EndTypes'
    BY <1>12 DEF TypeOK, DataTypes, EndTypes, endVars, EmitLeaf, EmitterReturns
  <2> QED BY <1>12, <2>1, <2>2, <2>3, Frames DEF TypeOK, DataTypes, EmitLeaf, EmitterReturns
<1>13. ASSUME NEW e \in Emitters, NEW l \in Leaves, EmitLeafInline(e, l)
      PROVE  DataTypes'
  <2>1. LeafTypes'
    BY <1>13 DEF TypeOK, DataTypes, LeafTypes, leafVars, EmitLeafInline, EmitterReturns
  <2>2. EndTypes'
    BY <1>13 DEF TypeOK, DataTypes, EndTypes, endVars, EmitLeafInline, EmitterReturns
  <2> QED BY <1>13, <2>1, <2>2, Frames DEF TypeOK, DataTypes, EmitLeafInline, EmitterReturns
<1>14. ASSUME NEW e \in Emitters, NEW p \in LimitPairs, BeginLeafDrainerLimit(e, p)
      PROVE  DataTypes'
  <2>1. SignalTypes'
    <3>1. limits' \in Seq(LimitPairs)
      BY <1>14, AppendProperties DEF TypeOK, DataTypes, SignalTypes, BeginLeafDrainerLimit
    <3> QED BY <1>14, <3>1 DEF TypeOK, DataTypes, SignalTypes, BeginLeafDrainerLimit
  <2> QED BY <1>14, <2>1, Frames DEF TypeOK, DataTypes, BeginLeafDrainerLimit
<1>15. ASSUME NEW t \in Threads, SpawnReadBacklog(t)
      PROVE  DataTypes'
  <2>1. LocalTypes'
    <3>1. Len(backlog) \in Nat
      BY LenProperties DEF TypeOK, DataTypes, QueueTypes
    <3> QED BY <1>15, <3>1 DEF TypeOK, DataTypes, LocalTypes, SpawnReadBacklog
  <2> QED BY <1>15, <2>1, Frames DEF TypeOK, DataTypes, SpawnReadBacklog
<1>16. ASSUME NEW t \in Threads, SpawnReadActive(t)
      PROVE  DataTypes'
  <2>1. LocalTypes'
    BY <1>16 DEF TypeOK, CounterTypes, DataTypes, LocalTypes, SpawnReadActive
  <2> QED BY <1>16, <2>1, Frames DEF TypeOK, DataTypes, SpawnReadActive
<1>17. ASSUME NEW t \in Threads, SpawnCas(t)
      PROVE  DataTypes'
  <2>1. LocalTypes'
    BY <1>17 DEF TypeOK, DataTypes, LocalTypes, localVars, SpawnCas
  <2>2. tasks' \in Nat
    BY <1>17 DEF TypeOK, DataTypes, drainVars, SpawnCas
  <2> QED BY <1>17, <2>1, <2>2, Frames DEF TypeOK, DataTypes, SpawnCas
<1>18. ASSUME NEW t \in Threads, TakeLeaf(t)
      PROVE  DataTypes'
  <2>1. QueueTypes'
    <3>1. backlog \in Seq(Leaves) /\ Len(backlog) \in Nat /\ BacklogCapacity \in Nat
      BY LenProperties, SchedulerAssumption DEF TypeOK, DataTypes, QueueTypes
    <3>2. backlog # <<>> => /\ Tail(backlog) \in Seq(Leaves)
                            /\ Len(Tail(backlog)) = Len(backlog) - 1
      BY <3>1, HeadTailProperties
    <3>3. backlog # <<>> => Len(Tail(backlog)) <= BacklogCapacity
      BY <3>1, <3>2 DEF TypeOK, DataTypes, QueueTypes
    <3>4. \/ backlog' = backlog
          \/ backlog # <<>> /\ backlog' = Tail(backlog)
      BY <1>18 DEF TakeLeaf
    <3>5. Len(backlog) <= BacklogCapacity
      BY DEF TypeOK, DataTypes, QueueTypes
    <3>6. backlog' \in Seq(Leaves) /\ Len(backlog') <= BacklogCapacity
      BY <3>1, <3>2, <3>3, <3>4, <3>5, Zenon
    <3> QED BY <1>18, <3>6 DEF TypeOK, DataTypes, QueueTypes, TakeLeaf
  <2>2. TakeTypes'
    <3>1. backlog # <<>> => Head(backlog) \in Leaves
      BY HeadTailProperties DEF TypeOK, DataTypes, QueueTypes
    <3>2. <<1, 1>> \in Nat \X Nat
      OBVIOUS
    <3>3. CASE backlog = <<>>
      BY <1>18, <3>2, <3>3 DEF TypeOK, DataTypes, TakeTypes, TakeLeaf
    <3>4. CASE backlog # <<>>
      <4>1. batch[t] \cup {Head(backlog)} \in SUBSET Leaves
        BY <3>1, <3>4 DEF TypeOK, DataTypes, TakeTypes
      <4>2. batch' = [batch EXCEPT ![t] = (batch[t] \cup {Head(backlog)})] /\ (batch[t] \cup {Head(backlog)}) \in SUBSET Leaves
        BY <1>18, <3>1, <3>4, <4>1 DEF TakeLeaf
      <4>3. batch' \in [Threads -> SUBSET Leaves]
        BY <4>2 DEF TypeOK, DataTypes, TakeTypes
      <4>4. popped' \in [Threads -> Leaves \cup {NoLeaf}] /\ lim' = lim
        BY <1>18, <3>1, <3>4, ZenonT(40) DEF TypeOK, DataTypes, TakeTypes, TakeLeaf
      <4> QED BY <4>3, <4>4 DEF TypeOK, DataTypes, TakeTypes
    <3> QED BY <3>3, <3>4
  <2> QED BY <1>18, <2>1, <2>2, Frames DEF TypeOK, DataTypes, TakeLeaf
<1>19. ASSUME NEW t \in Threads, DebitLeaf(t)
      PROVE  DataTypes'
  <2>1. QueueTypes'
    <3>1. popped[t] \in Leaves
      BY <1>19 DEF TypeOK, DataTypes, TakeTypes, LocalInv, BatchLocal, DebitLeaf
    <3>2. Debit(queuedWork, popped[t]) \in 0..(WordMod - 1)
      BY <3>1, WorkType DEF TypeOK, DataTypes, QueueTypes
    <3> QED BY <1>19, <3>2 DEF TypeOK, DataTypes, QueueTypes, DebitLeaf
  <2>2. TakeTypes'
    <3>1. Len(backlog) + 1 \in Nat
      BY LenProperties DEF TypeOK, DataTypes, QueueTypes
    <3>2. EffectiveBatchLimits(Len(backlog) + 1) \in Nat \X Nat
      BY <3>1, BatchLimitTypes
    <3>3. <<1, 1>> \in Nat \X Nat
      OBVIOUS
    <3>4. lim' \in [Threads -> Nat \X Nat]
      BY <1>19, <3>2, <3>3 DEF TypeOK, DataTypes, TakeTypes, DebitLeaf
    <3> QED BY <1>19, <3>4 DEF TypeOK, DataTypes, TakeTypes, DebitLeaf
  <2> QED BY <1>19, <2>1, <2>2, Frames DEF TypeOK, DataTypes, DebitLeaf
<1>20. ASSUME NEW t \in Threads, AcquireHydrationSlot(t)
      PROVE  DataTypes'
  <2>1. LeafTypes'
    <3>1. batch[t] \subseteq Leaves
      BY DEF TypeOK, DataTypes, TakeTypes
    <3> QED BY <1>20, <3>1 DEF TypeOK, DataTypes, LeafTypes, AcquireHydrationSlot, BatchFails
  <2>2. LocalTypes'
    BY <1>20 DEF TypeOK, DataTypes, LocalTypes, localVars, AcquireHydrationSlot, BatchFails
  <2> QED BY <1>20, <2>1, <2>2, Frames DEF TypeOK, DataTypes, AcquireHydrationSlot, BatchFails
<1>21. ASSUME NEW t \in Threads, Hydrate(t)
      PROVE  DataTypes'
  <2>1. LeafTypes'
    <3>1. batch[t] \subseteq Leaves
      BY DEF TypeOK, DataTypes, TakeTypes
    <3> QED BY <1>21, <3>1 DEF TypeOK, DataTypes, LeafTypes, Hydrate, BatchFails
  <2>2. LocalTypes'
    BY <1>21 DEF TypeOK, DataTypes, LocalTypes, localVars, Hydrate, BatchFails
  <2> QED BY <1>21, <2>1, <2>2, Frames DEF TypeOK, DataTypes, Hydrate, BatchFails
<1>22. ASSUME NEW t \in Threads, BuildBatch(t)
      PROVE  DataTypes'
  <2>1. LeafTypes'
    <3>1. batch[t] \subseteq Leaves
      BY DEF TypeOK, DataTypes, TakeTypes
    <3> QED BY <1>22, <3>1 DEF TypeOK, DataTypes, LeafTypes, BuildBatch
  <2>2. LocalTypes'
    BY <1>22 DEF TypeOK, DataTypes, LocalTypes, localVars, BuildBatch
  <2> QED BY <1>22, <2>1, <2>2, Frames DEF TypeOK, DataTypes, BuildBatch
<1>23. ASSUME NEW t \in Threads, FinishLeafExecution(t)
      PROVE  DataTypes'
  <2>1. QueueTypes'
    BY <1>23 DEF TypeOK, DataTypes, QueueTypes, queueVars, FinishLeafExecution
  <2>2. TakeTypes'
    BY <1>23 DEF TypeOK, DataTypes, TakeTypes, takeVars, FinishLeafExecution
  <2> QED BY <1>23, <2>1, <2>2, Frames DEF TypeOK, DataTypes, FinishLeafExecution
<1>24. ASSUME NEW t \in Threads, HelperReturns(t)
      PROVE  DataTypes'
  <2>1. LeafTypes'
    <3>1. t \in Emitters => {item[t]} \ {NoLeaf} \subseteq Leaves
      BY DEF TypeOK, DataTypes, LocalTypes
    <3> QED BY <1>24, <3>1 DEF TypeOK, DataTypes, LeafTypes, HelperReturns
  <2>2. LocalTypes'
    BY <1>24 DEF TypeOK, DataTypes, LocalTypes, localVars, HelperReturns, EmitterReturns
  <2>3. EndTypes'
    <3>1. status[t] \in {"ok", "err", "panic"}
      BY DEF TypeOK, DataTypes, LocalTypes
    <3> QED BY <1>24, <3>1 DEF TypeOK, DataTypes, EndTypes, HelperReturns, EmitterReturns
  <2> QED BY <1>24, <2>1, <2>2, <2>3, Frames DEF TypeOK, DataTypes, HelperReturns, EmitterReturns
<1>25. ASSUME NEW d \in Drainers, StartDrainer(d)
      PROVE  DataTypes'
  <2>1. tasks' \in Nat
    BY <1>25 DEF TypeOK, DataTypes, drainVars, StartDrainer
  <2> QED BY <1>25, <2>1, Frames DEF TypeOK, DataTypes, StartDrainer
<1>26. ASSUME NEW d \in Drainers, DrainerChecks(d)
      PROVE  DataTypes'
  <2>1. LocalTypes'
    <3>1. LeafWorkerLimit(Len(backlog)) \in Nat
      BY LenProperties, LeafWorkerLimitBound DEF TypeOK, DataTypes, QueueTypes
    <3> QED BY <1>26, <3>1 DEF TypeOK, DataTypes, LocalTypes, DrainerChecks
  <2> QED BY <1>26, <2>1, Frames DEF TypeOK, DataTypes, DrainerChecks
<1>27. ASSUME NEW d \in Drainers, DrainerReadsActive(d)
      PROVE  DataTypes'
  <2>1. LocalTypes'
    BY <1>27 DEF TypeOK, CounterTypes, DataTypes, LocalTypes, DrainerReadsActive
  <2> QED BY <1>27, <2>1, Frames DEF TypeOK, DataTypes, DrainerReadsActive
<1>28. ASSUME NEW d \in Drainers, ReserveRetirement(d)
      PROVE  DataTypes'
  <2>1. LocalTypes'
    BY <1>28 DEF TypeOK, DataTypes, LocalTypes, localVars, ReserveRetirement
  <2>2. tasks' \in Nat
    BY <1>28 DEF TypeOK, DataTypes, drainVars, ReserveRetirement
  <2> QED BY <1>28, <2>1, <2>2, Frames DEF TypeOK, DataTypes, ReserveRetirement
<1>29. ASSUME NEW d \in Drainers, DrainerBatchDone(d)
      PROVE  DataTypes'
  <2>1. LocalTypes'
    BY <1>29 DEF TypeOK, DataTypes, LocalTypes, localVars, DrainerBatchDone
  <2>2. EndTypes'
    BY <1>29 DEF TypeOK, DataTypes, EndTypes, endVars, DrainerBatchDone
  <2> QED BY <1>29, <2>1, <2>2, Frames DEF TypeOK, DataTypes, DrainerBatchDone
<1>30. ASSUME NEW d \in Drainers, RecordError(d)
      PROVE  DataTypes'
  <2>1. firstError' \in BOOLEAN
    BY <1>30 DEF TypeOK, DataTypes, RecordError
  <2> QED BY <1>30, <2>1, Frames DEF TypeOK, DataTypes, RecordError
<1>31. ASSUME NEW d \in Drainers, DrainerUnreserves(d)
      PROVE  DataTypes'
  <2>1. tasks' \in Nat
    BY <1>31 DEF TypeOK, DataTypes, drainVars, DrainerUnreserves
  <2> QED BY <1>31, <2>1, Frames DEF TypeOK, DataTypes, DrainerUnreserves
<1>32. ASSUME NEW d \in Drainers, DrainerLeaves(d)
      PROVE  DataTypes'
  <2>1. tasks' \in Nat
    BY <1>32 DEF TypeOK, DataTypes, drainVars, DrainerLeaves
  <2> QED BY <1>32, <2>1, Frames DEF TypeOK, DataTypes, DrainerLeaves
<1>33. CASE ProducerReturns
  <2>1. EndTypes'
    BY <1>33 DEF TypeOK, DataTypes, EndTypes, endVars, ProducerReturns
  <2> QED BY <1>33, <2>1, Frames DEF TypeOK, DataTypes, ProducerReturns
<1>34. CASE DiscardPop
  <2>1. QueueTypes'
    <3>1. backlog \in Seq(Leaves) /\ Len(backlog) \in Nat /\ BacklogCapacity \in Nat
      BY LenProperties, SchedulerAssumption DEF TypeOK, DataTypes, QueueTypes
    <3>2. backlog # <<>> => /\ Tail(backlog) \in Seq(Leaves)
                            /\ Len(Tail(backlog)) = Len(backlog) - 1
      BY <3>1, HeadTailProperties
    <3>3. backlog # <<>> => Len(Tail(backlog)) <= BacklogCapacity
      BY <3>1, <3>2 DEF TypeOK, DataTypes, QueueTypes
    <3>4. \/ backlog' = backlog
          \/ backlog # <<>> /\ backlog' = Tail(backlog)
      BY <1>34 DEF DiscardPop
    <3>5. Len(backlog) <= BacklogCapacity
      BY DEF TypeOK, DataTypes, QueueTypes
    <3>6. backlog' \in Seq(Leaves) /\ Len(backlog') <= BacklogCapacity
      BY <3>1, <3>2, <3>3, <3>4, <3>5, Zenon
    <3> QED BY <1>34, <3>6 DEF TypeOK, DataTypes, QueueTypes, DiscardPop
  <2>2. TakeTypes'
    <3>1. backlog # <<>> => Head(backlog) \in Leaves
      BY HeadTailProperties DEF TypeOK, DataTypes, QueueTypes
    <3>3. CASE backlog = <<>>
      BY <1>34, <3>3 DEF TypeOK, DataTypes, TakeTypes, DiscardPop
    <3>4. CASE backlog # <<>>
      <4>1. batch[Main] \cup {Head(backlog)} \in SUBSET Leaves
        BY <3>1, <3>4 DEF TypeOK, DataTypes, TakeTypes
      <4>2. batch' = [batch EXCEPT ![Main] = {Head(backlog)}] /\ {Head(backlog)} \in SUBSET Leaves
        BY <1>34, <3>1, <3>4, <4>1 DEF DiscardPop
      <4>3. batch' \in [Threads -> SUBSET Leaves]
        BY <4>2 DEF TypeOK, DataTypes, TakeTypes
      <4>4. popped' \in [Threads -> Leaves \cup {NoLeaf}] /\ lim' = lim
        BY <1>34, <3>1, <3>4, ZenonT(40) DEF TypeOK, DataTypes, TakeTypes, DiscardPop
      <4> QED BY <4>3, <4>4 DEF TypeOK, DataTypes, TakeTypes
    <3> QED BY <3>3, <3>4
  <2> QED BY <1>34, <2>1, <2>2, Frames DEF TypeOK, DataTypes, DiscardPop
<1>35. CASE DiscardDrop
  <2>1. QueueTypes'
    <3>1. popped[Main] \in Leaves
      BY <1>35 DEF TypeOK, DataTypes, TakeTypes, LocalInv, BatchLocal, DiscardDrop
    <3>2. Debit(queuedWork, popped[Main]) \in 0..(WordMod - 1)
      BY <3>1, WorkType DEF TypeOK, DataTypes, QueueTypes
    <3> QED BY <1>35, <3>2 DEF TypeOK, DataTypes, QueueTypes, DiscardDrop
  <2>2. LeafTypes'
    <3>1. popped[Main] \in Leaves
      BY <1>35 DEF TypeOK, DataTypes, TakeTypes, LocalInv, BatchLocal, DiscardDrop
    <3> QED BY <1>35, <3>1 DEF TypeOK, DataTypes, LeafTypes, DiscardDrop
  <2>3. TakeTypes'
    BY <1>35 DEF TypeOK, DataTypes, TakeTypes, takeVars, DiscardDrop
  <2> QED BY <1>35, <2>1, <2>2, <2>3, Frames DEF TypeOK, DataTypes, DiscardDrop
<1>36. CASE WaitUntilIdle
  <2>1. EndTypes'
    BY <1>36 DEF TypeOK, DataTypes, EndTypes, endVars, WaitUntilIdle
  <2> QED BY <1>36, <2>1, Frames DEF TypeOK, DataTypes, WaitUntilIdle
<1>37. CASE FinalCheck
  <2>1. EndTypes'
    BY <1>37 DEF TypeOK, DataTypes, EndTypes, endVars, FinalCheck
  <2> QED BY <1>37, <2>1, Frames DEF TypeOK, DataTypes, FinalCheck
<1>38. CASE ScopeReturns
  <2>1. EndTypes'
    BY <1>38 DEF TypeOK, DataTypes, EndTypes, endVars, ScopeReturns
  <2> QED BY <1>38, <2>1, Frames DEF TypeOK, DataTypes, ScopeReturns
<1>39. CASE UNCHANGED vars
  BY <1>39, Frames DEF TypeOK, DataTypes, vars
<1> QED
  BY <1>1, <1>2, <1>3, <1>4, <1>5, <1>6, <1>7, <1>8, <1>9, <1>10, <1>11,
         <1>12, <1>13, <1>14, <1>15, <1>16, <1>17, <1>18, <1>19, <1>20, <1>21,
         <1>22, <1>23, <1>24, <1>25, <1>26, <1>27, <1>28, <1>29, <1>30, <1>31,
         <1>32, <1>33, <1>34, <1>35, <1>36, <1>37, <1>38, <1>39
  DEF Next, EmitterStep, GuardStep, WorkStep, DrainerStep, MainStep, Done

\* Where a helper goes on: an emitter retries its leaf or its wait.
LEMMA AfterHelpLabel ==
  ASSUME TypeOK, LocalInv, NEW t \in Threads, pc[t] \in {"take", "finish"}
  PROVE  /\ t \in Emitters => AfterHelp(t) \in {"count", "soft", "creditWait"}
         /\ t \in Drainers => AfterHelp(t) = "check"
         /\ t = Main => AfterHelp(t) = "wait"
BY RoleFacts DEF TypeOK, DataTypes, LocalTypes, LocalInv, EmitterLocal, AfterHelp

\* Where a thread goes on after maybe_spawn_leaf_drainer.
LEMMA AfterSpawnLabel ==
  ASSUME NEW t \in Threads
  PROVE  AfterSpawn(t) \in {"parked", "wait", "take", "produce", "soft"}
BY DEF AfterSpawn

\* Every step keeps each thread at a control point of its role.
LEMMA ControlStep ==
  ASSUME TypeOK, LocalInv, [Next]_vars
  PROVE  ControlTypes'
<1> USE ThreadFacts, RoleFacts
<1>1. ASSUME NEW e \in Emitters, ProducerBranchEnds(e)
      PROVE  ControlTypes'
  BY <1>1 DEF TypeOK, ControlTypes, EmitterPCs, DrainerPCs, MainPCs, WorkPCs, Goto, ProducerBranchEnds,
         EmitterReturns
<1>2. ASSUME NEW e \in Emitters, EmitterUnwound(e)
      PROVE  ControlTypes'
  BY <1>2 DEF TypeOK, ControlTypes, EmitterPCs, DrainerPCs, MainPCs, WorkPCs, Goto, EmitterUnwound
<1>3. ASSUME NEW e \in Emitters, CountLeaf(e)
      PROVE  ControlTypes'
  BY <1>3 DEF TypeOK, ControlTypes, EmitterPCs, DrainerPCs, MainPCs, WorkPCs, Goto, CountLeaf
<1>4. ASSUME NEW e \in Emitters, PushLeaf(e)
      PROVE  ControlTypes'
  BY <1>4 DEF TypeOK, ControlTypes, EmitterPCs, DrainerPCs, MainPCs, WorkPCs, Goto, PushLeaf
<1>5. ASSUME NEW e \in Emitters, UncountLeaf(e)
      PROVE  ControlTypes'
  BY <1>5 DEF TypeOK, ControlTypes, EmitterPCs, DrainerPCs, MainPCs, WorkPCs, Goto, UncountLeaf
<1>6. ASSUME NEW e \in Emitters, CreditLeaf(e)
      PROVE  ControlTypes'
  BY <1>6 DEF TypeOK, ControlTypes, EmitterPCs, DrainerPCs, MainPCs, WorkPCs, Goto, CreditLeaf
<1>7. ASSUME NEW e \in Emitters, SoftLimitWait(e)
      PROVE  ControlTypes'
  BY <1>7 DEF TypeOK, ControlTypes, EmitterPCs, DrainerPCs, MainPCs, WorkPCs, Goto, SoftLimitWait,
         EmitterReturns
<1>8. ASSUME NEW e \in Emitters, CreditWait(e)
      PROVE  ControlTypes'
  BY <1>8 DEF TypeOK, ControlTypes, EmitterPCs, DrainerPCs, MainPCs, WorkPCs, Goto, CreditWait,
         EmitterReturns
<1>9. ASSUME NEW e \in Emitters, FinishLeafDrainerLimit(e)
      PROVE  ControlTypes'
  BY <1>9 DEF TypeOK, ControlTypes, EmitterPCs, DrainerPCs, MainPCs, WorkPCs, Goto, FinishLeafDrainerLimit
<1>10. ASSUME NEW e \in Emitters, BeginLargeAssignment(e)
      PROVE  ControlTypes'
  BY <1>10 DEF TypeOK, ControlTypes, EmitterPCs, DrainerPCs, MainPCs, WorkPCs, Goto, BeginLargeAssignment
<1>11. ASSUME NEW e \in Emitters, FinishLargeAssignment(e)
      PROVE  ControlTypes'
  BY <1>11 DEF TypeOK, ControlTypes, EmitterPCs, DrainerPCs, MainPCs, WorkPCs, Goto, FinishLargeAssignment
<1>12. ASSUME NEW e \in Emitters, NEW l \in Leaves, NEW m \in {"emitted", "deferred"},
             EmitLeaf(e, l, m)
      PROVE  ControlTypes'
  BY <1>12 DEF TypeOK, ControlTypes, EmitterPCs, DrainerPCs, MainPCs, WorkPCs, Goto, EmitLeaf,
         EmitterReturns
<1>13. ASSUME NEW e \in Emitters, NEW l \in Leaves, EmitLeafInline(e, l)
      PROVE  ControlTypes'
  BY <1>13 DEF TypeOK, ControlTypes, EmitterPCs, DrainerPCs, MainPCs, WorkPCs, Goto, EmitLeafInline,
         EmitterReturns
<1>14. ASSUME NEW e \in Emitters, NEW p \in LimitPairs, BeginLeafDrainerLimit(e, p)
      PROVE  ControlTypes'
  BY <1>14 DEF TypeOK, ControlTypes, EmitterPCs, DrainerPCs, MainPCs, WorkPCs, Goto, BeginLeafDrainerLimit
<1>15. ASSUME NEW t \in Threads, SpawnReadBacklog(t)
      PROVE  ControlTypes'
  BY <1>15 DEF TypeOK, ControlTypes, EmitterPCs, DrainerPCs, MainPCs, WorkPCs, Goto, SpawnReadBacklog,
         AfterSpawn
<1>16. ASSUME NEW t \in Threads, SpawnReadActive(t)
      PROVE  ControlTypes'
  BY <1>16 DEF TypeOK, ControlTypes, EmitterPCs, DrainerPCs, MainPCs, WorkPCs, Goto, SpawnReadActive,
         AfterSpawn
<1>17. ASSUME NEW t \in Threads, SpawnCas(t)
      PROVE  ControlTypes'
  BY <1>17 DEF TypeOK, ControlTypes, EmitterPCs, DrainerPCs, MainPCs, WorkPCs, Goto, SpawnCas
<1>18. ASSUME NEW t \in Threads, TakeLeaf(t)
      PROVE  ControlTypes'
  <2>1. /\ t \in Emitters => AfterHelp(t) \in {"count", "soft", "creditWait"}
        /\ t \in Drainers => AfterHelp(t) = "check"
        /\ t = Main => AfterHelp(t) = "wait"
    BY <1>18, AfterHelpLabel DEF TakeLeaf
  <2>2. RunBatch(batch[t]) \in {"hydrate", "build"}
    BY DEF RunBatch
  <2>3. AfterNothing(t) = IF t \in Drainers THEN "leave" ELSE AfterHelp(t)
    BY DEF AfterNothing
  <2>4. PICK l : Goto(t, l) /\ l \in {"debit", "hydrate", "build", AfterNothing(t)}
    BY <1>18, <2>2 DEF TakeLeaf
  <2> QED BY <2>1, <2>3, <2>4 DEF TypeOK, ControlTypes, EmitterPCs, DrainerPCs, MainPCs,
         WorkPCs, Goto
<1>19. ASSUME NEW t \in Threads, DebitLeaf(t)
      PROVE  ControlTypes'
  BY <1>19 DEF TypeOK, ControlTypes, EmitterPCs, DrainerPCs, MainPCs, WorkPCs, Goto, DebitLeaf,
         RunBatch
<1>20. ASSUME NEW t \in Threads, AcquireHydrationSlot(t)
      PROVE  ControlTypes'
  BY <1>20 DEF TypeOK, ControlTypes, EmitterPCs, DrainerPCs, MainPCs, WorkPCs, Goto, AcquireHydrationSlot,
         BatchFails
<1>21. ASSUME NEW t \in Threads, Hydrate(t)
      PROVE  ControlTypes'
  BY <1>21 DEF TypeOK, ControlTypes, EmitterPCs, DrainerPCs, MainPCs, WorkPCs, Goto, Hydrate,
         BatchFails
<1>22. ASSUME NEW t \in Threads, BuildBatch(t)
      PROVE  ControlTypes'
  BY <1>22 DEF TypeOK, ControlTypes, EmitterPCs, DrainerPCs, MainPCs, WorkPCs, Goto, BuildBatch
<1>23. ASSUME NEW t \in Threads, FinishLeafExecution(t)
      PROVE  ControlTypes'
  BY <1>23 DEF TypeOK, ControlTypes, EmitterPCs, DrainerPCs, MainPCs, WorkPCs, Goto, FinishLeafExecution
<1>24. ASSUME NEW t \in Threads, HelperReturns(t)
      PROVE  ControlTypes'
  <2>1. /\ t \in Emitters => AfterHelp(t) \in {"count", "soft", "creditWait"}
        /\ t \in Drainers => AfterHelp(t) = "check"
        /\ t = Main => AfterHelp(t) = "wait"
    BY <1>24, AfterHelpLabel DEF HelperReturns
  <2>2. \/ Goto(t, AfterHelp(t)) /\ t \notin Drainers
        \/ Goto(t, "joinScope") /\ t = Main
        \/ Goto(t, "unwind") /\ t \in Emitters
    BY <1>24 DEF HelperReturns, EmitterReturns
  <2> QED BY <2>1, <2>2 DEF TypeOK, ControlTypes, EmitterPCs, DrainerPCs, MainPCs,
         WorkPCs, Goto
<1>25. ASSUME NEW d \in Drainers, StartDrainer(d)
      PROVE  ControlTypes'
  BY <1>25 DEF TypeOK, ControlTypes, EmitterPCs, DrainerPCs, MainPCs, WorkPCs, Goto, StartDrainer
<1>26. ASSUME NEW d \in Drainers, DrainerChecks(d)
      PROVE  ControlTypes'
  BY <1>26 DEF TypeOK, ControlTypes, EmitterPCs, DrainerPCs, MainPCs, WorkPCs, Goto, DrainerChecks
<1>27. ASSUME NEW d \in Drainers, DrainerReadsActive(d)
      PROVE  ControlTypes'
  BY <1>27 DEF TypeOK, ControlTypes, EmitterPCs, DrainerPCs, MainPCs, WorkPCs, Goto, DrainerReadsActive
<1>28. ASSUME NEW d \in Drainers, ReserveRetirement(d)
      PROVE  ControlTypes'
  BY <1>28 DEF TypeOK, ControlTypes, EmitterPCs, DrainerPCs, MainPCs, WorkPCs, Goto, ReserveRetirement
<1>29. ASSUME NEW d \in Drainers, DrainerBatchDone(d)
      PROVE  ControlTypes'
  BY <1>29 DEF TypeOK, ControlTypes, EmitterPCs, DrainerPCs, MainPCs, WorkPCs, Goto, DrainerBatchDone,
         AfterHelp
<1>30. ASSUME NEW d \in Drainers, RecordError(d)
      PROVE  ControlTypes'
  BY <1>30 DEF TypeOK, ControlTypes, EmitterPCs, DrainerPCs, MainPCs, WorkPCs, Goto, RecordError
<1>31. ASSUME NEW d \in Drainers, DrainerUnreserves(d)
      PROVE  ControlTypes'
  BY <1>31 DEF TypeOK, ControlTypes, EmitterPCs, DrainerPCs, MainPCs, WorkPCs, Goto, DrainerUnreserves
<1>32. ASSUME NEW d \in Drainers, DrainerLeaves(d)
      PROVE  ControlTypes'
  BY <1>32 DEF TypeOK, ControlTypes, EmitterPCs, DrainerPCs, MainPCs, WorkPCs, Goto, DrainerLeaves
<1>33. CASE ProducerReturns
  BY <1>33 DEF TypeOK, ControlTypes, EmitterPCs, DrainerPCs, MainPCs, WorkPCs, Goto, ProducerReturns
<1>34. CASE DiscardPop
  BY <1>34 DEF TypeOK, ControlTypes, EmitterPCs, DrainerPCs, MainPCs, WorkPCs, Goto, DiscardPop
<1>35. CASE DiscardDrop
  BY <1>35 DEF TypeOK, ControlTypes, EmitterPCs, DrainerPCs, MainPCs, WorkPCs, Goto, DiscardDrop
<1>36. CASE WaitUntilIdle
  BY <1>36 DEF TypeOK, ControlTypes, EmitterPCs, DrainerPCs, MainPCs, WorkPCs, Goto, WaitUntilIdle
<1>37. CASE FinalCheck
  BY <1>37 DEF TypeOK, ControlTypes, EmitterPCs, DrainerPCs, MainPCs, WorkPCs, Goto, FinalCheck
<1>38. CASE ScopeReturns
  BY <1>38 DEF TypeOK, ControlTypes, EmitterPCs, DrainerPCs, MainPCs, WorkPCs, Goto, ScopeReturns
<1>39. CASE UNCHANGED vars
  BY <1>39 DEF TypeOK, ControlTypes, vars
<1> QED
  BY <1>1, <1>2, <1>3, <1>4, <1>5, <1>6, <1>7, <1>8, <1>9, <1>10, <1>11,
         <1>12, <1>13, <1>14, <1>15, <1>16, <1>17, <1>18, <1>19, <1>20, <1>21,
         <1>22, <1>23, <1>24, <1>25, <1>26, <1>27, <1>28, <1>29, <1>30, <1>31,
         <1>32, <1>33, <1>34, <1>35, <1>36, <1>37, <1>38, <1>39
  DEF Next, EmitterStep, GuardStep, WorkStep, DrainerStep, MainStep, Done

\* Every step keeps LocalInv.
LEMMA LocalStep ==
  ASSUME TypeOK, LocalInv, [Next]_vars
  PROVE  LocalInv'
<1> USE ThreadFacts
<1>1. ASSUME NEW e \in Emitters, ProducerBranchEnds(e)
      PROVE  LocalInv'
  <2>1. ASSUME NEW x \in Emitters PROVE EmitterLocal(x)'
    BY <1>1 DEF TypeOK, DataTypes, LocalTypes, ControlTypes, LocalInv, EmitterLocal, ProducerBranchEnds,
       Goto, localVars, EmitterReturns
  <2>2. ASSUME NEW x \in Threads PROVE BatchLocal(x)'
    BY <1>1 DEF TypeOK, DataTypes, TakeTypes, ControlTypes, LocalInv, BatchLocal, ProducerBranchEnds,
       Goto, takeVars, EmitterReturns
  <2>3. ASSUME NEW x \in Threads PROVE FinishLocal(x)'
    BY <1>1 DEF TypeOK, DataTypes, TakeTypes, ControlTypes, LocalInv, FinishLocal, ProducerBranchEnds,
       Goto, takeVars, leafVars, EmitterReturns
  <2>4. ASSUME NEW x \in Threads PROVE SpawnLocal(x)'
    BY <1>1 DEF TypeOK, DataTypes, LocalTypes, ControlTypes, LocalInv, SpawnLocal, ProducerBranchEnds,
       Goto, localVars, EmitterReturns
  <2> QED BY <2>1, <2>2, <2>3, <2>4 DEF LocalInv
<1>2. ASSUME NEW e \in Emitters, EmitterUnwound(e)
      PROVE  LocalInv'
  <2>1. ASSUME NEW x \in Emitters PROVE EmitterLocal(x)'
    BY <1>2 DEF TypeOK, DataTypes, LocalTypes, ControlTypes, LocalInv, EmitterLocal, EmitterUnwound,
       Goto, localVars
  <2>2. ASSUME NEW x \in Threads PROVE BatchLocal(x)'
    BY <1>2 DEF TypeOK, DataTypes, TakeTypes, ControlTypes, LocalInv, BatchLocal, EmitterUnwound,
       Goto, takeVars
  <2>3. ASSUME NEW x \in Threads PROVE FinishLocal(x)'
    BY <1>2 DEF TypeOK, DataTypes, TakeTypes, ControlTypes, LocalInv, FinishLocal, EmitterUnwound,
       Goto, takeVars, leafVars
  <2>4. ASSUME NEW x \in Threads PROVE SpawnLocal(x)'
    BY <1>2 DEF TypeOK, DataTypes, LocalTypes, ControlTypes, LocalInv, SpawnLocal, EmitterUnwound,
       Goto, localVars
  <2> QED BY <2>1, <2>2, <2>3, <2>4 DEF LocalInv
<1>3. ASSUME NEW e \in Emitters, CountLeaf(e)
      PROVE  LocalInv'
  <2>1. ASSUME NEW x \in Emitters PROVE EmitterLocal(x)'
    BY <1>3 DEF TypeOK, DataTypes, LocalTypes, ControlTypes, LocalInv, EmitterLocal, CountLeaf,
       Goto, localVars
  <2>2. ASSUME NEW x \in Threads PROVE BatchLocal(x)'
    BY <1>3 DEF TypeOK, DataTypes, TakeTypes, ControlTypes, LocalInv, BatchLocal, CountLeaf,
       Goto, takeVars
  <2>3. ASSUME NEW x \in Threads PROVE FinishLocal(x)'
    BY <1>3 DEF TypeOK, DataTypes, TakeTypes, ControlTypes, LocalInv, FinishLocal, CountLeaf,
       Goto, takeVars, leafVars
  <2>4. ASSUME NEW x \in Threads PROVE SpawnLocal(x)'
    BY <1>3 DEF TypeOK, DataTypes, LocalTypes, ControlTypes, LocalInv, SpawnLocal, CountLeaf,
       Goto, localVars
  <2> QED BY <2>1, <2>2, <2>3, <2>4 DEF LocalInv
<1>4. ASSUME NEW e \in Emitters, PushLeaf(e)
      PROVE  LocalInv'
  <2>1. ASSUME NEW x \in Emitters PROVE EmitterLocal(x)'
    BY <1>4 DEF TypeOK, DataTypes, LocalTypes, ControlTypes, LocalInv, EmitterLocal, PushLeaf,
       Goto, localVars
  <2>2. ASSUME NEW x \in Threads PROVE BatchLocal(x)'
    BY <1>4 DEF TypeOK, DataTypes, TakeTypes, ControlTypes, LocalInv, BatchLocal, PushLeaf,
       Goto, takeVars
  <2>3. ASSUME NEW x \in Threads PROVE FinishLocal(x)'
    BY <1>4 DEF TypeOK, DataTypes, TakeTypes, ControlTypes, LocalInv, FinishLocal, PushLeaf,
       Goto, takeVars, leafVars
  <2>4. ASSUME NEW x \in Threads PROVE SpawnLocal(x)'
    BY <1>4 DEF TypeOK, DataTypes, LocalTypes, ControlTypes, LocalInv, SpawnLocal, PushLeaf,
       Goto, localVars
  <2> QED BY <2>1, <2>2, <2>3, <2>4 DEF LocalInv
<1>5. ASSUME NEW e \in Emitters, UncountLeaf(e)
      PROVE  LocalInv'
  <2>1. ASSUME NEW x \in Emitters PROVE EmitterLocal(x)'
    BY <1>5 DEF TypeOK, DataTypes, LocalTypes, ControlTypes, LocalInv, EmitterLocal, UncountLeaf,
       Goto, localVars
  <2>2. ASSUME NEW x \in Threads PROVE BatchLocal(x)'
    BY <1>5 DEF TypeOK, DataTypes, TakeTypes, ControlTypes, LocalInv, BatchLocal, UncountLeaf,
       Goto, takeVars
  <2>3. ASSUME NEW x \in Threads PROVE FinishLocal(x)'
    BY <1>5 DEF TypeOK, DataTypes, TakeTypes, ControlTypes, LocalInv, FinishLocal, UncountLeaf,
       Goto, takeVars, leafVars
  <2>4. ASSUME NEW x \in Threads PROVE SpawnLocal(x)'
    BY <1>5 DEF TypeOK, DataTypes, LocalTypes, ControlTypes, LocalInv, SpawnLocal, UncountLeaf,
       Goto, localVars
  <2> QED BY <2>1, <2>2, <2>3, <2>4 DEF LocalInv
<1>6. ASSUME NEW e \in Emitters, CreditLeaf(e)
      PROVE  LocalInv'
  <2>1. ASSUME NEW x \in Emitters PROVE EmitterLocal(x)'
    BY <1>6 DEF TypeOK, DataTypes, LocalTypes, ControlTypes, LocalInv, EmitterLocal, CreditLeaf,
       Goto, localVars
  <2>2. ASSUME NEW x \in Threads PROVE BatchLocal(x)'
    BY <1>6 DEF TypeOK, DataTypes, TakeTypes, ControlTypes, LocalInv, BatchLocal, CreditLeaf,
       Goto, takeVars
  <2>3. ASSUME NEW x \in Threads PROVE FinishLocal(x)'
    BY <1>6 DEF TypeOK, DataTypes, TakeTypes, ControlTypes, LocalInv, FinishLocal, CreditLeaf,
       Goto, takeVars, leafVars
  <2>4. ASSUME NEW x \in Threads PROVE SpawnLocal(x)'
    BY <1>6 DEF TypeOK, DataTypes, LocalTypes, ControlTypes, LocalInv, SpawnLocal, CreditLeaf,
       Goto, localVars
  <2> QED BY <2>1, <2>2, <2>3, <2>4 DEF LocalInv
<1>7. ASSUME NEW e \in Emitters, SoftLimitWait(e)
      PROVE  LocalInv'
  <2>1. ASSUME NEW x \in Emitters PROVE EmitterLocal(x)'
    BY <1>7 DEF TypeOK, DataTypes, LocalTypes, ControlTypes, LocalInv, EmitterLocal, SoftLimitWait,
       Goto, localVars, EmitterReturns
  <2>2. ASSUME NEW x \in Threads PROVE BatchLocal(x)'
    BY <1>7 DEF TypeOK, DataTypes, TakeTypes, ControlTypes, LocalInv, BatchLocal, SoftLimitWait,
       Goto, takeVars, EmitterReturns
  <2>3. ASSUME NEW x \in Threads PROVE FinishLocal(x)'
    BY <1>7 DEF TypeOK, DataTypes, TakeTypes, ControlTypes, LocalInv, FinishLocal, SoftLimitWait,
       Goto, takeVars, leafVars, EmitterReturns
  <2>4. ASSUME NEW x \in Threads PROVE SpawnLocal(x)'
    BY <1>7 DEF TypeOK, DataTypes, LocalTypes, ControlTypes, LocalInv, SpawnLocal, SoftLimitWait,
       Goto, localVars, EmitterReturns
  <2> QED BY <2>1, <2>2, <2>3, <2>4 DEF LocalInv
<1>8. ASSUME NEW e \in Emitters, CreditWait(e)
      PROVE  LocalInv'
  <2>1. ASSUME NEW x \in Emitters PROVE EmitterLocal(x)'
    BY <1>8 DEF TypeOK, DataTypes, LocalTypes, ControlTypes, LocalInv, EmitterLocal, CreditWait,
       Goto, localVars, EmitterReturns
  <2>2. ASSUME NEW x \in Threads PROVE BatchLocal(x)'
    BY <1>8 DEF TypeOK, DataTypes, TakeTypes, ControlTypes, LocalInv, BatchLocal, CreditWait,
       Goto, takeVars, EmitterReturns
  <2>3. ASSUME NEW x \in Threads PROVE FinishLocal(x)'
    BY <1>8 DEF TypeOK, DataTypes, TakeTypes, ControlTypes, LocalInv, FinishLocal, CreditWait,
       Goto, takeVars, leafVars, EmitterReturns
  <2>4. ASSUME NEW x \in Threads PROVE SpawnLocal(x)'
    BY <1>8 DEF TypeOK, DataTypes, LocalTypes, ControlTypes, LocalInv, SpawnLocal, CreditWait,
       Goto, localVars, EmitterReturns
  <2> QED BY <2>1, <2>2, <2>3, <2>4 DEF LocalInv
<1>9. ASSUME NEW e \in Emitters, FinishLeafDrainerLimit(e)
      PROVE  LocalInv'
  <2>1. ASSUME NEW x \in Emitters PROVE EmitterLocal(x)'
    BY <1>9 DEF TypeOK, DataTypes, LocalTypes, ControlTypes, LocalInv, EmitterLocal, FinishLeafDrainerLimit,
       Goto, localVars
  <2>2. ASSUME NEW x \in Threads PROVE BatchLocal(x)'
    BY <1>9 DEF TypeOK, DataTypes, TakeTypes, ControlTypes, LocalInv, BatchLocal, FinishLeafDrainerLimit,
       Goto, takeVars
  <2>3. ASSUME NEW x \in Threads PROVE FinishLocal(x)'
    BY <1>9 DEF TypeOK, DataTypes, TakeTypes, ControlTypes, LocalInv, FinishLocal, FinishLeafDrainerLimit,
       Goto, takeVars, leafVars
  <2>4. ASSUME NEW x \in Threads PROVE SpawnLocal(x)'
    BY <1>9 DEF TypeOK, DataTypes, LocalTypes, ControlTypes, LocalInv, SpawnLocal, FinishLeafDrainerLimit,
       Goto, localVars
  <2> QED BY <2>1, <2>2, <2>3, <2>4 DEF LocalInv
<1>10. ASSUME NEW e \in Emitters, BeginLargeAssignment(e)
      PROVE  LocalInv'
  <2>1. ASSUME NEW x \in Emitters PROVE EmitterLocal(x)'
    BY <1>10 DEF TypeOK, DataTypes, LocalTypes, ControlTypes, LocalInv, EmitterLocal, BeginLargeAssignment,
       Goto, localVars
  <2>2. ASSUME NEW x \in Threads PROVE BatchLocal(x)'
    BY <1>10 DEF TypeOK, DataTypes, TakeTypes, ControlTypes, LocalInv, BatchLocal, BeginLargeAssignment,
       Goto, takeVars
  <2>3. ASSUME NEW x \in Threads PROVE FinishLocal(x)'
    BY <1>10 DEF TypeOK, DataTypes, TakeTypes, ControlTypes, LocalInv, FinishLocal, BeginLargeAssignment,
       Goto, takeVars, leafVars
  <2>4. ASSUME NEW x \in Threads PROVE SpawnLocal(x)'
    BY <1>10 DEF TypeOK, DataTypes, LocalTypes, ControlTypes, LocalInv, SpawnLocal, BeginLargeAssignment,
       Goto, localVars
  <2> QED BY <2>1, <2>2, <2>3, <2>4 DEF LocalInv
<1>11. ASSUME NEW e \in Emitters, FinishLargeAssignment(e)
      PROVE  LocalInv'
  <2>1. ASSUME NEW x \in Emitters PROVE EmitterLocal(x)'
    BY <1>11 DEF TypeOK, DataTypes, LocalTypes, ControlTypes, LocalInv, EmitterLocal, FinishLargeAssignment,
       Goto, localVars
  <2>2. ASSUME NEW x \in Threads PROVE BatchLocal(x)'
    BY <1>11 DEF TypeOK, DataTypes, TakeTypes, ControlTypes, LocalInv, BatchLocal, FinishLargeAssignment,
       Goto, takeVars
  <2>3. ASSUME NEW x \in Threads PROVE FinishLocal(x)'
    BY <1>11 DEF TypeOK, DataTypes, TakeTypes, ControlTypes, LocalInv, FinishLocal, FinishLargeAssignment,
       Goto, takeVars, leafVars
  <2>4. ASSUME NEW x \in Threads PROVE SpawnLocal(x)'
    BY <1>11 DEF TypeOK, DataTypes, LocalTypes, ControlTypes, LocalInv, SpawnLocal, FinishLargeAssignment,
       Goto, localVars
  <2> QED BY <2>1, <2>2, <2>3, <2>4 DEF LocalInv
<1>12. ASSUME NEW e \in Emitters, NEW l \in Leaves, NEW m \in {"emitted", "deferred"},
             EmitLeaf(e, l, m)
      PROVE  LocalInv'
  <2>1. ASSUME NEW x \in Emitters PROVE EmitterLocal(x)'
    BY <1>12, SchedulerAssumption DEF TypeOK, DataTypes, LocalTypes, ControlTypes, LocalInv, EmitterLocal, EmitLeaf,
       Goto, localVars, EmitterReturns
  <2>2. ASSUME NEW x \in Threads PROVE BatchLocal(x)'
    BY <1>12 DEF TypeOK, DataTypes, TakeTypes, ControlTypes, LocalInv, BatchLocal, EmitLeaf,
       Goto, takeVars, EmitterReturns
  <2>3. ASSUME NEW x \in Threads PROVE FinishLocal(x)'
    BY <1>12 DEF TypeOK, DataTypes, TakeTypes, ControlTypes, LocalInv, FinishLocal, EmitLeaf,
       Goto, takeVars, leafVars, EmitterReturns
  <2>4. ASSUME NEW x \in Threads PROVE SpawnLocal(x)'
    BY <1>12 DEF TypeOK, DataTypes, LocalTypes, ControlTypes, LocalInv, SpawnLocal, EmitLeaf,
       Goto, localVars, EmitterReturns
  <2> QED BY <2>1, <2>2, <2>3, <2>4 DEF LocalInv
<1>13. ASSUME NEW e \in Emitters, NEW l \in Leaves, EmitLeafInline(e, l)
      PROVE  LocalInv'
  <2>1. ASSUME NEW x \in Emitters PROVE EmitterLocal(x)'
    BY <1>13 DEF TypeOK, DataTypes, LocalTypes, ControlTypes, LocalInv, EmitterLocal, EmitLeafInline,
       Goto, localVars, EmitterReturns
  <2>2. ASSUME NEW x \in Threads PROVE BatchLocal(x)'
    BY <1>13 DEF TypeOK, DataTypes, TakeTypes, ControlTypes, LocalInv, BatchLocal, EmitLeafInline,
       Goto, takeVars, EmitterReturns
  <2>3. ASSUME NEW x \in Threads PROVE FinishLocal(x)'
    BY <1>13 DEF TypeOK, DataTypes, TakeTypes, ControlTypes, LocalInv, FinishLocal, EmitLeafInline,
       Goto, takeVars, leafVars, EmitterReturns
  <2>4. ASSUME NEW x \in Threads PROVE SpawnLocal(x)'
    BY <1>13 DEF TypeOK, DataTypes, LocalTypes, ControlTypes, LocalInv, SpawnLocal, EmitLeafInline,
       Goto, localVars, EmitterReturns
  <2> QED BY <2>1, <2>2, <2>3, <2>4 DEF LocalInv
<1>14. ASSUME NEW e \in Emitters, NEW p \in LimitPairs, BeginLeafDrainerLimit(e, p)
      PROVE  LocalInv'
  <2>1. ASSUME NEW x \in Emitters PROVE EmitterLocal(x)'
    BY <1>14 DEF TypeOK, DataTypes, LocalTypes, ControlTypes, LocalInv, EmitterLocal, BeginLeafDrainerLimit,
       Goto, localVars
  <2>2. ASSUME NEW x \in Threads PROVE BatchLocal(x)'
    BY <1>14 DEF TypeOK, DataTypes, TakeTypes, ControlTypes, LocalInv, BatchLocal, BeginLeafDrainerLimit,
       Goto, takeVars
  <2>3. ASSUME NEW x \in Threads PROVE FinishLocal(x)'
    BY <1>14 DEF TypeOK, DataTypes, TakeTypes, ControlTypes, LocalInv, FinishLocal, BeginLeafDrainerLimit,
       Goto, takeVars, leafVars
  <2>4. ASSUME NEW x \in Threads PROVE SpawnLocal(x)'
    BY <1>14 DEF TypeOK, DataTypes, LocalTypes, ControlTypes, LocalInv, SpawnLocal, BeginLeafDrainerLimit,
       Goto, localVars
  <2> QED BY <2>1, <2>2, <2>3, <2>4 DEF LocalInv
<1>15. ASSUME NEW t \in Threads, SpawnReadBacklog(t)
      PROVE  LocalInv'
  <2>1. ASSUME NEW x \in Emitters PROVE EmitterLocal(x)'
    BY <1>15, RoleFacts DEF TypeOK, DataTypes, LocalTypes, ControlTypes, LocalInv, EmitterLocal, SpawnReadBacklog,
       Goto, localVars, AfterSpawn
  <2>2. ASSUME NEW x \in Threads PROVE BatchLocal(x)'
    BY <1>15, AfterSpawnLabel DEF TypeOK, DataTypes, TakeTypes, ControlTypes, LocalInv, BatchLocal, SpawnReadBacklog,
       Goto, takeVars
  <2>3. ASSUME NEW x \in Threads PROVE FinishLocal(x)'
    BY <1>15, AfterSpawnLabel DEF TypeOK, DataTypes, TakeTypes, ControlTypes, LocalInv, FinishLocal, SpawnReadBacklog,
       Goto, takeVars, leafVars
  <2>4. ASSUME NEW x \in Threads PROVE SpawnLocal(x)'
    BY <1>15, AfterSpawnLabel DEF TypeOK, DataTypes, LocalTypes, ControlTypes, LocalInv, SpawnLocal, SpawnReadBacklog,
       Goto, localVars
  <2> QED BY <2>1, <2>2, <2>3, <2>4 DEF LocalInv
<1>16. ASSUME NEW t \in Threads, SpawnReadActive(t)
      PROVE  LocalInv'
  <2>1. ASSUME NEW x \in Emitters PROVE EmitterLocal(x)'
    BY <1>16, RoleFacts DEF TypeOK, DataTypes, LocalTypes, ControlTypes, LocalInv, EmitterLocal, SpawnReadActive,
       Goto, localVars, AfterSpawn
  <2>2. ASSUME NEW x \in Threads PROVE BatchLocal(x)'
    BY <1>16, AfterSpawnLabel DEF TypeOK, DataTypes, TakeTypes, ControlTypes, LocalInv, BatchLocal, SpawnReadActive,
       Goto, takeVars
  <2>3. ASSUME NEW x \in Threads PROVE FinishLocal(x)'
    BY <1>16, AfterSpawnLabel DEF TypeOK, DataTypes, TakeTypes, ControlTypes, LocalInv, FinishLocal, SpawnReadActive,
       Goto, takeVars, leafVars
  <2>4. ASSUME NEW x \in Threads PROVE SpawnLocal(x)'
    <3>1. /\ LeafWorkerLimit(seen[t]) \in Nat
          /\ LeafWorkerLimit(seen[t]) <= WorkerCapacity
      BY LeafWorkerLimitBound DEF TypeOK, DataTypes, LocalTypes
    <3>2. active \in Nat /\ WorkerCapacity \in Nat
      BY SchedulerAssumption DEF TypeOK, CounterTypes
    <3> QED BY <1>16, AfterSpawnLabel, <3>1, <3>2
        DEF TypeOK, DataTypes, LocalTypes, ControlTypes, LocalInv, SpawnLocal, SpawnReadActive, Goto
  <2> QED BY <2>1, <2>2, <2>3, <2>4 DEF LocalInv
<1>17. ASSUME NEW t \in Threads, SpawnCas(t)
      PROVE  LocalInv'
  <2>1. ASSUME NEW x \in Emitters PROVE EmitterLocal(x)'
    BY <1>17 DEF TypeOK, DataTypes, LocalTypes, ControlTypes, LocalInv, EmitterLocal, SpawnCas,
       Goto, localVars
  <2>2. ASSUME NEW x \in Threads PROVE BatchLocal(x)'
    BY <1>17 DEF TypeOK, DataTypes, TakeTypes, ControlTypes, LocalInv, BatchLocal, SpawnCas,
       Goto, takeVars
  <2>3. ASSUME NEW x \in Threads PROVE FinishLocal(x)'
    BY <1>17 DEF TypeOK, DataTypes, TakeTypes, ControlTypes, LocalInv, FinishLocal, SpawnCas,
       Goto, takeVars, leafVars
  <2>4. ASSUME NEW x \in Threads PROVE SpawnLocal(x)'
    BY <1>17 DEF TypeOK, DataTypes, LocalTypes, ControlTypes, LocalInv, SpawnLocal, SpawnCas,
       Goto, localVars
  <2> QED BY <2>1, <2>2, <2>3, <2>4 DEF LocalInv
<1>18. ASSUME NEW t \in Threads, TakeLeaf(t)
      PROVE  LocalInv'
  <2>0. /\ AfterNothing(t) \in {"leave", "check", "wait", "count", "soft", "creditWait"}
        /\ RunBatch(batch[t]) \in {"hydrate", "build"}
    BY <1>18, AfterHelpLabel, RoleFacts DEF AfterNothing, RunBatch, TakeLeaf
  <2>5. backlog # <<>> => Head(backlog) \in Leaves /\ Head(backlog) # NoLeaf
    BY HeadTailProperties, SchedulerAssumption DEF TypeOK, DataTypes, QueueTypes
  <2>1. ASSUME NEW x \in Emitters PROVE EmitterLocal(x)'
    BY <1>18, RoleFacts, <2>0 DEF TypeOK, DataTypes, LocalTypes, ControlTypes, LocalInv, EmitterLocal, TakeLeaf,
       Goto, localVars, AfterNothing, AfterHelp
  <2>2. ASSUME NEW x \in Threads PROVE BatchLocal(x)'
    <3>1. CASE backlog = <<>>
      <4>1. UNCHANGED <<batch, popped>>
        BY <1>18, <3>1 DEF TakeLeaf
      <4>2. PICK l : Goto(t, l) /\ l \notin {"debit", "drop"}
                     /\ (batch[t] # {} => l \in {"hydrate", "build"})
        BY <1>18, <2>0, <3>1 DEF TakeLeaf
      <4>3. pc[t] = "take"
        BY <1>18 DEF TakeLeaf
      <4> QED BY <4>1, <4>2, <4>3 DEF TypeOK, ControlTypes, LocalInv, BatchLocal, Goto
    <3>2. CASE backlog # <<>>
      <4>1. /\ batch' = [batch EXCEPT ![t] = @ \cup {Head(backlog)}]
            /\ popped' = [popped EXCEPT ![t] = Head(backlog)]
            /\ pc' = [pc EXCEPT ![t] = "debit"]
        BY <1>18, <3>2 DEF TakeLeaf, Goto
      <4>2. CASE x = t
        <5>1. /\ popped'[t] = Head(backlog)
              /\ pc'[t] = "debit"
              /\ Head(backlog) \in batch'[t]
          BY <4>1 DEF TypeOK, DataTypes, TakeTypes, ControlTypes
        <5> QED BY <2>5, <3>2, <4>2, <5>1 DEF BatchLocal
      <4>3. CASE x # t
        <5>1. batch'[x] = batch[x] /\ popped'[x] = popped[x] /\ pc'[x] = pc[x]
          BY <4>1, <4>3 DEF TypeOK, DataTypes, TakeTypes, ControlTypes
        <5> QED BY <5>1 DEF LocalInv, BatchLocal
      <4> QED BY <4>2, <4>3
    <3> QED BY <3>1, <3>2
  <2>3. ASSUME NEW x \in Threads PROVE FinishLocal(x)'
    BY <1>18, <2>0, <2>5, SMTT(30) DEF TypeOK, DataTypes, TakeTypes, ControlTypes, LocalInv, FinishLocal, TakeLeaf,
       Goto, takeVars, leafVars
  <2>4. ASSUME NEW x \in Threads PROVE SpawnLocal(x)'
    BY <1>18, <2>0, <2>5 DEF TypeOK, DataTypes, LocalTypes, ControlTypes, LocalInv, SpawnLocal, TakeLeaf,
       Goto, localVars
  <2> QED BY <2>1, <2>2, <2>3, <2>4 DEF LocalInv
<1>19. ASSUME NEW t \in Threads, DebitLeaf(t)
      PROVE  LocalInv'
  <2>1. ASSUME NEW x \in Emitters PROVE EmitterLocal(x)'
    BY <1>19 DEF TypeOK, DataTypes, LocalTypes, ControlTypes, LocalInv, EmitterLocal, DebitLeaf,
       Goto, localVars, RunBatch
  <2>2. ASSUME NEW x \in Threads PROVE BatchLocal(x)'
    BY <1>19 DEF TypeOK, DataTypes, TakeTypes, ControlTypes, LocalInv, BatchLocal, DebitLeaf,
       Goto, takeVars, RunBatch
  <2>3. ASSUME NEW x \in Threads PROVE FinishLocal(x)'
    BY <1>19 DEF TypeOK, DataTypes, TakeTypes, ControlTypes, LocalInv, FinishLocal, DebitLeaf,
       Goto, takeVars, leafVars, RunBatch
  <2>4. ASSUME NEW x \in Threads PROVE SpawnLocal(x)'
    BY <1>19 DEF TypeOK, DataTypes, LocalTypes, ControlTypes, LocalInv, SpawnLocal, DebitLeaf,
       Goto, localVars, RunBatch
  <2> QED BY <2>1, <2>2, <2>3, <2>4 DEF LocalInv
<1>20. ASSUME NEW t \in Threads, AcquireHydrationSlot(t)
      PROVE  LocalInv'
  <2>1. ASSUME NEW x \in Emitters PROVE EmitterLocal(x)'
    BY <1>20 DEF TypeOK, DataTypes, LocalTypes, ControlTypes, LocalInv, EmitterLocal, AcquireHydrationSlot,
       Goto, localVars, BatchFails
  <2>2. ASSUME NEW x \in Threads PROVE BatchLocal(x)'
    BY <1>20 DEF TypeOK, DataTypes, TakeTypes, ControlTypes, LocalInv, BatchLocal, AcquireHydrationSlot,
       Goto, takeVars, BatchFails
  <2>3. ASSUME NEW x \in Threads PROVE FinishLocal(x)'
    BY <1>20 DEF TypeOK, DataTypes, TakeTypes, ControlTypes, LocalInv, FinishLocal, AcquireHydrationSlot,
       Goto, takeVars, leafVars, BatchFails
  <2>4. ASSUME NEW x \in Threads PROVE SpawnLocal(x)'
    BY <1>20 DEF TypeOK, DataTypes, LocalTypes, ControlTypes, LocalInv, SpawnLocal, AcquireHydrationSlot,
       Goto, localVars, BatchFails
  <2> QED BY <2>1, <2>2, <2>3, <2>4 DEF LocalInv
<1>21. ASSUME NEW t \in Threads, Hydrate(t)
      PROVE  LocalInv'
  <2>1. ASSUME NEW x \in Emitters PROVE EmitterLocal(x)'
    BY <1>21 DEF TypeOK, DataTypes, LocalTypes, ControlTypes, LocalInv, EmitterLocal, Hydrate,
       Goto, localVars, BatchFails
  <2>2. ASSUME NEW x \in Threads PROVE BatchLocal(x)'
    BY <1>21 DEF TypeOK, DataTypes, TakeTypes, ControlTypes, LocalInv, BatchLocal, Hydrate,
       Goto, takeVars, BatchFails
  <2>3. ASSUME NEW x \in Threads PROVE FinishLocal(x)'
    BY <1>21 DEF TypeOK, DataTypes, TakeTypes, ControlTypes, LocalInv, FinishLocal, Hydrate,
       Goto, takeVars, leafVars, BatchFails
  <2>4. ASSUME NEW x \in Threads PROVE SpawnLocal(x)'
    BY <1>21 DEF TypeOK, DataTypes, LocalTypes, ControlTypes, LocalInv, SpawnLocal, Hydrate,
       Goto, localVars, BatchFails
  <2> QED BY <2>1, <2>2, <2>3, <2>4 DEF LocalInv
<1>22. ASSUME NEW t \in Threads, BuildBatch(t)
      PROVE  LocalInv'
  <2>1. ASSUME NEW x \in Emitters PROVE EmitterLocal(x)'
    BY <1>22 DEF TypeOK, DataTypes, LocalTypes, ControlTypes, LocalInv, EmitterLocal, BuildBatch,
       Goto, localVars
  <2>2. ASSUME NEW x \in Threads PROVE BatchLocal(x)'
    BY <1>22 DEF TypeOK, DataTypes, TakeTypes, ControlTypes, LocalInv, BatchLocal, BuildBatch,
       Goto, takeVars
  <2>3. ASSUME NEW x \in Threads PROVE FinishLocal(x)'
    BY <1>22 DEF TypeOK, DataTypes, TakeTypes, ControlTypes, LocalInv, FinishLocal, BuildBatch,
       Goto, takeVars, leafVars
  <2>4. ASSUME NEW x \in Threads PROVE SpawnLocal(x)'
    BY <1>22 DEF TypeOK, DataTypes, LocalTypes, ControlTypes, LocalInv, SpawnLocal, BuildBatch,
       Goto, localVars
  <2> QED BY <2>1, <2>2, <2>3, <2>4 DEF LocalInv
<1>23. ASSUME NEW t \in Threads, FinishLeafExecution(t)
      PROVE  LocalInv'
  <2>1. ASSUME NEW x \in Emitters PROVE EmitterLocal(x)'
    BY <1>23 DEF TypeOK, DataTypes, LocalTypes, ControlTypes, LocalInv, EmitterLocal, FinishLeafExecution,
       Goto, localVars
  <2>2. ASSUME NEW x \in Threads PROVE BatchLocal(x)'
    BY <1>23 DEF TypeOK, DataTypes, TakeTypes, ControlTypes, LocalInv, BatchLocal, FinishLeafExecution,
       Goto, takeVars
  <2>3. ASSUME NEW x \in Threads PROVE FinishLocal(x)'
    BY <1>23 DEF TypeOK, DataTypes, TakeTypes, ControlTypes, LocalInv, FinishLocal, FinishLeafExecution,
       Goto, takeVars, leafVars
  <2>4. ASSUME NEW x \in Threads PROVE SpawnLocal(x)'
    BY <1>23 DEF TypeOK, DataTypes, LocalTypes, ControlTypes, LocalInv, SpawnLocal, FinishLeafExecution,
       Goto, localVars
  <2> QED BY <2>1, <2>2, <2>3, <2>4 DEF LocalInv
<1>24. ASSUME NEW t \in Threads, HelperReturns(t)
      PROVE  LocalInv'
  <2>0. AfterHelp(t) \in {"check", "wait", "count", "soft", "creditWait"}
    BY <1>24, AfterHelpLabel, RoleFacts DEF HelperReturns
  <2>1. ASSUME NEW x \in Emitters PROVE EmitterLocal(x)'
    BY <1>24, RoleFacts DEF TypeOK, DataTypes, LocalTypes, ControlTypes, LocalInv, EmitterLocal, HelperReturns,
       Goto, localVars, EmitterReturns, AfterHelp
  <2>2. ASSUME NEW x \in Threads PROVE BatchLocal(x)'
    BY <1>24, <2>0 DEF TypeOK, DataTypes, TakeTypes, ControlTypes, LocalInv, BatchLocal, HelperReturns,
       Goto, takeVars, EmitterReturns
  <2>3. ASSUME NEW x \in Threads PROVE FinishLocal(x)'
    BY <1>24, <2>0 DEF TypeOK, DataTypes, TakeTypes, ControlTypes, LocalInv, FinishLocal, HelperReturns,
       Goto, takeVars, leafVars, EmitterReturns
  <2>4. ASSUME NEW x \in Threads PROVE SpawnLocal(x)'
    BY <1>24, <2>0 DEF TypeOK, DataTypes, LocalTypes, ControlTypes, LocalInv, SpawnLocal, HelperReturns,
       Goto, localVars, EmitterReturns
  <2> QED BY <2>1, <2>2, <2>3, <2>4 DEF LocalInv
<1>25. ASSUME NEW d \in Drainers, StartDrainer(d)
      PROVE  LocalInv'
  <2>1. ASSUME NEW x \in Emitters PROVE EmitterLocal(x)'
    BY <1>25 DEF TypeOK, DataTypes, LocalTypes, ControlTypes, LocalInv, EmitterLocal, StartDrainer,
       Goto, localVars
  <2>2. ASSUME NEW x \in Threads PROVE BatchLocal(x)'
    BY <1>25 DEF TypeOK, DataTypes, TakeTypes, ControlTypes, LocalInv, BatchLocal, StartDrainer,
       Goto, takeVars
  <2>3. ASSUME NEW x \in Threads PROVE FinishLocal(x)'
    BY <1>25 DEF TypeOK, DataTypes, TakeTypes, ControlTypes, LocalInv, FinishLocal, StartDrainer,
       Goto, takeVars, leafVars
  <2>4. ASSUME NEW x \in Threads PROVE SpawnLocal(x)'
    BY <1>25 DEF TypeOK, DataTypes, LocalTypes, ControlTypes, LocalInv, SpawnLocal, StartDrainer,
       Goto, localVars
  <2> QED BY <2>1, <2>2, <2>3, <2>4 DEF LocalInv
<1>26. ASSUME NEW d \in Drainers, DrainerChecks(d)
      PROVE  LocalInv'
  <2>1. ASSUME NEW x \in Emitters PROVE EmitterLocal(x)'
    BY <1>26, RoleFacts DEF TypeOK, DataTypes, LocalTypes, ControlTypes, LocalInv, EmitterLocal, DrainerChecks,
       Goto, localVars
  <2>2. ASSUME NEW x \in Threads PROVE BatchLocal(x)'
    BY <1>26 DEF TypeOK, DataTypes, TakeTypes, ControlTypes, LocalInv, BatchLocal, DrainerChecks,
       Goto, takeVars
  <2>3. ASSUME NEW x \in Threads PROVE FinishLocal(x)'
    BY <1>26 DEF TypeOK, DataTypes, TakeTypes, ControlTypes, LocalInv, FinishLocal, DrainerChecks,
       Goto, takeVars, leafVars
  <2>4. ASSUME NEW x \in Threads PROVE SpawnLocal(x)'
    BY <1>26 DEF TypeOK, DataTypes, LocalTypes, ControlTypes, LocalInv, SpawnLocal, DrainerChecks,
       Goto, localVars
  <2> QED BY <2>1, <2>2, <2>3, <2>4 DEF LocalInv
<1>27. ASSUME NEW d \in Drainers, DrainerReadsActive(d)
      PROVE  LocalInv'
  <2>1. ASSUME NEW x \in Emitters PROVE EmitterLocal(x)'
    BY <1>27 DEF TypeOK, DataTypes, LocalTypes, ControlTypes, LocalInv, EmitterLocal, DrainerReadsActive,
       Goto, localVars
  <2>2. ASSUME NEW x \in Threads PROVE BatchLocal(x)'
    BY <1>27 DEF TypeOK, DataTypes, TakeTypes, ControlTypes, LocalInv, BatchLocal, DrainerReadsActive,
       Goto, takeVars
  <2>3. ASSUME NEW x \in Threads PROVE FinishLocal(x)'
    BY <1>27 DEF TypeOK, DataTypes, TakeTypes, ControlTypes, LocalInv, FinishLocal, DrainerReadsActive,
       Goto, takeVars, leafVars
  <2>4. ASSUME NEW x \in Threads PROVE SpawnLocal(x)'
    BY <1>27 DEF TypeOK, DataTypes, LocalTypes, ControlTypes, LocalInv, SpawnLocal, DrainerReadsActive,
       Goto, localVars
  <2> QED BY <2>1, <2>2, <2>3, <2>4 DEF LocalInv
<1>28. ASSUME NEW d \in Drainers, ReserveRetirement(d)
      PROVE  LocalInv'
  <2>1. ASSUME NEW x \in Emitters PROVE EmitterLocal(x)'
    BY <1>28, RoleFacts DEF TypeOK, DataTypes, LocalTypes, ControlTypes, LocalInv, EmitterLocal, ReserveRetirement,
       Goto, localVars
  <2>2. ASSUME NEW x \in Threads PROVE BatchLocal(x)'
    BY <1>28 DEF TypeOK, DataTypes, TakeTypes, ControlTypes, LocalInv, BatchLocal, ReserveRetirement,
       Goto, takeVars
  <2>3. ASSUME NEW x \in Threads PROVE FinishLocal(x)'
    BY <1>28 DEF TypeOK, DataTypes, TakeTypes, ControlTypes, LocalInv, FinishLocal, ReserveRetirement,
       Goto, takeVars, leafVars
  <2>4. ASSUME NEW x \in Threads PROVE SpawnLocal(x)'
    BY <1>28 DEF TypeOK, DataTypes, LocalTypes, ControlTypes, LocalInv, SpawnLocal, ReserveRetirement,
       Goto, localVars
  <2> QED BY <2>1, <2>2, <2>3, <2>4 DEF LocalInv
<1>29. ASSUME NEW d \in Drainers, DrainerBatchDone(d)
      PROVE  LocalInv'
  <2>1. ASSUME NEW x \in Emitters PROVE EmitterLocal(x)'
    BY <1>29 DEF TypeOK, DataTypes, LocalTypes, ControlTypes, LocalInv, EmitterLocal, DrainerBatchDone,
       Goto, localVars, AfterHelp
  <2>2. ASSUME NEW x \in Threads PROVE BatchLocal(x)'
    BY <1>29 DEF TypeOK, DataTypes, TakeTypes, ControlTypes, LocalInv, BatchLocal, DrainerBatchDone,
       Goto, takeVars, AfterHelp
  <2>3. ASSUME NEW x \in Threads PROVE FinishLocal(x)'
    BY <1>29 DEF TypeOK, DataTypes, TakeTypes, ControlTypes, LocalInv, FinishLocal, DrainerBatchDone,
       Goto, takeVars, leafVars, AfterHelp
  <2>4. ASSUME NEW x \in Threads PROVE SpawnLocal(x)'
    BY <1>29 DEF TypeOK, DataTypes, LocalTypes, ControlTypes, LocalInv, SpawnLocal, DrainerBatchDone,
       Goto, localVars, AfterHelp
  <2> QED BY <2>1, <2>2, <2>3, <2>4 DEF LocalInv
<1>30. ASSUME NEW d \in Drainers, RecordError(d)
      PROVE  LocalInv'
  <2>1. ASSUME NEW x \in Emitters PROVE EmitterLocal(x)'
    BY <1>30 DEF TypeOK, DataTypes, LocalTypes, ControlTypes, LocalInv, EmitterLocal, RecordError,
       Goto, localVars
  <2>2. ASSUME NEW x \in Threads PROVE BatchLocal(x)'
    BY <1>30 DEF TypeOK, DataTypes, TakeTypes, ControlTypes, LocalInv, BatchLocal, RecordError,
       Goto, takeVars
  <2>3. ASSUME NEW x \in Threads PROVE FinishLocal(x)'
    BY <1>30 DEF TypeOK, DataTypes, TakeTypes, ControlTypes, LocalInv, FinishLocal, RecordError,
       Goto, takeVars, leafVars
  <2>4. ASSUME NEW x \in Threads PROVE SpawnLocal(x)'
    BY <1>30 DEF TypeOK, DataTypes, LocalTypes, ControlTypes, LocalInv, SpawnLocal, RecordError,
       Goto, localVars
  <2> QED BY <2>1, <2>2, <2>3, <2>4 DEF LocalInv
<1>31. ASSUME NEW d \in Drainers, DrainerUnreserves(d)
      PROVE  LocalInv'
  <2>1. ASSUME NEW x \in Emitters PROVE EmitterLocal(x)'
    BY <1>31 DEF TypeOK, DataTypes, LocalTypes, ControlTypes, LocalInv, EmitterLocal, DrainerUnreserves,
       Goto, localVars
  <2>2. ASSUME NEW x \in Threads PROVE BatchLocal(x)'
    BY <1>31 DEF TypeOK, DataTypes, TakeTypes, ControlTypes, LocalInv, BatchLocal, DrainerUnreserves,
       Goto, takeVars
  <2>3. ASSUME NEW x \in Threads PROVE FinishLocal(x)'
    BY <1>31 DEF TypeOK, DataTypes, TakeTypes, ControlTypes, LocalInv, FinishLocal, DrainerUnreserves,
       Goto, takeVars, leafVars
  <2>4. ASSUME NEW x \in Threads PROVE SpawnLocal(x)'
    BY <1>31 DEF TypeOK, DataTypes, LocalTypes, ControlTypes, LocalInv, SpawnLocal, DrainerUnreserves,
       Goto, localVars
  <2> QED BY <2>1, <2>2, <2>3, <2>4 DEF LocalInv
<1>32. ASSUME NEW d \in Drainers, DrainerLeaves(d)
      PROVE  LocalInv'
  <2>1. ASSUME NEW x \in Emitters PROVE EmitterLocal(x)'
    BY <1>32 DEF TypeOK, DataTypes, LocalTypes, ControlTypes, LocalInv, EmitterLocal, DrainerLeaves,
       Goto, localVars
  <2>2. ASSUME NEW x \in Threads PROVE BatchLocal(x)'
    BY <1>32 DEF TypeOK, DataTypes, TakeTypes, ControlTypes, LocalInv, BatchLocal, DrainerLeaves,
       Goto, takeVars
  <2>3. ASSUME NEW x \in Threads PROVE FinishLocal(x)'
    BY <1>32 DEF TypeOK, DataTypes, TakeTypes, ControlTypes, LocalInv, FinishLocal, DrainerLeaves,
       Goto, takeVars, leafVars
  <2>4. ASSUME NEW x \in Threads PROVE SpawnLocal(x)'
    BY <1>32 DEF TypeOK, DataTypes, LocalTypes, ControlTypes, LocalInv, SpawnLocal, DrainerLeaves,
       Goto, localVars
  <2> QED BY <2>1, <2>2, <2>3, <2>4 DEF LocalInv
<1>33. CASE ProducerReturns
  <2>1. ASSUME NEW x \in Emitters PROVE EmitterLocal(x)'
    BY <1>33 DEF TypeOK, DataTypes, LocalTypes, ControlTypes, LocalInv, EmitterLocal, ProducerReturns,
       Goto, localVars
  <2>2. ASSUME NEW x \in Threads PROVE BatchLocal(x)'
    BY <1>33 DEF TypeOK, DataTypes, TakeTypes, ControlTypes, LocalInv, BatchLocal, ProducerReturns,
       Goto, takeVars
  <2>3. ASSUME NEW x \in Threads PROVE FinishLocal(x)'
    BY <1>33 DEF TypeOK, DataTypes, TakeTypes, ControlTypes, LocalInv, FinishLocal, ProducerReturns,
       Goto, takeVars, leafVars
  <2>4. ASSUME NEW x \in Threads PROVE SpawnLocal(x)'
    BY <1>33 DEF TypeOK, DataTypes, LocalTypes, ControlTypes, LocalInv, SpawnLocal, ProducerReturns,
       Goto, localVars
  <2> QED BY <2>1, <2>2, <2>3, <2>4 DEF LocalInv
<1>34. CASE DiscardPop
  <2>5. backlog # <<>> => Head(backlog) \in Leaves /\ Head(backlog) # NoLeaf
    BY HeadTailProperties, SchedulerAssumption DEF TypeOK, DataTypes, QueueTypes
  <2>1. ASSUME NEW x \in Emitters PROVE EmitterLocal(x)'
    BY <1>34, <2>5 DEF TypeOK, DataTypes, LocalTypes, ControlTypes, LocalInv, EmitterLocal, DiscardPop,
       Goto, localVars
  <2>2. ASSUME NEW x \in Threads PROVE BatchLocal(x)'
    BY <1>34, <2>5 DEF TypeOK, DataTypes, TakeTypes, ControlTypes, LocalInv, BatchLocal, DiscardPop,
       Goto, takeVars
  <2>3. ASSUME NEW x \in Threads PROVE FinishLocal(x)'
    BY <1>34, <2>5 DEF TypeOK, DataTypes, TakeTypes, ControlTypes, LocalInv, FinishLocal, DiscardPop,
       Goto, takeVars, leafVars
  <2>4. ASSUME NEW x \in Threads PROVE SpawnLocal(x)'
    BY <1>34, <2>5 DEF TypeOK, DataTypes, LocalTypes, ControlTypes, LocalInv, SpawnLocal, DiscardPop,
       Goto, localVars
  <2> QED BY <2>1, <2>2, <2>3, <2>4 DEF LocalInv
<1>35. CASE DiscardDrop
  <2>1. ASSUME NEW x \in Emitters PROVE EmitterLocal(x)'
    BY <1>35 DEF TypeOK, DataTypes, LocalTypes, ControlTypes, LocalInv, EmitterLocal, DiscardDrop,
       Goto, localVars
  <2>2. ASSUME NEW x \in Threads PROVE BatchLocal(x)'
    BY <1>35 DEF TypeOK, DataTypes, TakeTypes, ControlTypes, LocalInv, BatchLocal, DiscardDrop,
       Goto, takeVars
  <2>3. ASSUME NEW x \in Threads PROVE FinishLocal(x)'
    BY <1>35 DEF TypeOK, DataTypes, TakeTypes, ControlTypes, LocalInv, FinishLocal, DiscardDrop,
       Goto, takeVars, leafVars
  <2>4. ASSUME NEW x \in Threads PROVE SpawnLocal(x)'
    BY <1>35 DEF TypeOK, DataTypes, LocalTypes, ControlTypes, LocalInv, SpawnLocal, DiscardDrop,
       Goto, localVars
  <2> QED BY <2>1, <2>2, <2>3, <2>4 DEF LocalInv
<1>36. CASE WaitUntilIdle
  <2>1. ASSUME NEW x \in Emitters PROVE EmitterLocal(x)'
    BY <1>36, RoleFacts DEF TypeOK, DataTypes, LocalTypes, ControlTypes, LocalInv, EmitterLocal, WaitUntilIdle,
       Goto, localVars
  <2>2. ASSUME NEW x \in Threads PROVE BatchLocal(x)'
    BY <1>36 DEF TypeOK, DataTypes, TakeTypes, ControlTypes, LocalInv, BatchLocal, WaitUntilIdle,
       Goto, takeVars
  <2>3. ASSUME NEW x \in Threads PROVE FinishLocal(x)'
    BY <1>36 DEF TypeOK, DataTypes, TakeTypes, ControlTypes, LocalInv, FinishLocal, WaitUntilIdle,
       Goto, takeVars, leafVars
  <2>4. ASSUME NEW x \in Threads PROVE SpawnLocal(x)'
    BY <1>36 DEF TypeOK, DataTypes, LocalTypes, ControlTypes, LocalInv, SpawnLocal, WaitUntilIdle,
       Goto, localVars
  <2> QED BY <2>1, <2>2, <2>3, <2>4 DEF LocalInv
<1>37. CASE FinalCheck
  <2>1. ASSUME NEW x \in Emitters PROVE EmitterLocal(x)'
    BY <1>37 DEF TypeOK, DataTypes, LocalTypes, ControlTypes, LocalInv, EmitterLocal, FinalCheck,
       Goto, localVars
  <2>2. ASSUME NEW x \in Threads PROVE BatchLocal(x)'
    BY <1>37 DEF TypeOK, DataTypes, TakeTypes, ControlTypes, LocalInv, BatchLocal, FinalCheck,
       Goto, takeVars
  <2>3. ASSUME NEW x \in Threads PROVE FinishLocal(x)'
    BY <1>37 DEF TypeOK, DataTypes, TakeTypes, ControlTypes, LocalInv, FinishLocal, FinalCheck,
       Goto, takeVars, leafVars
  <2>4. ASSUME NEW x \in Threads PROVE SpawnLocal(x)'
    BY <1>37 DEF TypeOK, DataTypes, LocalTypes, ControlTypes, LocalInv, SpawnLocal, FinalCheck,
       Goto, localVars
  <2> QED BY <2>1, <2>2, <2>3, <2>4 DEF LocalInv
<1>38. CASE ScopeReturns
  <2>1. ASSUME NEW x \in Emitters PROVE EmitterLocal(x)'
    BY <1>38, RoleFacts DEF TypeOK, DataTypes, LocalTypes, ControlTypes, LocalInv, EmitterLocal, ScopeReturns,
       Goto, localVars
  <2>2. ASSUME NEW x \in Threads PROVE BatchLocal(x)'
    BY <1>38 DEF TypeOK, DataTypes, TakeTypes, ControlTypes, LocalInv, BatchLocal, ScopeReturns,
       Goto, takeVars
  <2>3. ASSUME NEW x \in Threads PROVE FinishLocal(x)'
    BY <1>38 DEF TypeOK, DataTypes, TakeTypes, ControlTypes, LocalInv, FinishLocal, ScopeReturns,
       Goto, takeVars, leafVars
  <2>4. ASSUME NEW x \in Threads PROVE SpawnLocal(x)'
    BY <1>38 DEF TypeOK, DataTypes, LocalTypes, ControlTypes, LocalInv, SpawnLocal, ScopeReturns,
       Goto, localVars
  <2> QED BY <2>1, <2>2, <2>3, <2>4 DEF LocalInv
<1>39. CASE UNCHANGED vars
  BY <1>39
  DEF LocalInv, EmitterLocal, BatchLocal, FinishLocal, SpawnLocal, vars, localVars, takeVars,
      leafVars
<1> QED
  BY <1>1, <1>2, <1>3, <1>4, <1>5, <1>6, <1>7, <1>8, <1>9, <1>10, <1>11,
         <1>12, <1>13, <1>14, <1>15, <1>16, <1>17, <1>18, <1>19, <1>20, <1>21,
         <1>22, <1>23, <1>24, <1>25, <1>26, <1>27, <1>28, <1>29, <1>30, <1>31,
         <1>32, <1>33, <1>34, <1>35, <1>36, <1>37, <1>38, <1>39
  DEF Next, EmitterStep, GuardStep, WorkStep, DrainerStep, MainStep, Done

-----------------------------------------------------------------------------
(* Every leaf is in one place: ExactlyOnce, leaf by leaf.                  *)

Settled == processed \cup failed \cup discarded

Apart ==
  /\ processed \cap failed = {} /\ processed \cap discarded = {} /\ failed \cap discarded = {}
  /\ \A l \in fresh : l \notin Range(backlog) /\ l \notin Settled
  /\ \A l \in Range(backlog) : l \notin Settled
  /\ \A t \in Threads : \A l \in batch[t] :
       /\ l \notin fresh
       /\ l \notin Range(backlog)
       /\ pc[t] # "finish" => l \notin Settled
       /\ \A s \in Threads : l \in batch[s] => s = t
  /\ \A e \in Emitters : \A l \in Held(e) :
       /\ l \notin fresh
       /\ l \notin Range(backlog)
       /\ l \notin Settled
       /\ \A t \in Threads : l \notin batch[t]
       /\ \A d \in Emitters : l \in Held(d) => d = e

Somewhere ==
  \A l \in Leaves : \/ l \in fresh
                    \/ l \in Range(backlog)
                    \/ l \in Settled
                    \/ \E t \in Threads : l \in batch[t]
                    \/ \E e \in Emitters : l \in Held(e)

NoDuplicates == \A i, j \in DOMAIN backlog : backlog[i] = backlog[j] => i = j

PlacesInv == Apart /\ Somewhere /\ NoDuplicates

\* A step that moves no leaf.
LEMMA PlacesFrame ==
  ASSUME PlacesInv,
         UNCHANGED <<backlog, leafVars, batch>>,
         \A e \in Emitters : Held(e)' = Held(e),
         \A t \in Threads : batch[t] # {} /\ pc[t] = "finish" => pc'[t] = "finish"
  PROVE  PlacesInv'
<1>1. UNCHANGED <<Range(backlog), Settled, NoDuplicates, fresh, processed, failed, discarded>>
  BY DEF Settled, NoDuplicates, leafVars, Range
<1>2. Apart'
  BY <1>1 DEF PlacesInv, Apart
<1>3. Somewhere'
  BY <1>1 DEF PlacesInv, Somewhere
<1> QED BY <1>1, <1>2, <1>3 DEF PlacesInv

\* Every step leaves every leaf in one place.
LEMMA PlacesStep ==
  ASSUME TypeOK, LocalInv, PlacesInv, [Next]_vars
  PROVE  PlacesInv'
<1> USE ThreadFacts
<1>1. ASSUME NEW e \in Emitters, ProducerBranchEnds(e)
      PROVE  PlacesInv'
  <2>1. UNCHANGED <<backlog, leafVars, batch>>
    BY <1>1 DEF ProducerBranchEnds, queueVars, takeVars
  <2>2. ASSUME NEW x \in Emitters PROVE Held(x)' = Held(x)
    BY <1>1, RoleFacts DEF TypeOK, DataTypes, LocalTypes, ControlTypes, LocalInv, EmitterLocal,
       Held, ProducerBranchEnds, Goto, localVars, EmitterReturns
  <2>3. ASSUME NEW x \in Threads, batch[x] # {}, pc[x] = "finish" PROVE pc'[x] = "finish"
    BY <1>1, <2>3 DEF TypeOK, ControlTypes, ProducerBranchEnds, Goto, EmitterReturns
  <2> QED BY <2>1, <2>2, <2>3, PlacesFrame
<1>2. ASSUME NEW e \in Emitters, EmitterUnwound(e)
      PROVE  PlacesInv'
  <2>1. UNCHANGED <<backlog, leafVars, batch>>
    BY <1>2 DEF EmitterUnwound, queueVars, takeVars
  <2>2. ASSUME NEW x \in Emitters PROVE Held(x)' = Held(x)
    BY <1>2, RoleFacts DEF TypeOK, DataTypes, LocalTypes, ControlTypes, LocalInv, EmitterLocal,
       Held, EmitterUnwound, Goto, localVars
  <2>3. ASSUME NEW x \in Threads, batch[x] # {}, pc[x] = "finish" PROVE pc'[x] = "finish"
    BY <1>2, <2>3 DEF TypeOK, ControlTypes, EmitterUnwound, Goto
  <2> QED BY <2>1, <2>2, <2>3, PlacesFrame
<1>3. ASSUME NEW e \in Emitters, CountLeaf(e)
      PROVE  PlacesInv'
  <2>1. UNCHANGED <<backlog, leafVars, batch>>
    BY <1>3 DEF CountLeaf, queueVars, takeVars
  <2>2. ASSUME NEW x \in Emitters PROVE Held(x)' = Held(x)
    BY <1>3, RoleFacts DEF TypeOK, DataTypes, LocalTypes, ControlTypes, LocalInv, EmitterLocal,
       Held, CountLeaf, Goto, localVars
  <2>3. ASSUME NEW x \in Threads, batch[x] # {}, pc[x] = "finish" PROVE pc'[x] = "finish"
    BY <1>3, <2>3 DEF TypeOK, ControlTypes, CountLeaf, Goto
  <2> QED BY <2>1, <2>2, <2>3, PlacesFrame
<1>4. ASSUME NEW e \in Emitters, PushLeaf(e)
      PROVE  PlacesInv'
  <2>1. /\ UNCHANGED <<leafVars, batch, item>> /\ pc[e] = "push"
        /\ item[e] \in Leaves /\ item[e] # NoLeaf /\ backlog \in Seq(Leaves)
    BY <1>4 DEF PushLeaf, takeVars, localVars, TypeOK, DataTypes, LocalTypes, QueueTypes, LocalInv,
       EmitterLocal
  <2>2. CASE backlog' = backlog /\ Goto(e, "uncount")
    <3>1. \A x \in Emitters : Held(x)' = Held(x)
      BY <2>1, <2>2 DEF TypeOK, ControlTypes, Held, Goto
    <3>2. \A x \in Threads : pc[x] = "finish" => pc'[x] = "finish"
      BY <2>1, <2>2 DEF TypeOK, ControlTypes, Goto
    <3> QED BY <2>1, <2>2, <3>1, <3>2, PlacesFrame
  <2>3. CASE backlog' = Append(backlog, item[e]) /\ Goto(e, "credit")
    <3>1. Range(backlog)' = Range(backlog) \cup {item[e]}
      <4>1. Range(backlog)' = Range(Append(backlog, item[e]))
        BY <2>3 DEF Range
      <4> QED BY <4>1, <2>1, RangeAppend
    <3>2. /\ Settled' = Settled
          /\ UNCHANGED <<fresh, batch, processed, failed, discarded>>
      BY <2>1 DEF Settled, leafVars
    <3>3. Held(e) = {item[e]} /\ Held(e)' = {}
      BY <2>1, <2>3 DEF TypeOK, ControlTypes, Held, Goto
    <3>4. \A x \in Emitters : x # e => Held(x)' = Held(x)
      BY <2>1, <2>3 DEF TypeOK, ControlTypes, Held, Goto
    <3>5. \A x \in Threads : pc[x] = "finish" => pc'[x] = "finish"
      BY <2>1, <2>3 DEF TypeOK, ControlTypes, Goto
    <3>6. NoDuplicates'
      <4>1. item[e] \notin Range(backlog)
        BY <3>3 DEF PlacesInv, Apart
      <4>2. NoDuplicates
        BY DEF PlacesInv
      <4> QED BY <2>1, <2>3, <4>1, <4>2, AppendDistinct DEF NoDuplicates
    <3>7. Apart'
      BY <3>1, <3>2, <3>3, <3>4, <3>5, <3>6 DEF PlacesInv, Apart
    <3>8. Somewhere'
      BY <3>1, <3>2, <3>3, <3>4, <3>5, <3>6 DEF PlacesInv, Somewhere
    <3> QED BY <3>1, <3>2, <3>3, <3>4, <3>5, <3>6, <3>7, <3>8 DEF PlacesInv
  <2> QED BY <1>4, <2>2, <2>3 DEF PushLeaf
<1>5. ASSUME NEW e \in Emitters, UncountLeaf(e)
      PROVE  PlacesInv'
  <2>1. UNCHANGED <<backlog, leafVars, batch>>
    BY <1>5 DEF UncountLeaf, queueVars, takeVars
  <2>2. ASSUME NEW x \in Emitters PROVE Held(x)' = Held(x)
    BY <1>5, RoleFacts DEF TypeOK, DataTypes, LocalTypes, ControlTypes, LocalInv, EmitterLocal,
       Held, UncountLeaf, Goto, localVars
  <2>3. ASSUME NEW x \in Threads, batch[x] # {}, pc[x] = "finish" PROVE pc'[x] = "finish"
    BY <1>5, <2>3 DEF TypeOK, ControlTypes, UncountLeaf, Goto
  <2> QED BY <2>1, <2>2, <2>3, PlacesFrame
<1>6. ASSUME NEW e \in Emitters, CreditLeaf(e)
      PROVE  PlacesInv'
  <2>1. UNCHANGED <<backlog, leafVars, batch>>
    BY <1>6 DEF CreditLeaf, queueVars, takeVars
  <2>2. ASSUME NEW x \in Emitters PROVE Held(x)' = Held(x)
    BY <1>6, RoleFacts DEF TypeOK, DataTypes, LocalTypes, ControlTypes, LocalInv, EmitterLocal,
       Held, CreditLeaf, Goto, localVars
  <2>3. ASSUME NEW x \in Threads, batch[x] # {}, pc[x] = "finish" PROVE pc'[x] = "finish"
    BY <1>6, <2>3 DEF TypeOK, ControlTypes, CreditLeaf, Goto
  <2> QED BY <2>1, <2>2, <2>3, PlacesFrame
<1>7. ASSUME NEW e \in Emitters, SoftLimitWait(e)
      PROVE  PlacesInv'
  <2>1. UNCHANGED <<backlog, leafVars, batch>>
    BY <1>7 DEF SoftLimitWait, queueVars, takeVars
  <2>2. ASSUME NEW x \in Emitters PROVE Held(x)' = Held(x)
    BY <1>7, RoleFacts DEF TypeOK, DataTypes, LocalTypes, ControlTypes, LocalInv, EmitterLocal,
       Held, SoftLimitWait, Goto, localVars, EmitterReturns
  <2>3. ASSUME NEW x \in Threads, batch[x] # {}, pc[x] = "finish" PROVE pc'[x] = "finish"
    BY <1>7, <2>3 DEF TypeOK, ControlTypes, SoftLimitWait, Goto, EmitterReturns
  <2> QED BY <2>1, <2>2, <2>3, PlacesFrame
<1>8. ASSUME NEW e \in Emitters, CreditWait(e)
      PROVE  PlacesInv'
  <2>1. UNCHANGED <<backlog, leafVars, batch>>
    BY <1>8 DEF CreditWait, queueVars, takeVars
  <2>2. ASSUME NEW x \in Emitters PROVE Held(x)' = Held(x)
    BY <1>8, RoleFacts DEF TypeOK, DataTypes, LocalTypes, ControlTypes, LocalInv, EmitterLocal,
       Held, CreditWait, Goto, localVars, EmitterReturns
  <2>3. ASSUME NEW x \in Threads, batch[x] # {}, pc[x] = "finish" PROVE pc'[x] = "finish"
    BY <1>8, <2>3 DEF TypeOK, ControlTypes, CreditWait, Goto, EmitterReturns
  <2> QED BY <2>1, <2>2, <2>3, PlacesFrame
<1>9. ASSUME NEW e \in Emitters, FinishLeafDrainerLimit(e)
      PROVE  PlacesInv'
  <2>1. UNCHANGED <<backlog, leafVars, batch>>
    BY <1>9 DEF FinishLeafDrainerLimit, queueVars, takeVars
  <2>2. ASSUME NEW x \in Emitters PROVE Held(x)' = Held(x)
    BY <1>9, RoleFacts DEF TypeOK, DataTypes, LocalTypes, ControlTypes, LocalInv, EmitterLocal,
       Held, FinishLeafDrainerLimit, Goto, localVars
  <2>3. ASSUME NEW x \in Threads, batch[x] # {}, pc[x] = "finish" PROVE pc'[x] = "finish"
    BY <1>9, <2>3 DEF TypeOK, ControlTypes, FinishLeafDrainerLimit, Goto
  <2> QED BY <2>1, <2>2, <2>3, PlacesFrame
<1>10. ASSUME NEW e \in Emitters, BeginLargeAssignment(e)
      PROVE  PlacesInv'
  <2>1. UNCHANGED <<backlog, leafVars, batch>>
    BY <1>10 DEF BeginLargeAssignment, queueVars, takeVars
  <2>2. ASSUME NEW x \in Emitters PROVE Held(x)' = Held(x)
    BY <1>10, RoleFacts DEF TypeOK, DataTypes, LocalTypes, ControlTypes, LocalInv, EmitterLocal,
       Held, BeginLargeAssignment, Goto, localVars
  <2>3. ASSUME NEW x \in Threads, batch[x] # {}, pc[x] = "finish" PROVE pc'[x] = "finish"
    BY <1>10, <2>3 DEF TypeOK, ControlTypes, BeginLargeAssignment, Goto
  <2> QED BY <2>1, <2>2, <2>3, PlacesFrame
<1>11. ASSUME NEW e \in Emitters, FinishLargeAssignment(e)
      PROVE  PlacesInv'
  <2>1. UNCHANGED <<backlog, leafVars, batch>>
    BY <1>11 DEF FinishLargeAssignment, queueVars, takeVars
  <2>2. ASSUME NEW x \in Emitters PROVE Held(x)' = Held(x)
    BY <1>11, RoleFacts DEF TypeOK, DataTypes, LocalTypes, ControlTypes, LocalInv, EmitterLocal,
       Held, FinishLargeAssignment, Goto, localVars
  <2>3. ASSUME NEW x \in Threads, batch[x] # {}, pc[x] = "finish" PROVE pc'[x] = "finish"
    BY <1>11, <2>3 DEF TypeOK, ControlTypes, FinishLargeAssignment, Goto
  <2> QED BY <2>1, <2>2, <2>3, PlacesFrame
<1>12. ASSUME NEW e \in Emitters, NEW l \in Leaves, NEW m \in {"emitted", "deferred"},
             EmitLeaf(e, l, m)
      PROVE  PlacesInv'
  <2>1. pc[e] = "produce" /\ item[e] = NoLeaf /\ UNCHANGED <<backlog, batch>>
    BY <1>12 DEF LocalInv, EmitterLocal, EmitLeaf, queueVars, takeVars
  <2>2. CASE UNCHANGED <<fresh, item>> /\ EmitterReturns(e, "err")
    <3>1. UNCHANGED leafVars
      BY <1>12, <2>2 DEF EmitLeaf, leafVars
    <3>2. \A x \in Emitters : Held(x)' = Held(x)
      BY <2>1, <2>2 DEF TypeOK, ControlTypes, Held, EmitterReturns, Goto
    <3>3. \A x \in Threads : pc[x] = "finish" => pc'[x] = "finish"
      BY <2>1, <2>2 DEF TypeOK, ControlTypes, EmitterReturns, Goto
    <3> QED BY <2>1, <3>1, <3>2, <3>3, PlacesFrame
  <2>3. CASE /\ l \in fresh
             /\ fresh' = fresh \ {l}
             /\ item' = [item EXCEPT ![e] = l]
             /\ Goto(e, "count")
    <3>1. /\ Range(backlog)' = Range(backlog) /\ Settled' = Settled /\ NoDuplicates'
          /\ UNCHANGED <<batch, processed, failed, discarded>>
      BY <1>12, <2>1 DEF PlacesInv, EmitLeaf, Settled, NoDuplicates, Range
    <3>2. Held(e) = {} /\ Held(e)' = {l}
      BY <2>1, <2>3, SchedulerAssumption
      DEF TypeOK, DataTypes, LocalTypes, ControlTypes, Held, Goto
    <3>3. \A x \in Emitters : x # e => Held(x)' = Held(x)
      BY <2>3 DEF TypeOK, DataTypes, LocalTypes, ControlTypes, Held, Goto
    <3>4. \A x \in Threads : pc[x] = "finish" => pc'[x] = "finish"
      BY <2>1, <2>3 DEF TypeOK, ControlTypes, Goto
    <3>5. l \in fresh /\ fresh' = fresh \ {l}
      BY <2>3
    <3>6. \A x \in Emitters : l \notin Held(x)
      BY <3>5 DEF PlacesInv, Apart
    <3>7. Apart'
      BY <3>1, <3>2, <3>3, <3>4, <3>5, <3>6 DEF PlacesInv, Apart
    <3>8. Somewhere'
      BY <3>1, <3>2, <3>3, <3>4, <3>5, <3>6 DEF PlacesInv, Somewhere
    <3> QED BY <3>1, <3>2, <3>3, <3>4, <3>5, <3>6, <3>7, <3>8 DEF PlacesInv
  <2> QED BY <1>12, <2>2, <2>3 DEF EmitLeaf
<1>13. ASSUME NEW e \in Emitters, NEW l \in Leaves, EmitLeafInline(e, l)
      PROVE  PlacesInv'
  <2>1. /\ pc[e] = "produce" /\ UNCHANGED <<backlog, batch, item, discarded>>
        /\ l \in fresh /\ fresh' = fresh \ {l}
    BY <1>13 DEF EmitLeafInline, queueVars, takeVars, localVars
  <2>2. \/ processed' = processed \cup {l} /\ failed' = failed
        \/ failed' = failed \cup {l} /\ processed' = processed
    BY <1>13 DEF EmitLeafInline
  <2>3. Range(backlog)' = Range(backlog) /\ Settled' = Settled \cup {l} /\ NoDuplicates'
    BY <2>1, <2>2 DEF PlacesInv, Settled, NoDuplicates, Range
  <2>4. pc' = pc \/ pc' = [pc EXCEPT ![e] = "unwind"]
    BY <1>13 DEF EmitLeafInline, EmitterReturns, Goto
  <2>5. \A x \in Emitters : Held(x)' = Held(x)
    BY <2>1, <2>4 DEF TypeOK, ControlTypes, Held
  <2>6. /\ \A x \in Threads : pc[x] = "finish" => pc'[x] = "finish"
        /\ l \notin Settled
    BY <2>1, <2>4 DEF TypeOK, ControlTypes, PlacesInv, Apart
  <2>7. Apart'
    BY <2>1, <2>2, <2>3, <2>5, <2>6 DEF PlacesInv, Apart, Settled
  <2>8. Somewhere'
    BY <2>1, <2>2, <2>3, <2>5, <2>6 DEF PlacesInv, Somewhere
  <2> QED BY <2>1, <2>2, <2>3, <2>5, <2>6, <2>7, <2>8 DEF PlacesInv
<1>14. ASSUME NEW e \in Emitters, NEW p \in LimitPairs, BeginLeafDrainerLimit(e, p)
      PROVE  PlacesInv'
  <2>1. UNCHANGED <<backlog, leafVars, batch>>
    BY <1>14 DEF BeginLeafDrainerLimit, queueVars, takeVars
  <2>2. ASSUME NEW x \in Emitters PROVE Held(x)' = Held(x)
    BY <1>14, RoleFacts DEF TypeOK, DataTypes, LocalTypes, ControlTypes, LocalInv, EmitterLocal,
       Held, BeginLeafDrainerLimit, Goto, localVars
  <2>3. ASSUME NEW x \in Threads, batch[x] # {}, pc[x] = "finish" PROVE pc'[x] = "finish"
    BY <1>14, <2>3 DEF TypeOK, ControlTypes, BeginLeafDrainerLimit, Goto
  <2> QED BY <2>1, <2>2, <2>3, PlacesFrame
<1>15. ASSUME NEW t \in Threads, SpawnReadBacklog(t)
      PROVE  PlacesInv'
  <2>1. UNCHANGED <<backlog, leafVars, batch>>
    BY <1>15 DEF SpawnReadBacklog, queueVars, takeVars
  <2>2. ASSUME NEW x \in Emitters PROVE Held(x)' = Held(x)
    BY <1>15, AfterSpawnLabel, RoleFacts DEF TypeOK, DataTypes, LocalTypes, ControlTypes, LocalInv, EmitterLocal,
       Held, SpawnReadBacklog, Goto, localVars
  <2>3. ASSUME NEW x \in Threads, batch[x] # {}, pc[x] = "finish" PROVE pc'[x] = "finish"
    BY <1>15, <2>3 DEF TypeOK, ControlTypes, SpawnReadBacklog, Goto
  <2> QED BY <2>1, <2>2, <2>3, PlacesFrame
<1>16. ASSUME NEW t \in Threads, SpawnReadActive(t)
      PROVE  PlacesInv'
  <2>1. UNCHANGED <<backlog, leafVars, batch>>
    BY <1>16 DEF SpawnReadActive, queueVars, takeVars
  <2>2. ASSUME NEW x \in Emitters PROVE Held(x)' = Held(x)
    BY <1>16, AfterSpawnLabel, RoleFacts DEF TypeOK, DataTypes, LocalTypes, ControlTypes, LocalInv, EmitterLocal,
       Held, SpawnReadActive, Goto, localVars
  <2>3. ASSUME NEW x \in Threads, batch[x] # {}, pc[x] = "finish" PROVE pc'[x] = "finish"
    BY <1>16, <2>3 DEF TypeOK, ControlTypes, SpawnReadActive, Goto
  <2> QED BY <2>1, <2>2, <2>3, PlacesFrame
<1>17. ASSUME NEW t \in Threads, SpawnCas(t)
      PROVE  PlacesInv'
  <2>1. UNCHANGED <<backlog, leafVars, batch>>
    BY <1>17 DEF SpawnCas, queueVars, takeVars
  <2>2. ASSUME NEW x \in Emitters PROVE Held(x)' = Held(x)
    BY <1>17, RoleFacts DEF TypeOK, DataTypes, LocalTypes, ControlTypes, LocalInv, EmitterLocal,
       Held, SpawnCas, Goto, localVars
  <2>3. ASSUME NEW x \in Threads, batch[x] # {}, pc[x] = "finish" PROVE pc'[x] = "finish"
    BY <1>17, <2>3 DEF TypeOK, ControlTypes, SpawnCas, Goto
  <2> QED BY <2>1, <2>2, <2>3, PlacesFrame
<1>18. ASSUME NEW t \in Threads, TakeLeaf(t)
      PROVE  PlacesInv'
  <2>1. UNCHANGED <<leafVars, item>> /\ backlog \in Seq(Leaves) /\ pc[t] = "take"
    BY <1>18 DEF TakeLeaf, localVars, TypeOK, DataTypes, QueueTypes
  <2>2. CASE backlog = <<>>
    <3>1. UNCHANGED <<backlog, batch>>
      BY <1>18, <2>2 DEF TakeLeaf
    <3>2. PICK l : Goto(t, l) /\ l # "credit"
      BY <1>18, <2>2, AfterHelpLabel, RoleFacts DEF TakeLeaf, AfterNothing, RunBatch
    <3>3. \A x \in Emitters : Held(x)' = Held(x)
      BY <2>1, <3>2 DEF TypeOK, ControlTypes, Held, Goto
    <3>4. \A x \in Threads : pc[x] = "finish" => pc'[x] = "finish"
      BY <2>1, <3>2 DEF TypeOK, ControlTypes, Goto
    <3> QED BY <2>1, <3>1, <3>3, <3>4, PlacesFrame
  <2>3. CASE backlog # <<>>
    <3> DEFINE h == Head(backlog)
    <3>0. /\ backlog' = Tail(backlog) /\ Goto(t, "debit")
          /\ batch' = [batch EXCEPT ![t] = @ \cup {Head(backlog)}]
      BY <1>18, <2>3 DEF TakeLeaf
    <3>1. /\ h \in Range(backlog)
          /\ Range(backlog)' = Range(backlog) \ {h}
          /\ NoDuplicates'
      <4>1. Range(backlog)' = Range(Tail(backlog))
        BY <3>0 DEF Range
      <4>2. NoDuplicates
        BY DEF PlacesInv
      <4> QED BY <2>1, <2>3, <3>0, <4>1, <4>2, RangeTail DEF NoDuplicates
    <3>2. /\ Settled' = Settled
          /\ UNCHANGED <<fresh, processed, failed, discarded>>
      BY <2>1 DEF Settled, leafVars
    <3>3. \A x \in Emitters : Held(x)' = Held(x)
      BY <2>1, <3>0 DEF TypeOK, ControlTypes, Held, Goto
    <3>4. /\ batch'[t] = batch[t] \cup {h} /\ pc'[t] # "finish"
          /\ \A x \in Threads : x # t => batch'[x] = batch[x] /\ pc'[x] = pc[x]
      BY <2>1, <3>0 DEF TypeOK, DataTypes, TakeTypes, ControlTypes, Goto
    <3>5. /\ \A x \in Threads : h \notin batch[x]
          /\ h \notin fresh /\ h \notin Settled
          /\ \A x \in Emitters : h \notin Held(x)
      BY <3>1 DEF PlacesInv, Apart
    <3>6. pc[t] # "finish"
      BY <2>1
    <3> HIDE DEF h
    <3>7. Apart'
      BY <3>1, <3>2, <3>3, <3>4, <3>5, <3>6 DEF PlacesInv, Apart
    <3>8. Somewhere'
      BY <3>1, <3>2, <3>3, <3>4, <3>5, <3>6 DEF PlacesInv, Somewhere
    <3> QED BY <3>1, <3>2, <3>3, <3>4, <3>5, <3>6, <3>7, <3>8 DEF PlacesInv
  <2> QED BY <2>2, <2>3
<1>19. ASSUME NEW t \in Threads, DebitLeaf(t)
      PROVE  PlacesInv'
  <2>1. UNCHANGED <<backlog, leafVars, batch>>
    BY <1>19 DEF DebitLeaf, queueVars, takeVars
  <2>2. ASSUME NEW x \in Emitters PROVE Held(x)' = Held(x)
    BY <1>19, RoleFacts DEF TypeOK, DataTypes, LocalTypes, ControlTypes, LocalInv, EmitterLocal,
       Held, DebitLeaf, Goto, localVars, RunBatch
  <2>3. ASSUME NEW x \in Threads, batch[x] # {}, pc[x] = "finish" PROVE pc'[x] = "finish"
    BY <1>19, <2>3 DEF TypeOK, ControlTypes, DebitLeaf, Goto, RunBatch
  <2> QED BY <2>1, <2>2, <2>3, PlacesFrame
<1>20. ASSUME NEW t \in Threads, AcquireHydrationSlot(t)
      PROVE  PlacesInv'
  <2>1. /\ UNCHANGED <<backlog, batch, item, fresh, discarded>> /\ pc[t] \notin {"finish", "credit"}
        /\ processed \subseteq processed' /\ failed \subseteq failed'
    BY <1>20 DEF AcquireHydrationSlot, BatchFails, queueVars, takeVars
  <2>2. CASE UNCHANGED <<processed, failed>> /\ (pc' = pc \/ \E l \in {"hydrating", "build"} : Goto(t, l))
    <3>1. UNCHANGED leafVars
      BY <2>1, <2>2 DEF leafVars
    <3>2. \A x \in Emitters : Held(x)' = Held(x)
      BY <2>1, <2>2 DEF TypeOK, ControlTypes, Held, Goto
    <3>3. \A x \in Threads : pc[x] = "finish" => pc'[x] = "finish"
      BY <2>1, <2>2 DEF TypeOK, ControlTypes, Goto
    <3> QED BY <2>1, <3>1, <3>2, <3>3, PlacesFrame
  <2>3. CASE /\ processed' \ processed \subseteq batch[t]
             /\ failed' \ failed = batch[t] \ processed'
             /\ Goto(t, "finish")
    <3>1. /\ Range(backlog)' = Range(backlog) /\ NoDuplicates'
          /\ UNCHANGED <<batch, fresh, discarded>>
      BY <2>1 DEF PlacesInv, NoDuplicates, Range
    <3>2. \A x \in Emitters : Held(x)' = Held(x)
      BY <2>1, <2>3 DEF TypeOK, ControlTypes, Held, Goto
    <3>3. /\ pc'[t] = "finish"
          /\ \A x \in Threads : x # t => pc'[x] = pc[x]
      BY <2>3 DEF TypeOK, ControlTypes, Goto
    <3>4. Settled' = Settled \cup batch[t]
      BY <2>1, <2>3 DEF Settled
    <3>5. /\ processed' \cap failed' = {}
          /\ processed' \cap discarded' = {} /\ failed' \cap discarded' = {}
      <4>1. batch[t] \cap Settled = {}
        BY <2>1 DEF PlacesInv, Apart
      <4> QED BY <2>1, <2>3, <4>1 DEF PlacesInv, Apart, Settled
    <3>6. /\ \A l \in batch[t] : /\ l \notin fresh /\ l \notin Range(backlog)
                                 /\ \A x \in Emitters : l \notin Held(x)
                                 /\ \A x \in Threads : l \in batch[x] => x = t
      BY DEF PlacesInv, Apart
    <3>7. Apart'
      BY <3>1, <3>2, <3>3, <3>4, <3>5, <3>6 DEF PlacesInv, Apart
    <3>8. Somewhere'
      BY <3>1, <3>2, <3>3, <3>4, <3>5, <3>6 DEF PlacesInv, Somewhere
    <3> QED BY <3>1, <3>2, <3>3, <3>4, <3>5, <3>6, <3>7, <3>8 DEF PlacesInv
  <2> QED
    <3>1. batch[t] \cap Settled = {}
      BY <2>1 DEF PlacesInv, Apart
    <3> QED BY <1>20, <2>2, <2>3, <3>1 DEF AcquireHydrationSlot, BatchFails, Settled
<1>21. ASSUME NEW t \in Threads, Hydrate(t)
      PROVE  PlacesInv'
  <2>1. /\ UNCHANGED <<backlog, batch, item, fresh, discarded>> /\ pc[t] \notin {"finish", "credit"}
        /\ processed \subseteq processed' /\ failed \subseteq failed'
    BY <1>21 DEF Hydrate, BatchFails, queueVars, takeVars
  <2>2. CASE UNCHANGED <<processed, failed>> /\ \E l \in {"hydrating", "build"} : Goto(t, l)
    <3>1. UNCHANGED leafVars
      BY <2>1, <2>2 DEF leafVars
    <3>2. \A x \in Emitters : Held(x)' = Held(x)
      BY <2>1, <2>2 DEF TypeOK, ControlTypes, Held, Goto
    <3>3. \A x \in Threads : pc[x] = "finish" => pc'[x] = "finish"
      BY <2>1, <2>2 DEF TypeOK, ControlTypes, Goto
    <3> QED BY <2>1, <3>1, <3>2, <3>3, PlacesFrame
  <2>3. CASE /\ processed' \ processed \subseteq batch[t]
             /\ failed' \ failed = batch[t] \ processed'
             /\ Goto(t, "finish")
    <3>1. /\ Range(backlog)' = Range(backlog) /\ NoDuplicates'
          /\ UNCHANGED <<batch, fresh, discarded>>
      BY <2>1 DEF PlacesInv, NoDuplicates, Range
    <3>2. \A x \in Emitters : Held(x)' = Held(x)
      BY <2>1, <2>3 DEF TypeOK, ControlTypes, Held, Goto
    <3>3. /\ pc'[t] = "finish"
          /\ \A x \in Threads : x # t => pc'[x] = pc[x]
      BY <2>3 DEF TypeOK, ControlTypes, Goto
    <3>4. Settled' = Settled \cup batch[t]
      BY <2>1, <2>3 DEF Settled
    <3>5. /\ processed' \cap failed' = {}
          /\ processed' \cap discarded' = {} /\ failed' \cap discarded' = {}
      <4>1. batch[t] \cap Settled = {}
        BY <2>1 DEF PlacesInv, Apart
      <4> QED BY <2>1, <2>3, <4>1 DEF PlacesInv, Apart, Settled
    <3>6. /\ \A l \in batch[t] : /\ l \notin fresh /\ l \notin Range(backlog)
                                 /\ \A x \in Emitters : l \notin Held(x)
                                 /\ \A x \in Threads : l \in batch[x] => x = t
      BY DEF PlacesInv, Apart
    <3>7. Apart'
      BY <3>1, <3>2, <3>3, <3>4, <3>5, <3>6 DEF PlacesInv, Apart
    <3>8. Somewhere'
      BY <3>1, <3>2, <3>3, <3>4, <3>5, <3>6 DEF PlacesInv, Somewhere
    <3> QED BY <3>1, <3>2, <3>3, <3>4, <3>5, <3>6, <3>7, <3>8 DEF PlacesInv
  <2> QED
    <3>1. batch[t] \cap Settled = {}
      BY <2>1 DEF PlacesInv, Apart
    <3> QED BY <1>21, <2>2, <2>3, <3>1 DEF Hydrate, BatchFails, Settled
<1>22. ASSUME NEW t \in Threads, BuildBatch(t)
      PROVE  PlacesInv'
  <2>1. /\ UNCHANGED <<backlog, batch, item, fresh, discarded>> /\ pc[t] \notin {"finish", "credit"}
        /\ processed \subseteq processed' /\ failed \subseteq failed'
    BY <1>22 DEF BuildBatch, BatchFails, queueVars, takeVars
  <2>2. CASE UNCHANGED <<processed, failed>> /\ \E l \in {"hydrating", "build"} : Goto(t, l)
    <3>1. UNCHANGED leafVars
      BY <2>1, <2>2 DEF leafVars
    <3>2. \A x \in Emitters : Held(x)' = Held(x)
      BY <2>1, <2>2 DEF TypeOK, ControlTypes, Held, Goto
    <3>3. \A x \in Threads : pc[x] = "finish" => pc'[x] = "finish"
      BY <2>1, <2>2 DEF TypeOK, ControlTypes, Goto
    <3> QED BY <2>1, <3>1, <3>2, <3>3, PlacesFrame
  <2>3. CASE /\ processed' \ processed \subseteq batch[t]
             /\ failed' \ failed = batch[t] \ processed'
             /\ Goto(t, "finish")
    <3>1. /\ Range(backlog)' = Range(backlog) /\ NoDuplicates'
          /\ UNCHANGED <<batch, fresh, discarded>>
      BY <2>1 DEF PlacesInv, NoDuplicates, Range
    <3>2. \A x \in Emitters : Held(x)' = Held(x)
      BY <2>1, <2>3 DEF TypeOK, ControlTypes, Held, Goto
    <3>3. /\ pc'[t] = "finish"
          /\ \A x \in Threads : x # t => pc'[x] = pc[x]
      BY <2>3 DEF TypeOK, ControlTypes, Goto
    <3>4. Settled' = Settled \cup batch[t]
      BY <2>1, <2>3 DEF Settled
    <3>5. /\ processed' \cap failed' = {}
          /\ processed' \cap discarded' = {} /\ failed' \cap discarded' = {}
      <4>1. batch[t] \cap Settled = {}
        BY <2>1 DEF PlacesInv, Apart
      <4> QED BY <2>1, <2>3, <4>1 DEF PlacesInv, Apart, Settled
    <3>6. /\ \A l \in batch[t] : /\ l \notin fresh /\ l \notin Range(backlog)
                                 /\ \A x \in Emitters : l \notin Held(x)
                                 /\ \A x \in Threads : l \in batch[x] => x = t
      BY DEF PlacesInv, Apart
    <3>7. Apart'
      BY <3>1, <3>2, <3>3, <3>4, <3>5, <3>6 DEF PlacesInv, Apart
    <3>8. Somewhere'
      BY <3>1, <3>2, <3>3, <3>4, <3>5, <3>6 DEF PlacesInv, Somewhere
    <3> QED BY <3>1, <3>2, <3>3, <3>4, <3>5, <3>6, <3>7, <3>8 DEF PlacesInv
  <2> QED
    <3>1. batch[t] \cap Settled = {}
      BY <2>1 DEF PlacesInv, Apart
    <3> QED BY <1>22, <2>2, <2>3, <3>1 DEF BuildBatch, BatchFails, Settled
<1>23. ASSUME NEW t \in Threads, FinishLeafExecution(t)
      PROVE  PlacesInv'
  <2>1. PICK l \in batch[t] : batch' = [batch EXCEPT ![t] = @ \ {l}]
    BY <1>23 DEF FinishLeafExecution
  <2>2. /\ UNCHANGED <<backlog, leafVars, item, pc>> /\ pc[t] = "finish"
    BY <1>23 DEF FinishLeafExecution, localVars
  <2>3. /\ Range(backlog)' = Range(backlog) /\ Settled' = Settled /\ NoDuplicates'
        /\ UNCHANGED <<fresh, processed, failed, discarded, pc>>
        /\ \A x \in Emitters : Held(x)' = Held(x)
    BY <2>2 DEF PlacesInv, Settled, NoDuplicates, Range, leafVars, Held
  <2>4. /\ batch'[t] = batch[t] \ {l}
        /\ \A x \in Threads : x # t => batch'[x] = batch[x]
    BY <2>1 DEF TypeOK, DataTypes, TakeTypes
  <2>5. l \in Settled
    BY <2>2 DEF LocalInv, FinishLocal, Settled
  <2>7. Apart'
    BY <2>3, <2>4, <2>5 DEF PlacesInv, Apart
  <2>8. Somewhere'
    BY <2>3, <2>4, <2>5 DEF PlacesInv, Somewhere
  <2> QED BY <2>3, <2>4, <2>5, <2>7, <2>8 DEF PlacesInv
<1>24. ASSUME NEW t \in Threads, HelperReturns(t)
      PROVE  PlacesInv'
  <2>1. /\ UNCHANGED <<backlog, batch, fresh, processed, discarded>>
        /\ pc[t] = "finish" /\ batch[t] = {} /\ t \notin Drainers
    BY <1>24 DEF HelperReturns, queueVars, takeVars
  <2>2. AfterHelp(t) # "credit"
    BY <2>1, AfterHelpLabel, RoleFacts
  <2>3. CASE UNCHANGED <<item, failed>> /\ \E l \in {AfterHelp(t), "joinScope"} : Goto(t, l)
    <3>1. UNCHANGED leafVars
      BY <2>1, <2>3 DEF leafVars
    <3>2. \A x \in Emitters : Held(x)' = Held(x)
      BY <2>1, <2>2, <2>3 DEF TypeOK, ControlTypes, Held, Goto
    <3>3. \A x \in Threads : batch[x] # {} /\ pc[x] = "finish" => pc'[x] = "finish"
      BY <2>1, <2>3 DEF TypeOK, ControlTypes, Goto
    <3> QED BY <2>1, <3>1, <3>2, <3>3, PlacesFrame
  <2>4. CASE /\ t \in Emitters
             /\ item' = [item EXCEPT ![t] = NoLeaf]
             /\ failed' = failed \cup ({item[t]} \ {NoLeaf})
             /\ Goto(t, "unwind")
    <3>1. /\ Range(backlog)' = Range(backlog) /\ NoDuplicates'
          /\ UNCHANGED <<batch, fresh, processed, discarded>>
      BY <2>1 DEF PlacesInv, NoDuplicates, Range
    <3>2. Held(t) = {item[t]} \ {NoLeaf} /\ Held(t)' = {}
      BY <2>1, <2>4 DEF TypeOK, DataTypes, LocalTypes, ControlTypes, Held, Goto
    <3>3. \A x \in Emitters : x # t => Held(x)' = Held(x)
      BY <2>4 DEF TypeOK, DataTypes, LocalTypes, ControlTypes, Held, Goto
    <3>4. failed' = failed \cup Held(t) /\ Settled' = Settled \cup Held(t) /\ t \in Emitters
      BY <2>1, <2>4, <3>2 DEF Settled
    <3>5. \A x \in Threads : batch[x] # {} /\ pc[x] = "finish" => pc'[x] = "finish"
      BY <2>1, <2>4 DEF TypeOK, ControlTypes, Goto
    <3>6. \A l \in Held(t) : /\ l \notin fresh /\ l \notin Range(backlog) /\ l \notin Settled
                             /\ \A x \in Threads : l \notin batch[x]
                             /\ \A x \in Emitters : l \in Held(x) => x = t
      BY <3>4 DEF PlacesInv, Apart
    <3>7. Apart'
      BY <3>1, <3>2, <3>3, <3>4, <3>5, <3>6 DEF PlacesInv, Apart, Settled
    <3>8. Somewhere'
      BY <3>1, <3>2, <3>3, <3>4, <3>5, <3>6 DEF PlacesInv, Somewhere
    <3> QED BY <3>1, <3>2, <3>3, <3>4, <3>5, <3>6, <3>7, <3>8 DEF PlacesInv
  <2> QED BY <1>24, <2>3, <2>4 DEF HelperReturns, EmitterReturns
<1>25. ASSUME NEW d \in Drainers, StartDrainer(d)
      PROVE  PlacesInv'
  <2>1. UNCHANGED <<backlog, leafVars, batch>>
    BY <1>25 DEF StartDrainer, queueVars, takeVars
  <2>2. ASSUME NEW x \in Emitters PROVE Held(x)' = Held(x)
    BY <1>25, RoleFacts DEF TypeOK, DataTypes, LocalTypes, ControlTypes, LocalInv, EmitterLocal,
       Held, StartDrainer, Goto, localVars
  <2>3. ASSUME NEW x \in Threads, batch[x] # {}, pc[x] = "finish" PROVE pc'[x] = "finish"
    BY <1>25, <2>3 DEF TypeOK, ControlTypes, StartDrainer, Goto
  <2> QED BY <2>1, <2>2, <2>3, PlacesFrame
<1>26. ASSUME NEW d \in Drainers, DrainerChecks(d)
      PROVE  PlacesInv'
  <2>1. UNCHANGED <<backlog, leafVars, batch>>
    BY <1>26 DEF DrainerChecks, queueVars, takeVars
  <2>2. ASSUME NEW x \in Emitters PROVE Held(x)' = Held(x)
    BY <1>26, RoleFacts DEF TypeOK, DataTypes, LocalTypes, ControlTypes, LocalInv, EmitterLocal,
       Held, DrainerChecks, Goto, localVars
  <2>3. ASSUME NEW x \in Threads, batch[x] # {}, pc[x] = "finish" PROVE pc'[x] = "finish"
    BY <1>26, <2>3 DEF TypeOK, ControlTypes, DrainerChecks, Goto
  <2> QED BY <2>1, <2>2, <2>3, PlacesFrame
<1>27. ASSUME NEW d \in Drainers, DrainerReadsActive(d)
      PROVE  PlacesInv'
  <2>1. UNCHANGED <<backlog, leafVars, batch>>
    BY <1>27 DEF DrainerReadsActive, queueVars, takeVars
  <2>2. ASSUME NEW x \in Emitters PROVE Held(x)' = Held(x)
    BY <1>27, RoleFacts DEF TypeOK, DataTypes, LocalTypes, ControlTypes, LocalInv, EmitterLocal,
       Held, DrainerReadsActive, Goto, localVars
  <2>3. ASSUME NEW x \in Threads, batch[x] # {}, pc[x] = "finish" PROVE pc'[x] = "finish"
    BY <1>27, <2>3 DEF TypeOK, ControlTypes, DrainerReadsActive, Goto
  <2> QED BY <2>1, <2>2, <2>3, PlacesFrame
<1>28. ASSUME NEW d \in Drainers, ReserveRetirement(d)
      PROVE  PlacesInv'
  <2>1. UNCHANGED <<backlog, leafVars, batch>>
    BY <1>28 DEF ReserveRetirement, queueVars, takeVars
  <2>2. ASSUME NEW x \in Emitters PROVE Held(x)' = Held(x)
    BY <1>28, RoleFacts DEF TypeOK, DataTypes, LocalTypes, ControlTypes, LocalInv, EmitterLocal,
       Held, ReserveRetirement, Goto, localVars
  <2>3. ASSUME NEW x \in Threads, batch[x] # {}, pc[x] = "finish" PROVE pc'[x] = "finish"
    BY <1>28, <2>3 DEF TypeOK, ControlTypes, ReserveRetirement, Goto
  <2> QED BY <2>1, <2>2, <2>3, PlacesFrame
<1>29. ASSUME NEW d \in Drainers, DrainerBatchDone(d)
      PROVE  PlacesInv'
  <2>1. UNCHANGED <<backlog, leafVars, batch>>
    BY <1>29 DEF DrainerBatchDone, queueVars, takeVars
  <2>2. ASSUME NEW x \in Emitters PROVE Held(x)' = Held(x)
    BY <1>29, RoleFacts DEF TypeOK, DataTypes, LocalTypes, ControlTypes, LocalInv, EmitterLocal,
       Held, DrainerBatchDone, Goto, localVars, AfterHelp
  <2>3. ASSUME NEW x \in Threads, batch[x] # {}, pc[x] = "finish" PROVE pc'[x] = "finish"
    BY <1>29, <2>3 DEF TypeOK, ControlTypes, DrainerBatchDone, Goto, AfterHelp
  <2> QED BY <2>1, <2>2, <2>3, PlacesFrame
<1>30. ASSUME NEW d \in Drainers, RecordError(d)
      PROVE  PlacesInv'
  <2>1. UNCHANGED <<backlog, leafVars, batch>>
    BY <1>30 DEF RecordError, queueVars, takeVars
  <2>2. ASSUME NEW x \in Emitters PROVE Held(x)' = Held(x)
    BY <1>30, RoleFacts DEF TypeOK, DataTypes, LocalTypes, ControlTypes, LocalInv, EmitterLocal,
       Held, RecordError, Goto, localVars
  <2>3. ASSUME NEW x \in Threads, batch[x] # {}, pc[x] = "finish" PROVE pc'[x] = "finish"
    BY <1>30, <2>3 DEF TypeOK, ControlTypes, RecordError, Goto
  <2> QED BY <2>1, <2>2, <2>3, PlacesFrame
<1>31. ASSUME NEW d \in Drainers, DrainerUnreserves(d)
      PROVE  PlacesInv'
  <2>1. UNCHANGED <<backlog, leafVars, batch>>
    BY <1>31 DEF DrainerUnreserves, queueVars, takeVars
  <2>2. ASSUME NEW x \in Emitters PROVE Held(x)' = Held(x)
    BY <1>31, RoleFacts DEF TypeOK, DataTypes, LocalTypes, ControlTypes, LocalInv, EmitterLocal,
       Held, DrainerUnreserves, Goto, localVars
  <2>3. ASSUME NEW x \in Threads, batch[x] # {}, pc[x] = "finish" PROVE pc'[x] = "finish"
    BY <1>31, <2>3 DEF TypeOK, ControlTypes, DrainerUnreserves, Goto
  <2> QED BY <2>1, <2>2, <2>3, PlacesFrame
<1>32. ASSUME NEW d \in Drainers, DrainerLeaves(d)
      PROVE  PlacesInv'
  <2>1. UNCHANGED <<backlog, leafVars, batch>>
    BY <1>32 DEF DrainerLeaves, queueVars, takeVars
  <2>2. ASSUME NEW x \in Emitters PROVE Held(x)' = Held(x)
    BY <1>32, RoleFacts DEF TypeOK, DataTypes, LocalTypes, ControlTypes, LocalInv, EmitterLocal,
       Held, DrainerLeaves, Goto, localVars
  <2>3. ASSUME NEW x \in Threads, batch[x] # {}, pc[x] = "finish" PROVE pc'[x] = "finish"
    BY <1>32, <2>3 DEF TypeOK, ControlTypes, DrainerLeaves, Goto
  <2> QED BY <2>1, <2>2, <2>3, PlacesFrame
<1>33. CASE ProducerReturns
  <2>1. UNCHANGED <<backlog, leafVars, batch>>
    BY <1>33 DEF ProducerReturns, queueVars, takeVars
  <2>2. ASSUME NEW x \in Emitters PROVE Held(x)' = Held(x)
    BY <1>33, RoleFacts DEF TypeOK, DataTypes, LocalTypes, ControlTypes, LocalInv, EmitterLocal,
       Held, ProducerReturns, Goto, localVars
  <2>3. ASSUME NEW x \in Threads, batch[x] # {}, pc[x] = "finish" PROVE pc'[x] = "finish"
    BY <1>33, <2>3 DEF TypeOK, ControlTypes, ProducerReturns, Goto
  <2> QED BY <2>1, <2>2, <2>3, PlacesFrame
<1>34. CASE DiscardPop
  <2>1. UNCHANGED <<leafVars, item>> /\ backlog \in Seq(Leaves) /\ pc[Main] = "discard" /\ batch[Main] = {}
    BY <1>34 DEF LocalInv, BatchLocal, DiscardPop, localVars, TypeOK, DataTypes, QueueTypes
  <2>2. CASE backlog = <<>>
    <3>1. UNCHANGED <<backlog, batch>>
      BY <1>34, <2>2 DEF DiscardPop
    <3>2. PICK l : Goto(Main, l) /\ l # "credit"
      BY <1>34, <2>2 DEF DiscardPop
    <3>3. \A x \in Emitters : Held(x)' = Held(x)
      BY <2>1, <3>2 DEF TypeOK, ControlTypes, Held, Goto
    <3>4. \A x \in Threads : pc[x] = "finish" => pc'[x] = "finish"
      BY <2>1, <3>2 DEF TypeOK, ControlTypes, Goto
    <3> QED BY <2>1, <3>1, <3>3, <3>4, PlacesFrame
  <2>3. CASE backlog # <<>>
    <3> DEFINE h == Head(backlog)
    <3>0. /\ backlog' = Tail(backlog) /\ Goto(Main, "drop")
          /\ batch' = [batch EXCEPT ![Main] = {Head(backlog)}]
      BY <1>34, <2>3 DEF DiscardPop
    <3>1. /\ h \in Range(backlog)
          /\ Range(backlog)' = Range(backlog) \ {h}
          /\ NoDuplicates'
      <4>1. Range(backlog)' = Range(Tail(backlog))
        BY <3>0 DEF Range
      <4>2. NoDuplicates
        BY DEF PlacesInv
      <4> QED BY <2>1, <2>3, <3>0, <4>1, <4>2, RangeTail DEF NoDuplicates
    <3>2. /\ Settled' = Settled
          /\ UNCHANGED <<fresh, processed, failed, discarded>>
      BY <2>1 DEF Settled, leafVars
    <3>3. \A x \in Emitters : Held(x)' = Held(x)
      BY <2>1, <3>0 DEF TypeOK, ControlTypes, Held, Goto
    <3>4. /\ batch'[Main] = batch[Main] \cup {h} /\ pc'[Main] # "finish"
          /\ \A x \in Threads : x # Main => batch'[x] = batch[x] /\ pc'[x] = pc[x]
      BY <2>1, <3>0 DEF TypeOK, DataTypes, TakeTypes, ControlTypes, Goto
    <3>5. /\ \A x \in Threads : h \notin batch[x]
          /\ h \notin fresh /\ h \notin Settled
          /\ \A x \in Emitters : h \notin Held(x)
      BY <3>1 DEF PlacesInv, Apart
    <3>6. pc[Main] # "finish"
      BY <2>1
    <3> HIDE DEF h
    <3>7. Apart'
      BY <3>1, <3>2, <3>3, <3>4, <3>5, <3>6 DEF PlacesInv, Apart
    <3>8. Somewhere'
      BY <3>1, <3>2, <3>3, <3>4, <3>5, <3>6 DEF PlacesInv, Somewhere
    <3> QED BY <3>1, <3>2, <3>3, <3>4, <3>5, <3>6, <3>7, <3>8 DEF PlacesInv
  <2> QED BY <2>2, <2>3
<1>35. CASE DiscardDrop
  <2>1. /\ UNCHANGED <<backlog, fresh, processed, failed, item>> /\ pc[Main] = "drop"
        /\ discarded' = discarded \cup {popped[Main]}
        /\ batch[Main] = {popped[Main]} /\ batch' = [batch EXCEPT ![Main] = {}]
        /\ Goto(Main, "discard")
    BY <1>35 DEF DiscardDrop, localVars, LocalInv, BatchLocal
  <2>2. /\ Range(backlog)' = Range(backlog) /\ NoDuplicates'
        /\ UNCHANGED <<fresh, processed, failed>>
    BY <2>1 DEF PlacesInv, NoDuplicates, Range
  <2>3. /\ batch'[Main] = {} /\ pc'[Main] # "finish"
        /\ \A x \in Threads : x # Main => batch'[x] = batch[x] /\ pc'[x] = pc[x]
    BY <2>1 DEF TypeOK, DataTypes, TakeTypes, ControlTypes, Goto
  <2>4. \A x \in Emitters : Held(x)' = Held(x)
    BY <2>1 DEF TypeOK, ControlTypes, Held, Goto
  <2>5. discarded' = discarded \cup batch[Main] /\ Settled' = Settled \cup batch[Main]
    BY <2>1 DEF Settled
  <2>6. \A l \in batch[Main] : /\ l \notin fresh /\ l \notin Range(backlog) /\ l \notin Settled
                               /\ \A x \in Emitters : l \notin Held(x)
                               /\ \A x \in Threads : l \in batch[x] => x = Main
    BY <2>1 DEF PlacesInv, Apart
  <2>7. Apart'
    BY <2>2, <2>3, <2>4, <2>5, <2>6 DEF PlacesInv, Apart, Settled
  <2>8. Somewhere'
    BY <2>2, <2>3, <2>4, <2>5, <2>6 DEF PlacesInv, Somewhere
  <2> QED BY <2>2, <2>3, <2>4, <2>5, <2>6, <2>7, <2>8 DEF PlacesInv
<1>36. CASE WaitUntilIdle
  <2>1. UNCHANGED <<backlog, leafVars, batch>>
    BY <1>36 DEF WaitUntilIdle, queueVars, takeVars
  <2>2. ASSUME NEW x \in Emitters PROVE Held(x)' = Held(x)
    BY <1>36, RoleFacts DEF TypeOK, DataTypes, LocalTypes, ControlTypes, LocalInv, EmitterLocal,
       Held, WaitUntilIdle, Goto, localVars
  <2>3. ASSUME NEW x \in Threads, batch[x] # {}, pc[x] = "finish" PROVE pc'[x] = "finish"
    BY <1>36, <2>3 DEF TypeOK, ControlTypes, WaitUntilIdle, Goto
  <2> QED BY <2>1, <2>2, <2>3, PlacesFrame
<1>37. CASE FinalCheck
  <2>1. UNCHANGED <<backlog, leafVars, batch>>
    BY <1>37 DEF FinalCheck, queueVars, takeVars
  <2>2. ASSUME NEW x \in Emitters PROVE Held(x)' = Held(x)
    BY <1>37, RoleFacts DEF TypeOK, DataTypes, LocalTypes, ControlTypes, LocalInv, EmitterLocal,
       Held, FinalCheck, Goto, localVars
  <2>3. ASSUME NEW x \in Threads, batch[x] # {}, pc[x] = "finish" PROVE pc'[x] = "finish"
    BY <1>37, <2>3 DEF TypeOK, ControlTypes, FinalCheck, Goto
  <2> QED BY <2>1, <2>2, <2>3, PlacesFrame
<1>38. CASE ScopeReturns
  <2>1. UNCHANGED <<backlog, leafVars, batch>>
    BY <1>38 DEF ScopeReturns, queueVars, takeVars
  <2>2. ASSUME NEW x \in Emitters PROVE Held(x)' = Held(x)
    BY <1>38, RoleFacts DEF TypeOK, DataTypes, LocalTypes, ControlTypes, LocalInv, EmitterLocal,
       Held, ScopeReturns, Goto, localVars
  <2>3. ASSUME NEW x \in Threads, batch[x] # {}, pc[x] = "finish" PROVE pc'[x] = "finish"
    BY <1>38, <2>3 DEF TypeOK, ControlTypes, ScopeReturns, Goto
  <2> QED BY <2>1, <2>2, <2>3, PlacesFrame
<1>39. CASE UNCHANGED vars
  BY <1>39, PlacesFrame
  DEF vars, queueVars, takeVars, localVars, Held
<1> QED
  BY <1>1, <1>2, <1>3, <1>4, <1>5, <1>6, <1>7, <1>8, <1>9, <1>10, <1>11,
         <1>12, <1>13, <1>14, <1>15, <1>16, <1>17, <1>18, <1>19, <1>20, <1>21,
         <1>22, <1>23, <1>24, <1>25, <1>26, <1>27, <1>28, <1>29, <1>30, <1>31,
         <1>32, <1>33, <1>34, <1>35, <1>36, <1>37, <1>38, <1>39
  DEF Next, EmitterStep, GuardStep, WorkStep, DrainerStep, MainStep, Done

-----------------------------------------------------------------------------
(* The counters of leaves.                                                 *)

\* The leaves counted by an emitter that has not queued them are leaves, and
\* nobody else has them.
LEMMA CountedFacts ==
  ASSUME TypeOK, LocalInv, PlacesInv,
         NEW e \in Emitters, pc[e] \in {"count", "push", "uncount"}
  PROVE  /\ item[e] \in Leaves
         /\ item[e] \notin Range(backlog)
         /\ \A t \in Threads : item[e] \notin batch[t]
         /\ \A d \in Emitters : pc[d] \in {"count", "push", "uncount"} /\ item[d] = item[e]
                                  => d = e
<1>1. item[e] \in Leaves /\ item[e] # NoLeaf
  BY DEF TypeOK, DataTypes, LocalTypes, LocalInv, EmitterLocal
<1>2. Held(e) = {item[e]}
  BY <1>1 DEF Held
<1>3. \A d \in Emitters : pc[d] \in {"count", "push", "uncount"} /\ item[d] = item[e]
                            => item[e] \in Held(d)
  BY <1>1 DEF Held
<1> QED BY <1>1, <1>2, <1>3 DEF PlacesInv, Apart

\* The live and the started leaves are finitely many.
LEMMA LiveFinite ==
  ASSUME DataTypes, LocalInv
  PROVE  /\ IsFiniteSet(LiveLeaves) /\ Cardinality(LiveLeaves) \in Nat
         /\ IsFiniteSet(StartedLeaves) /\ Cardinality(StartedLeaves) \in Nat
<1>1. Range(backlog) \subseteq Leaves
  BY RangeOfSeq DEF DataTypes, QueueTypes
<1>2. CountedItems \subseteq Leaves
  BY DEF CountedItems, DataTypes, LocalTypes, LocalInv, EmitterLocal
<1>3. LiveLeaves \subseteq Leaves
  BY <1>1, <1>2 DEF LiveLeaves, DataTypes, TakeTypes
<1>4. StartedLeaves \subseteq Leaves
  BY DEF StartedLeaves, DataTypes, TakeTypes
<1> QED BY <1>3, <1>4, SchedulerAssumption, FS_Subset, FS_CardinalityType

\* A step that changes neither what is queued, nor what is counted, nor what is
\* taken.
LEMMA CountFrame ==
  ASSUME OutstandingExact,
         UNCHANGED <<backlog, outstanding, inflight, batch, popped>>,
         \A e \in Emitters : pc'[e] \in {"push", "uncount"} <=> pc[e] \in {"push", "uncount"},
         \A e \in Emitters : pc[e] \in {"push", "uncount"} => item'[e] = item[e]
  PROVE  OutstandingExact'
<1>1. CountedItems' = CountedItems
  BY DEF CountedItems
<1>2. LiveLeaves' = LiveLeaves /\ StartedLeaves' = StartedLeaves
  BY <1>1 DEF LiveLeaves, StartedLeaves, Range
<1> QED BY <1>2 DEF OutstandingExact

\* Every step keeps the counters of leaves exact.
LEMMA CountStep ==
  ASSUME TypeOK, LocalInv, PlacesInv, OutstandingExact, [Next]_vars
  PROVE  OutstandingExact'
<1> USE ThreadFacts
<1>1. ASSUME NEW e \in Emitters, ProducerBranchEnds(e)
      PROVE  OutstandingExact'
  <2>1. UNCHANGED <<backlog, outstanding, inflight, batch, popped>>
    BY <1>1 DEF ProducerBranchEnds, queueVars, takeVars
  <2>2. ASSUME NEW x \in Emitters
        PROVE  /\ pc'[x] \in {"push", "uncount"} <=> pc[x] \in {"push", "uncount"}
               /\ pc[x] \in {"push", "uncount"} => item'[x] = item[x]
    BY <1>1 DEF TypeOK, DataTypes, LocalTypes, ControlTypes, ProducerBranchEnds, Goto, localVars, EmitterReturns
  <2> QED BY <2>1, <2>2, CountFrame
<1>2. ASSUME NEW e \in Emitters, EmitterUnwound(e)
      PROVE  OutstandingExact'
  <2>1. UNCHANGED <<backlog, outstanding, inflight, batch, popped>>
    BY <1>2 DEF EmitterUnwound, queueVars, takeVars
  <2>2. ASSUME NEW x \in Emitters
        PROVE  /\ pc'[x] \in {"push", "uncount"} <=> pc[x] \in {"push", "uncount"}
               /\ pc[x] \in {"push", "uncount"} => item'[x] = item[x]
    BY <1>2 DEF TypeOK, DataTypes, LocalTypes, ControlTypes, EmitterUnwound, Goto, localVars
  <2> QED BY <2>1, <2>2, CountFrame
<1>3. ASSUME NEW e \in Emitters, CountLeaf(e)
      PROVE  OutstandingExact'
  <2>1. /\ UNCHANGED <<backlog, inflight, batch, popped, item>>
        /\ outstanding' = outstanding + 1 /\ pc[e] = "count" /\ pc' = [pc EXCEPT ![e] = "push"]
    BY <1>3 DEF CountLeaf, takeVars, localVars, Goto
  <2>2. CountedItems' = CountedItems \cup {item[e]} /\ item[e] \notin CountedItems
    <3>1. \A x \in Emitters : pc'[x] \in {"push", "uncount"} <=> x = e \/ pc[x] \in {"push", "uncount"}
      BY <2>1 DEF TypeOK, ControlTypes
    <3>2. \A x \in Emitters : pc[x] \in {"push", "uncount"} => item[x] # item[e]
      BY <2>1, CountedFacts
    <3> QED BY <2>1, <3>1, <3>2 DEF CountedItems
  <2>3. Range(backlog)' = Range(backlog) /\ StartedLeaves' = StartedLeaves
    BY <2>1 DEF Range, StartedLeaves
  <2>4. LiveLeaves' = LiveLeaves \cup {item[e]}
    BY <2>1, <2>2, <2>3 DEF LiveLeaves
  <2>5. item[e] \notin LiveLeaves
    BY <2>1, <2>2, CountedFacts DEF LiveLeaves
  <2>6. Cardinality(LiveLeaves') = Cardinality(LiveLeaves) + 1
    BY <2>4, <2>5, LiveFinite, FS_AddElement DEF TypeOK
  <2> QED BY <2>1, <2>3, <2>6 DEF OutstandingExact
<1>4. ASSUME NEW e \in Emitters, PushLeaf(e)
      PROVE  OutstandingExact'
  <2>1. /\ UNCHANGED <<outstanding, inflight, batch, popped, item>> /\ pc[e] = "push"
        /\ item[e] \in Leaves /\ backlog \in Seq(Leaves)
    BY <1>4, CountedFacts DEF PushLeaf, takeVars, localVars, TypeOK, DataTypes, QueueTypes
  <2>2. CASE backlog' = backlog /\ Goto(e, "uncount")
    <3>1. \A x \in Emitters : pc'[x] \in {"push", "uncount"} <=> pc[x] \in {"push", "uncount"}
      BY <2>1, <2>2 DEF TypeOK, ControlTypes, Goto
    <3> QED BY <2>1, <2>2, <3>1, CountFrame
  <2>3. CASE backlog' = Append(backlog, item[e]) /\ Goto(e, "credit")
    <3>1. Range(backlog)' = Range(backlog) \cup {item[e]}
      <4>1. Range(backlog)' = Range(Append(backlog, item[e]))
        BY <2>3 DEF Range
      <4> QED BY <4>1, <2>1, RangeAppend
    <3>2. CountedItems' \cup {item[e]} = CountedItems
      <4>1. \A x \in Emitters : pc'[x] \in {"push", "uncount"} <=> x # e /\ pc[x] \in {"push", "uncount"}
        BY <2>1, <2>3 DEF TypeOK, ControlTypes, Goto
      <4> QED BY <2>1, <4>1 DEF CountedItems
    <3>3. LiveLeaves' = LiveLeaves /\ StartedLeaves' = StartedLeaves
      BY <2>1, <3>1, <3>2 DEF LiveLeaves, StartedLeaves
    <3> QED BY <2>1, <3>3 DEF OutstandingExact
  <2> QED BY <1>4, <2>2, <2>3 DEF PushLeaf
<1>5. ASSUME NEW e \in Emitters, UncountLeaf(e)
      PROVE  OutstandingExact'
  <2>1. /\ UNCHANGED <<backlog, inflight, batch, popped, item>>
        /\ outstanding' = outstanding - 1
        /\ pc[e] = "uncount" /\ pc' = [pc EXCEPT ![e] = "spawnLen"]
    BY <1>5 DEF UncountLeaf, takeVars, localVars, Goto
  <2>2. CountedItems' = CountedItems \ {item[e]} /\ item[e] \in CountedItems
    <3>1. \A x \in Emitters : pc'[x] \in {"push", "uncount"} <=> x # e /\ pc[x] \in {"push", "uncount"}
      BY <2>1 DEF TypeOK, ControlTypes
    <3>2. \A x \in Emitters : x # e /\ pc[x] \in {"push", "uncount"} => item[x] # item[e]
      BY <2>1, CountedFacts
    <3> QED BY <2>1, <3>1, <3>2 DEF CountedItems
  <2>3. Range(backlog)' = Range(backlog) /\ StartedLeaves' = StartedLeaves
    BY <2>1 DEF Range, StartedLeaves
  <2>4. LiveLeaves' = LiveLeaves \ {item[e]} /\ item[e] \in LiveLeaves
    <3>1. item[e] \notin Range(backlog) /\ \A x \in Threads : item[e] \notin batch[x]
      BY <2>1, CountedFacts
    <3> QED BY <2>1, <2>2, <2>3, <3>1 DEF LiveLeaves
  <2>5. Cardinality(LiveLeaves') = Cardinality(LiveLeaves) - 1
    BY <2>4, LiveFinite, FS_RemoveElement DEF TypeOK
  <2> QED BY <2>1, <2>3, <2>5 DEF OutstandingExact
<1>6. ASSUME NEW e \in Emitters, CreditLeaf(e)
      PROVE  OutstandingExact'
  <2>1. UNCHANGED <<backlog, outstanding, inflight, batch, popped>>
    BY <1>6 DEF CreditLeaf, queueVars, takeVars
  <2>2. ASSUME NEW x \in Emitters
        PROVE  /\ pc'[x] \in {"push", "uncount"} <=> pc[x] \in {"push", "uncount"}
               /\ pc[x] \in {"push", "uncount"} => item'[x] = item[x]
    BY <1>6 DEF TypeOK, DataTypes, LocalTypes, ControlTypes, CreditLeaf, Goto, localVars
  <2> QED BY <2>1, <2>2, CountFrame
<1>7. ASSUME NEW e \in Emitters, SoftLimitWait(e)
      PROVE  OutstandingExact'
  <2>1. UNCHANGED <<backlog, outstanding, inflight, batch, popped>>
    BY <1>7 DEF SoftLimitWait, queueVars, takeVars
  <2>2. ASSUME NEW x \in Emitters
        PROVE  /\ pc'[x] \in {"push", "uncount"} <=> pc[x] \in {"push", "uncount"}
               /\ pc[x] \in {"push", "uncount"} => item'[x] = item[x]
    BY <1>7 DEF TypeOK, DataTypes, LocalTypes, ControlTypes, SoftLimitWait, Goto, localVars, EmitterReturns
  <2> QED BY <2>1, <2>2, CountFrame
<1>8. ASSUME NEW e \in Emitters, CreditWait(e)
      PROVE  OutstandingExact'
  <2>1. UNCHANGED <<backlog, outstanding, inflight, batch, popped>>
    BY <1>8 DEF CreditWait, queueVars, takeVars
  <2>2. ASSUME NEW x \in Emitters
        PROVE  /\ pc'[x] \in {"push", "uncount"} <=> pc[x] \in {"push", "uncount"}
               /\ pc[x] \in {"push", "uncount"} => item'[x] = item[x]
    BY <1>8 DEF TypeOK, DataTypes, LocalTypes, ControlTypes, CreditWait, Goto, localVars, EmitterReturns
  <2> QED BY <2>1, <2>2, CountFrame
<1>9. ASSUME NEW e \in Emitters, FinishLeafDrainerLimit(e)
      PROVE  OutstandingExact'
  <2>1. UNCHANGED <<backlog, outstanding, inflight, batch, popped>>
    BY <1>9 DEF FinishLeafDrainerLimit, queueVars, takeVars
  <2>2. ASSUME NEW x \in Emitters
        PROVE  /\ pc'[x] \in {"push", "uncount"} <=> pc[x] \in {"push", "uncount"}
               /\ pc[x] \in {"push", "uncount"} => item'[x] = item[x]
    BY <1>9 DEF TypeOK, DataTypes, LocalTypes, ControlTypes, FinishLeafDrainerLimit, Goto, localVars
  <2> QED BY <2>1, <2>2, CountFrame
<1>10. ASSUME NEW e \in Emitters, BeginLargeAssignment(e)
      PROVE  OutstandingExact'
  <2>1. UNCHANGED <<backlog, outstanding, inflight, batch, popped>>
    BY <1>10 DEF BeginLargeAssignment, queueVars, takeVars
  <2>2. ASSUME NEW x \in Emitters
        PROVE  /\ pc'[x] \in {"push", "uncount"} <=> pc[x] \in {"push", "uncount"}
               /\ pc[x] \in {"push", "uncount"} => item'[x] = item[x]
    BY <1>10 DEF TypeOK, DataTypes, LocalTypes, ControlTypes, BeginLargeAssignment, Goto, localVars
  <2> QED BY <2>1, <2>2, CountFrame
<1>11. ASSUME NEW e \in Emitters, FinishLargeAssignment(e)
      PROVE  OutstandingExact'
  <2>1. UNCHANGED <<backlog, outstanding, inflight, batch, popped>>
    BY <1>11 DEF FinishLargeAssignment, queueVars, takeVars
  <2>2. ASSUME NEW x \in Emitters
        PROVE  /\ pc'[x] \in {"push", "uncount"} <=> pc[x] \in {"push", "uncount"}
               /\ pc[x] \in {"push", "uncount"} => item'[x] = item[x]
    BY <1>11 DEF TypeOK, DataTypes, LocalTypes, ControlTypes, FinishLargeAssignment, Goto, localVars
  <2> QED BY <2>1, <2>2, CountFrame
<1>12. ASSUME NEW e \in Emitters, NEW l \in Leaves, NEW m \in {"emitted", "deferred"},
             EmitLeaf(e, l, m)
      PROVE  OutstandingExact'
  <2>1. UNCHANGED <<backlog, outstanding, inflight, batch, popped>>
    BY <1>12 DEF EmitLeaf, queueVars, takeVars
  <2>2. ASSUME NEW x \in Emitters
        PROVE  /\ pc'[x] \in {"push", "uncount"} <=> pc[x] \in {"push", "uncount"}
               /\ pc[x] \in {"push", "uncount"} => item'[x] = item[x]
    BY <1>12 DEF TypeOK, DataTypes, LocalTypes, ControlTypes, EmitLeaf, Goto, localVars, EmitterReturns
  <2> QED BY <2>1, <2>2, CountFrame
<1>13. ASSUME NEW e \in Emitters, NEW l \in Leaves, EmitLeafInline(e, l)
      PROVE  OutstandingExact'
  <2>1. UNCHANGED <<backlog, outstanding, inflight, batch, popped>>
    BY <1>13 DEF EmitLeafInline, queueVars, takeVars
  <2>2. ASSUME NEW x \in Emitters
        PROVE  /\ pc'[x] \in {"push", "uncount"} <=> pc[x] \in {"push", "uncount"}
               /\ pc[x] \in {"push", "uncount"} => item'[x] = item[x]
    BY <1>13 DEF TypeOK, DataTypes, LocalTypes, ControlTypes, EmitLeafInline, Goto, localVars, EmitterReturns
  <2> QED BY <2>1, <2>2, CountFrame
<1>14. ASSUME NEW e \in Emitters, NEW p \in LimitPairs, BeginLeafDrainerLimit(e, p)
      PROVE  OutstandingExact'
  <2>1. UNCHANGED <<backlog, outstanding, inflight, batch, popped>>
    BY <1>14 DEF BeginLeafDrainerLimit, queueVars, takeVars
  <2>2. ASSUME NEW x \in Emitters
        PROVE  /\ pc'[x] \in {"push", "uncount"} <=> pc[x] \in {"push", "uncount"}
               /\ pc[x] \in {"push", "uncount"} => item'[x] = item[x]
    BY <1>14 DEF TypeOK, DataTypes, LocalTypes, ControlTypes, BeginLeafDrainerLimit, Goto, localVars
  <2> QED BY <2>1, <2>2, CountFrame
<1>15. ASSUME NEW t \in Threads, SpawnReadBacklog(t)
      PROVE  OutstandingExact'
  <2>1. UNCHANGED <<backlog, outstanding, inflight, batch, popped>>
    BY <1>15 DEF SpawnReadBacklog, queueVars, takeVars
  <2>2. ASSUME NEW x \in Emitters
        PROVE  /\ pc'[x] \in {"push", "uncount"} <=> pc[x] \in {"push", "uncount"}
               /\ pc[x] \in {"push", "uncount"} => item'[x] = item[x]
    BY <1>15, AfterSpawnLabel DEF TypeOK, DataTypes, LocalTypes, ControlTypes, SpawnReadBacklog, Goto, localVars
  <2> QED BY <2>1, <2>2, CountFrame
<1>16. ASSUME NEW t \in Threads, SpawnReadActive(t)
      PROVE  OutstandingExact'
  <2>1. UNCHANGED <<backlog, outstanding, inflight, batch, popped>>
    BY <1>16 DEF SpawnReadActive, queueVars, takeVars
  <2>2. ASSUME NEW x \in Emitters
        PROVE  /\ pc'[x] \in {"push", "uncount"} <=> pc[x] \in {"push", "uncount"}
               /\ pc[x] \in {"push", "uncount"} => item'[x] = item[x]
    BY <1>16, AfterSpawnLabel DEF TypeOK, DataTypes, LocalTypes, ControlTypes, SpawnReadActive, Goto, localVars
  <2> QED BY <2>1, <2>2, CountFrame
<1>17. ASSUME NEW t \in Threads, SpawnCas(t)
      PROVE  OutstandingExact'
  <2>1. UNCHANGED <<backlog, outstanding, inflight, batch, popped>>
    BY <1>17 DEF SpawnCas, queueVars, takeVars
  <2>2. ASSUME NEW x \in Emitters
        PROVE  /\ pc'[x] \in {"push", "uncount"} <=> pc[x] \in {"push", "uncount"}
               /\ pc[x] \in {"push", "uncount"} => item'[x] = item[x]
    BY <1>17 DEF TypeOK, DataTypes, LocalTypes, ControlTypes, SpawnCas, Goto, localVars
  <2> QED BY <2>1, <2>2, CountFrame
<1>18. ASSUME NEW t \in Threads, TakeLeaf(t)
      PROVE  OutstandingExact'
  <2>1. /\ UNCHANGED <<outstanding, inflight, item>> /\ backlog \in Seq(Leaves)
        /\ pc[t] = "take" /\ popped[t] = NoLeaf /\ NoLeaf \notin batch[t]
    BY <1>18, SchedulerAssumption
    DEF TakeLeaf, localVars, TypeOK, DataTypes, QueueTypes, TakeTypes, LocalInv, BatchLocal
  <2>2. CASE backlog = <<>>
    <3>1. UNCHANGED <<backlog, batch, popped>>
      BY <1>18, <2>2 DEF TakeLeaf
    <3>2. PICK l : Goto(t, l) /\ l \notin {"push", "uncount"}
      BY <1>18, <2>2, AfterHelpLabel, RoleFacts DEF TakeLeaf, AfterNothing, RunBatch
    <3>3. \A x \in Emitters : pc'[x] \in {"push", "uncount"} <=> pc[x] \in {"push", "uncount"}
      BY <2>1, <3>2 DEF TypeOK, ControlTypes, Goto
    <3> QED BY <2>1, <3>1, <3>3, CountFrame
  <2>3. CASE backlog # <<>>
    <3> DEFINE h == Head(backlog)
    <3>0. /\ backlog' = Tail(backlog) /\ Goto(t, "debit")
          /\ batch' = [batch EXCEPT ![t] = @ \cup {h}]
          /\ popped' = [popped EXCEPT ![t] = h]
      BY <1>18, <2>3 DEF TakeLeaf
    <3>1. h \in Range(backlog) /\ Range(backlog)' = Range(backlog) \ {h}
      <4>1. Range(backlog)' = Range(Tail(backlog))
        BY <3>0 DEF Range
      <4>2. NoDuplicates
        BY DEF PlacesInv
      <4> QED BY <2>1, <2>3, <4>1, <4>2, RangeTail DEF NoDuplicates
    <3>2. /\ batch'[t] = batch[t] \cup {h} /\ popped'[t] = h
          /\ \A x \in Threads : x # t => batch'[x] = batch[x] /\ popped'[x] = popped[x]
      BY <2>1, <3>0 DEF TypeOK, DataTypes, TakeTypes
    <3>3. h \notin batch[t]
      BY <3>1 DEF PlacesInv, Apart
    <3>4. CountedItems' = CountedItems
      <4>1. \A x \in Emitters : pc'[x] \in {"push", "uncount"} <=> pc[x] \in {"push", "uncount"}
        BY <2>1, <3>0 DEF TypeOK, ControlTypes, Goto
      <4> QED BY <2>1, <4>1 DEF CountedItems
    <3> HIDE DEF h
    <3>5. LiveLeaves' = LiveLeaves
      BY <3>1, <3>2, <3>4 DEF LiveLeaves
    <3>6. \A x \in Threads : batch'[x] \ {popped'[x]} = batch[x] \ {popped[x]}
      BY <2>1, <3>2, <3>3
    <3>7. StartedLeaves' = StartedLeaves
      BY <3>6 DEF StartedLeaves
    <3> QED BY <2>1, <3>5, <3>7 DEF OutstandingExact
  <2> QED BY <2>2, <2>3
<1>19. ASSUME NEW t \in Threads, DebitLeaf(t)
      PROVE  OutstandingExact'
  <2>1. /\ UNCHANGED <<backlog, outstanding, batch, item>> /\ inflight' = inflight + 1
        /\ popped' = [popped EXCEPT ![t] = NoLeaf] /\ pc[t] = "debit"
        /\ popped[t] \in batch[t] /\ NoLeaf \notin batch[t]
    BY <1>19, SchedulerAssumption
    DEF DebitLeaf, localVars, TypeOK, DataTypes, TakeTypes, LocalInv, BatchLocal
  <2>2. PICK l : Goto(t, l) /\ l \notin {"push", "uncount"}
    BY <1>19 DEF DebitLeaf, RunBatch
  <2>3. LiveLeaves' = LiveLeaves
    <3>1. \A x \in Emitters : pc'[x] \in {"push", "uncount"} <=> pc[x] \in {"push", "uncount"}
      BY <2>1, <2>2 DEF TypeOK, ControlTypes, Goto
    <3>2. CountedItems' = CountedItems /\ Range(backlog)' = Range(backlog)
      BY <2>1, <3>1 DEF CountedItems, Range
    <3> QED BY <2>1, <3>2 DEF LiveLeaves
  <2>4. /\ batch'[t] \ {popped'[t]} = (batch[t] \ {popped[t]}) \cup {popped[t]}
        /\ \A x \in Threads : x # t => batch'[x] \ {popped'[x]} = batch[x] \ {popped[x]}
    BY <2>1 DEF TypeOK, DataTypes, TakeTypes
  <2>5. StartedLeaves' = StartedLeaves \cup {popped[t]}
    BY <2>4 DEF StartedLeaves
  <2>6. popped[t] \notin StartedLeaves
    BY <2>1 DEF StartedLeaves, PlacesInv, Apart
  <2>7. Cardinality(StartedLeaves') = Cardinality(StartedLeaves) + 1
    BY <2>5, <2>6, LiveFinite, FS_AddElement DEF TypeOK
  <2> QED BY <2>1, <2>3, <2>7 DEF OutstandingExact
<1>20. ASSUME NEW t \in Threads, AcquireHydrationSlot(t)
      PROVE  OutstandingExact'
  <2>1. UNCHANGED <<backlog, outstanding, inflight, batch, popped>>
    BY <1>20 DEF AcquireHydrationSlot, queueVars, takeVars
  <2>2. ASSUME NEW x \in Emitters
        PROVE  /\ pc'[x] \in {"push", "uncount"} <=> pc[x] \in {"push", "uncount"}
               /\ pc[x] \in {"push", "uncount"} => item'[x] = item[x]
    BY <1>20 DEF TypeOK, DataTypes, LocalTypes, ControlTypes, AcquireHydrationSlot, Goto, localVars, BatchFails
  <2> QED BY <2>1, <2>2, CountFrame
<1>21. ASSUME NEW t \in Threads, Hydrate(t)
      PROVE  OutstandingExact'
  <2>1. UNCHANGED <<backlog, outstanding, inflight, batch, popped>>
    BY <1>21 DEF Hydrate, queueVars, takeVars
  <2>2. ASSUME NEW x \in Emitters
        PROVE  /\ pc'[x] \in {"push", "uncount"} <=> pc[x] \in {"push", "uncount"}
               /\ pc[x] \in {"push", "uncount"} => item'[x] = item[x]
    BY <1>21 DEF TypeOK, DataTypes, LocalTypes, ControlTypes, Hydrate, Goto, localVars, BatchFails
  <2> QED BY <2>1, <2>2, CountFrame
<1>22. ASSUME NEW t \in Threads, BuildBatch(t)
      PROVE  OutstandingExact'
  <2>1. UNCHANGED <<backlog, outstanding, inflight, batch, popped>>
    BY <1>22 DEF BuildBatch, queueVars, takeVars
  <2>2. ASSUME NEW x \in Emitters
        PROVE  /\ pc'[x] \in {"push", "uncount"} <=> pc[x] \in {"push", "uncount"}
               /\ pc[x] \in {"push", "uncount"} => item'[x] = item[x]
    BY <1>22 DEF TypeOK, DataTypes, LocalTypes, ControlTypes, BuildBatch, Goto, localVars
  <2> QED BY <2>1, <2>2, CountFrame
<1>23. ASSUME NEW t \in Threads, FinishLeafExecution(t)
      PROVE  OutstandingExact'
  <2>1. PICK l \in batch[t] : batch' = [batch EXCEPT ![t] = @ \ {l}]
    BY <1>23 DEF FinishLeafExecution
  <2>2. /\ UNCHANGED <<backlog, popped, item, pc>> /\ pc[t] = "finish" /\ popped[t] = NoLeaf
        /\ outstanding' = outstanding - 1 /\ inflight' = inflight - 1 /\ l # NoLeaf
    BY <1>23, SchedulerAssumption
    DEF FinishLeafExecution, localVars, LocalInv, BatchLocal, TypeOK, DataTypes, TakeTypes
  <2>3. \A x \in Emitters : pc'[x] \in {"push", "uncount"} <=> pc[x] \in {"push", "uncount"}
    BY <2>2
  <2>4. batch'[t] = batch[t] \ {l} /\ \A x \in Threads : x # t => batch'[x] = batch[x]
    BY <2>1 DEF TypeOK, DataTypes, TakeTypes
  <2>5. l \in LiveLeaves /\ LiveLeaves' = LiveLeaves \ {l}
    <3>1. l \notin Range(backlog) /\ \A x \in Threads : x # t => l \notin batch[x]
      BY <2>1 DEF PlacesInv, Apart
    <3>2. l \notin CountedItems
      BY <2>1, CountedFacts DEF CountedItems
    <3>3. CountedItems' = CountedItems /\ Range(backlog)' = Range(backlog)
      BY <2>2, <2>3 DEF CountedItems, Range
    <3> QED BY <2>1, <2>4, <3>1, <3>2, <3>3 DEF LiveLeaves
  <2>6. l \in StartedLeaves /\ StartedLeaves' = StartedLeaves \ {l}
    <3>1. \A x \in Threads : x # t => l \notin batch[x]
      BY <2>1 DEF PlacesInv, Apart
    <3> QED BY <2>1, <2>2, <2>4, <3>1 DEF StartedLeaves
  <2>7. /\ Cardinality(LiveLeaves') = Cardinality(LiveLeaves) - 1
        /\ Cardinality(StartedLeaves') = Cardinality(StartedLeaves) - 1
    BY <2>5, <2>6, LiveFinite, FS_RemoveElement DEF TypeOK
  <2> QED BY <2>2, <2>7 DEF OutstandingExact
<1>24. ASSUME NEW t \in Threads, HelperReturns(t)
      PROVE  OutstandingExact'
  <2>0. AfterHelp(t) \notin {"push", "uncount"}
    BY <1>24, AfterHelpLabel, RoleFacts DEF HelperReturns
  <2>1. UNCHANGED <<backlog, outstanding, inflight, batch, popped>>
    BY <1>24 DEF HelperReturns, queueVars, takeVars
  <2>2. ASSUME NEW x \in Emitters
        PROVE  /\ pc'[x] \in {"push", "uncount"} <=> pc[x] \in {"push", "uncount"}
               /\ pc[x] \in {"push", "uncount"} => item'[x] = item[x]
    BY <1>24, <2>0 DEF TypeOK, DataTypes, LocalTypes, ControlTypes, HelperReturns, Goto, localVars, EmitterReturns
  <2> QED BY <2>1, <2>2, CountFrame
<1>25. ASSUME NEW d \in Drainers, StartDrainer(d)
      PROVE  OutstandingExact'
  <2>1. UNCHANGED <<backlog, outstanding, inflight, batch, popped>>
    BY <1>25 DEF StartDrainer, queueVars, takeVars
  <2>2. ASSUME NEW x \in Emitters
        PROVE  /\ pc'[x] \in {"push", "uncount"} <=> pc[x] \in {"push", "uncount"}
               /\ pc[x] \in {"push", "uncount"} => item'[x] = item[x]
    BY <1>25 DEF TypeOK, DataTypes, LocalTypes, ControlTypes, StartDrainer, Goto, localVars
  <2> QED BY <2>1, <2>2, CountFrame
<1>26. ASSUME NEW d \in Drainers, DrainerChecks(d)
      PROVE  OutstandingExact'
  <2>1. UNCHANGED <<backlog, outstanding, inflight, batch, popped>>
    BY <1>26 DEF DrainerChecks, queueVars, takeVars
  <2>2. ASSUME NEW x \in Emitters
        PROVE  /\ pc'[x] \in {"push", "uncount"} <=> pc[x] \in {"push", "uncount"}
               /\ pc[x] \in {"push", "uncount"} => item'[x] = item[x]
    BY <1>26 DEF TypeOK, DataTypes, LocalTypes, ControlTypes, DrainerChecks, Goto, localVars
  <2> QED BY <2>1, <2>2, CountFrame
<1>27. ASSUME NEW d \in Drainers, DrainerReadsActive(d)
      PROVE  OutstandingExact'
  <2>1. UNCHANGED <<backlog, outstanding, inflight, batch, popped>>
    BY <1>27 DEF DrainerReadsActive, queueVars, takeVars
  <2>2. ASSUME NEW x \in Emitters
        PROVE  /\ pc'[x] \in {"push", "uncount"} <=> pc[x] \in {"push", "uncount"}
               /\ pc[x] \in {"push", "uncount"} => item'[x] = item[x]
    BY <1>27 DEF TypeOK, DataTypes, LocalTypes, ControlTypes, DrainerReadsActive, Goto, localVars
  <2> QED BY <2>1, <2>2, CountFrame
<1>28. ASSUME NEW d \in Drainers, ReserveRetirement(d)
      PROVE  OutstandingExact'
  <2>1. UNCHANGED <<backlog, outstanding, inflight, batch, popped>>
    BY <1>28 DEF ReserveRetirement, queueVars, takeVars
  <2>2. ASSUME NEW x \in Emitters
        PROVE  /\ pc'[x] \in {"push", "uncount"} <=> pc[x] \in {"push", "uncount"}
               /\ pc[x] \in {"push", "uncount"} => item'[x] = item[x]
    BY <1>28 DEF TypeOK, DataTypes, LocalTypes, ControlTypes, ReserveRetirement, Goto, localVars
  <2> QED BY <2>1, <2>2, CountFrame
<1>29. ASSUME NEW d \in Drainers, DrainerBatchDone(d)
      PROVE  OutstandingExact'
  <2>1. UNCHANGED <<backlog, outstanding, inflight, batch, popped>>
    BY <1>29 DEF DrainerBatchDone, queueVars, takeVars
  <2>2. ASSUME NEW x \in Emitters
        PROVE  /\ pc'[x] \in {"push", "uncount"} <=> pc[x] \in {"push", "uncount"}
               /\ pc[x] \in {"push", "uncount"} => item'[x] = item[x]
    BY <1>29 DEF TypeOK, DataTypes, LocalTypes, ControlTypes, DrainerBatchDone, Goto, localVars, AfterHelp
  <2> QED BY <2>1, <2>2, CountFrame
<1>30. ASSUME NEW d \in Drainers, RecordError(d)
      PROVE  OutstandingExact'
  <2>1. UNCHANGED <<backlog, outstanding, inflight, batch, popped>>
    BY <1>30 DEF RecordError, queueVars, takeVars
  <2>2. ASSUME NEW x \in Emitters
        PROVE  /\ pc'[x] \in {"push", "uncount"} <=> pc[x] \in {"push", "uncount"}
               /\ pc[x] \in {"push", "uncount"} => item'[x] = item[x]
    BY <1>30 DEF TypeOK, DataTypes, LocalTypes, ControlTypes, RecordError, Goto, localVars
  <2> QED BY <2>1, <2>2, CountFrame
<1>31. ASSUME NEW d \in Drainers, DrainerUnreserves(d)
      PROVE  OutstandingExact'
  <2>1. UNCHANGED <<backlog, outstanding, inflight, batch, popped>>
    BY <1>31 DEF DrainerUnreserves, queueVars, takeVars
  <2>2. ASSUME NEW x \in Emitters
        PROVE  /\ pc'[x] \in {"push", "uncount"} <=> pc[x] \in {"push", "uncount"}
               /\ pc[x] \in {"push", "uncount"} => item'[x] = item[x]
    BY <1>31 DEF TypeOK, DataTypes, LocalTypes, ControlTypes, DrainerUnreserves, Goto, localVars
  <2> QED BY <2>1, <2>2, CountFrame
<1>32. ASSUME NEW d \in Drainers, DrainerLeaves(d)
      PROVE  OutstandingExact'
  <2>1. UNCHANGED <<backlog, outstanding, inflight, batch, popped>>
    BY <1>32 DEF DrainerLeaves, queueVars, takeVars
  <2>2. ASSUME NEW x \in Emitters
        PROVE  /\ pc'[x] \in {"push", "uncount"} <=> pc[x] \in {"push", "uncount"}
               /\ pc[x] \in {"push", "uncount"} => item'[x] = item[x]
    BY <1>32 DEF TypeOK, DataTypes, LocalTypes, ControlTypes, DrainerLeaves, Goto, localVars
  <2> QED BY <2>1, <2>2, CountFrame
<1>33. CASE ProducerReturns
  <2>1. UNCHANGED <<backlog, outstanding, inflight, batch, popped>>
    BY <1>33 DEF ProducerReturns, queueVars, takeVars
  <2>2. ASSUME NEW x \in Emitters
        PROVE  /\ pc'[x] \in {"push", "uncount"} <=> pc[x] \in {"push", "uncount"}
               /\ pc[x] \in {"push", "uncount"} => item'[x] = item[x]
    BY <1>33 DEF TypeOK, DataTypes, LocalTypes, ControlTypes, ProducerReturns, Goto, localVars
  <2> QED BY <2>1, <2>2, CountFrame
<1>34. CASE DiscardPop
  <2>1. /\ UNCHANGED <<outstanding, inflight, item>> /\ backlog \in Seq(Leaves)
        /\ pc[Main] = "discard" /\ popped[Main] = NoLeaf /\ NoLeaf \notin batch[Main] /\ batch[Main] = {}
    BY <1>34, SchedulerAssumption
    DEF DiscardPop, localVars, TypeOK, DataTypes, QueueTypes, TakeTypes, LocalInv, BatchLocal
  <2>2. CASE backlog = <<>>
    <3>1. UNCHANGED <<backlog, batch, popped>>
      BY <1>34, <2>2 DEF DiscardPop
    <3>2. PICK l : Goto(Main, l) /\ l \notin {"push", "uncount"}
      BY <1>34, <2>2 DEF DiscardPop
    <3>3. \A x \in Emitters : pc'[x] \in {"push", "uncount"} <=> pc[x] \in {"push", "uncount"}
      BY <2>1, <3>2 DEF TypeOK, ControlTypes, Goto
    <3> QED BY <2>1, <3>1, <3>3, CountFrame
  <2>3. CASE backlog # <<>>
    <3> DEFINE h == Head(backlog)
    <3>0. /\ backlog' = Tail(backlog) /\ Goto(Main, "drop")
          /\ batch' = [batch EXCEPT ![Main] = {h}]
          /\ popped' = [popped EXCEPT ![Main] = h]
      BY <1>34, <2>3 DEF DiscardPop
    <3>1. h \in Range(backlog) /\ Range(backlog)' = Range(backlog) \ {h}
      <4>1. Range(backlog)' = Range(Tail(backlog))
        BY <3>0 DEF Range
      <4>2. NoDuplicates
        BY DEF PlacesInv
      <4> QED BY <2>1, <2>3, <4>1, <4>2, RangeTail DEF NoDuplicates
    <3>2. /\ batch'[Main] = batch[Main] \cup {h} /\ popped'[Main] = h
          /\ \A x \in Threads : x # Main => batch'[x] = batch[x] /\ popped'[x] = popped[x]
      BY <2>1, <3>0 DEF TypeOK, DataTypes, TakeTypes
    <3>3. h \notin batch[Main]
      BY <3>1 DEF PlacesInv, Apart
    <3>4. CountedItems' = CountedItems
      <4>1. \A x \in Emitters : pc'[x] \in {"push", "uncount"} <=> pc[x] \in {"push", "uncount"}
        BY <2>1, <3>0 DEF TypeOK, ControlTypes, Goto
      <4> QED BY <2>1, <4>1 DEF CountedItems
    <3> HIDE DEF h
    <3>5. LiveLeaves' = LiveLeaves
      BY <3>1, <3>2, <3>4 DEF LiveLeaves
    <3>6. \A x \in Threads : batch'[x] \ {popped'[x]} = batch[x] \ {popped[x]}
      BY <2>1, <3>2, <3>3
    <3>7. StartedLeaves' = StartedLeaves
      BY <3>6 DEF StartedLeaves
    <3> QED BY <2>1, <3>5, <3>7 DEF OutstandingExact
  <2> QED BY <2>2, <2>3
<1>35. CASE DiscardDrop
  <2> DEFINE l == popped[Main]
  <2>1. l \in batch[Main] /\ batch[Main] = {l} /\ pc[Main] = "drop"
    BY <1>35 DEF DiscardDrop, LocalInv, BatchLocal
  <2>2. /\ UNCHANGED <<backlog, item, inflight>> /\ outstanding' = outstanding - 1
        /\ batch' = [batch EXCEPT ![Main] = {}] /\ popped' = [popped EXCEPT ![Main] = NoLeaf]
        /\ Goto(Main, "discard")
    BY <1>35 DEF DiscardDrop, localVars
  <2>3. \A x \in Emitters : pc'[x] \in {"push", "uncount"} <=> pc[x] \in {"push", "uncount"}
    BY <2>1, <2>2 DEF TypeOK, ControlTypes, Goto
  <2>4. /\ batch'[Main] = batch[Main] \ {l} /\ batch'[Main] = {}
        /\ \A x \in Threads : x # Main => batch'[x] = batch[x] /\ popped'[x] = popped[x]
    BY <2>1, <2>2 DEF TypeOK, DataTypes, TakeTypes
  <2>7. \A x \in Threads : batch'[x] \ {popped'[x]} = batch[x] \ {popped[x]}
    BY <2>1, <2>4
  <2> HIDE DEF l
  <2>5. l \in LiveLeaves /\ LiveLeaves' = LiveLeaves \ {l}
    <3>1. l \notin Range(backlog) /\ \A x \in Threads : x # Main => l \notin batch[x]
      BY <2>1 DEF PlacesInv, Apart
    <3>2. l \notin CountedItems
      BY <2>1, CountedFacts DEF CountedItems
    <3>3. CountedItems' = CountedItems /\ Range(backlog)' = Range(backlog)
      BY <2>2, <2>3 DEF CountedItems, Range
    <3> QED BY <2>1, <2>4, <3>1, <3>2, <3>3 DEF LiveLeaves
  <2>6. StartedLeaves' = StartedLeaves
    BY <2>7 DEF StartedLeaves
  <2>8. Cardinality(LiveLeaves') = Cardinality(LiveLeaves) - 1
    BY <2>5, LiveFinite, FS_RemoveElement DEF TypeOK
  <2> QED BY <2>2, <2>6, <2>8 DEF OutstandingExact
<1>36. CASE WaitUntilIdle
  <2>1. UNCHANGED <<backlog, outstanding, inflight, batch, popped>>
    BY <1>36 DEF WaitUntilIdle, queueVars, takeVars
  <2>2. ASSUME NEW x \in Emitters
        PROVE  /\ pc'[x] \in {"push", "uncount"} <=> pc[x] \in {"push", "uncount"}
               /\ pc[x] \in {"push", "uncount"} => item'[x] = item[x]
    BY <1>36 DEF TypeOK, DataTypes, LocalTypes, ControlTypes, WaitUntilIdle, Goto, localVars
  <2> QED BY <2>1, <2>2, CountFrame
<1>37. CASE FinalCheck
  <2>1. UNCHANGED <<backlog, outstanding, inflight, batch, popped>>
    BY <1>37 DEF FinalCheck, queueVars, takeVars
  <2>2. ASSUME NEW x \in Emitters
        PROVE  /\ pc'[x] \in {"push", "uncount"} <=> pc[x] \in {"push", "uncount"}
               /\ pc[x] \in {"push", "uncount"} => item'[x] = item[x]
    BY <1>37 DEF TypeOK, DataTypes, LocalTypes, ControlTypes, FinalCheck, Goto, localVars
  <2> QED BY <2>1, <2>2, CountFrame
<1>38. CASE ScopeReturns
  <2>1. UNCHANGED <<backlog, outstanding, inflight, batch, popped>>
    BY <1>38 DEF ScopeReturns, queueVars, takeVars
  <2>2. ASSUME NEW x \in Emitters
        PROVE  /\ pc'[x] \in {"push", "uncount"} <=> pc[x] \in {"push", "uncount"}
               /\ pc[x] \in {"push", "uncount"} => item'[x] = item[x]
    BY <1>38 DEF TypeOK, DataTypes, LocalTypes, ControlTypes, ScopeReturns, Goto, localVars
  <2> QED BY <2>1, <2>2, CountFrame
<1>39. CASE UNCHANGED vars
  BY <1>39, CountFrame DEF vars, queueVars, takeVars, localVars
<1> QED
  BY <1>1, <1>2, <1>3, <1>4, <1>5, <1>6, <1>7, <1>8, <1>9, <1>10, <1>11,
         <1>12, <1>13, <1>14, <1>15, <1>16, <1>17, <1>18, <1>19, <1>20, <1>21,
         <1>22, <1>23, <1>24, <1>25, <1>26, <1>27, <1>28, <1>29, <1>30, <1>31,
         <1>32, <1>33, <1>34, <1>35, <1>36, <1>37, <1>38, <1>39
  DEF Next, EmitterStep, GuardStep, WorkStep, DrainerStep, MainStep, Done

-----------------------------------------------------------------------------
(* The counters of drainers.                                               *)

Away == {"parked", "spawnLen", "spawnActive", "spawnCas"}

\* The draining and the retiring drainers are finitely many.
LEMMA DrainersFinite ==
  /\ IsFiniteSet(Draining) /\ Cardinality(Draining) \in Nat
  /\ IsFiniteSet(Retiring) /\ Cardinality(Retiring) \in Nat
BY SchedulerAssumption, FS_Subset, FS_CardinalityType DEF Draining, Retiring

\* A step after which every drainer still drains, retires or is away.
LEMMA DrainerFrame ==
  ASSUME DrainersExact,
         UNCHANGED <<active, retiring, tasks, leaked>>,
         \A d \in Drainers : /\ pc'[d] \in Away <=> pc[d] \in Away
                             /\ pc'[d] = "retire" <=> pc[d] = "retire"
  PROVE  DrainersExact'
<1>1. Draining' = Draining /\ Retiring' = Retiring
  BY DEF Draining, Retiring, Away
<1> QED BY <1>1 DEF DrainersExact

\* Every step keeps the counters of drainers exact and within the capacity.
LEMMA DrainersStep ==
  ASSUME TypeOK, LocalInv, DrainersExact, [Next]_vars
  PROVE  DrainersExact'
<1> USE ThreadFacts
<1>1. ASSUME NEW e \in Emitters, ProducerBranchEnds(e)
      PROVE  DrainersExact'
  <2>1. UNCHANGED <<active, retiring, tasks, leaked>>
    BY <1>1 DEF ProducerBranchEnds, drainVars, endVars
  <2>2. ASSUME NEW x \in Drainers
        PROVE  /\ pc'[x] \in Away <=> pc[x] \in Away
               /\ pc'[x] = "retire" <=> pc[x] = "retire"
    BY <1>1, RoleFacts DEF TypeOK, ControlTypes, Away, ProducerBranchEnds, Goto, EmitterReturns
  <2> QED BY <2>1, <2>2, DrainerFrame
<1>2. ASSUME NEW e \in Emitters, EmitterUnwound(e)
      PROVE  DrainersExact'
  <2>1. UNCHANGED <<active, retiring, tasks, leaked>>
    BY <1>2 DEF EmitterUnwound, drainVars, endVars
  <2>2. ASSUME NEW x \in Drainers
        PROVE  /\ pc'[x] \in Away <=> pc[x] \in Away
               /\ pc'[x] = "retire" <=> pc[x] = "retire"
    BY <1>2, RoleFacts DEF TypeOK, ControlTypes, Away, EmitterUnwound, Goto
  <2> QED BY <2>1, <2>2, DrainerFrame
<1>3. ASSUME NEW e \in Emitters, CountLeaf(e)
      PROVE  DrainersExact'
  <2>1. UNCHANGED <<active, retiring, tasks, leaked>>
    BY <1>3 DEF CountLeaf, drainVars, endVars
  <2>2. ASSUME NEW x \in Drainers
        PROVE  /\ pc'[x] \in Away <=> pc[x] \in Away
               /\ pc'[x] = "retire" <=> pc[x] = "retire"
    BY <1>3, RoleFacts DEF TypeOK, ControlTypes, Away, CountLeaf, Goto
  <2> QED BY <2>1, <2>2, DrainerFrame
<1>4. ASSUME NEW e \in Emitters, PushLeaf(e)
      PROVE  DrainersExact'
  <2>1. UNCHANGED <<active, retiring, tasks, leaked>>
    BY <1>4 DEF PushLeaf, drainVars, endVars
  <2>2. ASSUME NEW x \in Drainers
        PROVE  /\ pc'[x] \in Away <=> pc[x] \in Away
               /\ pc'[x] = "retire" <=> pc[x] = "retire"
    BY <1>4, RoleFacts DEF TypeOK, ControlTypes, Away, PushLeaf, Goto
  <2> QED BY <2>1, <2>2, DrainerFrame
<1>5. ASSUME NEW e \in Emitters, UncountLeaf(e)
      PROVE  DrainersExact'
  <2>1. UNCHANGED <<active, retiring, tasks, leaked>>
    BY <1>5 DEF UncountLeaf, drainVars, endVars
  <2>2. ASSUME NEW x \in Drainers
        PROVE  /\ pc'[x] \in Away <=> pc[x] \in Away
               /\ pc'[x] = "retire" <=> pc[x] = "retire"
    BY <1>5, RoleFacts DEF TypeOK, ControlTypes, Away, UncountLeaf, Goto
  <2> QED BY <2>1, <2>2, DrainerFrame
<1>6. ASSUME NEW e \in Emitters, CreditLeaf(e)
      PROVE  DrainersExact'
  <2>1. UNCHANGED <<active, retiring, tasks, leaked>>
    BY <1>6 DEF CreditLeaf, drainVars, endVars
  <2>2. ASSUME NEW x \in Drainers
        PROVE  /\ pc'[x] \in Away <=> pc[x] \in Away
               /\ pc'[x] = "retire" <=> pc[x] = "retire"
    BY <1>6, RoleFacts DEF TypeOK, ControlTypes, Away, CreditLeaf, Goto
  <2> QED BY <2>1, <2>2, DrainerFrame
<1>7. ASSUME NEW e \in Emitters, SoftLimitWait(e)
      PROVE  DrainersExact'
  <2>1. UNCHANGED <<active, retiring, tasks, leaked>>
    BY <1>7 DEF SoftLimitWait, drainVars, endVars
  <2>2. ASSUME NEW x \in Drainers
        PROVE  /\ pc'[x] \in Away <=> pc[x] \in Away
               /\ pc'[x] = "retire" <=> pc[x] = "retire"
    BY <1>7, RoleFacts DEF TypeOK, ControlTypes, Away, SoftLimitWait, Goto, EmitterReturns
  <2> QED BY <2>1, <2>2, DrainerFrame
<1>8. ASSUME NEW e \in Emitters, CreditWait(e)
      PROVE  DrainersExact'
  <2>1. UNCHANGED <<active, retiring, tasks, leaked>>
    BY <1>8 DEF CreditWait, drainVars, endVars
  <2>2. ASSUME NEW x \in Drainers
        PROVE  /\ pc'[x] \in Away <=> pc[x] \in Away
               /\ pc'[x] = "retire" <=> pc[x] = "retire"
    BY <1>8, RoleFacts DEF TypeOK, ControlTypes, Away, CreditWait, Goto, EmitterReturns
  <2> QED BY <2>1, <2>2, DrainerFrame
<1>9. ASSUME NEW e \in Emitters, FinishLeafDrainerLimit(e)
      PROVE  DrainersExact'
  <2>1. UNCHANGED <<active, retiring, tasks, leaked>>
    BY <1>9 DEF FinishLeafDrainerLimit, drainVars, endVars
  <2>2. ASSUME NEW x \in Drainers
        PROVE  /\ pc'[x] \in Away <=> pc[x] \in Away
               /\ pc'[x] = "retire" <=> pc[x] = "retire"
    BY <1>9, RoleFacts DEF TypeOK, ControlTypes, Away, FinishLeafDrainerLimit, Goto
  <2> QED BY <2>1, <2>2, DrainerFrame
<1>10. ASSUME NEW e \in Emitters, BeginLargeAssignment(e)
      PROVE  DrainersExact'
  <2>1. UNCHANGED <<active, retiring, tasks, leaked>>
    BY <1>10 DEF BeginLargeAssignment, drainVars, endVars
  <2>2. ASSUME NEW x \in Drainers
        PROVE  /\ pc'[x] \in Away <=> pc[x] \in Away
               /\ pc'[x] = "retire" <=> pc[x] = "retire"
    BY <1>10, RoleFacts DEF TypeOK, ControlTypes, Away, BeginLargeAssignment, Goto
  <2> QED BY <2>1, <2>2, DrainerFrame
<1>11. ASSUME NEW e \in Emitters, FinishLargeAssignment(e)
      PROVE  DrainersExact'
  <2>1. UNCHANGED <<active, retiring, tasks, leaked>>
    BY <1>11 DEF FinishLargeAssignment, drainVars, endVars
  <2>2. ASSUME NEW x \in Drainers
        PROVE  /\ pc'[x] \in Away <=> pc[x] \in Away
               /\ pc'[x] = "retire" <=> pc[x] = "retire"
    BY <1>11, RoleFacts DEF TypeOK, ControlTypes, Away, FinishLargeAssignment, Goto
  <2> QED BY <2>1, <2>2, DrainerFrame
<1>12. ASSUME NEW e \in Emitters, NEW l \in Leaves, NEW m \in {"emitted", "deferred"},
             EmitLeaf(e, l, m)
      PROVE  DrainersExact'
  <2>1. UNCHANGED <<active, retiring, tasks, leaked>>
    BY <1>12 DEF EmitLeaf, drainVars, endVars
  <2>2. ASSUME NEW x \in Drainers
        PROVE  /\ pc'[x] \in Away <=> pc[x] \in Away
               /\ pc'[x] = "retire" <=> pc[x] = "retire"
    BY <1>12, RoleFacts DEF TypeOK, ControlTypes, Away, EmitLeaf, Goto, EmitterReturns
  <2> QED BY <2>1, <2>2, DrainerFrame
<1>13. ASSUME NEW e \in Emitters, NEW l \in Leaves, EmitLeafInline(e, l)
      PROVE  DrainersExact'
  <2>1. UNCHANGED <<active, retiring, tasks, leaked>>
    BY <1>13 DEF EmitLeafInline, drainVars, endVars
  <2>2. ASSUME NEW x \in Drainers
        PROVE  /\ pc'[x] \in Away <=> pc[x] \in Away
               /\ pc'[x] = "retire" <=> pc[x] = "retire"
    BY <1>13, RoleFacts DEF TypeOK, ControlTypes, Away, EmitLeafInline, Goto, EmitterReturns
  <2> QED BY <2>1, <2>2, DrainerFrame
<1>14. ASSUME NEW e \in Emitters, NEW p \in LimitPairs, BeginLeafDrainerLimit(e, p)
      PROVE  DrainersExact'
  <2>1. UNCHANGED <<active, retiring, tasks, leaked>>
    BY <1>14 DEF BeginLeafDrainerLimit, drainVars, endVars
  <2>2. ASSUME NEW x \in Drainers
        PROVE  /\ pc'[x] \in Away <=> pc[x] \in Away
               /\ pc'[x] = "retire" <=> pc[x] = "retire"
    BY <1>14, RoleFacts DEF TypeOK, ControlTypes, Away, BeginLeafDrainerLimit, Goto
  <2> QED BY <2>1, <2>2, DrainerFrame
<1>15. ASSUME NEW t \in Threads, SpawnReadBacklog(t)
      PROVE  DrainersExact'
  <2>0. t \in Drainers => AfterSpawn(t) = "parked"
    BY RoleFacts DEF AfterSpawn
  <2>1. UNCHANGED <<active, retiring, tasks, leaked>>
    BY <1>15 DEF SpawnReadBacklog, drainVars, endVars
  <2>2. ASSUME NEW x \in Drainers
        PROVE  /\ pc'[x] \in Away <=> pc[x] \in Away
               /\ pc'[x] = "retire" <=> pc[x] = "retire"
    BY <1>15, <2>0 DEF TypeOK, ControlTypes, Away, SpawnReadBacklog, Goto
  <2> QED BY <2>1, <2>2, DrainerFrame
<1>16. ASSUME NEW t \in Threads, SpawnReadActive(t)
      PROVE  DrainersExact'
  <2>0. t \in Drainers => AfterSpawn(t) = "parked"
    BY RoleFacts DEF AfterSpawn
  <2>1. UNCHANGED <<active, retiring, tasks, leaked>>
    BY <1>16 DEF SpawnReadActive, drainVars, endVars
  <2>2. ASSUME NEW x \in Drainers
        PROVE  /\ pc'[x] \in Away <=> pc[x] \in Away
               /\ pc'[x] = "retire" <=> pc[x] = "retire"
    BY <1>16, <2>0 DEF TypeOK, ControlTypes, Away, SpawnReadActive, Goto
  <2> QED BY <2>1, <2>2, DrainerFrame
<1>17. ASSUME NEW t \in Threads, SpawnCas(t)
      PROVE  DrainersExact'
  <2>1. /\ UNCHANGED <<retiring, leaked>> /\ pc[t] = "spawnCas" /\ Goto(t, "spawnLen")
    BY <1>17 DEF SpawnCas, endVars
  <2>2. \/ active < WorkerCapacity /\ active' = active + 1 /\ tasks' = tasks + 1
        \/ UNCHANGED <<active, tasks>>
    BY <1>17, <2>1 DEF SpawnCas, LocalInv, SpawnLocal
  <2>3. Draining' = Draining /\ Retiring' = Retiring
    BY <2>1 DEF TypeOK, ControlTypes, Goto, Draining, Retiring
  <2>4. active \in Nat /\ tasks \in Nat /\ leaked \in Nat /\ WorkerCapacity \in Nat
    BY SchedulerAssumption DEF TypeOK, CounterTypes, DataTypes, EndTypes
  <2> QED BY <2>1, <2>2, <2>3, <2>4, DrainersFinite DEF DrainersExact
<1>18. ASSUME NEW t \in Threads, TakeLeaf(t)
      PROVE  DrainersExact'
  <2>0. /\ t \in Drainers => AfterNothing(t) = "leave"
        /\ RunBatch(batch[t]) \in {"hydrate", "build"}
    BY DEF AfterNothing, RunBatch
  <2>1. UNCHANGED <<active, retiring, tasks, leaked>>
    BY <1>18 DEF TakeLeaf, drainVars, endVars
  <2>2. ASSUME NEW x \in Drainers
        PROVE  /\ pc'[x] \in Away <=> pc[x] \in Away
               /\ pc'[x] = "retire" <=> pc[x] = "retire"
    BY <1>18, <2>0 DEF TypeOK, ControlTypes, Away, TakeLeaf, Goto
  <2> QED BY <2>1, <2>2, DrainerFrame
<1>19. ASSUME NEW t \in Threads, DebitLeaf(t)
      PROVE  DrainersExact'
  <2>1. UNCHANGED <<active, retiring, tasks, leaked>>
    BY <1>19 DEF DebitLeaf, drainVars, endVars
  <2>2. ASSUME NEW x \in Drainers
        PROVE  /\ pc'[x] \in Away <=> pc[x] \in Away
               /\ pc'[x] = "retire" <=> pc[x] = "retire"
    BY <1>19 DEF TypeOK, ControlTypes, Away, DebitLeaf, Goto, RunBatch
  <2> QED BY <2>1, <2>2, DrainerFrame
<1>20. ASSUME NEW t \in Threads, AcquireHydrationSlot(t)
      PROVE  DrainersExact'
  <2>1. UNCHANGED <<active, retiring, tasks, leaked>>
    BY <1>20 DEF AcquireHydrationSlot, drainVars, endVars
  <2>2. ASSUME NEW x \in Drainers
        PROVE  /\ pc'[x] \in Away <=> pc[x] \in Away
               /\ pc'[x] = "retire" <=> pc[x] = "retire"
    BY <1>20 DEF TypeOK, ControlTypes, Away, AcquireHydrationSlot, Goto, BatchFails
  <2> QED BY <2>1, <2>2, DrainerFrame
<1>21. ASSUME NEW t \in Threads, Hydrate(t)
      PROVE  DrainersExact'
  <2>1. UNCHANGED <<active, retiring, tasks, leaked>>
    BY <1>21 DEF Hydrate, drainVars, endVars
  <2>2. ASSUME NEW x \in Drainers
        PROVE  /\ pc'[x] \in Away <=> pc[x] \in Away
               /\ pc'[x] = "retire" <=> pc[x] = "retire"
    BY <1>21 DEF TypeOK, ControlTypes, Away, Hydrate, Goto, BatchFails
  <2> QED BY <2>1, <2>2, DrainerFrame
<1>22. ASSUME NEW t \in Threads, BuildBatch(t)
      PROVE  DrainersExact'
  <2>1. UNCHANGED <<active, retiring, tasks, leaked>>
    BY <1>22 DEF BuildBatch, drainVars, endVars
  <2>2. ASSUME NEW x \in Drainers
        PROVE  /\ pc'[x] \in Away <=> pc[x] \in Away
               /\ pc'[x] = "retire" <=> pc[x] = "retire"
    BY <1>22 DEF TypeOK, ControlTypes, Away, BuildBatch, Goto
  <2> QED BY <2>1, <2>2, DrainerFrame
<1>23. ASSUME NEW t \in Threads, FinishLeafExecution(t)
      PROVE  DrainersExact'
  <2>1. UNCHANGED <<active, retiring, tasks, leaked>>
    BY <1>23 DEF FinishLeafExecution, drainVars, endVars
  <2>2. ASSUME NEW x \in Drainers
        PROVE  /\ pc'[x] \in Away <=> pc[x] \in Away
               /\ pc'[x] = "retire" <=> pc[x] = "retire"
    BY <1>23 DEF TypeOK, ControlTypes, Away, FinishLeafExecution, Goto
  <2> QED BY <2>1, <2>2, DrainerFrame
<1>24. ASSUME NEW t \in Threads, HelperReturns(t)
      PROVE  DrainersExact'
  <2>1. UNCHANGED <<active, retiring, tasks, leaked>>
    BY <1>24 DEF HelperReturns, drainVars, endVars
  <2>2. ASSUME NEW x \in Drainers
        PROVE  /\ pc'[x] \in Away <=> pc[x] \in Away
               /\ pc'[x] = "retire" <=> pc[x] = "retire"
    BY <1>24, RoleFacts DEF TypeOK, ControlTypes, Away, HelperReturns, Goto, EmitterReturns
  <2> QED BY <2>1, <2>2, DrainerFrame
<1>25. ASSUME NEW d \in Drainers, StartDrainer(d)
      PROVE  DrainersExact'
  <2>1. /\ UNCHANGED <<active, retiring, leaked>> /\ tasks' = tasks - 1
        /\ pc[d] = "parked" /\ pc' = [pc EXCEPT ![d] = "check"]
    BY <1>25 DEF StartDrainer, endVars, Goto
  <2>2. Draining' = Draining \cup {d} /\ d \notin Draining /\ Retiring' = Retiring
    BY <2>1 DEF TypeOK, ControlTypes, Draining, Retiring
  <2>3. Cardinality(Draining') = Cardinality(Draining) + 1
    BY <2>2, DrainersFinite, FS_AddElement
  <2> QED BY <2>1, <2>2, <2>3, DrainersFinite DEF DrainersExact, TypeOK, CounterTypes, DataTypes, EndTypes
<1>26. ASSUME NEW d \in Drainers, DrainerChecks(d)
      PROVE  DrainersExact'
  <2>1. UNCHANGED <<active, retiring, tasks, leaked>>
    BY <1>26 DEF DrainerChecks, drainVars, endVars
  <2>2. ASSUME NEW x \in Drainers
        PROVE  /\ pc'[x] \in Away <=> pc[x] \in Away
               /\ pc'[x] = "retire" <=> pc[x] = "retire"
    BY <1>26 DEF TypeOK, ControlTypes, Away, DrainerChecks, Goto
  <2> QED BY <2>1, <2>2, DrainerFrame
<1>27. ASSUME NEW d \in Drainers, DrainerReadsActive(d)
      PROVE  DrainersExact'
  <2>1. UNCHANGED <<active, retiring, tasks, leaked>>
    BY <1>27 DEF DrainerReadsActive, drainVars, endVars
  <2>2. ASSUME NEW x \in Drainers
        PROVE  /\ pc'[x] \in Away <=> pc[x] \in Away
               /\ pc'[x] = "retire" <=> pc[x] = "retire"
    BY <1>27 DEF TypeOK, ControlTypes, Away, DrainerReadsActive, Goto
  <2> QED BY <2>1, <2>2, DrainerFrame
<1>28. ASSUME NEW d \in Drainers, ReserveRetirement(d)
      PROVE  DrainersExact'
  <2>1. UNCHANGED <<active, tasks, leaked>> /\ pc[d] = "reserve"
    BY <1>28 DEF ReserveRetirement, endVars
  <2>2. CASE retiring' = retiring /\ Goto(d, "take")
    <3>1. ASSUME NEW x \in Drainers
          PROVE  /\ pc'[x] \in Away <=> pc[x] \in Away
                 /\ pc'[x] = "retire" <=> pc[x] = "retire"
      BY <2>1, <2>2 DEF TypeOK, ControlTypes, Goto, Away
    <3>2. UNCHANGED <<active, retiring, tasks, leaked>>
      BY <2>1, <2>2
    <3> QED BY <3>1, <3>2, DrainerFrame
  <2>3. CASE retiring' = retiring + 1 /\ Goto(d, "retire")
    <3>1. Draining' = Draining /\ Retiring' = Retiring \cup {d} /\ d \notin Retiring
      BY <2>1, <2>3 DEF TypeOK, ControlTypes, Goto, Draining, Retiring
    <3>2. Cardinality(Retiring') = Cardinality(Retiring) + 1
      BY <3>1, DrainersFinite, FS_AddElement
    <3> QED BY <2>1, <2>3, <3>1, <3>2 DEF DrainersExact
  <2> QED BY <1>28, <2>2, <2>3 DEF ReserveRetirement
<1>29. ASSUME NEW d \in Drainers, DrainerBatchDone(d)
      PROVE  DrainersExact'
  <2>1. UNCHANGED <<active, retiring, tasks>> /\ pc[d] = "finish"
    BY <1>29 DEF DrainerBatchDone, drainVars
  <2>2. CASE leaked' = leaked /\ \E l \in {"check", "record"} : Goto(d, l)
    <3>1. ASSUME NEW x \in Drainers
          PROVE  /\ pc'[x] \in Away <=> pc[x] \in Away
                 /\ pc'[x] = "retire" <=> pc[x] = "retire"
      BY <2>1, <2>2 DEF TypeOK, ControlTypes, Goto, Away
    <3>2. UNCHANGED <<active, retiring, tasks, leaked>>
      BY <2>1, <2>2
    <3> QED BY <3>1, <3>2, DrainerFrame
  <2>3. CASE leaked' = leaked + 1 /\ Goto(d, "parked")
    <3>1. Draining' = Draining \ {d} /\ d \in Draining /\ Retiring' = Retiring
      BY <2>1, <2>3 DEF TypeOK, ControlTypes, Goto, Draining, Retiring
    <3>2. Cardinality(Draining') = Cardinality(Draining) - 1
      BY <3>1, DrainersFinite, FS_RemoveElement
    <3> QED BY <2>1, <2>3, <3>1, <3>2, DrainersFinite
        DEF DrainersExact, TypeOK, CounterTypes, DataTypes, EndTypes
  <2> QED BY <1>29, <2>2, <2>3, RoleFacts DEF DrainerBatchDone, AfterHelp
<1>30. ASSUME NEW d \in Drainers, RecordError(d)
      PROVE  DrainersExact'
  <2>1. UNCHANGED <<active, retiring, tasks, leaked>>
    BY <1>30 DEF RecordError, drainVars, endVars
  <2>2. ASSUME NEW x \in Drainers
        PROVE  /\ pc'[x] \in Away <=> pc[x] \in Away
               /\ pc'[x] = "retire" <=> pc[x] = "retire"
    BY <1>30 DEF TypeOK, ControlTypes, Away, RecordError, Goto
  <2> QED BY <2>1, <2>2, DrainerFrame
<1>31. ASSUME NEW d \in Drainers, DrainerUnreserves(d)
      PROVE  DrainersExact'
  <2>1. /\ UNCHANGED <<active, tasks, leaked>> /\ retiring' = retiring - 1
        /\ pc[d] = "retire" /\ Goto(d, "leave")
    BY <1>31 DEF DrainerUnreserves, endVars
  <2>2. Draining' = Draining /\ Retiring' = Retiring \ {d} /\ d \in Retiring
    BY <2>1 DEF TypeOK, ControlTypes, Goto, Draining, Retiring
  <2>3. Cardinality(Retiring') = Cardinality(Retiring) - 1
    BY <2>2, DrainersFinite, FS_RemoveElement
  <2> QED BY <2>1, <2>2, <2>3 DEF DrainersExact
<1>32. ASSUME NEW d \in Drainers, DrainerLeaves(d)
      PROVE  DrainersExact'
  <2>1. /\ UNCHANGED <<retiring, tasks, leaked>> /\ active' = active - 1
        /\ pc[d] = "leave" /\ Goto(d, "spawnLen")
    BY <1>32 DEF DrainerLeaves, endVars
  <2>2. Draining' = Draining \ {d} /\ d \in Draining /\ Retiring' = Retiring
    BY <2>1 DEF TypeOK, ControlTypes, Goto, Draining, Retiring
  <2>3. Cardinality(Draining') = Cardinality(Draining) - 1
    BY <2>2, DrainersFinite, FS_RemoveElement
  <2>4. WorkerCapacity \in Nat
    BY SchedulerAssumption
  <2> QED BY <2>1, <2>2, <2>3, <2>4, DrainersFinite
      DEF DrainersExact, TypeOK, CounterTypes, DataTypes, EndTypes
<1>33. CASE ProducerReturns
  <2>1. UNCHANGED <<active, retiring, tasks, leaked>>
    BY <1>33 DEF ProducerReturns, drainVars, endVars
  <2>2. ASSUME NEW x \in Drainers
        PROVE  /\ pc'[x] \in Away <=> pc[x] \in Away
               /\ pc'[x] = "retire" <=> pc[x] = "retire"
    BY <1>33, RoleFacts DEF TypeOK, ControlTypes, Away, ProducerReturns, Goto
  <2> QED BY <2>1, <2>2, DrainerFrame
<1>34. CASE DiscardPop
  <2>1. UNCHANGED <<active, retiring, tasks, leaked>>
    BY <1>34 DEF DiscardPop, drainVars, endVars
  <2>2. ASSUME NEW x \in Drainers
        PROVE  /\ pc'[x] \in Away <=> pc[x] \in Away
               /\ pc'[x] = "retire" <=> pc[x] = "retire"
    BY <1>34, RoleFacts DEF TypeOK, ControlTypes, Away, DiscardPop, Goto
  <2> QED BY <2>1, <2>2, DrainerFrame
<1>35. CASE DiscardDrop
  <2>1. UNCHANGED <<active, retiring, tasks, leaked>>
    BY <1>35 DEF DiscardDrop, drainVars, endVars
  <2>2. ASSUME NEW x \in Drainers
        PROVE  /\ pc'[x] \in Away <=> pc[x] \in Away
               /\ pc'[x] = "retire" <=> pc[x] = "retire"
    BY <1>35, RoleFacts DEF TypeOK, ControlTypes, Away, DiscardDrop, Goto
  <2> QED BY <2>1, <2>2, DrainerFrame
<1>36. CASE WaitUntilIdle
  <2>1. UNCHANGED <<active, retiring, tasks, leaked>>
    BY <1>36 DEF WaitUntilIdle, drainVars, endVars
  <2>2. ASSUME NEW x \in Drainers
        PROVE  /\ pc'[x] \in Away <=> pc[x] \in Away
               /\ pc'[x] = "retire" <=> pc[x] = "retire"
    BY <1>36, RoleFacts DEF TypeOK, ControlTypes, Away, WaitUntilIdle, Goto
  <2> QED BY <2>1, <2>2, DrainerFrame
<1>37. CASE FinalCheck
  <2>1. UNCHANGED <<active, retiring, tasks, leaked>>
    BY <1>37 DEF FinalCheck, drainVars, endVars
  <2>2. ASSUME NEW x \in Drainers
        PROVE  /\ pc'[x] \in Away <=> pc[x] \in Away
               /\ pc'[x] = "retire" <=> pc[x] = "retire"
    BY <1>37, RoleFacts DEF TypeOK, ControlTypes, Away, FinalCheck, Goto
  <2> QED BY <2>1, <2>2, DrainerFrame
<1>38. CASE ScopeReturns
  <2>1. UNCHANGED <<active, retiring, tasks, leaked>>
    BY <1>38 DEF ScopeReturns, drainVars, endVars
  <2>2. ASSUME NEW x \in Drainers
        PROVE  /\ pc'[x] \in Away <=> pc[x] \in Away
               /\ pc'[x] = "retire" <=> pc[x] = "retire"
    BY <1>38, RoleFacts DEF TypeOK, ControlTypes, Away, ScopeReturns, Goto
  <2> QED BY <2>1, <2>2, DrainerFrame
<1>39. CASE UNCHANGED vars
  BY <1>39, DrainerFrame DEF vars, drainVars, endVars
<1> QED
  BY <1>1, <1>2, <1>3, <1>4, <1>5, <1>6, <1>7, <1>8, <1>9, <1>10, <1>11,
         <1>12, <1>13, <1>14, <1>15, <1>16, <1>17, <1>18, <1>19, <1>20, <1>21,
         <1>22, <1>23, <1>24, <1>25, <1>26, <1>27, <1>28, <1>29, <1>30, <1>31,
         <1>32, <1>33, <1>34, <1>35, <1>36, <1>37, <1>38, <1>39
  DEF Next, EmitterStep, GuardStep, WorkStep, DrainerStep, MainStep, Done

-----------------------------------------------------------------------------
(* The hydration slots and the large assignments.                          *)

Large == {e \in Emitters : large[e]}

SlotsInv ==
  /\ HydrationBound
  /\ largeAssignments = Cardinality(Large)

\* The hydrating threads and the large assignments are finitely many.
LEMMA SlotsFinite ==
  /\ IsFiniteSet(Hydrating) /\ Cardinality(Hydrating) \in Nat
  /\ IsFiniteSet(Large) /\ Cardinality(Large) \in Nat
<1>1. IsFiniteSet(Emitters) /\ IsFiniteSet(Drainers) /\ IsFiniteSet({Main})
  BY SchedulerAssumption, FS_Singleton
<1>2. IsFiniteSet(Threads)
  BY <1>1, FS_Union DEF Threads
<1> QED BY <1>1, <1>2, FS_Subset, FS_CardinalityType DEF Hydrating, Large

\* A step that neither begins nor ends a hydration or a large assignment.
LEMMA SlotsFrame ==
  ASSUME SlotsInv,
         UNCHANGED <<hydrations, largeAssignments, large>>,
         \A t \in Threads : pc'[t] = "hydrating" <=> pc[t] = "hydrating"
  PROVE  SlotsInv'
<1>1. Hydrating' = Hydrating /\ Large' = Large
  BY DEF Hydrating, Large
<1> QED BY <1>1 DEF SlotsInv, HydrationBound

\* Every step keeps the slots and the large assignments counted.
LEMMA SlotsStep ==
  ASSUME TypeOK, LocalInv, SlotsInv, [Next]_vars
  PROVE  SlotsInv'
<1> USE ThreadFacts
<1>1. ASSUME NEW e \in Emitters, ProducerBranchEnds(e)
      PROVE  SlotsInv'
  <2>1. UNCHANGED <<hydrations, largeAssignments, large>>
    BY <1>1 DEF ProducerBranchEnds, signalVars
  <2>2. ASSUME NEW x \in Threads PROVE pc'[x] = "hydrating" <=> pc[x] = "hydrating"
    BY <1>1 DEF TypeOK, ControlTypes, ProducerBranchEnds, Goto, EmitterReturns
  <2> QED BY <2>1, <2>2, SlotsFrame
<1>2. ASSUME NEW e \in Emitters, EmitterUnwound(e)
      PROVE  SlotsInv'
  <2>1. UNCHANGED <<hydrations, largeAssignments, large>>
    BY <1>2 DEF EmitterUnwound, signalVars
  <2>2. ASSUME NEW x \in Threads PROVE pc'[x] = "hydrating" <=> pc[x] = "hydrating"
    BY <1>2 DEF TypeOK, ControlTypes, EmitterUnwound, Goto
  <2> QED BY <2>1, <2>2, SlotsFrame
<1>3. ASSUME NEW e \in Emitters, CountLeaf(e)
      PROVE  SlotsInv'
  <2>1. UNCHANGED <<hydrations, largeAssignments, large>>
    BY <1>3 DEF CountLeaf, signalVars
  <2>2. ASSUME NEW x \in Threads PROVE pc'[x] = "hydrating" <=> pc[x] = "hydrating"
    BY <1>3 DEF TypeOK, ControlTypes, CountLeaf, Goto
  <2> QED BY <2>1, <2>2, SlotsFrame
<1>4. ASSUME NEW e \in Emitters, PushLeaf(e)
      PROVE  SlotsInv'
  <2>1. UNCHANGED <<hydrations, largeAssignments, large>>
    BY <1>4 DEF PushLeaf, signalVars
  <2>2. ASSUME NEW x \in Threads PROVE pc'[x] = "hydrating" <=> pc[x] = "hydrating"
    BY <1>4 DEF TypeOK, ControlTypes, PushLeaf, Goto
  <2> QED BY <2>1, <2>2, SlotsFrame
<1>5. ASSUME NEW e \in Emitters, UncountLeaf(e)
      PROVE  SlotsInv'
  <2>1. UNCHANGED <<hydrations, largeAssignments, large>>
    BY <1>5 DEF UncountLeaf, signalVars
  <2>2. ASSUME NEW x \in Threads PROVE pc'[x] = "hydrating" <=> pc[x] = "hydrating"
    BY <1>5 DEF TypeOK, ControlTypes, UncountLeaf, Goto
  <2> QED BY <2>1, <2>2, SlotsFrame
<1>6. ASSUME NEW e \in Emitters, CreditLeaf(e)
      PROVE  SlotsInv'
  <2>1. UNCHANGED <<hydrations, largeAssignments, large>>
    BY <1>6 DEF CreditLeaf, signalVars
  <2>2. ASSUME NEW x \in Threads PROVE pc'[x] = "hydrating" <=> pc[x] = "hydrating"
    BY <1>6 DEF TypeOK, ControlTypes, CreditLeaf, Goto
  <2> QED BY <2>1, <2>2, SlotsFrame
<1>7. ASSUME NEW e \in Emitters, SoftLimitWait(e)
      PROVE  SlotsInv'
  <2>1. UNCHANGED <<hydrations, largeAssignments, large>>
    BY <1>7 DEF SoftLimitWait, signalVars
  <2>2. ASSUME NEW x \in Threads PROVE pc'[x] = "hydrating" <=> pc[x] = "hydrating"
    BY <1>7 DEF TypeOK, ControlTypes, SoftLimitWait, Goto, EmitterReturns
  <2> QED BY <2>1, <2>2, SlotsFrame
<1>8. ASSUME NEW e \in Emitters, CreditWait(e)
      PROVE  SlotsInv'
  <2>1. UNCHANGED <<hydrations, largeAssignments, large>>
    BY <1>8 DEF CreditWait, signalVars
  <2>2. ASSUME NEW x \in Threads PROVE pc'[x] = "hydrating" <=> pc[x] = "hydrating"
    BY <1>8 DEF TypeOK, ControlTypes, CreditWait, Goto, EmitterReturns
  <2> QED BY <2>1, <2>2, SlotsFrame
<1>9. ASSUME NEW e \in Emitters, FinishLeafDrainerLimit(e)
      PROVE  SlotsInv'
  <2>1. UNCHANGED <<hydrations, largeAssignments, large>>
    BY <1>9 DEF FinishLeafDrainerLimit, signalVars
  <2>2. ASSUME NEW x \in Threads PROVE pc'[x] = "hydrating" <=> pc[x] = "hydrating"
    BY <1>9 DEF TypeOK, ControlTypes, FinishLeafDrainerLimit, Goto
  <2> QED BY <2>1, <2>2, SlotsFrame
<1>10. ASSUME NEW e \in Emitters, BeginLargeAssignment(e)
      PROVE  SlotsInv'
  <2>1. /\ UNCHANGED <<hydrations, pc>> /\ largeAssignments' = largeAssignments + 1
        /\ large' = [large EXCEPT ![e] = TRUE] /\ ~large[e]
    BY <1>10 DEF BeginLargeAssignment
  <2>2. Large' = Large \cup {e} /\ e \notin Large /\ Hydrating' = Hydrating
    BY <2>1 DEF TypeOK, DataTypes, SignalTypes, Large, Hydrating
  <2>3. Cardinality(Large') = Cardinality(Large) + 1
    BY <2>2, SlotsFinite, FS_AddElement
  <2> QED BY <2>1, <2>2, <2>3 DEF SlotsInv, HydrationBound
<1>11. ASSUME NEW e \in Emitters, FinishLargeAssignment(e)
      PROVE  SlotsInv'
  <2>1. /\ UNCHANGED <<hydrations, pc>> /\ largeAssignments' = largeAssignments - 1
        /\ large' = [large EXCEPT ![e] = FALSE] /\ large[e]
    BY <1>11 DEF FinishLargeAssignment
  <2>2. Large' = Large \ {e} /\ e \in Large /\ Hydrating' = Hydrating
    BY <2>1 DEF TypeOK, DataTypes, SignalTypes, Large, Hydrating
  <2>3. Cardinality(Large') = Cardinality(Large) - 1
    BY <2>2, SlotsFinite, FS_RemoveElement
  <2> QED BY <2>1, <2>2, <2>3 DEF SlotsInv, HydrationBound
<1>12. ASSUME NEW e \in Emitters, NEW l \in Leaves, NEW m \in {"emitted", "deferred"},
             EmitLeaf(e, l, m)
      PROVE  SlotsInv'
  <2>1. UNCHANGED <<hydrations, largeAssignments, large>>
    BY <1>12 DEF EmitLeaf, signalVars
  <2>2. ASSUME NEW x \in Threads PROVE pc'[x] = "hydrating" <=> pc[x] = "hydrating"
    BY <1>12 DEF TypeOK, ControlTypes, EmitLeaf, Goto, EmitterReturns
  <2> QED BY <2>1, <2>2, SlotsFrame
<1>13. ASSUME NEW e \in Emitters, NEW l \in Leaves, EmitLeafInline(e, l)
      PROVE  SlotsInv'
  <2>1. UNCHANGED <<hydrations, largeAssignments, large>>
    BY <1>13 DEF EmitLeafInline, signalVars
  <2>2. ASSUME NEW x \in Threads PROVE pc'[x] = "hydrating" <=> pc[x] = "hydrating"
    BY <1>13 DEF TypeOK, ControlTypes, EmitLeafInline, Goto, EmitterReturns
  <2> QED BY <2>1, <2>2, SlotsFrame
<1>14. ASSUME NEW e \in Emitters, NEW p \in LimitPairs, BeginLeafDrainerLimit(e, p)
      PROVE  SlotsInv'
  <2>1. UNCHANGED <<hydrations, largeAssignments, large>>
    BY <1>14 DEF BeginLeafDrainerLimit, signalVars
  <2>2. ASSUME NEW x \in Threads PROVE pc'[x] = "hydrating" <=> pc[x] = "hydrating"
    BY <1>14 DEF TypeOK, ControlTypes, BeginLeafDrainerLimit, Goto
  <2> QED BY <2>1, <2>2, SlotsFrame
<1>15. ASSUME NEW t \in Threads, SpawnReadBacklog(t)
      PROVE  SlotsInv'
  <2>1. UNCHANGED <<hydrations, largeAssignments, large>>
    BY <1>15 DEF SpawnReadBacklog, signalVars
  <2>2. ASSUME NEW x \in Threads PROVE pc'[x] = "hydrating" <=> pc[x] = "hydrating"
    BY <1>15, AfterSpawnLabel DEF TypeOK, ControlTypes, SpawnReadBacklog, Goto
  <2> QED BY <2>1, <2>2, SlotsFrame
<1>16. ASSUME NEW t \in Threads, SpawnReadActive(t)
      PROVE  SlotsInv'
  <2>1. UNCHANGED <<hydrations, largeAssignments, large>>
    BY <1>16 DEF SpawnReadActive, signalVars
  <2>2. ASSUME NEW x \in Threads PROVE pc'[x] = "hydrating" <=> pc[x] = "hydrating"
    BY <1>16, AfterSpawnLabel DEF TypeOK, ControlTypes, SpawnReadActive, Goto
  <2> QED BY <2>1, <2>2, SlotsFrame
<1>17. ASSUME NEW t \in Threads, SpawnCas(t)
      PROVE  SlotsInv'
  <2>1. UNCHANGED <<hydrations, largeAssignments, large>>
    BY <1>17 DEF SpawnCas, signalVars
  <2>2. ASSUME NEW x \in Threads PROVE pc'[x] = "hydrating" <=> pc[x] = "hydrating"
    BY <1>17 DEF TypeOK, ControlTypes, SpawnCas, Goto
  <2> QED BY <2>1, <2>2, SlotsFrame
<1>18. ASSUME NEW t \in Threads, TakeLeaf(t)
      PROVE  SlotsInv'
  <2>0. AfterHelp(t) # "hydrating"
    BY <1>18, AfterHelpLabel, RoleFacts DEF TakeLeaf
  <2>1. UNCHANGED <<hydrations, largeAssignments, large>>
    BY <1>18 DEF TakeLeaf, signalVars
  <2>2. ASSUME NEW x \in Threads PROVE pc'[x] = "hydrating" <=> pc[x] = "hydrating"
    BY <1>18, <2>0 DEF TypeOK, ControlTypes, TakeLeaf, Goto, AfterNothing, RunBatch
  <2> QED BY <2>1, <2>2, SlotsFrame
<1>19. ASSUME NEW t \in Threads, DebitLeaf(t)
      PROVE  SlotsInv'
  <2>1. UNCHANGED <<hydrations, largeAssignments, large>>
    BY <1>19 DEF DebitLeaf, signalVars
  <2>2. ASSUME NEW x \in Threads PROVE pc'[x] = "hydrating" <=> pc[x] = "hydrating"
    BY <1>19 DEF TypeOK, ControlTypes, DebitLeaf, Goto, RunBatch
  <2> QED BY <2>1, <2>2, SlotsFrame
<1>20. ASSUME NEW t \in Threads, AcquireHydrationSlot(t)
      PROVE  SlotsInv'
  <2>1. UNCHANGED <<largeAssignments, large>> /\ pc[t] = "hydrate"
    BY <1>20 DEF AcquireHydrationSlot, signalVars
  <2>2. CASE hydrations' = hydrations /\ (pc' = pc \/ Goto(t, "finish"))
    <3>1. \A x \in Threads : pc'[x] = "hydrating" <=> pc[x] = "hydrating"
      BY <2>1, <2>2 DEF TypeOK, ControlTypes, Goto
    <3> QED BY <2>1, <2>2, <3>1, SlotsFrame
  <2>3. CASE /\ hydrations < MaxHydrations
             /\ hydrations' = hydrations + 1
             /\ Goto(t, "hydrating")
    <3>1. Hydrating' = Hydrating \cup {t} /\ t \notin Hydrating /\ Large' = Large
      BY <2>1, <2>3 DEF TypeOK, ControlTypes, Goto, Hydrating, Large
    <3>2. Cardinality(Hydrating') = Cardinality(Hydrating) + 1
      BY <3>1, SlotsFinite, FS_AddElement
    <3>3. hydrations \in Nat /\ MaxHydrations \in Nat
      BY SchedulerAssumption DEF TypeOK, CounterTypes, DataTypes, EndTypes
    <3> QED BY <2>1, <2>3, <3>1, <3>2, <3>3 DEF SlotsInv, HydrationBound
  <2> QED BY <1>20, <2>2, <2>3 DEF AcquireHydrationSlot, BatchFails
<1>21. ASSUME NEW t \in Threads, Hydrate(t)
      PROVE  SlotsInv'
  <2>1. /\ UNCHANGED <<largeAssignments, large>> /\ pc[t] = "hydrating"
        /\ hydrations' = hydrations - 1
    BY <1>21 DEF Hydrate, signalVars
  <2>2. PICK l \in {"build", "finish"} : Goto(t, l)
    BY <1>21 DEF Hydrate, BatchFails
  <2>3. Hydrating' = Hydrating \ {t} /\ t \in Hydrating /\ Large' = Large
    BY <2>1, <2>2 DEF TypeOK, ControlTypes, Goto, Hydrating, Large
  <2>4. Cardinality(Hydrating') = Cardinality(Hydrating) - 1
    BY <2>3, SlotsFinite, FS_RemoveElement
  <2>5. hydrations \in Nat /\ MaxHydrations \in Nat
    BY SchedulerAssumption DEF TypeOK, CounterTypes, DataTypes, EndTypes
  <2> QED BY <2>1, <2>3, <2>4, <2>5 DEF SlotsInv, HydrationBound
<1>22. ASSUME NEW t \in Threads, BuildBatch(t)
      PROVE  SlotsInv'
  <2>1. UNCHANGED <<hydrations, largeAssignments, large>>
    BY <1>22 DEF BuildBatch, signalVars
  <2>2. ASSUME NEW x \in Threads PROVE pc'[x] = "hydrating" <=> pc[x] = "hydrating"
    BY <1>22 DEF TypeOK, ControlTypes, BuildBatch, Goto
  <2> QED BY <2>1, <2>2, SlotsFrame
<1>23. ASSUME NEW t \in Threads, FinishLeafExecution(t)
      PROVE  SlotsInv'
  <2>1. UNCHANGED <<hydrations, largeAssignments, large>>
    BY <1>23 DEF FinishLeafExecution, signalVars
  <2>2. ASSUME NEW x \in Threads PROVE pc'[x] = "hydrating" <=> pc[x] = "hydrating"
    BY <1>23 DEF TypeOK, ControlTypes, FinishLeafExecution, Goto
  <2> QED BY <2>1, <2>2, SlotsFrame
<1>24. ASSUME NEW t \in Threads, HelperReturns(t)
      PROVE  SlotsInv'
  <2>0. AfterHelp(t) # "hydrating"
    BY <1>24, AfterHelpLabel, RoleFacts DEF HelperReturns
  <2>1. UNCHANGED <<hydrations, largeAssignments, large>>
    BY <1>24 DEF HelperReturns, signalVars
  <2>2. ASSUME NEW x \in Threads PROVE pc'[x] = "hydrating" <=> pc[x] = "hydrating"
    BY <1>24, <2>0 DEF TypeOK, ControlTypes, HelperReturns, Goto, EmitterReturns
  <2> QED BY <2>1, <2>2, SlotsFrame
<1>25. ASSUME NEW d \in Drainers, StartDrainer(d)
      PROVE  SlotsInv'
  <2>1. UNCHANGED <<hydrations, largeAssignments, large>>
    BY <1>25 DEF StartDrainer, signalVars
  <2>2. ASSUME NEW x \in Threads PROVE pc'[x] = "hydrating" <=> pc[x] = "hydrating"
    BY <1>25 DEF TypeOK, ControlTypes, StartDrainer, Goto
  <2> QED BY <2>1, <2>2, SlotsFrame
<1>26. ASSUME NEW d \in Drainers, DrainerChecks(d)
      PROVE  SlotsInv'
  <2>1. UNCHANGED <<hydrations, largeAssignments, large>>
    BY <1>26 DEF DrainerChecks, signalVars
  <2>2. ASSUME NEW x \in Threads PROVE pc'[x] = "hydrating" <=> pc[x] = "hydrating"
    BY <1>26 DEF TypeOK, ControlTypes, DrainerChecks, Goto
  <2> QED BY <2>1, <2>2, SlotsFrame
<1>27. ASSUME NEW d \in Drainers, DrainerReadsActive(d)
      PROVE  SlotsInv'
  <2>1. UNCHANGED <<hydrations, largeAssignments, large>>
    BY <1>27 DEF DrainerReadsActive, signalVars
  <2>2. ASSUME NEW x \in Threads PROVE pc'[x] = "hydrating" <=> pc[x] = "hydrating"
    BY <1>27 DEF TypeOK, ControlTypes, DrainerReadsActive, Goto
  <2> QED BY <2>1, <2>2, SlotsFrame
<1>28. ASSUME NEW d \in Drainers, ReserveRetirement(d)
      PROVE  SlotsInv'
  <2>1. UNCHANGED <<hydrations, largeAssignments, large>>
    BY <1>28 DEF ReserveRetirement, signalVars
  <2>2. ASSUME NEW x \in Threads PROVE pc'[x] = "hydrating" <=> pc[x] = "hydrating"
    BY <1>28 DEF TypeOK, ControlTypes, ReserveRetirement, Goto
  <2> QED BY <2>1, <2>2, SlotsFrame
<1>29. ASSUME NEW d \in Drainers, DrainerBatchDone(d)
      PROVE  SlotsInv'
  <2>1. UNCHANGED <<hydrations, largeAssignments, large>>
    BY <1>29 DEF DrainerBatchDone, signalVars
  <2>2. ASSUME NEW x \in Threads PROVE pc'[x] = "hydrating" <=> pc[x] = "hydrating"
    BY <1>29 DEF TypeOK, ControlTypes, DrainerBatchDone, Goto, AfterHelp
  <2> QED BY <2>1, <2>2, SlotsFrame
<1>30. ASSUME NEW d \in Drainers, RecordError(d)
      PROVE  SlotsInv'
  <2>1. UNCHANGED <<hydrations, largeAssignments, large>>
    BY <1>30 DEF RecordError, signalVars
  <2>2. ASSUME NEW x \in Threads PROVE pc'[x] = "hydrating" <=> pc[x] = "hydrating"
    BY <1>30 DEF TypeOK, ControlTypes, RecordError, Goto
  <2> QED BY <2>1, <2>2, SlotsFrame
<1>31. ASSUME NEW d \in Drainers, DrainerUnreserves(d)
      PROVE  SlotsInv'
  <2>1. UNCHANGED <<hydrations, largeAssignments, large>>
    BY <1>31 DEF DrainerUnreserves, signalVars
  <2>2. ASSUME NEW x \in Threads PROVE pc'[x] = "hydrating" <=> pc[x] = "hydrating"
    BY <1>31 DEF TypeOK, ControlTypes, DrainerUnreserves, Goto
  <2> QED BY <2>1, <2>2, SlotsFrame
<1>32. ASSUME NEW d \in Drainers, DrainerLeaves(d)
      PROVE  SlotsInv'
  <2>1. UNCHANGED <<hydrations, largeAssignments, large>>
    BY <1>32 DEF DrainerLeaves, signalVars
  <2>2. ASSUME NEW x \in Threads PROVE pc'[x] = "hydrating" <=> pc[x] = "hydrating"
    BY <1>32 DEF TypeOK, ControlTypes, DrainerLeaves, Goto
  <2> QED BY <2>1, <2>2, SlotsFrame
<1>33. CASE ProducerReturns
  <2>1. UNCHANGED <<hydrations, largeAssignments, large>>
    BY <1>33 DEF ProducerReturns, signalVars
  <2>2. ASSUME NEW x \in Threads PROVE pc'[x] = "hydrating" <=> pc[x] = "hydrating"
    BY <1>33 DEF TypeOK, ControlTypes, ProducerReturns, Goto
  <2> QED BY <2>1, <2>2, SlotsFrame
<1>34. CASE DiscardPop
  <2>1. UNCHANGED <<hydrations, largeAssignments, large>>
    BY <1>34 DEF DiscardPop, signalVars
  <2>2. ASSUME NEW x \in Threads PROVE pc'[x] = "hydrating" <=> pc[x] = "hydrating"
    BY <1>34 DEF TypeOK, ControlTypes, DiscardPop, Goto
  <2> QED BY <2>1, <2>2, SlotsFrame
<1>35. CASE DiscardDrop
  <2>1. UNCHANGED <<hydrations, largeAssignments, large>>
    BY <1>35 DEF DiscardDrop, signalVars
  <2>2. ASSUME NEW x \in Threads PROVE pc'[x] = "hydrating" <=> pc[x] = "hydrating"
    BY <1>35 DEF TypeOK, ControlTypes, DiscardDrop, Goto
  <2> QED BY <2>1, <2>2, SlotsFrame
<1>36. CASE WaitUntilIdle
  <2>1. UNCHANGED <<hydrations, largeAssignments, large>>
    BY <1>36 DEF WaitUntilIdle, signalVars
  <2>2. ASSUME NEW x \in Threads PROVE pc'[x] = "hydrating" <=> pc[x] = "hydrating"
    BY <1>36 DEF TypeOK, ControlTypes, WaitUntilIdle, Goto
  <2> QED BY <2>1, <2>2, SlotsFrame
<1>37. CASE FinalCheck
  <2>1. UNCHANGED <<hydrations, largeAssignments, large>>
    BY <1>37 DEF FinalCheck, signalVars
  <2>2. ASSUME NEW x \in Threads PROVE pc'[x] = "hydrating" <=> pc[x] = "hydrating"
    BY <1>37 DEF TypeOK, ControlTypes, FinalCheck, Goto
  <2> QED BY <2>1, <2>2, SlotsFrame
<1>38. CASE ScopeReturns
  <2>1. UNCHANGED <<hydrations, largeAssignments, large>>
    BY <1>38 DEF ScopeReturns, signalVars
  <2>2. ASSUME NEW x \in Threads PROVE pc'[x] = "hydrating" <=> pc[x] = "hydrating"
    BY <1>38 DEF TypeOK, ControlTypes, ScopeReturns, Goto
  <2> QED BY <2>1, <2>2, SlotsFrame
<1>39. CASE UNCHANGED vars
  BY <1>39, SlotsFrame DEF vars, signalVars
<1> QED
  BY <1>1, <1>2, <1>3, <1>4, <1>5, <1>6, <1>7, <1>8, <1>9, <1>10, <1>11,
         <1>12, <1>13, <1>14, <1>15, <1>16, <1>17, <1>18, <1>19, <1>20, <1>21,
         <1>22, <1>23, <1>24, <1>25, <1>26, <1>27, <1>28, <1>29, <1>30, <1>31,
         <1>32, <1>33, <1>34, <1>35, <1>36, <1>37, <1>38, <1>39
  DEF Next, EmitterStep, GuardStep, WorkStep, DrainerStep, MainStep, Done

-----------------------------------------------------------------------------
(* The end of the scope.                                                   *)

\* Main leaves the join when every emitter has returned, and answers Ok only
\* after it saw no outstanding leaf; from then on nobody can count another.
EndInv ==
  /\ pc[Main] # "joinProducers" => \A e \in Emitters : pc[e] = "returned"
  /\ pc[Main] = "final" => outstanding = 0
  /\ pc[Main] \in {"joinScope", "returned"} /\ result = "ok" => outstanding = 0

\* A step of a thread at work, counting no leaf unless it is an emitter.
LEMMA EndFrame ==
  ASSUME TypeOK, EndInv, outstanding' \in Nat, result' = result,
         NEW t \in Threads, pc[t] \notin {"returned", "joinProducers"},
         pc' = [pc EXCEPT ![t] = pc'[t]],
         t = Main => pc'[t] \notin {"joinProducers", "final", "joinScope", "returned"},
         t \in Emitters \/ outstanding' <= outstanding
  PROVE  EndInv'
<1>1. outstanding \in Nat /\ pc \in [Threads -> EmitterPCs \cup DrainerPCs \cup MainPCs]
  BY DEF TypeOK, CounterTypes, ControlTypes
<1>2. CASE t \in Emitters
  <2>1. pc[Main] = "joinProducers" /\ pc'[Main] = "joinProducers"
    BY <1>1, <1>2, RoleFacts, ThreadFacts DEF EndInv
  <2> QED BY <2>1 DEF EndInv
<1>3. CASE t = Main
  <2>1. \A e \in Emitters : pc'[e] = pc[e]
    BY <1>1, <1>3, RoleFacts, ThreadFacts
  <2> QED BY <1>3, <2>1 DEF EndInv
<1>4. CASE t \in Drainers
  <2>1. pc'[Main] = pc[Main] /\ \A e \in Emitters : pc'[e] = pc[e]
    BY <1>1, <1>4, RoleFacts, ThreadFacts
  <2>2. outstanding = 0 => outstanding' = 0
    BY <1>1, <1>4, RoleFacts
  <2> QED BY <2>1, <2>2 DEF EndInv
<1> QED BY <1>2, <1>3, <1>4, RoleFacts

\* Every step keeps EndInv.
LEMMA EndStep ==
  ASSUME TypeOK, EndInv, outstanding' \in Nat, [Next]_vars
  PROVE  EndInv'
<1> USE ThreadFacts
<1>1. ASSUME NEW e \in Emitters, ProducerBranchEnds(e)
      PROVE  EndInv'
  <2>1. /\ result' = result /\ pc[e] \notin {"returned", "joinProducers"}
        /\ pc' = [pc EXCEPT ![e] = pc'[e]]
    BY <1>1, RoleFacts DEF TypeOK, ControlTypes, CounterTypes, ProducerBranchEnds, Goto, queueVars, endVars, EmitterReturns
  <2> QED BY <1>1, <2>1, RoleFacts, EndFrame
<1>2. ASSUME NEW e \in Emitters, EmitterUnwound(e)
      PROVE  EndInv'
  <2>1. /\ result' = result /\ pc[e] \notin {"returned", "joinProducers"}
        /\ pc' = [pc EXCEPT ![e] = pc'[e]]
    BY <1>2, RoleFacts DEF TypeOK, ControlTypes, CounterTypes, EmitterUnwound, Goto, queueVars, endVars
  <2> QED BY <1>2, <2>1, RoleFacts, EndFrame
<1>3. ASSUME NEW e \in Emitters, CountLeaf(e)
      PROVE  EndInv'
  <2>1. /\ result' = result /\ pc[e] \notin {"returned", "joinProducers"}
        /\ pc' = [pc EXCEPT ![e] = pc'[e]]
    BY <1>3, RoleFacts DEF TypeOK, ControlTypes, CounterTypes, CountLeaf, Goto, queueVars, endVars
  <2> QED BY <1>3, <2>1, RoleFacts, EndFrame
<1>4. ASSUME NEW e \in Emitters, PushLeaf(e)
      PROVE  EndInv'
  <2>1. /\ result' = result /\ pc[e] \notin {"returned", "joinProducers"}
        /\ pc' = [pc EXCEPT ![e] = pc'[e]]
    BY <1>4, RoleFacts DEF TypeOK, ControlTypes, CounterTypes, PushLeaf, Goto, queueVars, endVars
  <2> QED BY <1>4, <2>1, RoleFacts, EndFrame
<1>5. ASSUME NEW e \in Emitters, UncountLeaf(e)
      PROVE  EndInv'
  <2>1. /\ result' = result /\ pc[e] \notin {"returned", "joinProducers"}
        /\ pc' = [pc EXCEPT ![e] = pc'[e]]
    BY <1>5, RoleFacts DEF TypeOK, ControlTypes, CounterTypes, UncountLeaf, Goto, queueVars, endVars
  <2> QED BY <1>5, <2>1, RoleFacts, EndFrame
<1>6. ASSUME NEW e \in Emitters, CreditLeaf(e)
      PROVE  EndInv'
  <2>1. /\ result' = result /\ pc[e] \notin {"returned", "joinProducers"}
        /\ pc' = [pc EXCEPT ![e] = pc'[e]]
    BY <1>6, RoleFacts DEF TypeOK, ControlTypes, CounterTypes, CreditLeaf, Goto, queueVars, endVars
  <2> QED BY <1>6, <2>1, RoleFacts, EndFrame
<1>7. ASSUME NEW e \in Emitters, SoftLimitWait(e)
      PROVE  EndInv'
  <2>1. /\ result' = result /\ pc[e] \notin {"returned", "joinProducers"}
        /\ pc' = [pc EXCEPT ![e] = pc'[e]]
    BY <1>7, RoleFacts DEF TypeOK, ControlTypes, CounterTypes, SoftLimitWait, Goto, queueVars, endVars, EmitterReturns
  <2> QED BY <1>7, <2>1, RoleFacts, EndFrame
<1>8. ASSUME NEW e \in Emitters, CreditWait(e)
      PROVE  EndInv'
  <2>1. /\ result' = result /\ pc[e] \notin {"returned", "joinProducers"}
        /\ pc' = [pc EXCEPT ![e] = pc'[e]]
    BY <1>8, RoleFacts DEF TypeOK, ControlTypes, CounterTypes, CreditWait, Goto, queueVars, endVars, EmitterReturns
  <2> QED BY <1>8, <2>1, RoleFacts, EndFrame
<1>9. ASSUME NEW e \in Emitters, FinishLeafDrainerLimit(e)
      PROVE  EndInv'
  <2>1. UNCHANGED <<pc, result, outstanding>>
    BY <1>9 DEF FinishLeafDrainerLimit, queueVars, endVars
  <2> QED BY <2>1 DEF EndInv
<1>10. ASSUME NEW e \in Emitters, BeginLargeAssignment(e)
      PROVE  EndInv'
  <2>1. UNCHANGED <<pc, result, outstanding>>
    BY <1>10 DEF BeginLargeAssignment, queueVars, endVars
  <2> QED BY <2>1 DEF EndInv
<1>11. ASSUME NEW e \in Emitters, FinishLargeAssignment(e)
      PROVE  EndInv'
  <2>1. UNCHANGED <<pc, result, outstanding>>
    BY <1>11 DEF FinishLargeAssignment, queueVars, endVars
  <2> QED BY <2>1 DEF EndInv
<1>12. ASSUME NEW e \in Emitters, NEW l \in Leaves, NEW m \in {"emitted", "deferred"},
             EmitLeaf(e, l, m)
      PROVE  EndInv'
  <2>1. /\ result' = result /\ pc[e] \notin {"returned", "joinProducers"}
        /\ pc' = [pc EXCEPT ![e] = pc'[e]]
    BY <1>12, RoleFacts DEF TypeOK, ControlTypes, CounterTypes, EmitLeaf, Goto, queueVars, endVars, EmitterReturns
  <2> QED BY <1>12, <2>1, RoleFacts, EndFrame
<1>13. ASSUME NEW e \in Emitters, NEW l \in Leaves, EmitLeafInline(e, l)
      PROVE  EndInv'
  <2>1. /\ result' = result /\ pc[e] \notin {"returned", "joinProducers"}
        /\ pc' = [pc EXCEPT ![e] = pc'[e]]
    BY <1>13, RoleFacts DEF TypeOK, ControlTypes, CounterTypes, EmitLeafInline, Goto, queueVars, endVars, EmitterReturns
  <2> QED BY <1>13, <2>1, RoleFacts, EndFrame
<1>14. ASSUME NEW e \in Emitters, NEW p \in LimitPairs, BeginLeafDrainerLimit(e, p)
      PROVE  EndInv'
  <2>1. UNCHANGED <<pc, result, outstanding>>
    BY <1>14 DEF BeginLeafDrainerLimit, queueVars, endVars
  <2> QED BY <2>1 DEF EndInv
<1>15. ASSUME NEW t \in Threads, SpawnReadBacklog(t)
      PROVE  EndInv'
  <2>0. t = Main => AfterSpawn(t) = "wait"
    BY RoleFacts DEF AfterSpawn
  <2>1. /\ result' = result /\ pc[t] \notin {"returned", "joinProducers"}
        /\ pc' = [pc EXCEPT ![t] = pc'[t]]
        /\ outstanding' <= outstanding
        /\ t = Main => pc'[t] \notin {"joinProducers", "final", "joinScope", "returned"}
    BY <1>15, <2>0, RoleFacts DEF TypeOK, ControlTypes, CounterTypes, SpawnReadBacklog, Goto, queueVars, endVars
  <2> QED BY <1>15, <2>1, RoleFacts, EndFrame
<1>16. ASSUME NEW t \in Threads, SpawnReadActive(t)
      PROVE  EndInv'
  <2>0. t = Main => AfterSpawn(t) = "wait"
    BY RoleFacts DEF AfterSpawn
  <2>1. /\ result' = result /\ pc[t] \notin {"returned", "joinProducers"}
        /\ pc' = [pc EXCEPT ![t] = pc'[t]]
        /\ outstanding' <= outstanding
        /\ t = Main => pc'[t] \notin {"joinProducers", "final", "joinScope", "returned"}
    BY <1>16, <2>0, RoleFacts DEF TypeOK, ControlTypes, CounterTypes, SpawnReadActive, Goto, queueVars, endVars
  <2> QED BY <1>16, <2>1, RoleFacts, EndFrame
<1>17. ASSUME NEW t \in Threads, SpawnCas(t)
      PROVE  EndInv'
  <2>1. /\ result' = result /\ pc[t] \notin {"returned", "joinProducers"}
        /\ pc' = [pc EXCEPT ![t] = pc'[t]]
        /\ outstanding' <= outstanding
        /\ t = Main => pc'[t] \notin {"joinProducers", "final", "joinScope", "returned"}
    BY <1>17, RoleFacts DEF TypeOK, ControlTypes, CounterTypes, SpawnCas, Goto, queueVars, endVars
  <2> QED BY <1>17, <2>1, RoleFacts, EndFrame
<1>18. ASSUME NEW t \in Threads, TakeLeaf(t)
      PROVE  EndInv'
  <2>0. t = Main => AfterHelp(t) = "wait"
    BY RoleFacts DEF AfterHelp
  <2>1. /\ result' = result /\ pc[t] \notin {"returned", "joinProducers"}
        /\ pc' = [pc EXCEPT ![t] = pc'[t]]
        /\ outstanding' <= outstanding
        /\ t = Main => pc'[t] \notin {"joinProducers", "final", "joinScope", "returned"}
    BY <1>18, <2>0, RoleFacts DEF TypeOK, ControlTypes, CounterTypes, TakeLeaf, Goto, queueVars, endVars, AfterNothing, RunBatch
  <2> QED BY <1>18, <2>1, RoleFacts, EndFrame
<1>19. ASSUME NEW t \in Threads, DebitLeaf(t)
      PROVE  EndInv'
  <2>1. /\ result' = result /\ pc[t] \notin {"returned", "joinProducers"}
        /\ pc' = [pc EXCEPT ![t] = pc'[t]]
        /\ outstanding' <= outstanding
        /\ t = Main => pc'[t] \notin {"joinProducers", "final", "joinScope", "returned"}
    BY <1>19, RoleFacts DEF TypeOK, ControlTypes, CounterTypes, DebitLeaf, Goto, queueVars, endVars, RunBatch
  <2> QED BY <1>19, <2>1, RoleFacts, EndFrame
<1>20. ASSUME NEW t \in Threads, AcquireHydrationSlot(t)
      PROVE  EndInv'
  <2>1. /\ result' = result /\ pc[t] \notin {"returned", "joinProducers"}
        /\ pc' = [pc EXCEPT ![t] = pc'[t]]
        /\ outstanding' <= outstanding
        /\ t = Main => pc'[t] \notin {"joinProducers", "final", "joinScope", "returned"}
    BY <1>20, RoleFacts DEF TypeOK, ControlTypes, CounterTypes, AcquireHydrationSlot, Goto, queueVars, endVars, BatchFails
  <2> QED BY <1>20, <2>1, RoleFacts, EndFrame
<1>21. ASSUME NEW t \in Threads, Hydrate(t)
      PROVE  EndInv'
  <2>1. /\ result' = result /\ pc[t] \notin {"returned", "joinProducers"}
        /\ pc' = [pc EXCEPT ![t] = pc'[t]]
        /\ outstanding' <= outstanding
        /\ t = Main => pc'[t] \notin {"joinProducers", "final", "joinScope", "returned"}
    BY <1>21, RoleFacts DEF TypeOK, ControlTypes, CounterTypes, Hydrate, Goto, queueVars, endVars, BatchFails
  <2> QED BY <1>21, <2>1, RoleFacts, EndFrame
<1>22. ASSUME NEW t \in Threads, BuildBatch(t)
      PROVE  EndInv'
  <2>1. /\ result' = result /\ pc[t] \notin {"returned", "joinProducers"}
        /\ pc' = [pc EXCEPT ![t] = pc'[t]]
        /\ outstanding' <= outstanding
        /\ t = Main => pc'[t] \notin {"joinProducers", "final", "joinScope", "returned"}
    BY <1>22, RoleFacts DEF TypeOK, ControlTypes, CounterTypes, BuildBatch, Goto, queueVars, endVars
  <2> QED BY <1>22, <2>1, RoleFacts, EndFrame
<1>23. ASSUME NEW t \in Threads, FinishLeafExecution(t)
      PROVE  EndInv'
  <2>1. UNCHANGED <<pc, result>> /\ outstanding' = outstanding - 1
    BY <1>23 DEF FinishLeafExecution, endVars
  <2>2. outstanding # 0
    BY <2>1 DEF TypeOK, CounterTypes
  <2> QED BY <2>1, <2>2 DEF EndInv
<1>24. ASSUME NEW t \in Threads, HelperReturns(t)
      PROVE  EndInv'
  <2>1. UNCHANGED outstanding /\ pc[t] = "finish" /\ t \notin Drainers
    BY <1>24 DEF HelperReturns, queueVars
  <2>2. CASE result' = result
    <3>1. t = Main => AfterHelp(t) = "wait"
      BY RoleFacts DEF AfterHelp
    <3>2. pc' = [pc EXCEPT ![t] = pc'[t]]
      BY <1>24 DEF HelperReturns, TypeOK, ControlTypes, Goto, EmitterReturns
    <3>3. CASE t = Main
      <4>1. pc[Main] # "joinProducers" /\ \A e \in Emitters : pc'[e] = pc[e]
        BY <2>1, <3>2, <3>3, RoleFacts DEF TypeOK, ControlTypes
      <4>2. pc'[Main] = "wait" \/ (pc'[Main] = "joinScope" /\ result' # "ok")
        BY <1>24, <3>1, <3>3, RoleFacts
        DEF HelperReturns, TypeOK, ControlTypes, DataTypes, LocalTypes, Goto
      <4> QED BY <4>1, <4>2, <3>3 DEF EndInv
    <3>4. CASE t # Main
      BY <2>1, <2>2, <3>2, <3>4, RoleFacts, EndFrame DEF TypeOK, CounterTypes
    <3> QED BY <3>3, <3>4
  <2>3. CASE result' # result
    <3>1. t = Main /\ result' = status[t] /\ status[t] # "ok" /\ Goto(t, "joinScope")
      BY <1>24, <2>3 DEF HelperReturns
    <3>2. pc'[Main] = "joinScope" /\ \A e \in Emitters : pc'[e] = pc[e]
      BY <3>1, RoleFacts DEF TypeOK, ControlTypes, Goto
    <3> QED BY <2>1, <3>1, <3>2 DEF EndInv
  <2> QED BY <2>2, <2>3
<1>25. ASSUME NEW d \in Drainers, StartDrainer(d)
      PROVE  EndInv'
  <2>1. UNCHANGED <<result, outstanding>>
    BY <1>25 DEF StartDrainer, queueVars, endVars
  <2>2. pc[d] \notin {"returned", "joinProducers"} /\ pc' = [pc EXCEPT ![d] = pc'[d]]
    BY <1>25, RoleFacts DEF TypeOK, ControlTypes, StartDrainer, Goto
  <2>3. outstanding' <= outstanding
    BY <2>1 DEF TypeOK, CounterTypes
  <2> QED BY <1>25, <2>1, <2>2, <2>3, RoleFacts, EndFrame
<1>26. ASSUME NEW d \in Drainers, DrainerChecks(d)
      PROVE  EndInv'
  <2>1. UNCHANGED <<result, outstanding>>
    BY <1>26 DEF DrainerChecks, queueVars, endVars
  <2>2. pc[d] \notin {"returned", "joinProducers"} /\ pc' = [pc EXCEPT ![d] = pc'[d]]
    BY <1>26, RoleFacts DEF TypeOK, ControlTypes, DrainerChecks, Goto
  <2>3. outstanding' <= outstanding
    BY <2>1 DEF TypeOK, CounterTypes
  <2> QED BY <1>26, <2>1, <2>2, <2>3, RoleFacts, EndFrame
<1>27. ASSUME NEW d \in Drainers, DrainerReadsActive(d)
      PROVE  EndInv'
  <2>1. UNCHANGED <<result, outstanding>>
    BY <1>27 DEF DrainerReadsActive, queueVars, endVars
  <2>2. pc[d] \notin {"returned", "joinProducers"} /\ pc' = [pc EXCEPT ![d] = pc'[d]]
    BY <1>27, RoleFacts DEF TypeOK, ControlTypes, DrainerReadsActive, Goto
  <2>3. outstanding' <= outstanding
    BY <2>1 DEF TypeOK, CounterTypes
  <2> QED BY <1>27, <2>1, <2>2, <2>3, RoleFacts, EndFrame
<1>28. ASSUME NEW d \in Drainers, ReserveRetirement(d)
      PROVE  EndInv'
  <2>1. UNCHANGED <<result, outstanding>>
    BY <1>28 DEF ReserveRetirement, queueVars, endVars
  <2>2. pc[d] \notin {"returned", "joinProducers"} /\ pc' = [pc EXCEPT ![d] = pc'[d]]
    BY <1>28, RoleFacts DEF TypeOK, ControlTypes, ReserveRetirement, Goto
  <2>3. outstanding' <= outstanding
    BY <2>1 DEF TypeOK, CounterTypes
  <2> QED BY <1>28, <2>1, <2>2, <2>3, RoleFacts, EndFrame
<1>29. ASSUME NEW d \in Drainers, DrainerBatchDone(d)
      PROVE  EndInv'
  <2>1. UNCHANGED <<result, outstanding>>
    BY <1>29 DEF DrainerBatchDone, queueVars, endVars
  <2>2. pc[d] \notin {"returned", "joinProducers"} /\ pc' = [pc EXCEPT ![d] = pc'[d]]
    BY <1>29, RoleFacts DEF TypeOK, ControlTypes, DrainerBatchDone, Goto, AfterHelp
  <2>3. outstanding' <= outstanding
    BY <2>1 DEF TypeOK, CounterTypes
  <2> QED BY <1>29, <2>1, <2>2, <2>3, RoleFacts, EndFrame
<1>30. ASSUME NEW d \in Drainers, RecordError(d)
      PROVE  EndInv'
  <2>1. UNCHANGED <<result, outstanding>>
    BY <1>30 DEF RecordError, queueVars, endVars
  <2>2. pc[d] \notin {"returned", "joinProducers"} /\ pc' = [pc EXCEPT ![d] = pc'[d]]
    BY <1>30, RoleFacts DEF TypeOK, ControlTypes, RecordError, Goto
  <2>3. outstanding' <= outstanding
    BY <2>1 DEF TypeOK, CounterTypes
  <2> QED BY <1>30, <2>1, <2>2, <2>3, RoleFacts, EndFrame
<1>31. ASSUME NEW d \in Drainers, DrainerUnreserves(d)
      PROVE  EndInv'
  <2>1. UNCHANGED <<result, outstanding>>
    BY <1>31 DEF DrainerUnreserves, queueVars, endVars
  <2>2. pc[d] \notin {"returned", "joinProducers"} /\ pc' = [pc EXCEPT ![d] = pc'[d]]
    BY <1>31, RoleFacts DEF TypeOK, ControlTypes, DrainerUnreserves, Goto
  <2>3. outstanding' <= outstanding
    BY <2>1 DEF TypeOK, CounterTypes
  <2> QED BY <1>31, <2>1, <2>2, <2>3, RoleFacts, EndFrame
<1>32. ASSUME NEW d \in Drainers, DrainerLeaves(d)
      PROVE  EndInv'
  <2>1. UNCHANGED <<result, outstanding>>
    BY <1>32 DEF DrainerLeaves, queueVars, endVars
  <2>2. pc[d] \notin {"returned", "joinProducers"} /\ pc' = [pc EXCEPT ![d] = pc'[d]]
    BY <1>32, RoleFacts DEF TypeOK, ControlTypes, DrainerLeaves, Goto
  <2>3. outstanding' <= outstanding
    BY <2>1 DEF TypeOK, CounterTypes
  <2> QED BY <1>32, <2>1, <2>2, <2>3, RoleFacts, EndFrame
<1>33. CASE ProducerReturns
  <2>1. UNCHANGED outstanding /\ \A e \in Emitters : pc[e] = "returned"
    BY <1>33 DEF ProducerReturns, queueVars
  <2>2. \A e \in Emitters : pc'[e] = pc[e]
    BY <1>33, RoleFacts DEF ProducerReturns, Goto, TypeOK, ControlTypes
  <2>3. pc'[Main] \in {"discard", "spawnLen"} \/ (pc'[Main] = "joinScope" /\ result' = "panic")
    BY <1>33 DEF ProducerReturns, Goto, TypeOK, ControlTypes
  <2> QED BY <2>1, <2>2, <2>3 DEF EndInv
<1>34. CASE DiscardPop
  <2>1. /\ result' = result /\ pc[Main] \notin {"returned", "joinProducers"}
        /\ pc' = [pc EXCEPT ![Main] = pc'[Main]]
        /\ outstanding' <= outstanding
        /\ Main = Main => pc'[Main] \notin {"joinProducers", "final", "joinScope", "returned"}
    BY <1>34, RoleFacts DEF TypeOK, ControlTypes, CounterTypes, DiscardPop, Goto, queueVars, endVars
  <2> QED BY <1>34, <2>1, RoleFacts, EndFrame
<1>35. CASE DiscardDrop
  <2>1. /\ result' = result /\ pc[Main] \notin {"returned", "joinProducers"}
        /\ pc' = [pc EXCEPT ![Main] = pc'[Main]]
        /\ outstanding' <= outstanding
        /\ Main = Main => pc'[Main] \notin {"joinProducers", "final", "joinScope", "returned"}
    BY <1>35, RoleFacts DEF TypeOK, ControlTypes, CounterTypes, DiscardDrop, Goto, queueVars, endVars
  <2> QED BY <1>35, <2>1, RoleFacts, EndFrame
<1>36. CASE WaitUntilIdle
  <2>1. UNCHANGED outstanding /\ pc[Main] = "wait"
    BY <1>36 DEF WaitUntilIdle, queueVars
  <2>2. \A e \in Emitters : pc'[e] = pc[e]
    BY <1>36, RoleFacts DEF WaitUntilIdle, Goto, TypeOK, ControlTypes
  <2>3. \/ pc'[Main] = "take"
        \/ pc'[Main] = "final" /\ outstanding = 0
        \/ pc'[Main] = "joinScope" /\ result' = "err"
    BY <1>36 DEF WaitUntilIdle, Goto, TypeOK, ControlTypes
  <2> QED BY <2>1, <2>2, <2>3 DEF EndInv
<1>37. CASE FinalCheck
  <2>1. UNCHANGED outstanding /\ pc[Main] = "final"
    BY <1>37 DEF FinalCheck, queueVars
  <2>2. pc'[Main] = "joinScope" /\ \A e \in Emitters : pc'[e] = pc[e]
    BY <1>37, RoleFacts DEF FinalCheck, Goto, TypeOK, ControlTypes
  <2> QED BY <2>1, <2>2 DEF EndInv
<1>38. CASE ScopeReturns
  <2>1. UNCHANGED outstanding /\ pc[Main] = "joinScope" /\ result' \in {"panic", result}
    BY <1>38 DEF ScopeReturns, queueVars
  <2>2. pc'[Main] = "returned" /\ \A e \in Emitters : pc'[e] = pc[e]
    BY <1>38, RoleFacts DEF ScopeReturns, Goto, TypeOK, ControlTypes
  <2> QED BY <2>1, <2>2 DEF EndInv
<1>39. CASE UNCHANGED vars
  BY <1>39 DEF vars, EndInv, queueVars, endVars
<1> QED
  BY <1>1, <1>2, <1>3, <1>4, <1>5, <1>6, <1>7, <1>8, <1>9, <1>10, <1>11,
         <1>12, <1>13, <1>14, <1>15, <1>16, <1>17, <1>18, <1>19, <1>20, <1>21,
         <1>22, <1>23, <1>24, <1>25, <1>26, <1>27, <1>28, <1>29, <1>30, <1>31,
         <1>32, <1>33, <1>34, <1>35, <1>36, <1>37, <1>38, <1>39
  DEF Next, EmitterStep, GuardStep, WorkStep, DrainerStep, MainStep, Done

-----------------------------------------------------------------------------
(* The inductive invariant and the theorems.                               *)

IInv ==
  /\ TypeOK
  /\ LocalInv
  /\ PlacesInv
  /\ OutstandingExact
  /\ DrainersExact
  /\ SlotsInv
  /\ EndInv

\* A counter that counts a finite set is not negative.
LEMMA CountersNat ==
  DataTypes /\ LocalInv /\ OutstandingExact /\ DrainersExact /\ SlotsInv => CounterTypes
<1> SUFFICES ASSUME DataTypes, LocalInv, OutstandingExact, DrainersExact, SlotsInv
             PROVE  CounterTypes
  OBVIOUS
<1>1. outstanding \in Nat /\ inflight \in Nat
  BY LiveFinite DEF OutstandingExact
<1>2. active \in Nat /\ retiring \in Nat
  BY DrainersFinite DEF DrainersExact, DataTypes, EndTypes
<1>3. hydrations \in Nat /\ largeAssignments \in Nat
  BY SlotsFinite DEF SlotsInv, HydrationBound
<1> QED BY <1>1, <1>2, <1>3 DEF CounterTypes

\* The invariant holds when the scope starts.
LEMMA InitIInv == Init => IInv
<1> SUFFICES ASSUME Init PROVE IInv
  OBVIOUS
<1> USE ThreadFacts, RoleFacts
<1>1. DataTypes
  <2>1. QueueTypes /\ LeafTypes
    BY SchedulerAssumption DEF Init, QueueTypes, LeafTypes
  <2>2. SignalTypes /\ EndTypes
    BY DEF Init, SignalTypes, EndTypes
  <2>3. TakeTypes
    BY DEF Init, TakeTypes
  <2>4. LocalTypes
    BY DEF Init, LocalTypes
  <2> QED BY <2>1, <2>2, <2>3, <2>4 DEF Init, DataTypes
<1>2. ControlTypes
  <2>1. /\ \A e \in Emitters : pc[e] = "produce"
        /\ \A d \in Drainers : pc[d] = "parked"
        /\ pc[Main] = "joinProducers"
        /\ pc = [t \in Threads |-> pc[t]]
    BY DEF Init
  <2>2. \A t \in Threads : pc[t] \in EmitterPCs \cup DrainerPCs \cup MainPCs
    BY <2>1 DEF EmitterPCs, DrainerPCs, MainPCs
  <2> QED BY <2>1, <2>2 DEF ControlTypes, EmitterPCs, DrainerPCs, MainPCs
<1>3. \A t \in Threads : pc[t] \in {"produce", "parked", "joinProducers"}
  BY DEF Init
<1>4. pc[Main] = "joinProducers" /\ \A e \in Emitters : pc[e] = "produce"
  BY DEF Init
<1>5. LocalInv
  BY <1>3, <1>4 DEF Init, LocalInv, EmitterLocal, BatchLocal, FinishLocal, SpawnLocal
<1>6. backlog = <<>> /\ Range(backlog) = {}
  BY DEF Init, Range
<1>7. \A e \in Emitters : Held(e) = {}
  BY <1>4 DEF Init, Held
<1>8. PlacesInv
  BY <1>6, <1>7 DEF Init, PlacesInv, Apart, Somewhere, NoDuplicates, Settled
<1>9. OutstandingExact
  <2>1. CountedItems = {}
    BY <1>4 DEF CountedItems
  <2>2. LiveLeaves = {} /\ StartedLeaves = {}
    BY <1>6, <2>1 DEF Init, LiveLeaves, StartedLeaves
  <2> QED BY <2>2, FS_EmptySet DEF Init, OutstandingExact
<1>10. DrainersExact
  <2>1. \A d \in Drainers : pc[d] = "parked"
    BY DEF Init
  <2>2. Draining = {} /\ Retiring = {}
    BY <2>1 DEF Draining, Retiring
  <2> QED BY <2>2, FS_EmptySet, SchedulerAssumption DEF Init, DrainersExact
<1>11. SlotsInv
  <2>1. Hydrating = {} /\ Large = {}
    BY <1>3 DEF Init, Hydrating, Large
  <2> QED BY <2>1, FS_EmptySet, SchedulerAssumption DEF Init, SlotsInv, HydrationBound
<1>12. EndInv
  BY <1>4 DEF EndInv
<1> QED BY <1>1, <1>2, <1>5, <1>8, <1>9, <1>10, <1>11, <1>12, CountersNat DEF IInv, TypeOK

\* Every step of the scheduler keeps the invariant.
LEMMA IInvStep == IInv /\ [Next]_vars => IInv'
<1> SUFFICES ASSUME IInv, [Next]_vars PROVE IInv'
  OBVIOUS
<1>1. TypeOK /\ LocalInv /\ PlacesInv /\ OutstandingExact /\ DrainersExact /\ SlotsInv /\ EndInv
  BY DEF IInv
<1>2. DataTypes' /\ ControlTypes' /\ LocalInv'
  BY <1>1, DataStep, ControlStep, LocalStep
<1>3. PlacesInv' /\ OutstandingExact' /\ DrainersExact' /\ SlotsInv'
  BY <1>1, PlacesStep, CountStep, DrainersStep, SlotsStep
<1>4. CounterTypes'
  BY <1>2, <1>3, CountersNat, PTL
<1>5. EndInv'
  BY <1>1, <1>4, EndStep DEF CounterTypes
<1> QED BY <1>2, <1>3, <1>4, <1>5 DEF IInv, TypeOK

\* IInv is an invariant of the scheduler.
THEOREM Invariance == Spec => []IInv
BY InitIInv, IInvStep, PTL DEF Spec

\* Every variable stays within its type, whatever the pool's size, the leaves,
\* the limits and the faults: the backlog within its capacity and no unsigned
\* counter of ForgeannScheduler below zero.
THEOREM TypeCorrect == Spec => []TypeOK
<1>1. IInv => TypeOK
  BY DEF IInv
<1> QED BY <1>1, Invariance, PTL

\* outstanding_leaf_tasks and inflight_leaf_tasks are exact in every state of
\* every interleaving of enqueue, failed enqueue, take, finish and discard.
THEOREM OutstandingCorrect == Spec => []OutstandingExact
<1>1. IInv => OutstandingExact
  BY DEF IInv
<1> QED BY <1>1, Invariance, PTL

\* Every leaf is in exactly one place: the scheduler loses none, builds none
\* twice and hands none to two threads.
THEOREM ExactlyOnceCorrect == Spec => []ExactlyOnce
<1>1. IInv => ExactlyOnce
  <2> SUFFICES ASSUME IInv PROVE ExactlyOnce
    OBVIOUS
  <2> DEFINE taken == UNION {Pending(t) : t \in Threads}
             held == UNION {Held(e) : e \in Emitters}
             places == <<fresh, held, Range(backlog), taken, processed, failed, discarded>>
  <2>1. Apart /\ Somewhere /\ NoDuplicates /\ LocalInv
    BY DEF IInv, PlacesInv
  <2>2. /\ fresh \subseteq Leaves /\ processed \subseteq Leaves
        /\ failed \subseteq Leaves /\ discarded \subseteq Leaves
        /\ \A t \in Threads : batch[t] \subseteq Leaves
    BY DEF IInv, TypeOK, DataTypes, LeafTypes, TakeTypes
  <2>3. Range(backlog) \subseteq Leaves
    BY RangeOfSeq DEF IInv, TypeOK, DataTypes, QueueTypes
  <2>4. \A e \in Emitters : Held(e) \subseteq Leaves
    BY DEF IInv, TypeOK, DataTypes, LocalTypes, Held
  <2>5. \A l \in taken : \E t \in Threads : l \in batch[t] /\ pc[t] # "finish"
    BY DEF Pending
  <2>6. \A t \in Threads : pc[t] # "finish" => batch[t] \subseteq taken
    BY DEF Pending
  <2>7. \A t \in Threads : pc[t] = "finish" => batch[t] \subseteq processed \cup failed
    BY <2>1 DEF LocalInv, FinishLocal
  <2>8. \A l \in Leaves : \/ l \in fresh \/ l \in held \/ l \in Range(backlog) \/ l \in taken
                          \/ l \in processed \/ l \in failed \/ l \in discarded
    BY <2>1, <2>6, <2>7 DEF Somewhere, Settled
  <2>9. taken \subseteq Leaves /\ held \subseteq Leaves
    BY <2>2, <2>4, <2>5
  <2>10. /\ fresh \cap held = {} /\ fresh \cap Range(backlog) = {} /\ fresh \cap taken = {}
         /\ fresh \cap processed = {} /\ fresh \cap failed = {} /\ fresh \cap discarded = {}
         /\ held \cap Range(backlog) = {} /\ held \cap taken = {} /\ held \cap processed = {}
         /\ held \cap failed = {} /\ held \cap discarded = {}
         /\ Range(backlog) \cap taken = {} /\ Range(backlog) \cap processed = {}
         /\ Range(backlog) \cap failed = {} /\ Range(backlog) \cap discarded = {}
         /\ taken \cap processed = {} /\ taken \cap failed = {} /\ taken \cap discarded = {}
         /\ processed \cap failed = {} /\ processed \cap discarded = {}
         /\ failed \cap discarded = {}
    BY <2>1, <2>5 DEF Apart, Settled
  <2> HIDE DEF taken, held
  <2>11. DOMAIN places = 1..7 /\ Range(places) = {fresh, held, Range(backlog), taken,
                                                  processed, failed, discarded}
    <3>1. DOMAIN places = 1..7
      OBVIOUS
    <3>2. \A i \in 1..7 : i = 1 \/ i = 2 \/ i = 3 \/ i = 4 \/ i = 5 \/ i = 6 \/ i = 7
      OBVIOUS
    <3>3. /\ places[1] = fresh /\ places[2] = held /\ places[3] = Range(backlog)
          /\ places[4] = taken /\ places[5] = processed /\ places[6] = failed
          /\ places[7] = discarded
      OBVIOUS
    <3> HIDE DEF places
    <3> QED BY <3>1, <3>2, <3>3 DEF Range
  <2>12. UNION Range(places) = Leaves
    BY <2>2, <2>3, <2>8, <2>9, <2>11
  <2>13. \A i, j \in DOMAIN places : i # j => places[i] \cap places[j] = {}
    <3>1. \A i \in DOMAIN places : i = 1 \/ i = 2 \/ i = 3 \/ i = 4 \/ i = 5 \/ i = 6 \/ i = 7
      BY <2>11
    <3>2. /\ places[1] = fresh /\ places[2] = held /\ places[3] = Range(backlog)
          /\ places[4] = taken /\ places[5] = processed /\ places[6] = failed
          /\ places[7] = discarded
      OBVIOUS
    <3> HIDE DEF places
    <3> QED BY <3>1, <3>2, <2>10
  <2>14. \A s, t \in Threads : s # t => batch[s] \cap batch[t] = {}
    BY <2>1 DEF Apart
  <2>15. \A d, e \in Emitters : d # e => Held(d) \cap Held(e) = {}
    BY <2>1 DEF Apart
  <2> QED BY <2>1, <2>12, <2>13, <2>14, <2>15 DEF ExactlyOnce, NoDuplicates, taken, held
<1> QED BY <1>1, Invariance, PTL

\* When run_scheduler_scope answers Ok, no leaf is queued, held or in flight and
\* every emitted leaf has met its fate: wait_until_idle never stops early.
THEOREM OkSettled == Spec => []OkMeansSettled
<1>1. IInv => OkMeansSettled
  <2> SUFFICES ASSUME IInv, pc[Main] \in {"joinScope", "returned"}, result = "ok"
               PROVE  /\ LiveLeaves = {}
                      /\ \A e \in Emitters : pc[e] = "returned"
                      /\ Leaves \ fresh = processed \cup failed \cup discarded
    BY DEF OkMeansSettled
  <2>1. outstanding = 0 /\ \A e \in Emitters : pc[e] = "returned"
    BY DEF IInv, EndInv
  <2>2. Cardinality(LiveLeaves) = 0 /\ IsFiniteSet(LiveLeaves)
    BY <2>1, LiveFinite DEF IInv, TypeOK, OutstandingExact
  <2>3. LiveLeaves = {}
    BY <2>2, FS_EmptySet
  <2>4. \A e \in Emitters : Held(e) = {}
    BY <2>1 DEF IInv, LocalInv, EmitterLocal, Held
  <2>5. Range(backlog) = {} /\ \A t \in Threads : batch[t] = {}
    BY <2>3 DEF LiveLeaves
  <2>6. \A l \in Leaves : l \in fresh \/ l \in Settled
    BY <2>4, <2>5 DEF IInv, PlacesInv, Somewhere
  <2>7. \A l \in fresh : l \notin Settled
    BY DEF IInv, PlacesInv, Apart
  <2>8. Settled \subseteq Leaves
    BY DEF Settled, IInv, TypeOK, DataTypes, LeafTypes
  <2> QED BY <2>1, <2>3, <2>6, <2>7, <2>8 DEF Settled
<1> QED BY <1>1, Invariance, PTL

\* active_leaf_drainers and retiring_leaf_drainers count the drainer tasks
\* exactly, and no interleaving of spawns and retirements takes the tasks beyond
\* the pool's leaf capacity.
THEOREM DrainersCorrect == Spec => []DrainersExact
<1>1. IInv => DrainersExact
  BY DEF IInv
<1> QED BY <1>1, Invariance, PTL

\* The hydration slots are exact and within max_active_hydrations however the
\* hydrations end.
THEOREM HydrationCorrect == Spec => []HydrationBound
<1>1. IInv => HydrationBound
  BY DEF IInv, SlotsInv
<1> QED BY <1>1, Invariance, PTL
-----------------------------------------------------------------------------
(* Arithmetic modulo the counter's word.                                   *)

\* A number is its remainder when it lies within the word.
LEMMA ModUnique ==
  ASSUME NEW W \in Nat \ {0}, NEW k \in Int, NEW r \in 0..(W - 1)
  PROVE  (W * k + r) % W = r
OBVIOUS

\* Reducing one summand first does not change the sum modulo W.
LEMMA ModAdd ==
  ASSUME NEW W \in Nat \ {0}, NEW a \in Int, NEW s \in Int
  PROVE  ((a % W) + s) % W = (a + s) % W
<1> DEFINE r == a % W
           k == a \div W
           q == (r + s) \div W
           u == (r + s) % W
<1>1. a = W * k + r /\ r \in 0..(W - 1) /\ k \in Int
  OBVIOUS
<1>2. r + s \in Int
  BY <1>1
<1>3. r + s = W * q + u /\ u \in 0..(W - 1) /\ q \in Int
  BY <1>2
<1> HIDE DEF r, k, q, u
<1>4. W * k \in Int /\ W * q \in Int /\ W * (k + q) = W * k + W * q
  BY <1>1, <1>3
<1>5. a + s = W * (k + q) + u
  BY <1>1, <1>3, <1>4
<1>6. (a + s) % W = u
  <2>1. ASSUME NEW j \in Int PROVE (W * j + u) % W = u
    BY <1>3, ModUnique
  <2>2. k + q \in Int
    BY <1>1, <1>3
  <2> QED BY <1>5, <2>1, <2>2
<1> QED BY <1>6 DEF r, u


-----------------------------------------------------------------------------
(* The sum of the sizes of a set of leaves.                                *)

\* SumSize is a sum as DataTheorems reasons about it.
LEMMA SizeSum ==
  ASSUME NEW S
  PROVE  SumSize(S) = Sum(Size, S)
BY DEF SumSize, Sum, MapThenSumSet, MapThenFoldSet

\* Adding a leaf to a set of leaves adds its size.
LEMMA SizeAdd ==
  ASSUME NEW S \in SUBSET Leaves, NEW l \in Leaves, l \notin S
  PROVE  /\ SumSize(S) \in Nat /\ Size[l] \in Nat
         /\ SumSize(S \cup {l}) = SumSize(S) + Size[l]
<1>1. IsFiniteSet(S) /\ \A x \in Leaves : Size[x] \in Nat
  BY SchedulerAssumption, FS_Subset
<1>2. Sum(Size, S) \in Nat
  BY <1>1, SumNat
<1>3. Sum(Size, S \cup {l}) = Size[l] + Sum(Size, S)
  BY <1>1, SumAdd
<1> QED BY <1>1, <1>2, <1>3, SizeSum

\* Removing a leaf from a set of leaves takes its size away.
LEMMA SizeRemove ==
  ASSUME NEW S \in SUBSET Leaves, NEW l \in S
  PROVE  /\ SumSize(S \ {l}) \in Nat /\ Size[l] \in Nat
         /\ SumSize(S) = SumSize(S \ {l}) + Size[l]
<1>1. (S \ {l}) \cup {l} = S /\ S \ {l} \in SUBSET Leaves /\ l \in Leaves /\ l \notin S \ {l}
  OBVIOUS
<1> QED BY <1>1, SizeAdd

\* The size of a set of leaves is a natural number.
LEMMA SizeNat ==
  ASSUME NEW S \in SUBSET Leaves
  PROVE  SumSize(S) \in Nat
<1>1. IsFiniteSet(S) /\ \A x \in S : Size[x] \in Nat
  BY SchedulerAssumption, FS_Subset
<1> QED BY <1>1, SumNat, SizeSum

-----------------------------------------------------------------------------
(* The leaf an emitter holds is its own.                                   *)

ItemsInv ==
  \A e \in Emitters : item[e] # NoLeaf =>
    /\ item[e] \notin fresh
    /\ \A d \in Emitters : item[d] = item[e] => d = e

\* Every step keeps the leaves that emitters hold apart.
LEMMA ItemsStep ==
  ASSUME TypeOK, ItemsInv, [Next]_vars
  PROVE  ItemsInv'
<1>1. item \in [Emitters -> Leaves \cup {NoLeaf}] /\ NoLeaf \notin Leaves
  BY SchedulerAssumption DEF TypeOK, DataTypes, LocalTypes
<1>2. CASE fresh' \subseteq fresh /\ item' = item
  BY <1>2 DEF ItemsInv
<1>3. ASSUME NEW e \in Emitters, fresh' = fresh, item' = [item EXCEPT ![e] = NoLeaf]
      PROVE  ItemsInv'
  BY <1>1, <1>3 DEF ItemsInv
<1>4. ASSUME NEW e \in Emitters, NEW l \in fresh, fresh' = fresh \ {l}, item' = [item EXCEPT ![e] = l]
      PROVE  ItemsInv'
  BY <1>1, <1>4 DEF ItemsInv
<1>5. ASSUME NEW e \in Emitters, EmitterStep(e) \/ GuardStep(e)
      PROVE  ItemsInv'
  <2>1. ASSUME NEW l \in Leaves, NEW m \in {"emitted", "deferred"}, EmitLeaf(e, l, m) PROVE ItemsInv'
    BY <1>2, <1>4, <2>1 DEF EmitLeaf
  <2>2. ASSUME NEW l \in Leaves, EmitLeafInline(e, l) PROVE ItemsInv'
    BY <1>2, <2>2 DEF EmitLeafInline, localVars
  <2>3. CASE CreditLeaf(e)
    BY <1>3, <2>3 DEF CreditLeaf, leafVars
  <2>4. CASE ProducerBranchEnds(e) \/ EmitterUnwound(e) \/ CountLeaf(e) \/ PushLeaf(e) \/ UncountLeaf(e)
    BY <1>2, <2>4 DEF ProducerBranchEnds, EmitterUnwound, CountLeaf, PushLeaf, UncountLeaf, leafVars, localVars
  <2>5. CASE SoftLimitWait(e) \/ CreditWait(e)
    BY <1>2, <2>5 DEF SoftLimitWait, CreditWait, leafVars
  <2>6. CASE GuardStep(e)
    BY <1>2, <2>6 DEF GuardStep, BeginLeafDrainerLimit, FinishLeafDrainerLimit, BeginLargeAssignment,
       FinishLargeAssignment, leafVars, localVars
  <2> QED BY <1>5, <2>1, <2>2, <2>3, <2>4, <2>5, <2>6 DEF EmitterStep
<1>6. ASSUME NEW t \in Threads, WorkStep(t)
      PROVE  ItemsInv'
  <2>1. CASE HelperReturns(t)
    BY <1>2, <1>3, <2>1 DEF HelperReturns
  <2>2. CASE SpawnReadBacklog(t) \/ SpawnReadActive(t) \/ SpawnCas(t) \/ TakeLeaf(t) \/ DebitLeaf(t)
    BY <1>2, <2>2 DEF SpawnReadBacklog, SpawnReadActive, SpawnCas, TakeLeaf, DebitLeaf, leafVars, localVars
  <2>3. CASE AcquireHydrationSlot(t) \/ Hydrate(t) \/ BuildBatch(t) \/ FinishLeafExecution(t)
    BY <1>2, <2>3 DEF AcquireHydrationSlot, Hydrate, BuildBatch, FinishLeafExecution, leafVars, localVars
  <2> QED BY <1>6, <2>1, <2>2, <2>3 DEF WorkStep
<1>7. ASSUME NEW d \in Drainers, DrainerStep(d)
      PROVE  ItemsInv'
  BY <1>2, <1>7 DEF DrainerStep, StartDrainer, DrainerChecks, DrainerReadsActive, ReserveRetirement,
     DrainerBatchDone, RecordError, DrainerUnreserves, DrainerLeaves, leafVars, localVars
<1>8. CASE MainStep
  BY <1>2, <1>8 DEF MainStep, ProducerReturns, DiscardPop, DiscardDrop, WaitUntilIdle, FinalCheck,
     ScopeReturns, leafVars, localVars
<1>9. CASE UNCHANGED vars
  BY <1>2, <1>9 DEF vars, leafVars, localVars
<1> QED BY <1>5, <1>6, <1>7, <1>8, <1>9 DEF Next, Done

-----------------------------------------------------------------------------
(* The work counter.                                                       *)

\* The leaves popped and not debited, and those pushed and not credited.
Debits == {popped[t] : t \in Threads} \ {NoLeaf}
Uncredited == {item[e] : e \in {e \in Emitters : pc[e] = "credit"}}

\* What queued_work_ms stands for, before the counter wraps.
Work == SumSize(Range(backlog)) + SumSize(Debits) - SumSize(Uncredited)
WorkInv == WorkTarget # 0 => queuedWork = Work % WordMod

\* Queued, popped and uncredited leaves are leaves.
LEMMA WorkSets ==
  ASSUME TypeOK, LocalInv
  PROVE  /\ Range(backlog) \in SUBSET Leaves /\ Debits \in SUBSET Leaves /\ Uncredited \in SUBSET Leaves
         /\ SumSize(Range(backlog)) \in Nat /\ SumSize(Debits) \in Nat /\ SumSize(Uncredited) \in Nat
         /\ Work \in Int
<1>1. Range(backlog) \in SUBSET Leaves
  BY RangeOfSeq DEF TypeOK, DataTypes, QueueTypes
<1>2. Debits \in SUBSET Leaves
  BY DEF Debits, TypeOK, DataTypes, TakeTypes
<1>3. Uncredited \in SUBSET Leaves
  BY DEF Uncredited, TypeOK, DataTypes, LocalTypes, LocalInv, EmitterLocal
<1>4. SumSize(Range(backlog)) \in Nat /\ SumSize(Debits) \in Nat /\ SumSize(Uncredited) \in Nat
  BY <1>1, <1>2, <1>3, SizeNat
<1> QED BY <1>1, <1>2, <1>3, <1>4 DEF Work

\* A step that neither queues, takes, debits nor credits a leaf.
Calm ==
  /\ UNCHANGED <<backlog, popped, queuedWork>>
  /\ \A x \in Emitters : /\ pc'[x] = "credit" <=> pc[x] = "credit"
                         /\ pc[x] = "credit" => item'[x] = item[x]

\* A calm step keeps the counter exact.
LEMMA CalmKeeps ==
  ASSUME WorkInv, Calm
  PROVE  WorkInv'
<1>1. Range(backlog)' = Range(backlog) /\ Debits' = Debits
  BY DEF Calm, Range, Debits
<1>2. Uncredited' = Uncredited
  BY DEF Calm, Uncredited
<1>3. Work' = Work
  BY <1>1, <1>2 DEF Work
<1> QED BY <1>3 DEF WorkInv, Calm

\* A leaf is pushed before it is credited: the counter waits for the credit.
LEMMA PushWork ==
  ASSUME TypeOK, LocalInv, PlacesInv, ItemsInv, WorkInv, NEW e \in Emitters, PushLeaf(e)
  PROVE  WorkInv'
<1>1. pc[e] = "push" /\ UNCHANGED <<queuedWork, popped, item>>
  BY DEF PushLeaf, takeVars, localVars
<1>2. CASE backlog' = backlog /\ Goto(e, "uncount")
  <2>1. Calm
    BY <1>1, <1>2 DEF Calm, Goto, TypeOK, ControlTypes
  <2> QED BY <2>1, CalmKeeps
<1>3. CASE backlog' = Append(backlog, item[e]) /\ Goto(e, "credit")
  <2> DEFINE l == item[e]
  <2>1. l \in Leaves /\ l \notin Range(backlog) /\ l # NoLeaf
    BY <1>1, CountedFacts, SchedulerAssumption
  <2>2. \A x \in Emitters : pc'[x] = "credit" <=> (x = e \/ pc[x] = "credit")
    BY <1>3, ThreadFacts DEF Goto, TypeOK, ControlTypes
  <2>3. Uncredited' = Uncredited \cup {l}
    BY <1>1, <2>2 DEF Uncredited
  <2>4. l \notin Uncredited
    BY <1>1, <2>1 DEF Uncredited, ItemsInv
  <2>5. Range(backlog)' = Range(backlog) \cup {l}
    <3>1. Range(backlog)' = Range(Append(backlog, l)) /\ backlog \in Seq(Leaves)
      BY <1>3 DEF Range, TypeOK, DataTypes, QueueTypes
    <3> QED BY <2>1, <3>1, RangeAppend
  <2>6. Debits' = Debits
    BY <1>1 DEF Debits
  <2>7. SumSize(Range(backlog) \cup {l}) = SumSize(Range(backlog)) + Size[l] /\ Size[l] \in Nat
    BY <2>1, WorkSets, SizeAdd
  <2>8. SumSize(Uncredited \cup {l}) = SumSize(Uncredited) + Size[l]
    BY <2>1, <2>4, WorkSets, SizeAdd
  <2> HIDE DEF l
  <2>9. Work' = SumSize(Range(backlog) \cup {l}) + SumSize(Debits) - SumSize(Uncredited \cup {l})
    BY <2>3, <2>5, <2>6 DEF Work
  <2>10. Work' = Work
    BY <2>7, <2>8, <2>9, WorkSets DEF Work
  <2> QED BY <1>1, <2>10 DEF WorkInv
<1> QED BY <1>2, <1>3 DEF PushLeaf

\* Crediting a leaf adds its work, modulo the word.
LEMMA CreditWork ==
  ASSUME TypeOK, LocalInv, ItemsInv, WorkInv, NEW e \in Emitters, CreditLeaf(e)
  PROVE  WorkInv'
<1> SUFFICES ASSUME WorkTarget # 0 PROVE queuedWork' = Work' % WordMod
  BY SchedulerAssumption DEF WorkInv
<1> DEFINE l == item[e]
<1>1. /\ pc[e] = "credit" /\ UNCHANGED <<backlog, popped>>
      /\ queuedWork' = (queuedWork + Size[l]) % WordMod
      /\ item' = [item EXCEPT ![e] = NoLeaf] /\ Goto(e, "spawnLen")
  BY DEF CreditLeaf, takeVars, Credit
<1>2. l \in Uncredited /\ l # NoLeaf
  BY <1>1 DEF Uncredited, LocalInv, EmitterLocal
<1>3. \A x \in Emitters : /\ pc'[x] = "credit" <=> (x # e /\ pc[x] = "credit")
                          /\ x # e => item'[x] = item[x] /\ item[x] # l
  <2>1. \A x \in Emitters : pc'[x] = "credit" <=> (x # e /\ pc[x] = "credit")
    BY <1>1, ThreadFacts DEF Goto, TypeOK, ControlTypes
  <2>2. \A x \in Emitters : x # e => item'[x] = item[x]
    BY <1>1 DEF TypeOK, DataTypes, LocalTypes
  <2>3. \A x \in Emitters : x # e => item[x] # l
    BY <1>2 DEF ItemsInv
  <2> QED BY <2>1, <2>2, <2>3
<1>4. Uncredited' = Uncredited \ {l}
  BY <1>3 DEF Uncredited
<1>5. Range(backlog)' = Range(backlog) /\ Debits' = Debits
  BY <1>1 DEF Range, Debits
<1>6. /\ SumSize(Uncredited) = SumSize(Uncredited \ {l}) + Size[l]
      /\ Size[l] \in Nat /\ SumSize(Uncredited \ {l}) \in Nat
  BY <1>2, WorkSets, SizeRemove
<1> HIDE DEF l
<1>7. Work' = SumSize(Range(backlog)) + SumSize(Debits) - SumSize(Uncredited \ {l})
  BY <1>4, <1>5 DEF Work
<1>8. Work' = Work + Size[l] /\ Work \in Int
  BY <1>6, <1>7, WorkSets DEF Work
<1>9. queuedWork = Work % WordMod /\ WordMod \in Nat \ {0}
  BY SchedulerAssumption DEF WorkInv
<1>10. ((Work % WordMod) + Size[l]) % WordMod = (Work + Size[l]) % WordMod
  <2>1. Size[l] \in Int
    BY <1>6
  <2> QED BY <1>8, <1>9, <2>1, ModAdd, Zenon
<1> QED BY <1>1, <1>8, <1>9, <1>10 DEF l

\* A pop moves a leaf from the queue to the leaves to be debited.
LEMMA PopWork ==
  ASSUME TypeOK, LocalInv, PlacesInv, WorkInv, NEW t \in Threads, backlog # <<>>, popped[t] = NoLeaf,
         backlog' = Tail(backlog), popped' = [popped EXCEPT ![t] = Head(backlog)],
         UNCHANGED <<queuedWork, item>>,
         \A x \in Emitters : pc'[x] = "credit" <=> pc[x] = "credit"
  PROVE  WorkInv'
<1> DEFINE l == Head(backlog)
<1>1. backlog \in Seq(Leaves) /\ l \in Range(backlog) /\ Range(Tail(backlog)) = Range(backlog) \ {l}
  BY RangeTail DEF TypeOK, DataTypes, QueueTypes, PlacesInv, NoDuplicates
<1>2. l \in Leaves /\ l # NoLeaf
  BY <1>1, WorkSets, SchedulerAssumption
<1>3. l \notin Debits
  <2>1. \A x \in Threads : popped[x] # NoLeaf => popped[x] \in batch[x]
    BY DEF LocalInv, BatchLocal
  <2>2. \A x \in Threads : l \notin batch[x]
    BY <1>1 DEF PlacesInv, Apart
  <2> QED BY <1>2, <2>1, <2>2 DEF Debits
<1>4. Debits' = Debits \cup {l}
  <2>1. popped \in [Threads -> Leaves \cup {NoLeaf}]
    BY DEF TypeOK, DataTypes, TakeTypes
  <2>2. \A x \in Threads : popped'[x] = IF x = t THEN l ELSE popped[x]
    BY <2>1
  <2> HIDE DEF l
  <2> QED BY <1>2, <2>2 DEF Debits
<1>5. Range(backlog)' = Range(backlog) \ {l}
  <2>1. Range(backlog)' = Range(Tail(backlog))
    BY DEF Range
  <2> QED BY <1>1, <2>1
<1>6. Uncredited' = Uncredited
  BY DEF Uncredited
<1>7. /\ SumSize(Range(backlog)) = SumSize(Range(backlog) \ {l}) + Size[l]
      /\ Size[l] \in Nat /\ SumSize(Range(backlog) \ {l}) \in Nat
  BY <1>1, WorkSets, SizeRemove
<1>8. SumSize(Debits \cup {l}) = SumSize(Debits) + Size[l]
  BY <1>2, <1>3, WorkSets, SizeAdd
<1> HIDE DEF l
<1>9. Work' = SumSize(Range(backlog) \ {l}) + SumSize(Debits \cup {l}) - SumSize(Uncredited)
  BY <1>4, <1>5, <1>6 DEF Work
<1>10. Work' = Work
  BY <1>7, <1>8, <1>9, WorkSets DEF Work
<1> QED BY <1>10 DEF WorkInv

\* Debiting a popped leaf takes its work away, modulo the word.
LEMMA DebitWork ==
  ASSUME TypeOK, LocalInv, PlacesInv, WorkInv, NEW t \in Threads, popped[t] # NoLeaf,
         UNCHANGED <<backlog, item>>, popped' = [popped EXCEPT ![t] = NoLeaf],
         queuedWork' = Debit(queuedWork, popped[t]),
         \A x \in Emitters : pc'[x] = "credit" <=> pc[x] = "credit"
  PROVE  WorkInv'
<1> SUFFICES ASSUME WorkTarget # 0 PROVE queuedWork' = Work' % WordMod
  BY SchedulerAssumption DEF WorkInv
<1> DEFINE l == popped[t]
<1>1. l \in Debits
  BY DEF Debits
<1>2. \A x \in Threads : popped[x] = l => x = t
  <2>1. \A x \in Threads : popped[x] # NoLeaf => popped[x] \in batch[x]
    BY DEF LocalInv, BatchLocal
  <2> QED BY <2>1 DEF PlacesInv, Apart
<1>3. Debits' = Debits \ {l}
  <2>1. popped \in [Threads -> Leaves \cup {NoLeaf}]
    BY DEF TypeOK, DataTypes, TakeTypes
  <2>2. \A x \in Threads : popped'[x] = IF x = t THEN NoLeaf ELSE popped[x]
    BY <2>1
  <2> QED BY <1>2, <2>2 DEF Debits
<1>4. Range(backlog)' = Range(backlog) /\ Uncredited' = Uncredited
  BY DEF Range, Uncredited
<1>5. /\ SumSize(Debits) = SumSize(Debits \ {l}) + Size[l]
      /\ Size[l] \in Nat /\ SumSize(Debits \ {l}) \in Nat
  BY <1>1, WorkSets, SizeRemove
<1>6. queuedWork' = (queuedWork - Size[l]) % WordMod
  BY DEF Debit
<1> HIDE DEF l
<1>7. Work' = SumSize(Range(backlog)) + SumSize(Debits \ {l}) - SumSize(Uncredited)
  BY <1>3, <1>4 DEF Work
<1>8. Work' = Work + (0 - Size[l]) /\ Work \in Int /\ 0 - Size[l] \in Int
  BY <1>5, <1>7, WorkSets DEF Work
<1>9. queuedWork = Work % WordMod /\ WordMod \in Nat \ {0} /\ queuedWork \in Int
  BY SchedulerAssumption DEF WorkInv, TypeOK, DataTypes, QueueTypes
<1>10. queuedWork - Size[l] = queuedWork + (0 - Size[l])
  BY <1>5, <1>9
<1> QED BY <1>6, <1>8, <1>9, <1>10, ModAdd, ZenonT(40)

\* The steps of the scheduler that queue, take, debit or credit a leaf.
QueueStep ==
  \/ \E e \in Emitters : PushLeaf(e) \/ CreditLeaf(e)
  \/ \E t \in Threads : TakeLeaf(t) \/ DebitLeaf(t)
  \/ DiscardPop
  \/ DiscardDrop

\* Every other step is calm.
LEMMA CalmSteps ==
  ASSUME TypeOK, LocalInv, [Next]_vars, ~QueueStep
  PROVE  Calm
<1> DEFINE T == /\ pc \in [Threads -> EmitterPCs \cup DrainerPCs \cup MainPCs]
                /\ item \in [Emitters -> Leaves \cup {NoLeaf}]
                /\ \A x \in Emitters : x \in Threads
                /\ \A x \in Drainers : x \in Threads
                /\ Main \in Threads
<1>0. T
  BY ThreadFacts DEF TypeOK, DataTypes, LocalTypes, ControlTypes
<1>1. ASSUME NEW e \in Emitters, ProducerBranchEnds(e) PROVE Calm
  BY <1>1, <1>0 DEF Calm, ProducerBranchEnds, Goto, queueVars, takeVars, localVars, EmitterReturns
<1>2. ASSUME NEW e \in Emitters, EmitterUnwound(e) PROVE Calm
  BY <1>2, <1>0 DEF Calm, EmitterUnwound, Goto, queueVars, takeVars, localVars
<1>3. ASSUME NEW e \in Emitters, CountLeaf(e) PROVE Calm
  BY <1>3, <1>0 DEF Calm, CountLeaf, Goto, queueVars, takeVars, localVars
<1>4. ASSUME NEW e \in Emitters, UncountLeaf(e) PROVE Calm
  BY <1>4, <1>0 DEF Calm, UncountLeaf, Goto, queueVars, takeVars, localVars
<1>5. ASSUME NEW e \in Emitters, SoftLimitWait(e) PROVE Calm
  BY <1>5, <1>0 DEF Calm, SoftLimitWait, Goto, queueVars, takeVars, localVars, EmitterReturns
<1>6. ASSUME NEW e \in Emitters, CreditWait(e) PROVE Calm
  BY <1>6, <1>0 DEF Calm, CreditWait, Goto, queueVars, takeVars, localVars, EmitterReturns
<1>7. ASSUME NEW e \in Emitters, FinishLeafDrainerLimit(e) PROVE Calm
  BY <1>7, <1>0 DEF Calm, FinishLeafDrainerLimit, Goto, queueVars, takeVars, localVars
<1>8. ASSUME NEW e \in Emitters, BeginLargeAssignment(e) PROVE Calm
  BY <1>8, <1>0 DEF Calm, BeginLargeAssignment, Goto, queueVars, takeVars, localVars
<1>9. ASSUME NEW e \in Emitters, FinishLargeAssignment(e) PROVE Calm
  BY <1>9, <1>0 DEF Calm, FinishLargeAssignment, Goto, queueVars, takeVars, localVars
<1>10. ASSUME NEW e \in Emitters, NEW l \in Leaves, NEW m \in {"emitted", "deferred"}, EmitLeaf(e, l, m)
      PROVE  Calm
  BY <1>10, <1>0 DEF Calm, EmitLeaf, Goto, queueVars, takeVars, localVars, EmitterReturns
<1>11. ASSUME NEW e \in Emitters, NEW l \in Leaves, EmitLeafInline(e, l) PROVE Calm
  BY <1>11, <1>0 DEF Calm, EmitLeafInline, Goto, queueVars, takeVars, localVars, EmitterReturns
<1>12. ASSUME NEW e \in Emitters, NEW p \in LimitPairs, BeginLeafDrainerLimit(e, p) PROVE Calm
  BY <1>12, <1>0 DEF Calm, BeginLeafDrainerLimit, queueVars, takeVars, localVars
<1>13. ASSUME NEW t \in Threads, SpawnReadBacklog(t) PROVE Calm
  <2>1. AfterSpawn(t) # "credit"
    BY AfterSpawnLabel
  <2> QED BY <1>13, <2>1, <1>0 DEF Calm, SpawnReadBacklog, Goto, queueVars, takeVars, localVars
<1>14. ASSUME NEW t \in Threads, SpawnReadActive(t) PROVE Calm
  <2>1. AfterSpawn(t) # "credit"
    BY AfterSpawnLabel
  <2> QED BY <1>14, <2>1, <1>0 DEF Calm, SpawnReadActive, Goto, queueVars, takeVars, localVars
<1>15. ASSUME NEW t \in Threads, SpawnCas(t) PROVE Calm
  BY <1>15, <1>0 DEF Calm, SpawnCas, Goto, queueVars, takeVars, localVars
<1>16. ASSUME NEW t \in Threads, AcquireHydrationSlot(t) PROVE Calm
  BY <1>16, <1>0 DEF Calm, AcquireHydrationSlot, Goto, queueVars, takeVars, localVars, BatchFails
<1>17. ASSUME NEW t \in Threads, Hydrate(t) PROVE Calm
  BY <1>17, <1>0 DEF Calm, Hydrate, Goto, queueVars, takeVars, localVars, BatchFails
<1>18. ASSUME NEW t \in Threads, BuildBatch(t) PROVE Calm
  BY <1>18, <1>0 DEF Calm, BuildBatch, Goto, queueVars, takeVars, localVars
<1>19. ASSUME NEW t \in Threads, FinishLeafExecution(t) PROVE Calm
  BY <1>19, <1>0 DEF Calm, FinishLeafExecution, Goto, queueVars, takeVars, localVars
<1>20. ASSUME NEW t \in Threads, HelperReturns(t) PROVE Calm
  <2>1. AfterHelp(t) # "credit" /\ pc[t] = "finish"
    BY <1>20, AfterHelpLabel, RoleFacts DEF HelperReturns
  <2>2. \E l : l # "credit" /\ Goto(t, l)
    BY <1>20, <2>1 DEF HelperReturns, EmitterReturns
  <2>3. item' = item \/ (t \in Emitters /\ item' = [item EXCEPT ![t] = NoLeaf])
    BY <1>20 DEF HelperReturns
  <2>4. UNCHANGED <<backlog, popped, queuedWork>>
    BY <1>20 DEF HelperReturns, queueVars, takeVars
  <2> QED BY <2>1, <2>2, <2>3, <2>4, <1>0 DEF Calm, Goto
<1>21. ASSUME NEW d \in Drainers, StartDrainer(d) PROVE Calm
  BY <1>21, <1>0, RoleFacts DEF Calm, StartDrainer, Goto, queueVars, takeVars, localVars
<1>22. ASSUME NEW d \in Drainers, DrainerChecks(d) PROVE Calm
  BY <1>22, <1>0, RoleFacts DEF Calm, DrainerChecks, Goto, queueVars, takeVars, localVars
<1>23. ASSUME NEW d \in Drainers, DrainerReadsActive(d) PROVE Calm
  BY <1>23, <1>0, RoleFacts DEF Calm, DrainerReadsActive, Goto, queueVars, takeVars, localVars
<1>24. ASSUME NEW d \in Drainers, ReserveRetirement(d) PROVE Calm
  BY <1>24, <1>0, RoleFacts DEF Calm, ReserveRetirement, Goto, queueVars, takeVars, localVars
<1>25. ASSUME NEW d \in Drainers, DrainerBatchDone(d) PROVE Calm
  BY <1>25, <1>0, RoleFacts DEF Calm, DrainerBatchDone, Goto, queueVars, takeVars, localVars
<1>26. ASSUME NEW d \in Drainers, RecordError(d) PROVE Calm
  BY <1>26, <1>0, RoleFacts DEF Calm, RecordError, Goto, queueVars, takeVars, localVars
<1>27. ASSUME NEW d \in Drainers, DrainerUnreserves(d) PROVE Calm
  BY <1>27, <1>0, RoleFacts DEF Calm, DrainerUnreserves, Goto, queueVars, takeVars, localVars
<1>28. ASSUME NEW d \in Drainers, DrainerLeaves(d) PROVE Calm
  BY <1>28, <1>0, RoleFacts DEF Calm, DrainerLeaves, Goto, queueVars, takeVars, localVars
<1>29. CASE ProducerReturns
  BY <1>29, <1>0, RoleFacts DEF Calm, ProducerReturns, Goto, queueVars, takeVars, localVars
<1>30. CASE WaitUntilIdle
  BY <1>30, <1>0, RoleFacts DEF Calm, WaitUntilIdle, Goto, queueVars, takeVars, localVars
<1>31. CASE FinalCheck
  BY <1>31, <1>0, RoleFacts DEF Calm, FinalCheck, Goto, queueVars, takeVars, localVars
<1>32. CASE ScopeReturns
  BY <1>32, <1>0, RoleFacts DEF Calm, ScopeReturns, Goto, queueVars, takeVars, localVars
<1>33. CASE UNCHANGED vars
  BY <1>33 DEF Calm, vars, queueVars, takeVars, localVars
<1> QED
  BY <1>1, <1>2, <1>3, <1>4, <1>5, <1>6, <1>7, <1>8, <1>9, <1>10, <1>11, <1>12, <1>13, <1>14, <1>15, <1>16, <1>17, <1>18, <1>19, <1>20, <1>21, <1>22, <1>23, <1>24, <1>25, <1>26, <1>27, <1>28, <1>29, <1>30, <1>31, <1>32, <1>33
  DEF Next, EmitterStep, GuardStep, WorkStep, DrainerStep, MainStep, Done, QueueStep

\* Every step keeps the work counter exact, modulo its word.
LEMMA WorkInvStep ==
  ASSUME TypeOK, LocalInv, PlacesInv, ItemsInv, WorkInv, [Next]_vars
  PROVE  WorkInv'
<1>1. CASE ~QueueStep
  BY <1>1, CalmSteps, CalmKeeps
<1>2. ASSUME NEW e \in Emitters, PushLeaf(e) PROVE WorkInv'
  BY <1>2, PushWork
<1>3. ASSUME NEW e \in Emitters, CreditLeaf(e) PROVE WorkInv'
  BY <1>3, CreditWork
<1>4. ASSUME NEW t \in Threads, TakeLeaf(t) PROVE WorkInv'
  <2>1. /\ pc[t] = "take" /\ popped[t] = NoLeaf /\ UNCHANGED <<queuedWork, item>>
    BY <1>4 DEF TakeLeaf, localVars, LocalInv, BatchLocal
  <2>2. \E l : l # "credit" /\ Goto(t, l)
    <3>1. t \notin Drainers => AfterHelp(t) # "credit"
      BY <2>1, AfterHelpLabel, RoleFacts
    <3>2. AfterNothing(t) # "credit" /\ RunBatch(batch[t]) # "credit"
      BY <3>1 DEF AfterNothing, RunBatch
    <3> QED BY <1>4, <3>2 DEF TakeLeaf
  <2>3. \A x \in Emitters : pc'[x] = "credit" <=> pc[x] = "credit"
    BY <2>1, <2>2, ThreadFacts DEF Goto, TypeOK, ControlTypes
  <2>4. CASE backlog = <<>>
    <3>1. UNCHANGED <<backlog, popped>>
      BY <1>4, <2>4 DEF TakeLeaf
    <3> QED BY <2>1, <2>3, <3>1, CalmKeeps DEF Calm
  <2>5. CASE backlog # <<>>
    <3>1. backlog' = Tail(backlog) /\ popped' = [popped EXCEPT ![t] = Head(backlog)]
      BY <1>4, <2>5 DEF TakeLeaf
    <3> QED BY <2>1, <2>3, <2>5, <3>1, PopWork
  <2> QED BY <2>4, <2>5
<1>5. ASSUME NEW t \in Threads, DebitLeaf(t) PROVE WorkInv'
  <2>1. /\ pc[t] = "debit" /\ popped[t] # NoLeaf /\ UNCHANGED <<backlog, item>>
        /\ queuedWork' = Debit(queuedWork, popped[t]) /\ popped' = [popped EXCEPT ![t] = NoLeaf]
    BY <1>5 DEF DebitLeaf, localVars, LocalInv, BatchLocal
  <2>2. \E l : l # "credit" /\ Goto(t, l)
    BY <1>5 DEF DebitLeaf, RunBatch
  <2>3. \A x \in Emitters : pc'[x] = "credit" <=> pc[x] = "credit"
    BY <2>1, <2>2, ThreadFacts DEF Goto, TypeOK, ControlTypes
  <2> QED BY <2>1, <2>3, DebitWork
<1>6. CASE DiscardPop
  <2>1. /\ pc[Main] = "discard" /\ popped[Main] = NoLeaf /\ UNCHANGED <<queuedWork, item>>
    BY <1>6, ThreadFacts DEF DiscardPop, localVars, LocalInv, BatchLocal
  <2>2. \A x \in Emitters : pc'[x] = "credit" <=> pc[x] = "credit"
    BY <1>6, ThreadFacts, RoleFacts DEF DiscardPop, Goto, TypeOK, ControlTypes
  <2>3. CASE backlog = <<>>
    <3>1. UNCHANGED <<backlog, popped>>
      BY <1>6, <2>3 DEF DiscardPop
    <3> QED BY <2>1, <2>2, <3>1, CalmKeeps DEF Calm
  <2>4. CASE backlog # <<>>
    <3>1. backlog' = Tail(backlog) /\ popped' = [popped EXCEPT ![Main] = Head(backlog)]
      BY <1>6, <2>4 DEF DiscardPop
    <3> QED BY <2>1, <2>2, <2>4, <3>1, PopWork, ThreadFacts
  <2> QED BY <2>3, <2>4
<1>7. CASE DiscardDrop
  <2>1. /\ pc[Main] = "drop" /\ popped[Main] # NoLeaf /\ UNCHANGED <<backlog, item>>
        /\ queuedWork' = Debit(queuedWork, popped[Main]) /\ popped' = [popped EXCEPT ![Main] = NoLeaf]
    BY <1>7, ThreadFacts DEF DiscardDrop, localVars, LocalInv, BatchLocal
  <2>2. \A x \in Emitters : pc'[x] = "credit" <=> pc[x] = "credit"
    BY <1>7, ThreadFacts, RoleFacts DEF DiscardDrop, Goto, TypeOK, ControlTypes
  <2> QED BY <2>1, <2>2, DebitWork, ThreadFacts
<1> QED BY <1>1, <1>2, <1>3, <1>4, <1>5, <1>6, <1>7 DEF QueueStep

-----------------------------------------------------------------------------
(* No stranded backlog.                                                    *)

\* leaf_worker_limit_for_backlog wants a drainer for any backlog at all.
LEMMA LimitPositive ==
  ASSUME TypeOK, NEW b \in Nat \ {0}
  PROVE  LeafWorkerLimit(b) >= 1
<1>1. WorkerCapacity \in Nat \ {0} /\ BacklogCapacity \in Nat
  BY SchedulerAssumption
<1>2. /\ LeafDrainerLimit \in 0..WorkerCapacity
      /\ BackpressureLimit \in 0..WorkerCapacity
  BY LimitTypes
<1> DEFINE limit == EffectiveLeafDrainerLimit(b)
           assigned == IF largeAssignments > 0 THEN Min({WorkerCapacity, 2})
                                               ELSE WorkerCapacity
           cap == IF limit = 0 THEN assigned ELSE Min({assigned, limit})
<1>3. limit \in Nat
  <2> DEFINE m == Min({BackpressureLimit, WorkerCapacity})
  <2>1. m \in Nat
    BY <1>1, <1>2, MinOfTwo
  <2>2. Max({m, 1}) \in Nat
    <3> HIDE DEF m
    <3> QED BY <2>1, MaxOfTwo
  <2> QED BY <1>1, <1>2, <2>2 DEF EffectiveLeafDrainerLimit
<1>4. assigned \in Nat /\ assigned >= 1
  BY <1>1, MinOfTwo
<1>5. cap \in Nat /\ cap >= 1
  <2> HIDE DEF assigned, limit
  <2>1. Min({assigned, limit}) = IF assigned <= limit THEN assigned ELSE limit
    BY <1>3, <1>4, MinOfTwo
  <2> QED BY <1>3, <1>4, <2>1
<1>6. LeafWorkerLimit(b) = Min({b, cap})
  BY DEF LeafWorkerLimit
<1> HIDE DEF cap
<1> QED BY <1>5, <1>6, MinOfTwo

\* Where a thread is about to look whether to spawn a drainer.
Spawning == {"credit", "spawnLen", "spawnActive", "spawnCas"}

\* A thread that decides on a drainer saw a leaf in the backlog.
SpawnSeen == \A t \in Threads : pc[t] = "spawnActive" => seen[t] # 0

\* A step that queues no leaf, and after which whoever was to bring a drainer
\* still is.
Steady ==
  /\ backlog' # <<>> => backlog # <<>>
  /\ firstError => firstError'
  /\ leaked' = 0 => leaked = 0
  /\ result' = "running" => result = "running"
  /\ tasks > 0 => tasks' > 0
  /\ \A d \in Drainers : pc[d] # "parked" => pc'[d] # "parked"
  /\ \A t \in Emitters \cup {Main} : pc[t] \in Spawning => pc'[t] \in Spawning

\* A steady step strands no leaf.
LEMMA SteadyKeeps ==
  ASSUME NoStrandedBacklog, Steady
  PROVE  NoStrandedBacklog'
BY DEF NoStrandedBacklog, Steady, Spawning

\* Whoever counts a drainer has one: a task to run or a drainer that is not parked.
LEMMA ActiveDrainer ==
  ASSUME TypeOK, DrainersExact, active > 0, leaked = 0
  PROVE  tasks > 0 \/ \E d \in Drainers : pc[d] \notin Away
<1> SUFFICES ASSUME ~(tasks > 0), ~\E d \in Drainers : pc[d] \notin Away PROVE FALSE
  OBVIOUS
<1>1. Draining = {}
  BY DEF Draining, Away
<1>2. Cardinality(Draining) = 0
  BY <1>1, FS_EmptySet
<1>3. tasks = 0
  BY DEF TypeOK, DataTypes
<1> QED BY <1>2, <1>3 DEF DrainersExact

\* The steps that queue a leaf, start a drainer, or end a look at the backlog.
WatchStep ==
  \/ \E e \in Emitters : PushLeaf(e)
  \/ \E t \in Threads : SpawnReadBacklog(t) \/ SpawnReadActive(t)
  \/ \E d \in Drainers : StartDrainer(d) \/ DrainerBatchDone(d)

\* Every other step is steady, and lets nobody decide on a drainer.
LEMMA SteadySteps ==
  ASSUME TypeOK, LocalInv, [Next]_vars, ~WatchStep
  PROVE  Steady /\ \A x \in Threads : pc'[x] = "spawnActive" => pc[x] = "spawnActive" /\ seen'[x] = seen[x]
<1> DEFINE T == /\ pc \in [Threads -> EmitterPCs \cup DrainerPCs \cup MainPCs]
                /\ seen \in [Threads -> Nat]
                /\ tasks \in Nat
                /\ \A x \in Emitters : x \in Threads
                /\ \A x \in Drainers : x \in Threads
                /\ Main \in Threads
           Idle == \A x \in Threads : pc'[x] = "spawnActive" => pc[x] = "spawnActive" /\ seen'[x] = seen[x]
<1>0. T
  BY ThreadFacts DEF TypeOK, DataTypes, LocalTypes, ControlTypes
<1>1. ASSUME NEW e \in Emitters, ProducerBranchEnds(e) PROVE Steady /\ Idle
  BY <1>1, <1>0, RoleFacts DEF Steady, Spawning, ProducerBranchEnds, Goto, queueVars, drainVars, endVars, localVars, EmitterReturns
<1>2. ASSUME NEW e \in Emitters, EmitterUnwound(e) PROVE Steady /\ Idle
  BY <1>2, <1>0, RoleFacts DEF Steady, Spawning, EmitterUnwound, Goto, queueVars, drainVars, endVars, localVars
<1>3. ASSUME NEW e \in Emitters, CountLeaf(e) PROVE Steady /\ Idle
  BY <1>3, <1>0, RoleFacts DEF Steady, Spawning, CountLeaf, Goto, queueVars, drainVars, endVars, localVars
<1>4. ASSUME NEW e \in Emitters, UncountLeaf(e) PROVE Steady /\ Idle
  BY <1>4, <1>0, RoleFacts DEF Steady, Spawning, UncountLeaf, Goto, queueVars, drainVars, endVars, localVars
<1>5. ASSUME NEW e \in Emitters, CreditLeaf(e) PROVE Steady /\ Idle
  BY <1>5, <1>0, RoleFacts DEF Steady, Spawning, CreditLeaf, Goto, queueVars, drainVars, endVars, localVars
<1>6. ASSUME NEW e \in Emitters, SoftLimitWait(e) PROVE Steady /\ Idle
  BY <1>6, <1>0, RoleFacts DEF Steady, Spawning, SoftLimitWait, Goto, queueVars, drainVars, endVars, localVars, EmitterReturns
<1>7. ASSUME NEW e \in Emitters, CreditWait(e) PROVE Steady /\ Idle
  BY <1>7, <1>0, RoleFacts DEF Steady, Spawning, CreditWait, Goto, queueVars, drainVars, endVars, localVars, EmitterReturns
<1>8. ASSUME NEW e \in Emitters, FinishLeafDrainerLimit(e) PROVE Steady /\ Idle
  BY <1>8, <1>0, RoleFacts DEF Steady, Spawning, FinishLeafDrainerLimit, Goto, queueVars, drainVars, endVars, localVars
<1>9. ASSUME NEW e \in Emitters, BeginLargeAssignment(e) PROVE Steady /\ Idle
  BY <1>9, <1>0, RoleFacts DEF Steady, Spawning, BeginLargeAssignment, Goto, queueVars, drainVars, endVars, localVars
<1>10. ASSUME NEW e \in Emitters, FinishLargeAssignment(e) PROVE Steady /\ Idle
  BY <1>10, <1>0, RoleFacts DEF Steady, Spawning, FinishLargeAssignment, Goto, queueVars, drainVars, endVars, localVars
<1>11. ASSUME NEW e \in Emitters, NEW l \in Leaves, NEW m \in {"emitted", "deferred"}, EmitLeaf(e, l, m)
      PROVE Steady /\ Idle
  BY <1>11, <1>0, RoleFacts DEF Steady, Spawning, EmitLeaf, Goto, queueVars, drainVars, endVars, localVars, EmitterReturns
<1>12. ASSUME NEW e \in Emitters, NEW l \in Leaves, EmitLeafInline(e, l) PROVE Steady /\ Idle
  BY <1>12, <1>0, RoleFacts DEF Steady, Spawning, EmitLeafInline, Goto, queueVars, drainVars, endVars, localVars, EmitterReturns
<1>13. ASSUME NEW e \in Emitters, NEW p \in LimitPairs, BeginLeafDrainerLimit(e, p) PROVE Steady /\ Idle
  BY <1>13, <1>0, RoleFacts DEF Steady, Spawning, BeginLeafDrainerLimit, Goto, queueVars, drainVars, endVars, localVars
<1>14. ASSUME NEW t \in Threads, SpawnCas(t) PROVE Steady /\ Idle
  BY <1>14, <1>0, RoleFacts DEF Steady, Spawning, SpawnCas, Goto, queueVars, drainVars, endVars, localVars
<1>15. ASSUME NEW t \in Threads, TakeLeaf(t) PROVE Steady /\ Idle
  <2>1. pc[t] = "take" /\ (backlog' # <<>> => backlog # <<>>) /\ UNCHANGED <<drainVars, endVars, localVars, firstError>>
    BY <1>15 DEF TakeLeaf
  <2>2. AfterNothing(t) \notin {"parked", "spawnActive"}
    BY <2>1, AfterHelpLabel, RoleFacts DEF AfterNothing
  <2>3. RunBatch(batch[t]) \notin {"parked", "spawnActive"}
    BY DEF RunBatch
  <2>4. \E l : l \notin {"parked", "spawnActive"} /\ Goto(t, l)
    BY <1>15, <2>2, <2>3 DEF TakeLeaf
  <2> QED BY <1>0, <2>1, <2>4, RoleFacts DEF Steady, Spawning, Goto, drainVars, endVars, localVars
<1>16. ASSUME NEW t \in Threads, DebitLeaf(t) PROVE Steady /\ Idle
  BY <1>16, <1>0, RoleFacts DEF Steady, Spawning, DebitLeaf, Goto, queueVars, drainVars, endVars, localVars, RunBatch
<1>17. ASSUME NEW t \in Threads, AcquireHydrationSlot(t) PROVE Steady /\ Idle
  BY <1>17, <1>0, RoleFacts DEF Steady, Spawning, AcquireHydrationSlot, Goto, queueVars, drainVars, endVars, localVars, BatchFails
<1>18. ASSUME NEW t \in Threads, Hydrate(t) PROVE Steady /\ Idle
  BY <1>18, <1>0, RoleFacts DEF Steady, Spawning, Hydrate, Goto, queueVars, drainVars, endVars, localVars, BatchFails
<1>19. ASSUME NEW t \in Threads, BuildBatch(t) PROVE Steady /\ Idle
  BY <1>19, <1>0, RoleFacts DEF Steady, Spawning, BuildBatch, Goto, queueVars, drainVars, endVars, localVars
<1>20. ASSUME NEW t \in Threads, FinishLeafExecution(t) PROVE Steady /\ Idle
  BY <1>20, <1>0, RoleFacts DEF Steady, Spawning, FinishLeafExecution, Goto, queueVars, drainVars, endVars, localVars
<1>21. ASSUME NEW t \in Threads, HelperReturns(t) PROVE Steady /\ Idle
  <2>1. /\ pc[t] = "finish" /\ t \notin Drainers /\ result' \in {result, "err", "panic"}
        /\ UNCHANGED <<queueVars, drainVars, leaked, firstError, seen>>
    BY <1>21 DEF HelperReturns, TypeOK, DataTypes, LocalTypes
  <2>2. AfterHelp(t) # "spawnActive"
    BY <2>1, AfterHelpLabel, RoleFacts
  <2>3. \E l : l # "spawnActive" /\ Goto(t, l)
    BY <1>21, <2>2 DEF HelperReturns, EmitterReturns
  <2> QED BY <1>0, <2>1, <2>3, RoleFacts DEF Steady, Spawning, Goto, queueVars, drainVars
<1>22. ASSUME NEW d \in Drainers, DrainerChecks(d) PROVE Steady /\ Idle
  BY <1>22, <1>0, RoleFacts DEF Steady, Spawning, DrainerChecks, Goto, queueVars, drainVars, endVars, localVars
<1>23. ASSUME NEW d \in Drainers, DrainerReadsActive(d) PROVE Steady /\ Idle
  BY <1>23, <1>0, RoleFacts DEF Steady, Spawning, DrainerReadsActive, Goto, queueVars, drainVars, endVars, localVars
<1>24. ASSUME NEW d \in Drainers, ReserveRetirement(d) PROVE Steady /\ Idle
  BY <1>24, <1>0, RoleFacts DEF Steady, Spawning, ReserveRetirement, Goto, queueVars, drainVars, endVars, localVars
<1>25. ASSUME NEW d \in Drainers, RecordError(d) PROVE Steady /\ Idle
  BY <1>25, <1>0, RoleFacts DEF Steady, Spawning, RecordError, Goto, queueVars, drainVars, endVars, localVars
<1>26. ASSUME NEW d \in Drainers, DrainerUnreserves(d) PROVE Steady /\ Idle
  BY <1>26, <1>0, RoleFacts DEF Steady, Spawning, DrainerUnreserves, Goto, queueVars, drainVars, endVars, localVars
<1>27. ASSUME NEW d \in Drainers, DrainerLeaves(d) PROVE Steady /\ Idle
  BY <1>27, <1>0, RoleFacts DEF Steady, Spawning, DrainerLeaves, Goto, queueVars, drainVars, endVars, localVars
<1>28. ASSUME ProducerReturns PROVE Steady /\ Idle
  BY <1>28, <1>0, RoleFacts DEF Steady, Spawning, ProducerReturns, Goto, queueVars, drainVars, endVars, localVars
<1>29. ASSUME DiscardPop PROVE Steady /\ Idle
  BY <1>29, <1>0, RoleFacts DEF Steady, Spawning, DiscardPop, Goto, queueVars, drainVars, endVars, localVars
<1>30. ASSUME DiscardDrop PROVE Steady /\ Idle
  BY <1>30, <1>0, RoleFacts DEF Steady, Spawning, DiscardDrop, Goto, queueVars, drainVars, endVars, localVars
<1>31. ASSUME WaitUntilIdle PROVE Steady /\ Idle
  BY <1>31, <1>0, RoleFacts DEF Steady, Spawning, WaitUntilIdle, Goto, queueVars, drainVars, endVars, localVars
<1>32. ASSUME FinalCheck PROVE Steady /\ Idle
  BY <1>32, <1>0, RoleFacts DEF Steady, Spawning, FinalCheck, Goto, queueVars, drainVars, endVars, localVars
<1>33. ASSUME ScopeReturns PROVE Steady /\ Idle
  BY <1>33, <1>0, RoleFacts DEF Steady, Spawning, ScopeReturns, Goto, queueVars, drainVars, endVars, localVars
<1>34. ASSUME UNCHANGED vars PROVE Steady /\ Idle
  BY <1>34 DEF Steady, vars, queueVars, drainVars, endVars, localVars
<1> QED
  BY <1>1, <1>2, <1>3, <1>4, <1>5, <1>6, <1>7, <1>8, <1>9, <1>10, <1>11, <1>12, <1>13, <1>14, <1>15, <1>16, <1>17, <1>18, <1>19, <1>20, <1>21, <1>22, <1>23, <1>24, <1>25, <1>26, <1>27, <1>28, <1>29, <1>30, <1>31, <1>32, <1>33, <1>34
  DEF Next, EmitterStep, GuardStep, WorkStep, DrainerStep, MainStep, Done, WatchStep

\* Every step keeps what a spawning thread saw, and strands no leaf.
LEMMA StrandedStep ==
  ASSUME TypeOK, LocalInv, DrainersExact, SpawnSeen, NoStrandedBacklog, [Next]_vars
  PROVE  SpawnSeen' /\ NoStrandedBacklog'
<1> DEFINE Idle == \A x \in Threads : pc'[x] = "spawnActive" => pc[x] = "spawnActive" /\ seen'[x] = seen[x]
<1>0. /\ pc \in [Threads -> EmitterPCs \cup DrainerPCs \cup MainPCs] /\ seen \in [Threads -> Nat]
      /\ tasks \in Nat /\ leaked \in Nat /\ active \in Nat
      /\ \A x \in Emitters : x \in Threads
      /\ \A x \in Drainers : x \in Threads
      /\ Main \in Threads
  BY ThreadFacts DEF TypeOK, DataTypes, LocalTypes, ControlTypes, CounterTypes, EndTypes
<1>1. Idle => SpawnSeen'
  BY DEF SpawnSeen
<1>2. CASE ~WatchStep
  <2>1. Steady /\ Idle
    BY <1>2, SteadySteps
  <2> QED BY <1>1, <2>1, SteadyKeeps
<1>3. ASSUME NEW e \in Emitters, PushLeaf(e) PROVE SpawnSeen' /\ NoStrandedBacklog'
  <2>1. Idle
    BY <1>0, <1>3 DEF PushLeaf, Goto, localVars
  <2>2. CASE backlog' = backlog
    <3>1. Steady
      BY <1>0, <1>3, <2>2, RoleFacts DEF PushLeaf, Goto, Steady, Spawning, drainVars, endVars
    <3> QED BY <1>1, <2>1, <3>1, SteadyKeeps
  <2>3. CASE Goto(e, "credit")
    <3>1. pc'[e] = "credit"
      BY <1>0, <2>3 DEF Goto
    <3> QED BY <1>1, <2>1, <3>1 DEF NoStrandedBacklog
  <2> QED BY <1>3, <2>2, <2>3 DEF PushLeaf
<1>4. ASSUME NEW t \in Threads, SpawnReadBacklog(t) PROVE SpawnSeen' /\ NoStrandedBacklog'
  <2>1. backlog' = backlog /\ pc[t] = "spawnLen" /\ UNCHANGED <<firstError, endVars, tasks>>
    BY <1>4 DEF SpawnReadBacklog, queueVars, drainVars
  <2>2. CASE backlog = <<>>
    <3>1. Idle
      BY <1>0, <1>4, <2>2, AfterSpawnLabel DEF SpawnReadBacklog, Goto
    <3>2. NoStrandedBacklog'
      BY <2>1, <2>2 DEF NoStrandedBacklog
    <3> QED BY <1>1, <3>1, <3>2
  <2>3. CASE backlog # <<>>
    <3>1. Goto(t, "spawnActive") /\ seen' = [seen EXCEPT ![t] = Len(backlog)]
      BY <1>4, <2>3 DEF SpawnReadBacklog
    <3>2. Len(backlog) # 0
      BY <2>3, EmptySeq DEF TypeOK, DataTypes, QueueTypes
    <3>3. SpawnSeen'
      BY <1>0, <3>1, <3>2 DEF SpawnSeen, Goto
    <3>4. Steady
      BY <1>0, <2>1, <3>1, RoleFacts DEF Steady, Spawning, Goto, endVars
    <3> QED BY <3>3, <3>4, SteadyKeeps
  <2> QED BY <2>2, <2>3
<1>5. ASSUME NEW t \in Threads, SpawnReadActive(t) PROVE SpawnSeen' /\ NoStrandedBacklog'
  <2>1. backlog' = backlog /\ pc[t] = "spawnActive" /\ UNCHANGED <<firstError, endVars, tasks>>
    BY <1>5 DEF SpawnReadActive, queueVars, drainVars
  <2>2. Idle
    BY <1>0, <1>5, AfterSpawnLabel DEF SpawnReadActive, Goto
  <2>3. CASE active >= LeafWorkerLimit(seen[t])
    <3>1. seen[t] \in Nat \ {0}
      BY <1>0, <2>1 DEF SpawnSeen
    <3>2. LeafWorkerLimit(seen[t]) >= 1 /\ LeafWorkerLimit(seen[t]) \in Nat
      BY <3>1, LimitPositive, LeafWorkerLimitBound
    <3>3. active > 0
      BY <1>0, <2>3, <3>2
    <3>4. Goto(t, AfterSpawn(t))
      BY <1>5, <2>3 DEF SpawnReadActive
    <3>5. leaked = 0 => tasks' > 0 \/ \E d \in Drainers : pc'[d] # "parked"
      <4>1. leaked = 0 => tasks > 0 \/ \E d \in Drainers : pc[d] \notin Away
        BY <3>3, ActiveDrainer
      <4>2. \A d \in Drainers : pc[d] \notin Away => pc'[d] = pc[d]
        BY <1>0, <2>1, <3>4 DEF Goto, Away
      <4> QED BY <2>1, <4>1, <4>2 DEF Away
    <3>6. NoStrandedBacklog'
      BY <2>1, <3>5 DEF NoStrandedBacklog, endVars
    <3> QED BY <1>1, <2>2, <3>6
  <2>4. CASE ~(active >= LeafWorkerLimit(seen[t]))
    <3>1. Goto(t, "spawnCas")
      BY <1>5, <2>4 DEF SpawnReadActive
    <3>2. Steady
      BY <1>0, <2>1, <3>1, RoleFacts DEF Steady, Spawning, Goto, endVars
    <3> QED BY <1>1, <2>2, <3>2, SteadyKeeps
  <2> QED BY <2>3, <2>4
<1>6. ASSUME NEW d \in Drainers, StartDrainer(d) PROVE SpawnSeen' /\ NoStrandedBacklog'
  <2>1. Idle
    BY <1>0, <1>6 DEF StartDrainer, Goto, localVars
  <2>2. pc'[d] = "check"
    BY <1>0, <1>6 DEF StartDrainer, Goto
  <2>3. NoStrandedBacklog'
    BY <2>2 DEF NoStrandedBacklog
  <2> QED BY <1>1, <2>1, <2>3
<1>7. ASSUME NEW d \in Drainers, DrainerBatchDone(d) PROVE SpawnSeen' /\ NoStrandedBacklog'
  <2>1. pc[d] = "finish" /\ UNCHANGED <<backlog, firstError, result, tasks>>
    BY <1>7 DEF DrainerBatchDone, queueVars, drainVars
  <2>2. Idle
    BY <1>0, <1>7 DEF DrainerBatchDone, Goto, AfterHelp
  <2>3. CASE leaked' = leaked + 1
    BY <1>0, <1>1, <2>2, <2>3 DEF NoStrandedBacklog
  <2>4. CASE leaked' = leaked /\ (Goto(d, "check") \/ Goto(d, "record"))
    <3>1. Steady
      BY <1>0, <2>1, <2>4, RoleFacts DEF Steady, Spawning, Goto
    <3> QED BY <1>1, <2>2, <3>1, SteadyKeeps
  <2>5. AfterHelp(d) = "check"
    BY <1>0, <2>1, AfterHelpLabel
  <2> QED BY <1>7, <2>3, <2>4, <2>5 DEF DrainerBatchDone
<1> QED BY <1>2, <1>3, <1>4, <1>5, <1>6, <1>7 DEF WatchStep

-----------------------------------------------------------------------------
(* The theorems.                                                           *)

WInv == ItemsInv /\ WorkInv /\ SpawnSeen /\ NoStrandedBacklog

\* WInv holds when the scope starts.
LEMMA InitWInv == Init => WInv
<1> SUFFICES ASSUME Init PROVE WInv
  OBVIOUS
<1>1. /\ backlog = <<>> /\ queuedWork = 0
      /\ \A e \in Emitters : item[e] = NoLeaf /\ pc[e] = "produce"
      /\ \A t \in Threads : popped[t] = NoLeaf /\ pc[t] # "spawnActive"
  <2>1. backlog = <<>> /\ queuedWork = 0 /\ \A t \in Threads : popped[t] = NoLeaf
    BY DEF Init
  <2>2. \A e \in Emitters : item[e] = NoLeaf /\ pc[e] = "produce"
    BY ThreadFacts, RoleFacts DEF Init
  <2>3. \A t \in Threads : pc[t] \in {"produce", "parked", "joinProducers"}
    BY DEF Init
  <2> QED BY <2>1, <2>2, <2>3
<1>2. Range(backlog) = {} /\ Debits = {} /\ Uncredited = {}
  BY <1>1 DEF Range, Debits, Uncredited
<1>3. SumSize({}) = 0
  BY SizeSum, SumEmpty
<1>4. Work = 0 /\ 0 % WordMod = 0
  BY <1>2, <1>3, SchedulerAssumption DEF Work
<1> QED BY <1>1, <1>4 DEF WInv, ItemsInv, WorkInv, SpawnSeen, NoStrandedBacklog

\* Together with IInv it is an invariant of the scheduler.
LEMMA WorkInvariance == Spec => [](IInv /\ WInv)
<1>1. IInv /\ WInv /\ [Next]_vars => WInv'
  BY ItemsStep, WorkInvStep, StrandedStep DEF IInv, WInv
<1> QED BY <1>1, InitWInv, Invariance, PTL DEF Spec

\* queued_work_ms is the work of the queued leaves, plus what was popped and not
\* debited, minus what was pushed and not credited, modulo the counter's word -
\* whatever order the drainers' debits and the emitters' credits come in.
THEOREM CreditCorrect == Spec => []CreditExact
<1>1. WInv => CreditExact
  BY DEF WInv, WorkInv, Work, Debits, Uncredited, CreditExact
<1> QED BY <1>1, WorkInvariance, PTL

\* maybe_spawn_leaf_drainer never leaves a queued leaf behind: while nothing
\* failed, a drainer task runs or waits to run, or a thread is about to look.
THEOREM NoneStranded == Spec => []NoStrandedBacklog
<1>1. WInv => NoStrandedBacklog
  BY DEF WInv
<1> QED BY <1>1, WorkInvariance, PTL
=============================================================================
