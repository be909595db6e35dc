------------------------- MODULE MCLeafScheduler -------------------------
(* Instances of LeafScheduler for TLC.                                     *)
EXTENDS LeafScheduler, TLC

CONSTANTS l1, l2, l3, l4

\* l1 is a two-point leaf, the others have one point.
MCSize == (l1 :> 2) @@ [l \in Leaves \ {l1} |-> 1]
MCLimitPairs == {<<1, 2>>}
NoPairs == {}
MCSymmetry == Permutations(Emitters) \cup Permutations(Drainers)

\* A bound on the steps with more than two leaves, chosen so that threads compete for the
\* hydration slot.  The leaves l3 and l4, which are alike, are emitted in this order, while
\* a thread hydrates l1 and l2 and nothing has failed; from l3 on hydrations may fail, and
\* builds and emitters only for an error that is recorded.
Hydrates(t) == pc[t] = "hydrating" /\ batch[t] = {l1, l2}
FurtherLeaves == {l3, l4} \ fresh'
SlotContention ==
  /\ FurtherLeaves \cap fresh # {} =>
       /\ l3 \in FurtherLeaves /\ \E t \in Threads : Hydrates(t)
       /\ failed = {} /\ ~firstError /\ \A e \in Emitters : res[e] = "ok"
  /\ {l3, l4} \ fresh # {} =>
       /\ \A e \in Emitters : pc[e] = "produce" => res'[e] = "ok"
       /\ \A t \in Threads :
            pc[t] = "build" /\ pc'[t] = "finish" /\ ~firstError => failed' = failed
=============================================================================
