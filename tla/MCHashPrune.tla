---------------------------- MODULE MCHashPrune ----------------------------
\* Small sets of candidates for TLC.
EXTENDS HashPrune

\* Every target is offered with one distance of its own; two buckets.
OneOffer == {[target |-> t, dist |-> t] : t \in 1..4}
TwoBuckets == [t \in 1..4 |-> (t + 1) \div 2]
=============================================================================
