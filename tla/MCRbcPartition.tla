--------------------------- MODULE MCRbcPartition ---------------------------
\* Two parameter sets over four points.
EXTENDS RbcPartition

FourPoints == <<1, 2, 3, 4>>

\* "a": the root cuts the runs 1 2 3 and 1 3 and the leaf 4; L2, so they are
\* scanned together, and a store without prefetching.
\* "b": the runs 1 2 3 and 2 3 4 and the leaf 1 under another metric, split
\* by two threads that share the prefetch gate; small clusters are merged.
TwoKeys ==
  [a |-> [cmin |-> 1, cmax |-> 1, l2 |-> TRUE, fanout |-> 2, prefetch |-> "off", leaders |-> 3,
          recs |-> <<<<1, 2>>, <<1>>, <<2, 1>>, <<3>>>>],
   b |-> [cmin |-> 2, cmax |-> 2, l2 |-> FALSE, fanout |-> 3, prefetch |-> "strict", leaders |-> 3,
          recs |-> <<<<3, 1>>, <<1, 2>>, <<2, 1>>, <<2>>>>]]

\* "a": the root cuts the runs 1 2 3 and 1 3 4, so that the next level may have two
\* runs to split, of which adaptive sampling may take one.
WideKey ==
  [a |-> [cmin |-> 1, cmax |-> 1, l2 |-> TRUE, fanout |-> 2, prefetch |-> "off", leaders |-> 2,
          recs |-> <<<<1, 2>>, <<1>>, <<2, 1>>, <<2>>>>]]

\* All points to one leader, the first one apart, each apart, or the last one shared.
\* The run 1 3 has only the last choice, so that the level below may have two runs.
FewAssignments(pts, fanout) ==
  LET n == Len(pts)
      one == [leaders |-> fanout, fanout |-> 1, recs |-> [i \in 1..n |-> <<1>>]]
      first == [leaders |-> 2, fanout |-> 1, recs |-> [i \in 1..n |-> IF i = 1 THEN <<2>> ELSE <<1>>]]
      each == [leaders |-> n, fanout |-> 1, recs |-> [i \in 1..n |-> <<i>>]]
      shared == [leaders |-> 2, fanout |-> 2, recs |-> [i \in 1..n |-> IF i = n THEN <<2, 1>> ELSE <<1>>]]
  IN CASE fanout = 3 -> {one, each}
       [] fanout = 2 /\ pts = <<1, 3>> -> {shared}
       [] OTHER -> {one, first} \cup (IF n < 3 THEN {} ELSE {shared})
=============================================================================
