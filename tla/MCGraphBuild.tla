---------------------------- MODULE MCGraphBuild ----------------------------
\* Five points in shards of two, two data sets of two leaf batches each.
EXTENDS GraphBuild

\* The two edges a leaf makes of c among the nearest of p.
Near(p, c) == << [p |-> p, c |-> c, direct |-> TRUE], [p |-> c, c |-> p, direct |-> FALSE] >>

\* Data set 1 has no edge in the middle shard, data set 2 none in the last.
TwoDataSets == <<
  << Near(0, 1) \o Near(4, 0), Near(1, 4) >>,
  << Near(3, 1) \o Near(2, 0), Near(0, 1) \o Near(3, 0) >> >>

\* Points on a line: squared distances.
Line == [p \in 0..4 |-> [q \in 0..4 |-> (p - q) * (p - q)]]

Config(mode, oom, resident, par, keep, hint, clash, leaves) ==
  [mode |-> mode, oom |-> oom, resident |-> resident, par |-> par, keep |-> keep,
   hint |-> hint, clash |-> clash, leaves |-> leaves]

AllConfigs == {
  Config("direct", TRUE, 0, 2, FALSE, -1, FALSE, 1),
  Config("direct", TRUE, 1, 2, TRUE, 4, FALSE, 1),
  Config("direct", FALSE, 0, 1, FALSE, 5, FALSE, 1),
  Config("final", TRUE, 0, 1, FALSE, -1, FALSE, 2),
  Config("final", TRUE, 3, 2, FALSE, 5, FALSE, 2),
  Config("final", FALSE, 0, 1, FALSE, -1, TRUE, 2),
  Config("spine", TRUE, 1, 1, FALSE, 0, FALSE, 1),
  Config("oracle", TRUE, 5, 1, FALSE, -1, FALSE, 2),
  Config("lune_spill", TRUE, 0, 1, FALSE, -1, FALSE, 1),
  Config("lune_memory", TRUE, 2, 1, FALSE, 2, FALSE, 2) }
=============================================================================
