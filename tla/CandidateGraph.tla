--------------------------- MODULE CandidateGraph ---------------------------
(***************************************************************************)
(* What a graph build promises, whatever it keeps in memory and whatever   *)
(* it spills: workers offer candidate edges, then the rows of all points   *)
(* are delivered in point order, each exactly once, and the row of a point *)
(* is made of all the candidates offered for it and of nothing else.  A    *)
(* build may fail at any step, and a crashed process starts over.          *)
(***************************************************************************)
EXTENDS Integers, Sequences, FiniteSets

CONSTANTS
  NumPoints,  \* points are 0..NumPoints - 1
  Candidates  \* the edges [p, c] that leaves can offer

VARIABLES
  offered,    \* the candidates offered so far
  rows,       \* rows delivered to on_node_done: rows[k] is the set for point k - 1
  outcome     \* "building", "ok" or "failed"

vars == <<offered, rows, outcome>>

RowOf(p) == {e \in offered : e.p = p}

Init ==
  /\ offered = {}
  /\ rows = <<>>
  /\ outcome = "building"

Offer ==
  /\ outcome = "building" /\ rows = <<>>
  /\ offered' \in SUBSET Candidates /\ offered \subseteq offered'
  /\ UNCHANGED <<rows, outcome>>

\* The rows of the next n points.
Deliver(n) ==
  /\ outcome = "building" /\ Len(rows) + n <= NumPoints
  /\ rows' = rows \o [k \in 1..n |-> RowOf(Len(rows) + k - 1)]
  /\ UNCHANGED <<offered, outcome>>

Succeed ==
  /\ outcome = "building" /\ Len(rows) = NumPoints
  /\ outcome' = "ok"
  /\ UNCHANGED <<offered, rows>>

Fail ==
  /\ outcome = "building"
  /\ outcome' = "failed"
  /\ UNCHANGED <<offered, rows>>

Restart ==
  /\ offered' = {}
  /\ rows' = <<>>
  /\ outcome' = "building"

Next ==
  \/ Offer
  \/ \E n \in 1..NumPoints : Deliver(n)
  \/ Succeed \/ Fail \/ Restart

Spec == Init /\ [][Next]_vars
=============================================================================
