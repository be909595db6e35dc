------------------------------ MODULE SeqTools ------------------------------
(***************************************************************************)
(* Sorting, selecting and joining sequences, for the models and the proofs *)
(* about them.  Ranked and At take the place of SortSeq and SelectSeq, of  *)
(* which the provers know nothing.                                         *)
(***************************************************************************)
EXTENDS Integers, Sequences, FiniteSets, SequencesExt

Concat(ss) == FoldLeft(LAMBDA a, b : a \o b, <<>>, ss)

\* A finite set in the order that a strict order (a set of pairs) gives it, a set of
\* numbers in ascending order, and the elements of a sequence at a set of positions.
Ranked(S, order) ==
  [k \in 1..Cardinality(S) |-> CHOOSE x \in S : Cardinality({y \in S : <<y, x>> \in order}) = k - 1]
Ascending(S) == Ranked(S, {r \in S \X S : r[1] < r[2]})
At(s, I) == LET pos == Ascending(I) IN [k \in DOMAIN pos |-> s[pos[k]]]
=============================================================================
