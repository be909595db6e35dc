---------------------------- MODULE ResidentPlan ----------------------------
(***************************************************************************)
(* How the first recursion level decides which child runs are worked on    *)
(* from memory (rbc_partition/child_run_io.rs): the budgets of the         *)
(* resident subtrees, the whole-scope group, and the greedy grouping of    *)
(* runs.  A run is the sequence of its point ids; sizes are in bytes as    *)
(* the code counts them, ratios in percent.                                *)
(***************************************************************************)
EXTENDS Integers, Sequences, FiniteSets, SequencesExt, FiniteSetsExt

CONSTANT AccessorBytes      \* size_of::<ResidentSubsetSketchAccessor>()

ASSUME AccessorAssumption == AccessorBytes \in Nat

Unset == -1                 \* an environment variable that is not set
AtLeast1(n) == Max({n, 1})
OrElse(v, default) == IF v = Unset THEN default ELSE v
Clamp(v, lo, hi) == Max({lo, Min({v, hi})})
CeilDiv(a, b) == (a + b - 1) \div b
PointsOf(runs) == UNION {ToSet(runs[i]) : i \in DOMAIN runs}
Total(runs) == FoldSeq(LAMBDA r, n : n + Len(r), 0, runs)

VectorBytes(dim, n) == AtLeast1(n) * AtLeast1(dim) * 4
EstimatedBytes(dim, n) == VectorBytes(dim, n) + AtLeast1(n) * 4
SketchBytes(width, n) ==
    IF width = 0 THEN 0 ELSE AtLeast1(n) * (width * 4 + 4) + AccessorBytes

\* The configuration, from the parameters and the environment.
ConfigOf(p, env) ==
    LET budget == AtLeast1(OrElse(env.budget, p.memory \div 4))
        leaves == AtLeast1(OrElse(env.minLeaves, 2))
    IN [ enabled |-> p.oom /\ ~env.disable,
         budget |-> budget, budgetSet |-> env.budget # Unset,
         maxRun |-> AtLeast1(OrElse(env.maxRun, budget)),
         maxRunSet |-> env.maxRun # Unset,
         scope |-> AtLeast1(OrElse(env.scope, Max({p.memory, budget}))),
         ratio |-> Clamp(OrElse(env.ratio, 20), 1, 100),
         minPoints |-> AtLeast1(OrElse(env.minPoints, p.cmax + 1)),
         minLeaves |-> leaves,
         maxNative |-> Max({leaves, OrElse(env.maxNative, 1024)}),
         slots |-> IF env.noPipeline THEN 1
                   ELSE Clamp(OrElse(env.slots, 2), 1, 4),
         whole |-> env.requireWhole ]

MaxResidentBytes(c, n, dim) == (n * AtLeast1(dim) * 4 * c.ratio) \div 100

GroupedBudget(c, n, dim) ==
    LET cap == AtLeast1(MaxResidentBytes(c, n, dim))
    IN IF c.budgetSet \/ c.maxRunSet THEN AtLeast1(Min({c.maxRun, cap})) ELSE cap

LimiterBudget(c, n, dim) ==
    IF c.budgetSet THEN c.budget ELSE GroupedBudget(c, n, dim)

PipelinedBudget(c, n, dim) ==
    IF c.slots <= 1 THEN GroupedBudget(c, n, dim)
    ELSE Min({GroupedBudget(c, n, dim),
              Max({AtLeast1(LimiterBudget(c, n, dim)) \div c.slots,
                   EstimatedBytes(dim, 1)})})

\* The part of a total budget left for vectors once sketches ride along.
VectorBudget(total, dim, width) ==
    IF width = 0 THEN AtLeast1(total)
    ELSE LET row == AtLeast1(dim) * 4 + 4
         IN Max({(Max({total - AccessorBytes, 0}) * row) \div (row + width * 4 + 4),
                 EstimatedBytes(dim, 1)})

-----------------------------------------------------------------------------
(* D1ResidentPendingGroup and the greedy grouping.                         *)

EmptyPending == <<>>
ExpectedLeaves(points, cmax) == AtLeast1(CeilDiv(points, AtLeast1(cmax)))
GroupOf(runs, dim) ==
    [runs |-> runs, bytes |-> EstimatedBytes(dim, Cardinality(PointsOf(runs)))]

\* finalize_d1_resident_pending_group / into_group_or_levelwise
FinalizePending(acc, c, dim, cmax, budget) ==
    LET g == GroupOf(acc.pending, dim)
    IN IF acc.pending = EmptyPending THEN acc
       ELSE IF \/ g.bytes > budget
               \/ ExpectedLeaves(Total(acc.pending), cmax) > c.maxNative
       THEN [acc EXCEPT !.pending = EmptyPending, !.levelwise = @ \o acc.pending]
       ELSE [acc EXCEPT !.pending = EmptyPending, !.groups = Append(@, g)]

\* One run of the loop of group_d1_resident_subtree_inputs_with_budget.
GroupRun(run, acc, c, dim, cmax, budget) ==
    LET grown == Append(acc.pending, run)
        closed == FinalizePending(acc, c, dim, cmax, budget)
        overflow == \/ GroupOf(grown, dim).bytes > budget
                    \/ ExpectedLeaves(Total(grown), cmax) > c.maxNative
    IN IF run = <<>> THEN acc
       ELSE IF ExpectedLeaves(Len(run), cmax) > c.maxNative
       THEN [closed EXCEPT !.levelwise = Append(@, run)]
       ELSE IF acc.pending # EmptyPending /\ overflow
       THEN [closed EXCEPT !.pending = <<run>>]
       ELSE [acc EXCEPT !.pending = grown]

GroupInputs(runs, c, dim, cmax, budget) ==
    FinalizePending(
        FoldLeft(LAMBDA acc, run : GroupRun(run, acc, c, dim, cmax, budget),
                 [pending |-> EmptyPending, groups |-> <<>>, levelwise |-> <<>>],
                 runs),
        c, dim, cmax, budget)

\* maybe_build_d1_resident_subtree_scope: all runs as one group, or none.
ScopeFits(runs, c, n, dim, cmax) ==
    LET unique == Cardinality(PointsOf(runs))
        leaves == FoldSeq(LAMBDA r, k : k + ExpectedLeaves(Len(r), cmax), 0, runs)
    IN /\ runs # <<>> /\ Total(runs) > 0 /\ leaves >= c.minLeaves
       /\ EstimatedBytes(dim, unique) <= c.scope
       /\ VectorBytes(dim, unique) <= AtLeast1(MaxResidentBytes(c, n, dim))
       /\ unique >= c.minPoints

\* The choice made before the level scan.
ResidentDecision(runs, c, n, dim, cmax, width) ==
    LET budget == VectorBudget(IF c.slots > 1 THEN PipelinedBudget(c, n, dim)
                               ELSE GroupedBudget(c, n, dim), dim, width)
        grouping == GroupInputs(runs, c, dim, cmax, budget)
        none == [groups |-> <<>>, levelwise |-> runs, slots |-> 1, refused |-> FALSE]
    IN IF ~c.enabled THEN none
       ELSE IF ScopeFits(runs, c, n, dim, cmax)
       THEN [none EXCEPT !.groups = <<GroupOf(runs, dim)>>, !.levelwise = <<>>]
       ELSE IF c.whole THEN [none EXCEPT !.refused = TRUE]
       ELSE [none EXCEPT !.groups = grouping.groups,
                         !.levelwise = grouping.levelwise,
                         !.slots = IF Len(grouping.groups) < 2 THEN 1 ELSE c.slots]
=============================================================================
