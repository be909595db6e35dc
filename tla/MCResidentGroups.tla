-------------------------- MODULE MCResidentGroups --------------------------
(* Small calls of the resident subtree pipeline for TLC. *)
EXTENDS ResidentGroups

CONSTANTS w1, w2, e1, e2

Env == [disable |-> FALSE, budget |-> Unset, maxRun |-> Unset, scope |-> Unset,
        ratio |-> Unset, minPoints |-> Unset, minLeaves |-> Unset, maxNative |-> Unset,
        slots |-> Unset, noPipeline |-> FALSE, requireWhole |-> FALSE]
Params == [oom |-> TRUE, memory |-> 400, cmax |-> 2]

Call(runs, env, n, width) ==
    [runs |-> runs, config |-> ConfigOf(Params, env), n |-> n, dim |-> 1, cmax |-> 2,
     width |-> width, workers |-> {w1, w2}, emitters |-> {e1, e2}, cap |-> 2,
     batchLeaves |-> 2, batchPoints |-> 3, batchWork |-> 8, discards |-> TRUE]

Grouped == [Env EXCEPT !.scope = 16, !.ratio = 100]
\* A small group and three that take most of the budget, through the pipeline.
Piped == Call(<< <<1>>, <<2, 3, 4, 5>>, <<5, 6, 7, 8>>, <<7, 8, 9, 2>> >>,
              [Grouped EXCEPT !.budget = 72], 200, 0)
\* A budget smaller than one row, with sketches: groups one at a time.
Oversize == Call(<< <<1>>, <<2>>, <<>> >>, [Grouped EXCEPT !.budget = 4], 200, 1)
\* One resident group with more leaves than places in the queue.
Whole == Call(<< <<1, 2, 3, 4, 5>>, <<6, 7>> >>, [Env EXCEPT !.ratio = 100], 200, 0)
\* A run with too many leaves for a group, and a call that insists on one group.
Native == Call(<< <<1, 2, 3, 4, 5>>, <<6, 7>>, <<8>> >>,
               [Grouped EXCEPT !.maxNative = 2, !.noPipeline = TRUE], 200, 0)

MCInstances ==
    { [Piped EXCEPT !.discards = d, !.workers = {w1}, !.emitters = {e1}] : d \in BOOLEAN }
      \cup { [Whole EXCEPT !.workers = ws, !.cap = c] : ws \in {{w1}, {w1, w2}}, c \in {1, 2} }
      \cup { Oversize, Native,
             Call(<< <<1, 2, 3, 4, 5>>, <<6>>, <<7, 8, 9>> >>,
                  [Grouped EXCEPT !.budget = 72, !.slots = 3], 200, 1),
             Call(<< <<1, 2, 3>> >>, [Grouped EXCEPT !.requireWhole = TRUE], 200, 0),
             Call(<< <<1, 2, 3>> >>, [Env EXCEPT !.disable = TRUE], 200, 0) }
=============================================================================
