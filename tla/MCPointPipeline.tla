-------------------------- MODULE MCPointPipeline --------------------------
\* Small configurations of the point pipeline for TLC.
EXTENDS PointPipeline

Cfg(p, b, m, t, d) ==
  [points |-> p, batchPoints |-> b, budget |-> m, threads |-> t, depth |-> d]

\* No point; every knob at zero; one worker that waits for each permit; a budget
\* for all rows; waiters of two sizes and a budget that is no multiple of a batch;
\* two workers that may both wait; three workers.
MixedConfigs == {Cfg(0, 1, 4, 1, 1), Cfg(2, 0, 0, 0, 0), Cfg(4, 1, 2, 1, 2),
                 Cfg(3, 2, 8, 2, 1), Cfg(7, 2, 9, 2, 2), Cfg(5, 1, 4, 2, 1),
                 Cfg(3, 1, 6, 3, 1)}

\* The test's shape: a budget of exactly one batch per worker, and more batches.
OneBatchPerWorker == {Cfg(4, 4, 4, 2, 2)}
=============================================================================
