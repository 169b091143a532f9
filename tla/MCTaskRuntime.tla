---------------------------- MODULE MCTaskRuntime ----------------------------
(* Instances of TaskRuntime for TLC: the constants of the runs. *)
EXTENDS TaskRuntime, TLC
CONSTANTS w1, w2
OneWorker == {w1}
TwoWorkers == {w1, w2}

\* The workers are alike; only runs without liveness properties use this.
WorkersAlike == Permutations(Workers)
=============================================================================
