---------------------------- MODULE MCAnalysisRun ----------------------------
(* AnalysisRun with two worker threads, or one where liveness is checked.   *)
EXTENDS AnalysisRun, TLC

CONSTANTS w1, w2
MCWorkers == {w1, w2}
OneThread == {w1}
WorkerSymmetry == Permutations(MCWorkers)
=============================================================================
