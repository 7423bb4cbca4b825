---------------------------- MODULE MCStageLocks ----------------------------
(* Model values for StageLocks.                                               *)
EXTENDS StageLocks

CONSTANTS w1, w2

TwoWorkers == {w1, w2}
=============================================================================
