---------------------------- MODULE ExclusiveRun ----------------------------
(***************************************************************************)
(* What the advisory lock of a run is for (held_advisory_lock): a worker   *)
(* starts executing the run only when no other is executing it.            *)
(***************************************************************************)
CONSTANT Workers

VARIABLE executing   \* the workers that execute the run

Init == executing = {}

Start(w) == executing = {} /\ executing' = {w}
Stop(w)  == executing = {w} /\ executing' = {}

Next == \E w \in Workers : Start(w) \/ Stop(w)

Spec == Init /\ [][Next]_executing

=============================================================================
