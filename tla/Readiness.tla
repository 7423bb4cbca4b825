------------------------------ MODULE Readiness ------------------------------
(***************************************************************************)
(* What is made of a run's ledger of batches, its completed nodes and its  *)
(* failure: the guard of the report (analysis_completeness.py), the        *)
(* stages and the percentage shown (analysis_progress.py), and whether     *)
(* the run can be retried (routes/analyses.py).                            *)
(*                                                                         *)
(* A ledger is the sequence of a stage's rows, in index order: [status,    *)
(* review, error, at], the number of its items left to an analyst, its     *)
(* last provider error and when that was.  Nodes are numbered from 1 to 12 *)
(* in the order of the graph; "reported" are those that said they are done. *)
(***************************************************************************)
EXTENDS Integers, Sequences, SequencesExt, FiniteSetsExt

CONSTANT Unreported   \* a planned number of batches nobody reported

ASSUME UnreportedAssumption == Unreported \notin Nat

NodeCount == 12
FinishedStatuses == {"completed", "completed_with_warnings"}
StoppedStatuses  == {"failed", "cancelled"}

RetryableErrorTypes ==
  {"rate_limited", "rate_limited_short_term", "quota_exhausted_daily", "resource_exhausted",
   "timeout", "network_error", "server_error", "InterfaceError", "OperationalError",
   "ConnectionError", "ConnectionResetError"}

-----------------------------------------------------------------------------
(* _aggregate: counts, and the latest error of a part that still fails.    *)
CountOf(rows, status) == Cardinality({k \in DOMAIN rows : rows[k].status = status})

SumOf(s) == LET upTo[k \in 0..Len(s)] == IF k = 0 THEN 0 ELSE upTo[k - 1] + s[k] IN upTo[Len(s)]
NeedingReview(rows) == SumOf([k \in DOMAIN rows |-> rows[k].review])

(* The first of the latest, as max() keeps it.                             *)
ErrorAmong(rows, failing) ==
  LET latest == {k \in failing : \A j \in failing : rows[j].at <= rows[k].at}
  IN  IF failing = {} THEN "none" ELSE rows[Min(latest)].error

LatestErrorOfAny(rows) ==   \* mutant: the error of a part that has recovered counts
  ErrorAmong(rows, {k \in DOMAIN rows : rows[k].error # "none"})
LatestError(rows) ==
  ErrorAmong(rows, {k \in DOMAIN rows : rows[k].status = "failed" /\ rows[k].error # "none"})

Aggregate(rows) ==
  [recorded |-> rows # <<>>, total |-> Len(rows),
   completed |-> CountOf(rows, "completed"), processing |-> CountOf(rows, "processing"),
   failed |-> CountOf(rows, "failed"), review |-> NeedingReview(rows),
   error |-> LatestError(rows)]
NoBatches == Aggregate(<<>>)

-----------------------------------------------------------------------------
(* The guard.  A blocker is the stage and the reason.                      *)

BatchBlockers(stage, progress, planned, requireRecords) ==
  IF ~progress.recorded
  THEN IF requireRecords /\ planned \notin {Unreported, 0}
       THEN {<<stage, "batches_missing">>} ELSE {}
  ELSE {b \in {<<stage, "batch_count_mismatch">>} : planned \notin {Unreported, progress.total}}
       \cup {b \in {<<stage, "batches_unfinished">>} : progress.completed # progress.total}

NodeBlocker ==
  (6 :> <<"xbrl_verification", "verification_incomplete">>)
  @@ (7 :> <<"contradiction_analysis", "contradictions_incomplete">>)
  @@ (8 :> <<"evidence_validation", "evidence_unvalidated">>)

EvaluateReadiness(run, comparison, claims) ==
  (IF run.comparisonStatus # "completed" \/ 4 \notin run.nodes
   THEN {<<"disclosure_classification", "comparison_incomplete">>}
   ELSE BatchBlockers("disclosure_classification", comparison, run.plannedComparison, FALSE))
  \cup
  (IF 5 \notin run.nodes THEN {<<"financial_claims", "extraction_incomplete">>}
   ELSE BatchBlockers("financial_claims", claims, run.plannedClaims, TRUE))
  \cup {NodeBlocker[n] : n \in {6, 7, 8} \ (run.nodes \cap run.reported)}
  \cup {b \in {<<"human_review", "review_pending">>} :
          run.forReport /\ run.needsReview /\ run.review \in {"none", "pending"}}

DataQuality(run, comparison, claims) ==
  {s \in {"disclosure_classification"} :
     run.comparisonStatus = "completed" /\ 4 \in run.nodes /\ comparison.review > 0}
  \cup {s \in {"financial_claims"} : 5 \in run.nodes /\ claims.review > 0}

-----------------------------------------------------------------------------
(* The stages shown, by their node; the first two are batched.             *)

StageNodes == <<4, 5, 6, 7, 10, 11>>
Batched(s) == s \in {1, 2}

StageStatus(run, node, progress) ==
  LET running == run.current = node /\ run.status \notin StoppedStatuses
      failedHere == run.status = "failed" /\ run.failureNode = node
  IN  IF failedHere THEN "failed"
      ELSE IF node \in run.nodes
      THEN IF progress.review > 0 THEN "requires_review" ELSE "completed"
      ELSE IF progress.failed > 0 THEN "failed"
      ELSE IF running \/ progress.processing > 0 \/ progress.completed > 0 THEN "processing"
      ELSE "pending"

(* The failed part's error tells whether to retry, or the run's failure.   *)
StageEntry(run, s, progress) ==
  LET status == StageStatus(run, StageNodes[s], progress) IN
  [status |-> status, completed |-> progress.completed, total |-> progress.total,
   retryable |-> status = "failed"
                 /\ (IF progress.error # "none" THEN progress.error ELSE run.failureCode)
                      \in RetryableErrorTypes]

BuildStageProgress(run, comparison, claims) ==
  [s \in DOMAIN StageNodes |->
     StageEntry(run, s, IF s = 1 THEN comparison ELSE IF s = 2 THEN claims ELSE NoBatches)]

(* The parts completed out of those of the batched stage in flight.        *)
CurrentStage(stages) ==
  LET inFlight == {s \in DOMAIN stages : Batched(s) /\ stages[s].status = "processing"
                                         /\ stages[s].total > 0}
  IN  IF inFlight = {} THEN [completed |-> 0, total |-> 1] ELSE stages[Min(inFlight)]

ProgressPercent(run, stages) ==
  LET stage == CurrentStage(stages)
      share == (100 * (Cardinality(run.nodes) * stage.total + stage.completed))
                 \div (NodeCount * stage.total)
      ceiling == IF run.status \in StoppedStatuses THEN 99 ELSE 95
  IN  IF run.status \in FinishedStatuses THEN 100
      ELSE IF share < ceiling THEN share ELSE ceiling

RunRetryable(run, stages, stale) ==
  LET failed == {s \in DOMAIN stages : stages[s].status = "failed"} IN
  IF stale THEN "yes"
  ELSE IF run.status # "failed" THEN "nothing to retry"
  ELSE IF IF failed # {} THEN stages[Min(failed)].retryable
          ELSE run.failureCode \in RetryableErrorTypes
  THEN "yes" ELSE "no"

(* What a run is shown as: _run_response.                                  *)
RunResponse(run, comparison, claims, stale) ==
  LET stages == BuildStageProgress(run, comparison, claims)
  IN  [stages |-> stages, percent |-> ProgressPercent(run, stages),
       retryable |-> RunRetryable(run, stages, stale)]

(* POST /retry on a run whose lock is free.                                *)
RetryAccepted(run, response, stale) ==
  IF run.status = "failed" THEN response.retryable = "yes" ELSE stale

=============================================================================
