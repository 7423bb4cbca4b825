---------------------------- MODULE StageBatches ----------------------------
(***************************************************************************)
(* The durable ledger of one batched stage of a run: the rows of           *)
(* analysis_stage_batches, in index order (stage_batch_repository.py), and *)
(* what the readiness guard reads in it (analysis_completeness.py).        *)
(*                                                                         *)
(* A row's input hash is modelled by what it fingerprints: the batch's     *)
(* items, in order, and the context (model, prompt, schema) of its         *)
(* requests.  Token and call counters are left out.                        *)
(***************************************************************************)
EXTENDS Naturals, Sequences, FiniteSets, SequencesExt

CONSTANT Unknown   \* a planned number of batches nobody reported

ASSUME UnknownAssumption == Unknown \notin Nat

Outcomes      == {"success", "zero_result", "requires_review"}
FinalOutcomes == {"success", "zero_result"}
BatchStatuses == {"pending", "processing", "completed", "failed"}

NoResults == [item \in {} |-> "success"]

Pending(batch, context) ==
  [items |-> batch, context |-> context, status |-> "pending", results |-> NoResults]

SyncedByIndex(ledger, plan, context) ==   \* mutant: the hashes not compared
  [i \in DOMAIN plan |->
     IF i \in DOMAIN ledger
     THEN [ledger[i] EXCEPT !.items = plan[i], !.context = context]
     ELSE Pending(plan[i], context)]

SyncedFromScratch(ledger, plan, context) ==   \* mutant: the old rows ignored
  [i \in DOMAIN plan |-> Pending(plan[i], context)]

(* sync_plan: a row planned as before stays, any other starts afresh, and  *)
(* rows past the end of the plan are deleted.                              *)
Synced(ledger, plan, context) ==
  [i \in DOMAIN plan |->
     IF /\ i \in DOMAIN ledger
        /\ ledger[i].items = plan[i] /\ ledger[i].context = context
     THEN ledger[i]
     ELSE Pending(plan[i], context)]

(* _apply_results: new outcomes replace and join the recorded ones. *)
Merged(old, new) ==
  [item \in DOMAIN old \cup DOMAIN new |->
     IF item \in DOMAIN new THEN new[item] ELSE old[item]]

MarkProcessing(ledger, i) == [ledger EXCEPT ![i].status = "processing"]

MarkWith(ledger, i, status, results) ==
  [ledger EXCEPT ![i] = [items |-> @.items, context |-> @.context, status |-> status,
                         results |-> Merged(@.results, results)]]

MarkCompletedForgetting(ledger, i, results) ==   \* mutant: results replaced, not merged
  [ledger EXCEPT ![i].status = "completed", ![i].results = results]

MarkCompleted(ledger, i, results) == MarkWith(ledger, i, "completed", results)

MarkFailed(ledger, i, results) == MarkWith(ledger, i, "failed", results)

(* The batch's items whose recorded outcome needs no further request. *)
Done(row) == {item \in DOMAIN row.results : row.results[item] \in FinalOutcomes}

-----------------------------------------------------------------------------
(***************************************************************************)
(* stage_progress, and _check_batched_stage on it: what blocks the stage.  *)
(* With no rows at all, a stage that planned nothing is complete, and so   *)
(* is one of which nobody reported a plan.                                 *)
(***************************************************************************)
CompletedRows(ledger) == {i \in DOMAIN ledger : ledger[i].status = "completed"}

StageBlockers(ledger, planned, requireRecords) ==
  IF ledger = <<>>
  THEN IF requireRecords /\ planned \notin {Unknown, 0} THEN {"batches_missing"} ELSE {}
  ELSE (IF planned \in {Unknown, Len(ledger)} THEN {} ELSE {"batch_count_mismatch"})
       \cup (IF CompletedRows(ledger) = DOMAIN ledger THEN {} ELSE {"batches_unfinished"})

=============================================================================
