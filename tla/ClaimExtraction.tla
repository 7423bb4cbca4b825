--------------------------- MODULE ClaimExtraction ---------------------------
(***************************************************************************)
(* The claim-extraction stage of one analysis run, over the attempts that  *)
(* retries make (claim_batch_extraction_service.py).  An attempt stores    *)
(* what the regular expressions find, plans the other items into batches,  *)
(* reconciles the ledger with the plan and executes each batch that is not *)
(* complete: mark it processing, ask the provider, then commit claims and  *)
(* completion together, or commit what was answered and record a failure.  *)
(*                                                                         *)
(* The stage holds the comparison's financial lock, which the verification *)
(* task of the same comparison also takes.                                 *)
(***************************************************************************)
EXTENDS BatchPlan, StageBatches

CONSTANTS
  Materials,    \* what the comparison may yield: items for the model, items the
                \* regular expressions settle
  Contexts,     \* model, prompt version and metric registry in force
  MaxAttempts,  \* bound: executions of the stage
  MaxCrashes,   \* bound: workers that die
  MaxFaults,    \* bound: database errors that make a session roll back
  MaxDrifts     \* bound: changes of content or configuration between attempts

ASSUME MaterialAssumption ==
  Materials \subseteq [model: Seq(Items), deterministic: SUBSET Items]

VARIABLES
  material,     \* what the comparison's changes yield now
  context,
  ledger,       \* analysis_stage_batches of (run, financial_claims)
  claims,       \* items whose claims are committed
  holder,       \* of the comparison's advisory lock
  attempt,      \* the executing attempt's local variables
  planned,      \* claim_batches_total, as the node that returned reported it
  attempts, crashes, faults, drifts

budgets == <<attempts, crashes, faults, drifts>>
vars    == <<material, context, ledger, claims, holder, attempt, planned,
             attempts, crashes, faults, drifts>>

NoRecords == NoResults
Idle == [pc |-> "idle", rows |-> <<>>, at |-> 1, todo |-> {}, records |-> NoRecords]

Init ==
  /\ material \in Materials /\ context \in Contexts
  /\ ledger = <<>> /\ claims = {}
  /\ holder = "free"
  /\ attempt = Idle /\ planned = Unknown
  /\ attempts = 0 /\ crashes = 0 /\ faults = 0 /\ drifts = 0

-----------------------------------------------------------------------------
(* The node starts; without the lock it returns at once, and succeeds. *)
Begin ==
  /\ attempt.pc \in {"idle", "returned"}
  /\ attempts < MaxAttempts
  /\ attempts' = attempts + 1
  /\ planned' = Unknown
  /\ IF holder = "free"
     THEN holder' = "attempt" /\ attempt' = [Idle EXCEPT !.pc = "locked"]
     ELSE UNCHANGED holder /\ attempt' = [Idle EXCEPT !.pc = "returned"]
  /\ UNCHANGED <<material, context, ledger, claims, crashes, faults, drifts>>

StoreDeterministic ==
  /\ attempt.pc = "locked"
  /\ claims' = claims \cup material.deterministic
  /\ attempt' = [attempt EXCEPT !.pc = "stored"]
  /\ UNCHANGED <<material, context, ledger, holder, planned, budgets>>

(* An empty plan is not reconciled with the ledger. *)
SyncPlan ==
  LET plan == PlanBatches(material.model)
      rows == Synced(ledger, plan, context) IN
  /\ attempt.pc = "stored"
  /\ IF plan = <<>> THEN UNCHANGED ledger ELSE ledger' = rows
  /\ attempt' = [attempt EXCEPT !.pc = "next", !.rows = rows]
  /\ UNCHANGED <<material, context, claims, holder, planned, budgets>>

AtBatch   == attempt.pc = "next" /\ attempt.at \in DOMAIN attempt.rows
ThisBatch == attempt.rows[attempt.at]

SkipBatch ==
  /\ AtBatch /\ ThisBatch.status = "completed"
  /\ attempt' = [attempt EXCEPT !.at = @ + 1]
  /\ UNCHANGED <<material, context, ledger, claims, holder, planned, budgets>>

StartWholeBatch ==   \* mutant: the items already answered are asked again
  /\ AtBatch /\ ThisBatch.status # "completed"
  /\ ledger' = MarkProcessing(ledger, attempt.at)
  /\ attempt' = [attempt EXCEPT !.pc = "asking", !.todo = ToSet(ThisBatch.items)]
  /\ UNCHANGED <<material, context, claims, holder, planned, budgets>>

StartBatch ==
  /\ AtBatch /\ ThisBatch.status # "completed"
  /\ ledger' = MarkProcessing(ledger, attempt.at)
  /\ attempt' = [attempt EXCEPT !.pc = "asking",
                                !.todo = ToSet(ThisBatch.items) \ Done(ThisBatch)]
  /\ UNCHANGED <<material, context, claims, holder, planned, budgets>>

(***************************************************************************)
(* _run_batch: a multi-item request, then one request for each item it did *)
(* not settle, until a provider error stops the batch.  An item the model  *)
(* fails to analyse is recorded as such; the claims of the others are in   *)
(* the open transaction.                                                   *)
(***************************************************************************)
Answer ==
  /\ attempt.pc = "asking"
  /\ \E answered \in SUBSET attempt.todo :
       \E outcomes \in [answered -> Outcomes] :
         attempt' = [attempt EXCEPT
           !.pc = IF answered = attempt.todo THEN "whole" ELSE "partial",
           !.records = outcomes]
  /\ UNCHANGED <<material, context, ledger, claims, holder, planned, budgets>>

Found == {item \in DOMAIN attempt.records : attempt.records[item] = "success"}

CommitBatchFirst ==   \* mutant: completion committed before the claims
  \/ /\ attempt.pc = "whole" /\ ledger[attempt.at].status # "completed"
     /\ ledger' = MarkCompleted(ledger, attempt.at, attempt.records)
     /\ UNCHANGED <<material, context, claims, holder, planned, attempt, budgets>>
  \/ /\ attempt.pc = "whole" /\ ledger[attempt.at].status = "completed"
     /\ claims' = claims \cup Found
     /\ attempt' = [attempt EXCEPT !.pc = "next", !.at = @ + 1, !.records = NoRecords]
     /\ UNCHANGED <<material, context, ledger, holder, planned, budgets>>

(* One transaction: the claims, the outcomes and the mark. *)
CommitBatch ==
  /\ attempt.pc = "whole"
  /\ claims' = claims \cup Found
  /\ ledger' = MarkCompleted(ledger, attempt.at, attempt.records)
  /\ attempt' = [attempt EXCEPT !.pc = "next", !.at = @ + 1,
                                !.todo = {}, !.records = NoRecords]
  /\ UNCHANGED <<material, context, holder, planned, budgets>>

(* After a provider error, what was answered is committed by itself. *)
CommitPartial ==
  /\ attempt.pc = "partial"
  /\ claims' = claims \cup Found
  /\ attempt' = [attempt EXCEPT !.pc = "failing"]
  /\ UNCHANGED <<material, context, ledger, holder, planned, budgets>>

(* The session fails while it stores the items, in order, or at its commit: *)
(* the claims roll back, the outcomes noted so far stay in memory.         *)
LoseSession ==
  /\ faults < MaxFaults
  /\ attempt.pc \in {"partial", "whole"}
  /\ faults' = faults + 1
  /\ \E n \in 0..Len(ThisBatch.items) :
       LET noted == DOMAIN attempt.records \cap {ThisBatch.items[j] : j \in 1..n} IN
       attempt' = [attempt EXCEPT !.pc = "failing", !.records = Restrict(@, noted)]
  /\ UNCHANGED <<material, context, ledger, claims, holder, planned, attempts,
                 crashes, drifts>>

(* _record_batch_failure, in a session of its own; then the node raises. *)
RecordFailure ==
  /\ attempt.pc = "failing"
  /\ ledger' = MarkFailed(ledger, attempt.at, attempt.records)
  /\ attempt' = Idle /\ holder' = "free"
  /\ UNCHANGED <<material, context, claims, planned, budgets>>

FailToRecord ==
  /\ faults < MaxFaults
  /\ attempt.pc = "failing"
  /\ faults' = faults + 1
  /\ attempt' = Idle /\ holder' = "free"
  /\ UNCHANGED <<material, context, ledger, claims, planned, attempts, crashes, drifts>>

Return ==
  /\ attempt.pc = "next" /\ attempt.at \notin DOMAIN attempt.rows
  /\ attempt' = [Idle EXCEPT !.pc = "returned"]
  /\ planned' = Len(attempt.rows)
  /\ holder' = "free"
  /\ UNCHANGED <<material, context, ledger, claims, budgets>>

-----------------------------------------------------------------------------
(* The worker dies; Postgres notices later. *)
Crash ==
  /\ crashes < MaxCrashes
  /\ attempt.pc \notin {"idle", "returned"}
  /\ attempt' = Idle /\ holder' = "dead"
  /\ crashes' = crashes + 1
  /\ UNCHANGED <<material, context, ledger, claims, planned, attempts, faults, drifts>>

ReapSession ==
  /\ holder = "dead" /\ holder' = "free"
  /\ UNCHANGED <<material, context, ledger, claims, attempt, planned, budgets>>

(* The comparison's verification task, which extracts claims of its own.   *)
OtherTakesLock ==
  /\ holder = "free" /\ holder' = "other"
  /\ UNCHANGED <<material, context, ledger, claims, attempt, planned, budgets>>

OtherReleasesLock ==
  /\ holder = "other" /\ holder' = "free"
  /\ \E found \in {{}, ToSet(material.model) \cup material.deterministic} :
       claims' = claims \cup found
  /\ UNCHANGED <<material, context, ledger, attempt, planned, budgets>>

(* Between attempts filings are parsed again, or the model, the prompt or  *)
(* the registry of metrics change.                                         *)
Drift ==
  /\ drifts < MaxDrifts
  /\ attempt.pc = "idle"
  /\ material' \in Materials /\ context' \in Contexts
  /\ <<material', context'>> # <<material, context>>
  /\ drifts' = drifts + 1
  /\ UNCHANGED <<ledger, claims, holder, attempt, planned, attempts, crashes, faults>>

Next ==
  \/ Begin \/ StoreDeterministic \/ SyncPlan \/ SkipBatch \/ StartBatch \/ Answer
  \/ CommitBatch \/ CommitPartial \/ LoseSession \/ RecordFailure \/ FailToRecord
  \/ Return \/ Crash \/ ReapSession \/ OtherTakesLock \/ OtherReleasesLock \/ Drift

Spec == Init /\ [][Next]_vars

-----------------------------------------------------------------------------
Results == UNION {[answered -> Outcomes] : answered \in SUBSET Items}
Rows == [items: Seq(Items), context: Contexts, status: BatchStatuses, results: Results]
Attempts == [pc: {"idle", "locked", "stored", "next", "asking", "whole", "partial",
                  "failing", "returned"},
             rows: Seq(Rows), at: Nat, todo: SUBSET Items, records: Results]

TypeOK ==
  /\ material \in Materials /\ context \in Contexts
  /\ ledger \in Seq(Rows)
  /\ claims \in SUBSET Items
  /\ holder \in {"free", "attempt", "other", "dead"}
  /\ attempt \in Attempts
  /\ planned \in Nat \cup {Unknown}

(***************************************************************************)
(* "A completed batch therefore always carries its own durable results":   *)
(* every item of a completed batch has its outcome recorded, over any      *)
(* number of attempts, partial failures, crashes and changes of the plan.  *)
(***************************************************************************)
CompletedIsComplete ==
  \A i \in DOMAIN ledger :
    ledger[i].status = "completed" =>
      ToSet(ledger[i].items) \subseteq DOMAIN ledger[i].results

(* A batch that is complete for the items and context in force stays as it *)
(* is, whatever happens to the attempts (sync_plan keeps it, the loop      *)
(* skips it).                                                              *)
CompletedStays ==
  [][\A i \in DOMAIN ledger \cap DOMAIN PlanBatches(material.model) :
       (/\ ledger[i].status = "completed" /\ ledger[i].context = context
        /\ ledger[i].items = PlanBatches(material.model)[i])
       => (i \in DOMAIN ledger' /\ ledger'[i] = ledger[i])]_vars

(* The provider is never asked for an item whose outcome is on record; one *)
(* the model could not analyse may be asked again.                         *)
NothingAskedTwice ==
  attempt.pc = "asking" => attempt.todo \cap Done(ledger[attempt.at]) = {}

(* When the node reported its plan and the guard finds the stage complete, *)
(* each item the comparison yields was settled: by the regular expressions *)
(* or by a recorded answer of the model (evaluate_readiness).              *)
Resolved(item) ==
  \/ item \in material.deterministic /\ item \in claims
  \/ \E i \in DOMAIN ledger : ledger[i].context = context /\ item \in DOMAIN ledger[i].results
AllResolved == \A item \in ToSet(material.model) \cup material.deterministic : Resolved(item)

Ready == attempt.pc = "returned" /\ StageBlockers(ledger, planned, TRUE) = {}
ReportedReadyIsResolved == (Ready /\ planned # Unknown) => AllResolved

(***************************************************************************)
(* As long as no session fails between the answers and their commit, an    *)
(* item recorded with the outcome "success" has its claims stored, over    *)
(* crashes, provider errors and changes of plan.                           *)
(***************************************************************************)
SuccessIsStored ==
  \A i \in DOMAIN ledger : \A item \in DOMAIN ledger[i].results :
    ledger[i].results[item] = "success" => item \in claims
FaultlessSuccessIsStored == faults = 0 => SuccessIsStored

=============================================================================
