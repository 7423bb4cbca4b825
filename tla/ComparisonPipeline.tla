------------------------- MODULE ComparisonPipeline -------------------------
(***************************************************************************)
(* The comparison of two filings (filing_comparison_service.py): match     *)
(* sections, align their passages into pairs, and have the model classify  *)
(* each pair, in batches recorded in the ledger of the analysis run.       *)
(* Attempts follow each other, one at a time, under the comparison's lock  *)
(* (an attempt without it returns and changes nothing, as does one that    *)
(* finds the comparison completed).  What matching computes is reused when *)
(* a marker on the comparison says it is complete.  Meanwhile a filing may *)
(* be parsed again: its sections go, and every row that refers to them.    *)
(*                                                                         *)
(* A pair, or a section match, is named after the database rows it refers  *)
(* to, so that parsing a filing again makes new names.                     *)
(***************************************************************************)
EXTENDS BatchPlan, StageBatches, Functions

CONSTANTS
  Pairs,        \* passage pairs, over all parses and settings
  Names,        \* section matches, likewise
  SettingSets,  \* matching configurations
  Layout,       \* the section matches, in order, that a parse and settings give
  Text,         \* the texts of a candidate: the key of the cache of results
  Local,        \* candidates with equal texts, which need no model
  TwoSided,     \* section matches between both filings
  OneSided,     \* candidates of a passage added or removed
  Contexts,     \* model, prompt and schema in force
  VersionOf,    \* the version string of a context's prompt
  FirstSettings, FirstContext,   \* those the comparison is created under
  None,         \* no fingerprint
  MaxAttempts,  \* bound: executions of process_comparison
  MaxCrashes,   \* bound: workers that die or run into their time limit
  MaxFaults,    \* bound: database errors
  MaxReparses,  \* bound: times a filing is parsed again
  MaxDrifts     \* bound: changes of configuration between attempts

Parses == 1..(MaxReparses + 1)
Prints == [parse: Parses, settings: SettingSets]   \* matching_fingerprint
Texts  == {Text[item] : item \in Items}

ASSUME ComparisonAssumption ==
  /\ Items = [pair: Pairs, live: BOOLEAN] /\ Local \subseteq [pair: Pairs, live: {TRUE}]
  /\ OneSided \subseteq Items /\ OneSided \cap Local = {}
  /\ None \notin Prints
  /\ Layout \in [Prints -> Seq([name: Names, pairs: Seq(Pairs)])]
  /\ DOMAIN Text = Items /\ Contexts = DOMAIN VersionOf
  /\ FirstSettings \in SettingSets /\ FirstContext \in Contexts /\ MaxReparses \in Nat

VARIABLES
  parse, settings, context,   \* of the filings, of the matching, of the model
  comparison,   \* its status, and the marker in its processing metrics
  matched,      \* section_matches, by name
  aligned,      \* passage_matches, by pair
  changes,      \* disclosure_changes, by pair
  ledger,       \* analysis_stage_batches of (run, disclosure_comparison)
  attempt,      \* the executing attempt's local variables
  given,        \* for the properties: the answers that could be used, with their context
  attempts, crashes, faults, drifts

inputs  == <<parse, settings, context>>
matches == <<comparison, matched, aligned>>
budgets == <<attempts, crashes, faults, drifts>>
vars    == <<parse, settings, context, comparison, matched, aligned, changes, ledger,
             attempt, given, attempts, crashes, faults, drifts>>

Unmarked == [print |-> None, sections |-> 0, pairs |-> 0]
Idle == [pc |-> "idle", ledgered |-> FALSE, seen |-> None, known |-> {}, prior |-> {},
         pairs |-> {}, items |-> <<>>, rows |-> <<>>, at |-> 1, todo |-> {},
         records |-> NoResults]
NoChanges == [pair \in {} |-> "none"]

Init ==
  /\ parse = 1 /\ settings = FirstSettings /\ context = FirstContext
  /\ comparison = [status |-> "queued", marker |-> Unmarked]
  /\ matched = {} /\ aligned = {} /\ changes = NoChanges /\ ledger = <<>>
  /\ attempt = Idle
  /\ given = {}
  /\ attempts = 0 /\ crashes = 0 /\ faults = 0 /\ drifts = 0

-----------------------------------------------------------------------------
Now == [parse |-> parse, settings |-> settings]

NamesOf == [print \in Prints |-> {m.name : m \in ToSet(Layout[print])}]
PairSeq == [print \in Prints |->
              FlattenSeq([i \in DOMAIN Layout[print] |-> Layout[print][i].pairs])]
PairsOf == [print \in Prints |-> ToSet(PairSeq[print])]

(* What refers to sections that a parse has. *)
LiveNames == [p \in Parses |-> UNION {NamesOf[[parse |-> p, settings |-> s]] : s \in SettingSets}]
LivePairs == [p \in Parses |-> UNION {PairsOf[[parse |-> p, settings |-> s]] : s \in SettingSets}]

(* Each section is in one match; a match whose sections a parse has has all *)
(* its passages there too.                                                 *)
ASSUME LayoutAssumption ==
  \A print \in Prints :
    /\ \A i, j \in DOMAIN Layout[print] : Layout[print][i].name = Layout[print][j].name => i = j
    /\ \A p \in Parses : \A i \in DOMAIN Layout[print] :
         Layout[print][i].name \in LiveNames[p] => ToSet(Layout[print][i].pairs) \subseteq LivePairs[p]

TextsOf(items) == {Text[item] : item \in items}
Outcome(results, outcome) == {item \in DOMAIN results : results[item] = outcome}

(* The texts of the changes of one kind among those a query returns. *)
Stored(kind, versions) ==
  {Text[[pair |-> p, live |-> TRUE]] :
     p \in {q \in DOMAIN changes : changes[q].kind = kind /\ changes[q].version \in versions}}

Versions == {VersionOf[c] : c \in Contexts}

-----------------------------------------------------------------------------
BeginAnyVersion ==   \* mutant: results reused whatever the version of the prompt
  /\ attempt.pc = "idle" /\ comparison.status # "completed"
  /\ attempts < MaxAttempts /\ attempts' = attempts + 1
  /\ \E ledgered \in BOOLEAN :
       attempt' = [Idle EXCEPT !.pc = "started", !.ledgered = ledgered,
                               !.known = Stored("success", Versions),
                               !.prior = Stored("requires_review", Versions)]
  /\ UNCHANGED <<inputs, matches, changes, ledger, given, crashes, faults, drifts>>

(* Results are read before anything is wiped: list_reusable_change_results *)
(* by prompt version, list_failed_change_placeholders whatever the prompt. *)
Begin ==
  /\ attempt.pc = "idle" /\ comparison.status # "completed"
  /\ attempts < MaxAttempts /\ attempts' = attempts + 1
  /\ \E ledgered \in BOOLEAN :
       attempt' = [Idle EXCEPT !.pc = "started", !.ledgered = ledgered,
                               !.known = Stored("success", {VersionOf[context]}),
                               !.prior = Stored("requires_review", Versions)]
  /\ UNCHANGED <<inputs, matches, changes, ledger, given, crashes, faults, drifts>>

LoadSections ==
  /\ attempt.pc = "started"
  /\ comparison' = [comparison EXCEPT !.status = "matching_sections"]
  /\ attempt' = [attempt EXCEPT !.pc = "loaded", !.seen = Now]
  /\ UNCHANGED <<inputs, matched, aligned, changes, ledger, given, budgets>>

ReusableByWrongCount ==   \* mutant: passage matches checked against the other count
  /\ comparison.marker.print = attempt.seen
  /\ comparison.marker.sections = Cardinality(matched)
  /\ comparison.marker.sections = Cardinality(aligned)

Reusable ==
  /\ comparison.marker.print = attempt.seen
  /\ comparison.marker.sections = Cardinality(matched)
  /\ comparison.marker.pairs = Cardinality(aligned)

ReuseMatching ==
  /\ attempt.pc = "loaded" /\ Reusable
  /\ attempt' = [attempt EXCEPT !.pc = "matched", !.pairs = aligned]
  /\ UNCHANGED <<inputs, matches, changes, ledger, given, budgets>>

ReplaceKeepingMarker ==   \* mutant: the marker outlives the matches
  /\ attempt.pc = "loaded" /\ ~Reusable
  /\ NamesOf[attempt.seen] \subseteq LiveNames[parse]
  /\ comparison' = [comparison EXCEPT !.status = "aligning_passages"]
  /\ matched' = NamesOf[attempt.seen] /\ aligned' = {} /\ changes' = NoChanges
  /\ attempt' = [attempt EXCEPT !.pc = "aligning"]
  /\ UNCHANGED <<inputs, ledger, given, budgets>>

(* The marker goes with the old section matches, and they take passage     *)
(* matches and changes along.  The status follows in a commit of its own.  *)
ReplaceSectionMatches ==
  /\ attempt.pc = "loaded" /\ ~Reusable
  /\ NamesOf[attempt.seen] \subseteq LiveNames[parse]
  /\ comparison' = [status |-> "aligning_passages", marker |-> Unmarked]
  /\ matched' = NamesOf[attempt.seen] /\ aligned' = {} /\ changes' = NoChanges
  /\ attempt' = [attempt EXCEPT !.pc = "aligning"]
  /\ UNCHANGED <<inputs, ledger, given, budgets>>

AtSection   == attempt.pc = "aligning" /\ attempt.at \in DOMAIN Layout[attempt.seen]
ThisSection == Layout[attempt.seen][attempt.at]

(* A section match that is gone, and whose sections all are, has no passage *)
(* to align: nothing is stored, and nothing fails.                         *)
AlignSection ==
  LET new == IF ThisSection.name \in matched THEN ToSet(ThisSection.pairs) ELSE {} IN
  /\ AtSection
  /\ ThisSection.name \in matched \/ ThisSection.name \notin TwoSided
  /\ aligned' = aligned \cup new
  /\ attempt' = [attempt EXCEPT !.at = @ + 1, !.pairs = @ \cup new]
  /\ UNCHANGED <<inputs, comparison, matched, changes, ledger, given, budgets>>

Marker == [print |-> attempt.seen, sections |-> Len(Layout[attempt.seen]),
           pairs |-> Cardinality(attempt.pairs)]

MarkMatched ==
  /\ attempt.pc = "aligning" /\ attempt.at \notin DOMAIN Layout[attempt.seen]
  /\ comparison' = [comparison EXCEPT !.marker = Marker]
  /\ attempt' = [attempt EXCEPT !.pc = "matched"]
  /\ UNCHANGED <<inputs, matched, aligned, changes, ledger, given, budgets>>

Those(s, set) ==   \* the elements of s that are in the set, in order
  LET kept[i \in 0..Len(s)] ==
        IF i = 0 THEN <<>> ELSE IF s[i] \in set THEN Append(kept[i - 1], s[i]) ELSE kept[i - 1]
  IN  kept[Len(s)]

(* The passages are loaded again: a pair whose passages are gone becomes   *)
(* another candidate.  Candidates are in document order.                   *)
Candidates ==
  LET pairs == Those(PairSeq[attempt.seen], attempt.pairs) IN
  [i \in DOMAIN pairs |-> [pair |-> pairs[i], live |-> pairs[i] \in LivePairs[parse]]]

PrepareCandidates ==
  /\ attempt.pc = "matched"
  /\ comparison' = [comparison EXCEPT !.status = "detecting_changes"]
  /\ attempt' = [attempt EXCEPT !.pc = "prepared", !.items = Candidates, !.at = 1]
  /\ UNCHANGED <<inputs, matched, aligned, changes, ledger, given, budgets>>

(* upsert_change_for_passage_match: only a pair that is there can have one. *)
Storable(items) == {item.pair : item \in items} \subseteq aligned
WithChanges(items, kindOf(_)) ==
  LET pairs == {item.pair : item \in items} IN
  [p \in DOMAIN changes \cup pairs |->
     IF p \in pairs THEN [kind |-> kindOf(p), version |-> VersionOf[context]] ELSE changes[p]]

LocalItems == ToSet(attempt.items) \cap Local

StoreLocal ==
  /\ attempt.pc = "prepared" /\ Storable(LocalItems)
  /\ changes' = WithChanges(LocalItems, LAMBDA p : "no_change")
  /\ attempt' = [attempt EXCEPT !.pc = "stored"]
  /\ UNCHANGED <<inputs, matches, ledger, given, budgets>>

(* Without a run, or a batch, there is no ledger to reconcile. *)
SyncPlan ==
  LET plan   == PlanBatches(Those(attempt.items, Items \ Local))
      synced == Synced(ledger, plan, context) IN
  /\ attempt.pc = "stored"
  /\ IF attempt.ledgered /\ plan # <<>>
     THEN /\ ledger' = synced
          /\ attempt' = [attempt EXCEPT !.pc = "next", !.rows = synced]
     ELSE /\ UNCHANGED ledger
          /\ attempt' = [attempt EXCEPT !.pc = "next",
                           !.rows = [i \in DOMAIN plan |-> Pending(plan[i], context)]]
  /\ UNCHANGED <<inputs, matches, changes, given, budgets>>

AtBatch   == attempt.pc = "next" /\ attempt.at \in DOMAIN attempt.rows
ThisBatch == attempt.rows[attempt.at]

KnownFromRows ==   \* mutant: the ledger's own records not consulted
  attempt.known

(* overlay_from_records: the batch's own results join what is known; what  *)
(* could not be classified is final in a batch that is completed.          *)
Known == attempt.known \cup TextsOf(Outcome(ThisBatch.results, "success"))
Frozen ==
  IF ThisBatch.status = "completed"
  THEN attempt.prior \cup TextsOf(Outcome(ThisBatch.results, "requires_review"))
  ELSE {}

StartBatch ==
  /\ AtBatch
  /\ IF attempt.ledgered /\ ThisBatch.status # "completed"
     THEN ledger' = MarkProcessing(ledger, attempt.at)
     ELSE UNCHANGED ledger
  /\ attempt' = [attempt EXCEPT !.pc = "asking", !.known = Known,
                   !.todo = TextsOf(ToSet(ThisBatch.items)) \ (Known \cup Frozen)]
  /\ UNCHANGED <<inputs, matches, changes, given, budgets>>

(***************************************************************************)
(* classify_candidates: candidates with the same texts share a request; a  *)
(* provider error leaves some texts without an answer, and one the model   *)
(* fails to classify is left for review.                                   *)
(***************************************************************************)
Classify ==
  /\ attempt.pc = "asking"
  /\ \E answered \in SUBSET attempt.todo : \E good \in SUBSET answered :
       LET known   == attempt.known \cup good
           settled == {item \in ToSet(ThisBatch.items) : Text[item] \notin attempt.todo \ answered}
       IN  /\ attempt' = [attempt EXCEPT
                !.pc = IF answered = attempt.todo THEN "whole" ELSE "partial",
                !.known = known,
                !.records = [item \in settled |->
                   IF Text[item] \in known THEN "success" ELSE "requires_review"]]
           /\ given' = given \cup (good \X {context})
  /\ UNCHANGED <<inputs, matches, changes, ledger, budgets>>

(* A label that only fits a matched pair, answered for an added or removed *)
(* passage, raises out of classify_candidates (validate_evidence): every   *)
(* answer of the request is lost, and the batch fails without records.     *)
AnswerMisfit ==
  /\ attempt.pc = "asking"
  /\ attempt.todo \cap TextsOf(ToSet(ThisBatch.items) \cap OneSided) # {}
  /\ attempt' = [attempt EXCEPT !.pc = "failing"]
  /\ UNCHANGED <<inputs, matches, changes, ledger, given, budgets>>

RecordOf(p) == attempt.records[CHOOSE item \in DOMAIN attempt.records : item.pair = p]
Unrecorded  == ToSet(ThisBatch.items) \ DOMAIN ThisBatch.results

CommitBatchUnrecorded ==   \* mutant: completion without the outcomes
  /\ attempt.pc = "whole" /\ Storable(DOMAIN attempt.records)
  /\ changes' = WithChanges(DOMAIN attempt.records, RecordOf)
  /\ IF attempt.ledgered /\ (ThisBatch.status # "completed" \/ Unrecorded # {})
     THEN ledger' = MarkCompleted(ledger, attempt.at, NoResults)
     ELSE UNCHANGED ledger
  /\ attempt' = [attempt EXCEPT !.pc = "next", !.at = @ + 1, !.todo = {}, !.records = NoResults]
  /\ UNCHANGED <<inputs, matches, given, budgets>>

CommitBatch ==
  /\ attempt.pc = "whole" /\ Storable(DOMAIN attempt.records)
  /\ changes' = WithChanges(DOMAIN attempt.records, RecordOf)
  /\ IF attempt.ledgered /\ (ThisBatch.status # "completed" \/ Unrecorded # {})
     THEN ledger' = MarkCompleted(ledger, attempt.at, attempt.records)
     ELSE UNCHANGED ledger
  /\ attempt' = [attempt EXCEPT !.pc = "next", !.at = @ + 1, !.todo = {}, !.records = NoResults]
  /\ UNCHANGED <<inputs, matches, given, budgets>>

CommitPartialAndGoOn ==   \* mutant: a provider error does not stop the attempt
  /\ attempt.pc = "partial" /\ Storable(DOMAIN attempt.records)
  /\ changes' = WithChanges(DOMAIN attempt.records, RecordOf)
  /\ attempt' = [attempt EXCEPT !.pc = "next", !.at = @ + 1, !.todo = {}, !.records = NoResults]
  /\ UNCHANGED <<inputs, matches, ledger, given, budgets>>

CommitPartial ==
  /\ attempt.pc = "partial" /\ Storable(DOMAIN attempt.records)
  /\ changes' = WithChanges(DOMAIN attempt.records, RecordOf)
  /\ attempt' = [attempt EXCEPT !.pc = "failing"]
  /\ UNCHANGED <<inputs, matches, ledger, given, budgets>>

Complete ==
  /\ attempt.pc = "next" /\ attempt.at \notin DOMAIN attempt.rows
  /\ comparison' = [status |-> "completed", marker |-> Marker]
  /\ attempt' = Idle
  /\ UNCHANGED <<inputs, matched, aligned, changes, ledger, given, budgets>>

-----------------------------------------------------------------------------
(* Rows that would refer to what a parse has deleted are refused. *)
Refused ==
  \/ attempt.pc = "loaded" /\ ~Reusable /\ ~ (NamesOf[attempt.seen] \subseteq LiveNames[parse])
  \/ AtSection /\ ThisSection.name \in TwoSided \ matched
  \/ attempt.pc = "prepared" /\ ~Storable(LocalItems)
  \/ attempt.pc \in {"whole", "partial"} /\ ~Storable(DOMAIN attempt.records)

Fault ==
  /\ attempt.pc \notin {"idle", "asking", "failing", "raising"}
  /\ faults < MaxFaults /\ faults' = faults + 1

(* The transaction rolls back; a batch records its failure first. *)
LoseSession ==
  /\ Fault \/ (Refused /\ UNCHANGED faults)
  /\ attempt' = [attempt EXCEPT !.pc = IF @ \in {"whole", "partial"} THEN "failing" ELSE "raising"]
  /\ UNCHANGED <<inputs, matches, changes, ledger, given, attempts, crashes, drifts>>

RecordFailure ==
  /\ attempt.pc = "failing"
  /\ \/ /\ ledger' = IF attempt.ledgered THEN MarkFailed(ledger, attempt.at, attempt.records)
                                         ELSE ledger
        /\ UNCHANGED faults
     \/ faults < MaxFaults /\ faults' = faults + 1 /\ UNCHANGED ledger
  /\ attempt' = [attempt EXCEPT !.pc = "raising"]
  /\ UNCHANGED <<inputs, matches, changes, given, attempts, crashes, drifts>>

FailComparison ==
  /\ attempt.pc = "raising"
  /\ \/ comparison' = [comparison EXCEPT !.status = "failed"] /\ UNCHANGED faults
     \/ faults < MaxFaults /\ faults' = faults + 1 /\ UNCHANGED comparison
  /\ attempt' = Idle
  /\ UNCHANGED <<inputs, matched, aligned, changes, ledger, given, attempts, crashes, drifts>>

Crash ==
  /\ attempt.pc # "idle"
  /\ crashes < MaxCrashes /\ crashes' = crashes + 1
  /\ attempt' = Idle
  /\ UNCHANGED <<inputs, matches, changes, ledger, given, attempts, faults, drifts>>

(* replace_sections_and_tables, for either filing: what referred to the    *)
(* sections goes with them.                                                *)
Reparse ==
  /\ parse <= MaxReparses /\ parse' = parse + 1
  /\ matched' = matched \cap LiveNames[parse']
  /\ aligned' = aligned \cap LivePairs[parse']
  /\ changes' = Restrict(changes, DOMAIN changes \cap LivePairs[parse'])
  /\ UNCHANGED <<settings, context, comparison, ledger, attempt, given, budgets>>

Drift ==
  /\ attempt.pc = "idle"
  /\ drifts < MaxDrifts /\ drifts' = drifts + 1
  /\ settings' \in SettingSets /\ context' \in Contexts
  /\ <<settings', context'>> # <<settings, context>>
  /\ UNCHANGED <<parse, matches, changes, ledger, attempt, given, attempts, crashes, faults>>

Next ==
  \/ Begin \/ LoadSections \/ ReuseMatching \/ ReplaceSectionMatches \/ AlignSection
  \/ MarkMatched \/ PrepareCandidates \/ StoreLocal \/ SyncPlan \/ StartBatch \/ Classify
  \/ AnswerMisfit \/ CommitBatch \/ CommitPartial \/ Complete \/ LoseSession \/ RecordFailure
  \/ FailComparison \/ Crash \/ Reparse \/ Drift

Spec == Init /\ [][Next]_vars

-----------------------------------------------------------------------------
(***************************************************************************)
(* "The marker is present exactly when the matches are complete": matching *)
(* that would be reused is all of what its fingerprint gives, after any    *)
(* interrupted recomputation, change of settings or new parse.             *)
(***************************************************************************)
ReusedMatchingIsComplete ==
  LET marker == comparison.marker IN
  (/\ marker.print # None
   /\ marker.sections = Cardinality(matched) /\ marker.pairs = Cardinality(aligned))
  => matched = NamesOf[marker.print] /\ aligned = PairsOf[marker.print]

(***************************************************************************)
(* A comparison completed for the filings as they are has one change for   *)
(* each pair of their passages, settled locally or by the model as the     *)
(* pair requires (process_comparison; a parse that comes in between makes  *)
(* attempts fail, or leaves a completed comparison of filings gone).       *)
(***************************************************************************)
CompletedIsWhole ==
  (/\ comparison.status = "completed" /\ comparison.marker.print.parse = parse)
  => /\ DOMAIN changes = PairsOf[comparison.marker.print]
     /\ \A p \in DOMAIN changes :
          [pair |-> p, live |-> TRUE] \in Local <=> changes[p].kind = "no_change"

(* A batch is completed with the outcome of each of its items: the repair  *)
(* of completed batches without records "should stay 0".                   *)
NothingToRepair ==
  \A i \in DOMAIN ledger :
    ledger[i].status = "completed" => ToSet(ledger[i].items) \subseteq DOMAIN ledger[i].results

(***************************************************************************)
(* An attempt for the run never asks again what this batch, or an earlier  *)
(* one, has a result for on record, even when the changes themselves were  *)
(* wiped (overlay_from_records).                                           *)
(***************************************************************************)
ResultsAreNotAskedAgain ==
  (attempt.pc = "asking" /\ attempt.ledgered) =>
    \A i \in 1..attempt.at :
      attempt.todo \cap TextsOf(Outcome(ledger[i].results, "success")) = {}

(***************************************************************************)
(* Every result, in the changes or on record, is one the provider gave for *)
(* the same texts and the same version of the prompt, however often it has *)
(* been copied between attempts, batches and pairs.                        *)
(***************************************************************************)
Answered(text, version) == \E c \in Contexts : VersionOf[c] = version /\ <<text, c>> \in given
ResultsWereGiven ==
  /\ \A p \in DOMAIN changes : changes[p].kind = "success" =>
       Answered(Text[[pair |-> p, live |-> TRUE]], changes[p].version)
  /\ \A i \in DOMAIN ledger : \A item \in Outcome(ledger[i].results, "success") :
       Answered(Text[item], VersionOf[ledger[i].context])

(* "Reuse also keeps already-classified disclosure changes": while matching *)
(* for the filings and settings in force is complete, no change goes away. *)
Matched(print) ==
  /\ comparison.marker.print = print
  /\ matched = NamesOf[print] /\ aligned = PairsOf[print]
ClassifiedIsKept ==
  [][(Matched(Now) /\ Now' = Now) => DOMAIN changes \subseteq DOMAIN changes']_vars

=============================================================================
