--------------------------- MODULE FinancialFindings ---------------------------
(***************************************************************************)
(* The claims of one comparison, from the facts of XBRL to the findings    *)
(* reviewers decide on: jobs that extract and verify claims, the job that  *)
(* looks for contradictions, the ingestion that replaces the facts of the  *)
(* company, and reviewers, all at once over one database.                  *)
(*                                                                         *)
(* A job works in one transaction: what it wrote is in its record until    *)
(* it commits or is rolled back.  Postgres decides who waits: a row that   *)
(* another transaction changed, a fact that an uncommitted row refers to.  *)
(***************************************************************************)
EXTENDS FindingRules

CONSTANTS
  Workers, Reviewers,
  Claims,          \* the claims extraction finds, in the order they are listed once stored
  ClaimLimit,      \* the limit of the listing a verification works on: 1000
  ClaimEdits,      \* claim -> the records a reviewer may turn it into
  Concepts,        \* metric -> its active concepts by priority
  Behavior,        \* metric -> how its periods behave
  FactSets,        \* the sets of facts ingestion may store, each a sequence
  ComparisonFiling,
  Changes, Sections,   \* disclosure changes and sections as the narrative rules read them
  Orders,          \* orders a process may try qualifiers in
  ReviewTypes, ReviewSeverities, ReviewStatuses

VARIABLES
  extracted,   \* how many of Claims are stored
  claims,      \* claim -> its row, as extraction finds it until it is stored
  facts,       \* which of FactSets is stored
  verdicts,    \* claim -> <<>> or <<its verification row>>
  findings,    \* fingerprint -> finding row
  workers,     \* worker -> its job and what it has not committed yet
  reviews      \* reviewer -> <<>> or <<the fingerprint and row it loaded>>

vars == <<extracted, claims, facts, verdicts, findings, workers, reviews>>

Ids == {Claims[i].id : i \in DOMAIN Claims}
Original(c) == CHOOSE row \in Range(Claims) : row.id = c

(* What a database holds: lists are finite, a claim and a change are known *)
(* by their ids, an edit keeps the id and marks the row, and the concepts  *)
(* of a metric have an integer for their priority.                         *)
ASSUME FindingsAssumption ==
  /\ ClaimLimit \in Nat
  /\ Claims \in Seq(Range(Claims)) /\ Changes \in Seq(Range(Changes))
  /\ \A i, j \in DOMAIN Claims : Claims[i].id = Claims[j].id => i = j
  /\ \A i, j \in DOMAIN Changes : Changes[i].id = Changes[j].id => i = j
  /\ \A c \in Ids : \A row \in ClaimEdits[c] : row.id = c /\ row.edited
  /\ \A m \in DOMAIN Concepts :
       /\ Concepts[m] \in Seq(Range(Concepts[m]))
       /\ \A concept \in Range(Concepts[m]) : concept.priority \in Int
  /\ \A s \in DOMAIN FactSets : FactSets[s] \in Seq(Range(FactSets[s]))

Idle == [job |-> "idle", upto |-> 0, todo |-> <<>>, written |-> {}, inserts |-> FALSE,
         pairs |-> {}, found |-> {}]

Init ==
  /\ extracted = 0
  /\ claims = [c \in Ids |-> Original(c)]
  /\ facts \in DOMAIN FactSets
  /\ verdicts = [c \in Ids |-> Missing]
  /\ findings = <<>>
  /\ workers = [w \in Workers |-> Idle]
  /\ reviews = [r \in Reviewers |-> <<>>]

-----------------------------------------------------------------------------
(* Verification of one claim against the facts stored now.                 *)

ResolveFor(claim, filing) ==
  Resolve(Concepts[claim.metric], FactSets[facts], filing,
          ExpectedPeriod([behavior |-> Behavior[claim.metric]], claim.basis))

(* The second fact is looked for only for a claim that compares, on a      *)
(* basis the periods of two filings can stand for, and always in the       *)
(* filing compared with: for a claim which that filing makes itself, it is *)
(* the first fact again.                                                   *)
ComparisonOf(claim) ==
  IF claim.type \notin NeedsComparison \/ claim.basis \notin SupportedBases THEN NotCompared
  ELSE ResolveFor(claim, ComparisonFiling)

Resting(verdict, current, comparison) ==   \* a verdict on the facts it was calculated from
  [status |-> verdict.status, type |-> verdict.type, absolute |-> verdict.absolute,
   percent |-> verdict.percent, points |-> verdict.points, difference |-> verdict.difference,
   current |-> current, comparison |-> comparison]

(* What verifying a claim writes, from the facts of the filing the claim   *)
(* is made in.  The candidates it stores are read by nobody but reviewers; *)
(* all that counts is that they refer to facts.                            *)
Verified(claim) ==
  IF claim.metric \notin DOMAIN Concepts
  THEN [claim |-> claim.id, refers |-> FALSE,
        verdict |-> Resting(Uncomputed("unsupported_metric"), Missing, Missing)]
  ELSE LET current == ResolveFor(claim, claim.filing)
           comparison == IF current.status = "selected" THEN ComparisonOf(claim) ELSE NotCompared
       IN  [claim |-> claim.id, refers |-> current.rows \o comparison.rows # <<>>,
            verdict |-> Resting(Verdict(claim, current, comparison), current.fact, comparison.fact)]

-----------------------------------------------------------------------------
(* Extraction and verification jobs.                                       *)

WrittenBy(w) == {p.claim : p \in workers[w].written}
OtherWrites(w, c) == \E o \in Workers \ {w} : c \in WrittenBy(o)
LockFree(job) == \A w \in Workers : workers[w].job # job

FirstPage(n) == IF n > ClaimLimit THEN ClaimLimit ELSE n
Stored == {Claims[i].id : i \in 1..extracted}

(* The extraction of the workflow commits batch after batch under the lock *)
(* of the verification, and may end after any of them.                     *)
CommitExtracted ==
  /\ LockFree("verify_comparison")
  /\ extracted' \in extracted..Len(Claims)
  /\ UNCHANGED <<claims, facts, verdicts, findings, workers, reviews>>

(* A job that is not the workflow's extracts first, in its transaction,    *)
(* what it can.  The claims it then lists, its own after those stored      *)
(* before, are read once: a reviewer's later change of one is not seen.    *)
StartVerifyComparison(w) ==
  /\ workers[w] = Idle
  /\ LockFree("verify_comparison")
  /\ \E upto \in extracted..Len(Claims) :
       workers' = [workers EXCEPT ![w] = [Idle EXCEPT !.job = "verify_comparison", !.upto = upto,
                     !.todo = [i \in 1..FirstPage(upto) |-> claims[Claims[i].id]]]]
  /\ UNCHANGED <<extracted, claims, facts, verdicts, findings, reviews>>

(* The job for one claim takes no lock.                                    *)
StartVerifyClaim(w, c) ==
  /\ workers[w] = Idle /\ c \in Stored
  /\ workers' = [workers EXCEPT ![w] = [Idle EXCEPT !.job = "verify_claim",
                   !.todo = <<claims[c]>>]]
  /\ UNCHANGED <<extracted, claims, facts, verdicts, findings, reviews>>

(* Another job has written this claim's first verdict and not committed:   *)
(* this one saw none, so it inserts one too, and waits.                    *)
MeetInsert(w) ==
  /\ workers[w].todo # <<>> /\ ~workers[w].inserts
  /\ LET c == Head(workers[w].todo).id IN OtherWrites(w, c) /\ verdicts[c] = Missing
  /\ workers' = [workers EXCEPT ![w].inserts = TRUE]
  /\ UNCHANGED <<extracted, claims, facts, verdicts, findings, reviews>>

(* One claim has one verdict of a version: the second insert is refused.   *)
InsertsTwice(w) == workers[w].inserts /\ verdicts[Head(workers[w].todo).id] # Missing

VerifyNextCommitting(w) ==   \* mutant: every claim is committed by itself
  /\ workers[w].todo # <<>>
  /\ ~OtherWrites(w, Head(workers[w].todo).id) /\ ~InsertsTwice(w)
  /\ LET write == Verified(Head(workers[w].todo)) IN
     /\ verdicts' = [verdicts EXCEPT ![write.claim] = <<write.verdict>>]
     /\ workers' = [workers EXCEPT ![w].todo = Tail(@), ![w].inserts = FALSE,
                                   ![w].written = IF Len(workers[w].todo) = 1 THEN {write} ELSE @]
  /\ UNCHANGED <<extracted, claims, facts, findings, reviews>>

VerifyNext(w) ==
  /\ workers[w].todo # <<>>
  /\ ~OtherWrites(w, Head(workers[w].todo).id)
  /\ ~InsertsTwice(w)
  /\ workers' = [workers EXCEPT ![w].todo = Tail(@), ![w].inserts = FALSE,
                                ![w].written = @ \cup {Verified(Head(workers[w].todo))}]
  /\ UNCHANGED <<extracted, claims, facts, verdicts, findings, reviews>>

CommitVerdicts(w) ==
  /\ workers[w].job \in {"verify_comparison", "verify_claim"}
  /\ workers[w].todo = <<>>
  /\ extracted' = IF workers[w].job = "verify_comparison" THEN workers[w].upto ELSE extracted
  /\ LET of == [c \in WrittenBy(w) |->
                  CHOOSE p \in workers[w].written : p.claim = c] IN
     /\ verdicts' = [c \in Ids |-> IF c \in DOMAIN of THEN <<of[c].verdict>> ELSE verdicts[c]]
  /\ workers' = [workers EXCEPT ![w] = Idle]
  /\ UNCHANGED <<claims, facts, findings, reviews>>

(* A job fails or its process dies: nothing it wrote stays.                *)
RollBack(w) ==
  /\ workers[w] # Idle
  /\ workers' = [workers EXCEPT ![w] = Idle]
  /\ UNCHANGED <<extracted, claims, facts, verdicts, findings, reviews>>

-----------------------------------------------------------------------------
(* The ingestion of a company's facts deletes every stored one: the        *)
(* verdicts forget which they used.  The delete waits for the jobs whose   *)
(* uncommitted rows refer to them.                                         *)
ReplaceFacts ==
  /\ \A w \in Workers : \A p \in workers[w].written : ~p.refers
  /\ facts' \in DOMAIN FactSets
  /\ verdicts' = [c \in Ids |-> IF verdicts[c] = Missing THEN Missing
                   ELSE <<[verdicts[c][1] EXCEPT !.current = Missing, !.comparison = Missing]>>]
  /\ UNCHANGED <<extracted, claims, findings, workers, reviews>>

(* A reviewer corrects a claim; nothing verifies it again.                 *)
ReviewClaim(c) ==
  /\ c \in Stored
  /\ \E row \in ClaimEdits[c] : claims' = [claims EXCEPT ![c] = row]
  /\ UNCHANGED <<extracted, facts, verdicts, findings, workers, reviews>>

-----------------------------------------------------------------------------
(* Contradiction analysis.                                                 *)

(* No two findings of an analysis have one fingerprint, so that it makes   *)
(* no difference in which order they are stored.                           *)
FoundIn(pairs, ranks) ==
  (UNION {DetectForClaim(p.claim, p.verdict, ranks) : p \in pairs})
  \cup (UNION {TemporalDetect(Changes[i]) : i \in DOMAIN Changes})
  \cup CrossSectionDetect(Sections)

Analyze(w) ==
  /\ workers[w] = Idle
  /\ LockFree("analyze")
  /\ \E ranks \in Orders :
       LET pairs == {[claim |-> claims[c], verdict |-> verdicts[c][1]] :
                       c \in {c \in Ids : verdicts[c] # Missing}}
       IN  workers' = [workers EXCEPT ![w] = [Idle EXCEPT !.job = "analyze", !.pairs = pairs,
                         !.found = FoundIn(pairs, ranks)]]
  /\ UNCHANGED <<extracted, claims, facts, verdicts, findings, reviews>>

(* An analysis that finds a finding again writes every field but the       *)
(* review, the edited ones included; type and severity stand for these.    *)
NewRow(f) ==
  [type |-> f.type, status |-> f.status, severity |-> f.severity, of |-> f.of,
   original |-> f, review |-> "pending", edits |-> <<>>]
OverwrittenWhole(row, f) == NewRow(f)   \* mutant: the review goes with the old finding
Overwritten(row, f) ==
  [row EXCEPT !.type = f.type, !.status = f.status, !.severity = f.severity, !.original = f]

UpsertFinding(stored, key, f) ==
  IF key \in DOMAIN stored THEN Overwritten(stored[key], f) ELSE NewRow(f)

(* The findings are upserted by fingerprint and committed together; a      *)
(* finding that is not found again stays as it is.                         *)
StoreFindings(w) ==
  /\ workers[w].job = "analyze"
  /\ LET keys == {c.key : c \in workers[w].found} IN
     findings' = [k \in DOMAIN findings \cup keys |->
                    IF k \notin keys THEN findings[k]
                    ELSE LET c == CHOOSE c \in workers[w].found : c.key = k
                         IN  UpsertFinding(findings, k, c.finding)]
  /\ workers' = [workers EXCEPT ![w] = Idle]
  /\ UNCHANGED <<extracted, claims, facts, verdicts, reviews>>

-----------------------------------------------------------------------------
(* A reviewer's request: the row is loaded, and what differs from the      *)
(* loaded row is written.                                                  *)
LoadFinding(r) ==
  /\ reviews[r] = <<>>
  /\ \E k \in DOMAIN findings :
       reviews' = [reviews EXCEPT ![r] = <<[key |-> k, row |-> findings[k]]>>]
  /\ UNCHANGED <<extracted, claims, facts, verdicts, findings, workers>>

Asked(given, loaded) == IF given = Missing THEN loaded ELSE given[1]
Kept(given, loaded, stored) == IF Asked(given, loaded) = loaded THEN stored ELSE given[1]

SaveReview(r) ==
  /\ reviews[r] # <<>>
  /\ \E type \in {Missing} \cup {<<t>> : t \in ReviewTypes},
        severity \in {Missing} \cup {<<s>> : s \in ReviewSeverities},
        status \in ReviewStatuses :
       LET key == reviews[r][1].key
           loaded == reviews[r][1].row
           edits == (IF type = Missing THEN <<>> ELSE "type" :> loaded.type)
                    @@ (IF severity = Missing THEN <<>> ELSE "severity" :> loaded.severity)
                    @@ loaded.edits
       IN  findings' = [findings EXCEPT
             ![key].type = Kept(type, loaded.type, @),
             ![key].severity = Kept(severity, loaded.severity, @),
             ![key].review = Kept(<<status>>, loaded.review, @),
             ![key].edits = Kept(<<edits>>, loaded.edits, @)]
  /\ reviews' = [reviews EXCEPT ![r] = <<>>]
  /\ UNCHANGED <<extracted, claims, facts, verdicts, workers>>

-----------------------------------------------------------------------------
Next ==
  \/ CommitExtracted
  \/ \E w \in Workers :
       \/ StartVerifyComparison(w)
       \/ \E c \in Ids : StartVerifyClaim(w, c)
       \/ MeetInsert(w)
       \/ VerifyNext(w)
       \/ CommitVerdicts(w)
       \/ RollBack(w)
       \/ Analyze(w)
       \/ StoreFindings(w)
  \/ ReplaceFacts
  \/ \E c \in Ids : ReviewClaim(c)
  \/ \E r \in Reviewers : LoadFinding(r) \/ SaveReview(r)

Spec == Init /\ [][Next]_vars

-----------------------------------------------------------------------------
RestsOnFittingFacts(claim, verdict) ==
  \A fact \in Range(verdict.current) \cup Range(verdict.comparison) :
    /\ FactPeriod(fact) = ExpectedPeriod([behavior |-> Behavior[claim.metric]], claim.basis)
    /\ \E concept \in Range(Concepts[claim.metric]) :
         concept.name = fact.concept /\ UnitsCompatible(concept.category, fact.unit)

(* A fact a verdict rests on is of an active concept of the metric, in a   *)
(* unit of it, and covers an instant, a quarter or the year to date as the *)
(* claim does, however well another fact scores and whatever ingestion did *)
(* while the job ran.  Which quarter it covers only counts in the score:   *)
(* see PeriodScore.                                                        *)
VerdictsUseFittingFacts ==
  \A c \in Ids : verdicts[c] # Missing /\ ~claims[c].edited =>
    RestsOnFittingFacts(claims[c], verdicts[c][1])

(* When a job that verifies the whole comparison commits, every claim that *)
(* is then stored, its own and those found before, has a verdict, but for  *)
(* those beyond the limit of the listing; and a verdict that arithmetic    *)
(* gave has the facts it was calculated from, whatever ingestion and the   *)
(* jobs for single claims did while the job ran.                           *)
VerifiedComparisonIsWhole ==
  [][\A w \in Workers : workers[w].job = "verify_comparison" /\ CommitVerdicts(w) =>
       \A i \in 1..FirstPage(extracted') :
         LET verdict == verdicts'[Claims[i].id] IN
         /\ verdict # Missing
         /\ verdict[1].type # "none" => verdict[1].current # Missing]_vars

NumericalTypes == {"numerical_claim_contradiction", "direction_contradiction"}

(* An analysis leaves no contradicted claim without a finding, and calls   *)
(* it a candidate only when the passage and the facts that prove it are    *)
(* there; without them the finding says so.                                *)
ContradictionsAreFound ==
  [][\A w \in Workers : StoreFindings(w) =>
       \A p \in workers[w].pairs : p.verdict.status = "contradicted" =>
         \E k \in DOMAIN findings' :
           /\ findings'[k].of = p.claim.id /\ findings'[k].type \in NumericalTypes
           /\ findings'[k].status = IF EvidenceMissing(p.claim, p.verdict)
                                    THEN "insufficient_evidence" ELSE "candidate"]_vars

(* The status a reviewer gave a finding and the record of what the edits   *)
(* replaced are changed by reviewers only: no analysis resets them, and no *)
(* finding disappears.  The edited values are not kept: Overwritten puts   *)
(* those of the analysis back.                                             *)
DecisionsSurvive ==
  [][\A k \in DOMAIN findings :
       /\ k \in DOMAIN findings'
       /\ \/ findings'[k].review = findings[k].review /\ findings'[k].edits = findings[k].edits
          \/ \E r \in Reviewers : reviews[r] # <<>> /\ reviews[r][1].key = k /\ reviews'[r] = <<>>
       ]_vars

(* A claim whose reported change is what the facts give, in the direction  *)
(* it names, is not contradicted: "Operating income declined 5% year over  *)
(* year." is expected to be verified (phase4_examples.json).               *)
TrueDeclinesHold ==
  \A c \in Ids : verdicts[c] # Missing /\ ~claims[c].edited =>
    LET v == verdicts[c][1] IN
    /\ claims[c].type = "percentage_change" /\ claims[c].change # Missing
    /\ v.percent # Missing /\ DirectionOk(claims[c].direction, v.percent[1])
    /\ Size(v.percent[1]) = claims[c].change[1]
    => v.status # "contradicted"

=============================================================================
