------------------------------ MODULE Algorithms ------------------------------
(***************************************************************************)
(* The pure algorithms of the system on every input up to a bound.  A      *)
(* behaviour picks a task and writes its input, two sequences, an element  *)
(* a step; what the algorithm makes of the input so far is an invariant.   *)
(***************************************************************************)
EXTENDS BatchPlan, Alignment, Chunking, Retrieval, ChangeRules, ClaimParsing, FindingRules,
        Readiness, ReviewRules

CONSTANTS
  Alphabet,    \* [task -> the elements of its inputs, left and right]
  Bound,       \* [task -> bounds: the lengths of its inputs, left and right]
  Sections,    \* what a change may be said of
  Facts,       \* <<reported fact, compared fact>> a claim may be checked with
  Orders,      \* orders a process may try qualifiers in
  Requests,    \* searches asked of the chunks
  RunsShown    \* rows of runs the responses are built from

ASSUME AlphabetAssumption ==
  /\ Alphabet["plan"].left \subseteq Items
  /\ \A section \in Alphabet["sections"].left \cup Alphabet["sections"].right :
       section.text \in Wordings /\ section.title \in Wordings
  /\ Alphabet["passages"].left \cup Alphabet["passages"].right \subseteq Wordings
  /\ \A row \in Alphabet["progress"].left \cup Alphabet["progress"].right :
       {"status", "review", "error", "at"} \subseteq DOMAIN row /\ row.at \in Nat
  /\ \A finding \in Alphabet["report"].left :
       /\ {"id", "type", "severity", "confidence", "review", "status", "evidence"}
            \subseteq DOMAIN finding
       /\ finding.severity \in DOMAIN SeverityOrder /\ finding.confidence \in 0..Whole
  /\ \A element \in Alphabet["report"].right :
       \/ {"id", "kind", "status"} \subseteq DOMAIN element /\ element.kind = "verdict"
       \/ /\ {"id", "kind", "label"} \subseteq DOMAIN element /\ element.kind = "change"
          /\ element.label \in Labels \cup {"requires_review"}
  /\ Alphabet["chunks"].left \subseteq Seq(Nat) /\ Alphabet["chunks"].right \subseteq Seq(Nat)
  /\ \A chunk \in Alphabet["retrieval"].left :
       {"id", "dense", "lexical"} \subseteq DOMAIN chunk /\ chunk.dense \in Int /\ chunk.lexical \in Int

ASSUME BoundAssumption ==
  \A t \in DOMAIN Alphabet : Bound[t].left \in Nat /\ Bound[t].right \in Nat

(* The reranker has a score for each of the chunks.                        *)
ASSUME RequestsAssumption ==
  \A request \in Requests :
    /\ request.candidateK \in Nat /\ request.topK \in Nat
    /\ \A id \in 1..Bound["retrieval"].left : request.relevance[id] \in Int

(* The facts a claim is checked with here are there.                       *)
ASSUME FactsAssumption ==
  /\ Orders # {}
  /\ \A pair \in Facts : \A side \in 1..2 :
       /\ pair[side].status = "selected"
       /\ pair[side].fact[1].value \in Int

(* A run is shown with the nodes of the graph it has done.                 *)
ASSUME RunsShownAssumption ==
  \A run \in RunsShown :
    /\ {"nodes", "current", "status", "failureNode", "failureCode"} \subseteq DOMAIN run
    /\ run.nodes \subseteq 1..NodeCount

VARIABLES task, left, right
vars == <<task, left, right>>

Init ==
  /\ task \in DOMAIN Alphabet
  /\ left = <<>> /\ right = <<>>

WriteLeft(element) ==
  /\ right = <<>> /\ Len(left) < Bound[task].left
  /\ left' = Append(left, element)
  /\ UNCHANGED <<task, right>>

WriteRight(element) ==
  /\ Len(right) < Bound[task].right
  /\ right' = Append(right, element)
  /\ UNCHANGED <<task, left>>

Next == \/ \E element \in Alphabet[task].left : WriteLeft(element)
        \/ \E element \in Alphabet[task].right : WriteRight(element)

Spec == Init /\ [][Next]_vars

-----------------------------------------------------------------------------
(* The plan of a stage's items (batching.py).                              *)

(***************************************************************************)
(* The plan holds every item once and in order; no request exceeds its     *)
(* limits, but for a single item too large for any; no other way to cut    *)
(* the items into consecutive allowed requests needs fewer of them; and a  *)
(* last item added leaves every batch but the last as it was, so that what *)
(* a resumed stage completed is found at the same index (sync_plan).       *)
(***************************************************************************)
PlanIsSound ==
  task = "plan" =>
    LET plan == PlanBatches(left)
        shorter == PlanBatches(SubSeq(left, 1, Len(left) - 1))
    IN  /\ HoldsInOrder(plan, left)
        /\ FewestBatches(plan, left)
        /\ left # <<>> => KeepsBatches(shorter, plan)

-----------------------------------------------------------------------------
(* Sections and passages of two filings.                                   *)

(* A section that has not changed is wholly matched.                       *)
PassagesAligned ==
  LET matches == AlignPassages(left, right) IN
  /\ PassagesFit(matches, left, right)
  /\ left = right => \A k \in DOMAIN matches : matches[k].type = "matched"

(***************************************************************************)
(* Every section and every passage of the two filings is in one match, or  *)
(* alone, exactly once; matches score what the settings ask; no two        *)
(* sections that go together are both left alone; passages cross nowhere   *)
(* and a section that has not changed is wholly matched                    *)
(* (section_matching_service.py, passage_alignment_service.py).            *)
(***************************************************************************)
AlignmentIsSound ==
  /\ task = "sections" => SectionsFit(MatchSections(left, right), left, right)
  /\ task = "passages" => PassagesAligned

-----------------------------------------------------------------------------
(* The paragraphs of a section, its words numbered; and its tables.        *)

Numbered(sizes) ==
  LET before(p, s) == SumOf(FlattenSeq(SubSeq(sizes, 1, p - 1)) \o SubSeq(sizes[p], 1, s - 1))
  IN  [p \in DOMAIN sizes |->
         [s \in DOMAIN sizes[p] |-> [w \in 1..sizes[p][s] |-> before(p, s) + w]]]

(* Each chunk starts with the last words of the one before it and goes on   *)
(* with words of its own; these are, one after the other, the section.      *)
ChunksCoverTheText ==
  LET paragraphs == Numbered(left)
      chunks == SectionChunks([paragraphs |-> paragraphs, tables |-> right])
      texts == Cardinality({k \in DOMAIN chunks : chunks[k].kind = "text"})
      kept(k) == Cardinality({j \in 1..k : right[j] # <<>>})
      overlap(k) == IF k = 1 THEN <<>> ELSE LastWords(chunks[k - 1].words, OverlapTokens)
      own == [k \in 1..texts |->
                SubSeq(chunks[k].words, Len(overlap(k)) + 1, Len(chunks[k].words))]
  IN  /\ \A k \in 1..texts :
           /\ chunks[k].kind = "text" /\ chunks[k].local = k
           /\ chunks[k].words = overlap(k) \o own[k] /\ own[k] # <<>>
           /\ Len(chunks[k].words) <= MaxTokens + OverlapTokens
      /\ FlattenSeq(own) = FlattenSeq(FlattenSeq(paragraphs))
      /\ Len(chunks) = texts + kept(Len(right))
      /\ \A k \in DOMAIN right : right[k] # <<>> => chunks[texts + kept(k)].words = right[k]

(* The chunks and the findings of an input are known by their places.      *)
Known(s) == [k \in DOMAIN s |-> [s[k] EXCEPT !.id = k]]

(* A search that found x did not find y, or found it further down.         *)
Prefers(results, x, y) ==
  /\ RankOf(results, x) # 0
  /\ RankOf(results, y) = 0 \/ RankOf(results, x) < RankOf(results, y)

(* A chunk that one search ranks above another, and the other search not   *)
(* below it, comes before it; only chunks that pass the filters come, each *)
(* once, and no more than asked.                                           *)
FusionRespectsBothRankings ==
  \A request \in Requests :
    LET dense == DenseSearch(Known(left), request.filters, request.candidateK)
        lexical == LexicalSearch(Known(left), request.filters, request.candidateK)
        found == HybridSearch(Known(left), request)
    IN  /\ Len(found) <= request.topK
        /\ IsInjective(found)
        /\ \A k \in DOMAIN found : Passes(found[k], request.filters)
        /\ Len(found) = Min({request.topK, request.candidateK, RerankerLimit,
                             Cardinality(ToSet(dense) \cup ToSet(lexical))})
        /\ ~request.rerank =>
             \A x, y \in ToSet(dense) \cup ToSet(lexical) :
               Prefers(dense, x, y) /\ ~Prefers(lexical, y, x) /\ RankOf(found, y) # 0
                 => RankOf(found, x) \in 1..RankOf(found, y)

(***************************************************************************)
(* Search finds what the filing says: chunks hold every word of a section, *)
(* in order and with their overlap (chunking_service.py), and the fusion   *)
(* of the two searches goes against neither (retrieval_service.py).        *)
(***************************************************************************)
SearchIsSound ==
  /\ task = "chunks" => ChunksCoverTheText
  /\ task = "retrieval" => FusionRespectsBothRankings

-----------------------------------------------------------------------------
(* A text with no words is a blank passage, or none.                       *)
Sides(words) == IF words = <<>> THEN {Absent, <<words>>} ELSE {<<words>>}

(***************************************************************************)
(* The change found between two passages has evidence on the sides its     *)
(* label needs (validate_evidence never refuses it), no materiality above  *)
(* one, is not material when the texts are equal, and read the other way   *)
(* is its opposite: what was added was removed, and what got stronger got  *)
(* weaker (semantic_change.py, disclosure_change_service.py).              *)
(***************************************************************************)
LabelsFitTheirPair ==
  task = "changes" =>
    \A previous \in Sides(left), current \in Sides(right), section \in Sections :
      (previous # Absent \/ current # Absent) =>
        LET change == DetectChange(previous, current, section)
            back == DetectChange(current, previous, section)
        IN  /\ change.label \in Labels
            /\ ValidEvidence(change.label, previous, current)
            /\ change.materiality \in 0..Whole
            /\ previous = current => change.label = "no_material_change"
            /\ change.label = "added" <=> back.label = "removed"
            /\ change.label = "strengthened" => back.label = "weakened"

(* A claim of a sentence with a number is judged once both facts are there. *)
ClaimsCanBeJudged ==
  LET claims == DeterministicExtract(<<left>>)
      numbers == ParseAllNumbers(left)
      stored == PersistExtractions(<<>>, claims)
  IN  /\ PersistExtractions(stored, HybridExtract(<<left, left>>, <<>>)) = stored
      /\ \A claim \in ToSet(claims) :
           /\ numbers # <<>> => \A pair \in Facts :
                Verdict(claim, pair[1], pair[2]).status
                  \in {"verified", "approximately_verified", "contradicted", "zero_denominator"}
           /\ ToSet(claim.value \o claim.change) \subseteq {n.value : n \in ToSet(numbers)}
           /\ claim.metric # "none" =>
                \E m \in NamedIn(left) : /\ claim.metric = Registry[m].name
                                         /\ NamedIn(left) = {m} \/ ExactAliases(left) # {}

(* The rows the rules read: a claim with its passage, a verdict with its   *)
(* facts.                                                                  *)
ClaimRow(claim) ==
  [id |-> 1, passage |-> TRUE, text |-> ToSet(claim.text), metric |-> claim.metric,
   direction |-> claim.direction]
VerdictRow(claim, pair) ==
  LET verdict == Verdict(claim, pair[1], pair[2]) IN
  [status |-> verdict.status, type |-> verdict.type, absolute |-> verdict.absolute,
   percent |-> verdict.percent, points |-> verdict.points,
   current |-> pair[1].fact, comparison |-> pair[2].fact]

(* What the rules say of the claims read here, by the order of qualifiers. *)
FoundOf(claim, pair, ranks) ==
  LET row == ClaimRow(claim)
      verdict == VerdictRow(claim, pair)
  IN  {c.finding : c \in DetectForClaim(row, verdict, ranks)}

(* The settings as they come: a small change is below a large one.  They    *)
(* are only held to be no less than zero.                                   *)
ThresholdsApart == SmallPercent < LargePercent /\ SmallPoints < LargePoints

(* Only a contradicted claim, and each, has a finding that needs a review   *)
(* for its severity or type; no claim is too strong in one process and too  *)
(* weak in another unless the thresholds cross.                             *)
ClaimsAreFoundFairly ==
  \A claim \in ToSet(DeterministicExtract(<<left>>)), pair \in Facts :
    LET types == {f.type : f \in UNION {FoundOf(claim, pair, ranks) : ranks \in Orders}}
        numerical == {"numerical_claim_contradiction", "direction_contradiction"}
        contradicted == Verdict(claim, pair[1], pair[2]).status = "contradicted"
    IN  /\ contradicted <=> types \cap numerical # {}
        /\ contradicted => types \subseteq numerical
        /\ ThresholdsApart =>
             ~({"magnitude_overstatement", "magnitude_understatement"} \subseteq types)
        /\ ~contradicted => \A ranks \in Orders : \A f \in FoundOf(claim, pair, ranks) :
                              f.severity \in {"low", "medium"}

(* Two sections that go on saying nothing until close to their limit.      *)
Said(sentences) == [k \in 1..18 |-> {}] \o sentences
BetweenSections(mda, risks) ==
  CrossSectionDetect(<<[id |-> "s1", type |-> "mda", sentences |-> Said(mda)],
                       [id |-> "s2", type |-> "risk_factors", sentences |-> Said(risks)]>>)
OverTime(previous, current) ==
  TemporalDetect([id |-> "d1", previous |-> UNION ToSet(previous), current |-> UNION ToSet(current),
                  materiality |-> 70])

NarrativesAreStable ==
  \A more \in Alphabet["narrative"].left :
    /\ BetweenSections(left, right) \subseteq BetweenSections(Append(left, more), right)
    /\ BetweenSections(left, right) # {} => BetweenSections(left, Append(right, more)) # {}
    /\ OverTime(left, right) \subseteq OverTime(Append(left, more), right)
                                         \cap OverTime(left, Append(right, more))

(***************************************************************************)
(* A claim read from a sentence with a number carries what its type is     *)
(* verified with: once both facts are there it is judged, and never left   *)
(* as insufficient; a number it carries is in the sentence; its metric is  *)
(* the only one the sentence names or the sentence itself; reading a       *)
(* passage again stores nothing new; only contradicted claims have         *)
(* numerical findings, and none is both too strong and too weak unless the *)
(* thresholds cross.  A filing that says more keeps the inconsistencies  *)
(* found in it, under their fingerprints where it is the management's      *)
(* discussion that got longer (financial_claim_extraction_service.py,      *)
(* contradiction_analysis_service.py).                                     *)
(***************************************************************************)
ReadingsAreSound ==
  /\ task = "claims" => ClaimsCanBeJudged /\ ClaimsAreFoundFairly
  /\ task = "narrative" => NarrativesAreStable

-----------------------------------------------------------------------------
(* The two ledgers of a run: there are rows once the stage before is done. *)

Reached(run) == (left # <<>> => 3 \in run.nodes) /\ (right # <<>> => 4 \in run.nodes)
Shown(run, comparison, claims) ==
  RunResponse(run, Aggregate(comparison), Aggregate(claims), FALSE)
Done(rows, k) == [rows EXCEPT ![k].status = "completed"]
Cleared(rows) ==
  [k \in DOMAIN rows |-> IF rows[k].status = "failed" THEN rows[k]
                         ELSE [rows[k] EXCEPT !.error = "none", !.at = 0]]
NoneFailed(rows) == \A k \in DOMAIN rows : rows[k].status # "failed"

(* A part or a node done never takes the percentage back; only a finished  *)
(* run is at a hundred.                                                    *)
PercentNeverFalls(run) ==
  LET percent(r, comparison, claims) == Shown(r, comparison, claims).percent
      now == percent(run, left, right)
      next == Cardinality(run.nodes) + 1
  IN  /\ now \in 0..100 /\ (now = 100 <=> run.status \in FinishedStatuses)
      /\ NoneFailed(left \o right) =>
           /\ \A k \in DOMAIN left : now <= percent(run, Done(left, k), right)
           /\ \A k \in DOMAIN right : now <= percent(run, left, Done(right, k))
           /\ run.current = next =>
                now <= percent([run EXCEPT !.nodes = @ \cup {next}], left, right)

(***************************************************************************)
(* The progress shown agrees with the ledger and with the guard of the     *)
(* report: parts or nodes done never take the percentage back, and only a  *)
(* finished run has a hundred; the error of a part that has recovered      *)
(* never decides whether a failed run may be retried; a run the guard lets *)
(* pass is shown with its early stages done, but for one that failed when  *)
(* it was done again, and as requiring review where the report carries a   *)
(* note (analysis_progress.py,                                             *)
(* analysis_completeness.py).                                              *)
(***************************************************************************)
ProgressIsHonest ==
  task = "progress" =>
    \A run \in {r \in RunsShown : Reached(r)} :
      LET comparison == Aggregate(left)
          claims == Aggregate(right)
          shown == Shown(run, left, right)
          stages == shown.stages
      IN  /\ PercentNeverFalls(run)
          /\ RetryAccepted(run, shown, FALSE)
               = RetryAccepted(run, Shown(run, Cleared(left), Cleared(right)), FALSE)
          /\ /\ EvaluateReadiness(run, comparison, claims) = {}
             /\ run.status = "failed" => run.failureNode \notin run.nodes
             =>
               /\ NoneFailed(left \o right)
               /\ \A s \in 1..2 : stages[s].status \in {"completed", "requires_review"}
               /\ \A s \in 3..4 : stages[s].status = "completed"
               /\ stages[1].status = "requires_review"
                    <=> "disclosure_classification" \in DataQuality(run, comparison, claims)
               /\ stages[2].status = "requires_review"
                    <=> "financial_claims" \in DataQuality(run, comparison, claims)

-----------------------------------------------------------------------------
(* The findings stored for a comparison, its verdicts and its changes.     *)

OfKind(kind) == {element \in ToSet(Known(right)) : element.kind = kind}
Swapped(s) == [k \in DOMAIN s |-> s[Len(s) + 1 - k]]

(* What the analyst is asked, and what the report then says.               *)
ReviewCovers(stored, report) ==
  LET listed == ListFindings(stored)
      asked == ReviewPolicy(listed)
  IN  /\ report.highPriority \subseteq NamedForReview(listed)
      /\ asked \/ /\ \A f \in report.highPriority : f.severity # "critical"
                  /\ MinSeverity # "critical" => report.highPriority = {}
                  /\ \A f \in ToSet(listed) : f.confidence >= LowConfidence
      /\ Len(stored) < FindingLimit =>   \* one more finding never makes a review needless
           \A more \in Alphabet["report"].left :
             asked => ReviewPolicy(ListFindings(Append(stored, more)))

(***************************************************************************)
(* A report made without a review has nothing critical in it, nothing of   *)
(* high priority unless reviews are asked for critical findings alone, and *)
(* nothing below the publication threshold; every finding it presents as   *)
(* of high priority was named to the analyst; it presents evidence its     *)
(* manifest lists; it says nothing of limits only when each verdict is     *)
(* settled and each change classified; and while the findings fit the      *)
(* listing, no finding more makes a review needless and the order they     *)
(* were stored in decides nothing (analysis_workflow_service.py,           *)
(* analysis_report_service.py).                                            *)
(***************************************************************************)
ReportHidesNothing ==
  task = "report" =>
    \A claimReview \in 0..1 :
      LET stored == Known(left)
          listed == ListFindings(stored)
          verdicts == OfKind("verdict")
          asked == ReviewPolicy(listed)
          report == GenerateReport(stored, verdicts, OfKind("change"), asked, claimReview)
          other == GenerateReport(Swapped(stored), verdicts, OfKind("change"), asked, claimReview)
      IN  /\ ReviewCovers(stored, report)
          /\ BlockingEvidence(listed, verdicts) = {} =>
               \A f \in report.highPriority : <<f.id, "primary">> \in report.manifest.evidence
          /\ report.limitations = {} =>
               /\ ~asked /\ claimReview = 0
               /\ \A k \in DOMAIN right :
                    \/ right[k].kind = "verdict"
                       /\ right[k].status \in {"verified", "approximately_verified", "contradicted"}
                    \/ right[k].kind = "change" /\ right[k].label \in Labels
          /\ Len(stored) <= FindingLimit =>
               /\ other.summary = report.summary
               /\ other.limitations = report.limitations
               /\ other.manifest = report.manifest

=============================================================================
