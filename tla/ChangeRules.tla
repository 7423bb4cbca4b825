------------------------------ MODULE ChangeRules ------------------------------
(***************************************************************************)
(* What becomes of a pair of passages, one of them possibly absent: the    *)
(* signals computed from the two texts (comparison_utils.py), the decision *)
(* to settle the pair without a model, the label of the model or of its    *)
(* deterministic stand-in (semantic_change.py), and the change stored      *)
(* (disclosure_change_service.py).                                         *)
(*                                                                         *)
(* A text is the sequence of its words; an absent text is <<>>, a text t   *)
(* is <<t>>.  Scores are whole numbers of ten-thousandths.                 *)
(***************************************************************************)
EXTENDS Integers, Sequences, SequencesExt, FiniteSetsExt

CONSTANTS
  NormalOf,          \* what comparison makes of a word: "<year>" of a year, a
                     \* number in parentheses without them
  DigitsOf,          \* the digits of the words that have some
  MaterialityWeights \* materiality_weight_*, by name

Whole == 10000   \* a share is a whole number of ten-thousandths

ASSUME MaterialityAssumption ==
  /\ MaterialityWeights \in [novelty : Nat, risk : Nat, uncertainty : Nat, section : Nat,
                             numeric : Nat]
  /\ MaterialityWeights.novelty + MaterialityWeights.risk + MaterialityWeights.uncertainty
       + MaterialityWeights.section + MaterialityWeights.numeric = Whole

UncertaintyTerms == {"may", "might", "could", "uncertain", "subject", "depends", "depending"}
CommitmentTerms  == {"will", "shall", "commit", "committed", "must"}
ConditionalTerms == {"if", "subject", "provided", "assuming", "depends", "unless"}
NegationTerms    == {"no", "not", "never", "without", "none"}
RiskTerms == {"risk", "adverse", "material", "decline", "default", "covenant", "litigation"}

LiquidityTerms ==
  {<<"cash">>, <<"liquidity">>, <<"credit", "facility">>, <<"borrowings">>, <<"financing">>,
   <<"debt", "covenant">>}
RevenueTerms ==
  {<<"revenue">>, <<"sales">>, <<"demand">>, <<"guidance">>, <<"forecast">>, <<"orders">>,
   <<"backlog">>, <<"margin">>}
LitigationTerms ==
  {<<"lawsuit">>, <<"litigation">>, <<"claim">>, <<"legal", "proceeding">>, <<"investigation">>,
   <<"settlement">>}

Absent == <<>>
WordsOf(side) == IF side = Absent THEN <<>> ELSE side[1]

Normalized(side) ==
  [k \in DOMAIN WordsOf(side) |->
     LET word == WordsOf(side)[k] IN IF word \in DOMAIN NormalOf THEN NormalOf[word] ELSE word]

Numerals(side) ==
  LET numbers == SelectSeq(WordsOf(side), LAMBDA word : word \in DOMAIN DigitsOf) IN
  [k \in DOMAIN numbers |-> DigitsOf[numbers[k]]]

(* deterministic_signals: the terms of each class on one side only.        *)
Signals(previous, current) ==
  LET before == ToSet(Normalized(previous))
      now == ToSet(Normalized(current))
      added(terms) == (now \cap terms) \ before
      removed(terms) == (before \cap terms) \ now
  IN  [exactEqual |-> WordsOf(previous) = WordsOf(current),
       normalizedEqual |-> Normalized(previous) = Normalized(current),
       uncertainty |-> [added |-> added(UncertaintyTerms), removed |-> removed(UncertaintyTerms)],
       commitment  |-> [added |-> added(CommitmentTerms), removed |-> removed(CommitmentTerms)],
       conditional |-> [added |-> added(ConditionalTerms), removed |-> removed(ConditionalTerms)],
       negation    |-> [added |-> added(NegationTerms), removed |-> removed(NegationTerms)],
       risk        |-> [added |-> added(RiskTerms), removed |-> removed(RiskTerms)],
       numericChanged |-> Numerals(previous) # Numerals(current)]

-----------------------------------------------------------------------------
(* prepare_candidate: both texts there, and equal once normalized.         *)
SettledLocally(previous, current) ==
  /\ previous # Absent /\ current # Absent
  /\ Signals(previous, current).normalizedEqual

Labels == {"added", "removed", "strengthened", "weakened", "no_material_change"}

(* classify_risk: the first class with a term in the section's description *)
(* or in the text.                                                         *)
Named(words, terms) ==
  \E k \in DOMAIN words : \E term \in terms : IsPrefix(term, SubSeq(words, k, Len(words)))
ClassifyRisk(side, section) ==
  LET words == section.title \o WordsOf(side) IN
  IF Named(words, LiquidityTerms) THEN "liquidity"
  ELSE IF Named(words, RevenueTerms) THEN "revenue_guidance"
  ELSE IF Named(words, LitigationTerms) THEN "litigation" ELSE "other"

Weakens(signals) ==
  \/ signals.uncertainty.added # {} \/ signals.conditional.added # {}
  \/ signals.negation.added # {} \/ signals.risk.added # {}
  \/ signals.commitment.removed # {}
Strengthens(signals) ==
  \/ signals.uncertainty.removed # {} \/ signals.commitment.added # {}
  \/ signals.negation.removed # {} \/ signals.risk.removed # {}

LabelOfUnweakened(previous, current) ==   \* mutant: strengthening looked for first
  LET signals == Signals(previous, current) IN
  IF previous = Absent THEN "added" ELSE IF current = Absent THEN "removed"
  ELSE IF signals.normalizedEqual THEN "no_material_change"
  ELSE IF Strengthens(signals) THEN "strengthened"
  ELSE IF Weakens(signals) THEN "weakened" ELSE "no_material_change"

(* DeterministicFakeChangeClassifier.classify                              *)
LabelOf(previous, current) ==
  LET signals == Signals(previous, current) IN
  IF previous = Absent THEN "added" ELSE IF current = Absent THEN "removed"
  ELSE IF signals.normalizedEqual THEN "no_material_change"
  ELSE IF Weakens(signals) THEN "weakened"
  ELSE IF Strengthens(signals) THEN "strengthened" ELSE "no_material_change"

ConfidenceOf(previous, current) ==
  LET label == LabelOf(previous, current) IN
  IF label \in {"added", "removed"} THEN 9200
  ELSE IF label = "weakened" THEN 8400
  ELSE IF label = "strengthened" THEN 8200
  ELSE IF Signals(previous, current).normalizedEqual THEN 9000 ELSE 7200

-----------------------------------------------------------------------------
(* The stored change.                                                      *)

ValidEvidence(label, previous, current) ==
  /\ label = "added" => current # Absent
  /\ label = "removed" => previous # Absent
  /\ label \notin {"added", "removed"} => previous # Absent /\ current # Absent

(* How alike two texts are by their words; the part of the similarity that *)
(* compares them character by character is taken to agree with it.         *)
LexicalSimilarity(previous, current) ==
  LET before == ToSet(Normalized(previous))  now == ToSet(Normalized(current)) IN
  IF before \cup now = {} THEN Whole
  ELSE (Whole * Cardinality(before \cap now)) \div Cardinality(before \cup now)

RiskWeight == [liquidity |-> 8500, revenue_guidance |-> 7500, litigation |-> 8000, other |-> 3500]

(* build_materiality_components, and their weighted sum, which the clamp   *)
(* of the code never has to bring back to one (LabelsFitTheirPair).        *)
Novelty(label, previous, current) ==
  IF label \in {"added", "removed"} THEN Whole ELSE Whole - LexicalSimilarity(previous, current)
Doubt(signals) ==
  IF signals.uncertainty.added \cup signals.conditional.added \cup signals.negation.added # {}
  THEN Whole ELSE 2500
Prominence(section) == IF section.type \in {"mda", "risk_factors"} THEN 8500 ELSE 5000

Materiality(label, risk, previous, current, section) ==
  LET signals == Signals(previous, current)
      w == MaterialityWeights
  IN  (w.novelty * Novelty(label, previous, current) + w.risk * RiskWeight[risk]
       + w.uncertainty * Doubt(signals) + w.section * Prominence(section)
       + w.numeric * (IF signals.numericChanged THEN Whole ELSE 0)) \div Whole

Change(label, risk, materiality, confidence, method, review) ==
  [label |-> label, risk |-> risk, materiality |-> materiality, confidence |-> confidence,
   method |-> method, review |-> review]

BuildChange(label, risk, confidence, previous, current, section) ==
  Change(label, risk, Materiality(label, risk, previous, current, section), confidence,
         "hybrid", "pending")

DeterministicNoChange(previous, current, section) ==
  Change("no_material_change", "other",
         Materiality("no_material_change", "other", previous, current, section), 10000,
         "deterministic", "pending")

(* What could not be classified is not judged, but left for an analyst.    *)
StructuredOutputFailed == Change("requires_review", "other", 10000, 0, "model_output_failed", "uncertain")

(* The change of a pair, without a model.                                  *)
DetectChange(previous, current, section) ==
  IF SettledLocally(previous, current) THEN DeterministicNoChange(previous, current, section)
  ELSE BuildChange(LabelOf(previous, current),
                   ClassifyRisk(IF current # Absent THEN current ELSE previous, section),
                   ConfidenceOf(previous, current), previous, current, section)

=============================================================================
