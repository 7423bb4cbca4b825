----------------------------- MODULE FindingRules -----------------------------
(***************************************************************************)
(* The rules that turn a claim and its verdict, a change between two       *)
(* filings, or two sections of one filing into a finding for review        *)
(* (contradiction_analysis_service.py).  A text is the set of the terms    *)
(* of the rules that it contains; a qualifier is a term with a length and  *)
(* a class.  The fingerprint a finding is stored under is the tuple of     *)
(* what is hashed into it.                                                 *)
(***************************************************************************)
EXTENDS FactVerification, FiniteSetsExt, Selection

CONSTANTS
  Qualifiers,        \* term -> [length, class]
  SmallPercent, LargePercent, SmallPoints, LargePoints

ASSUME PolicyAssumption ==
  /\ SmallPercent \in Nat /\ LargePercent \in Nat
  /\ SmallPoints \in Nat /\ LargePoints \in Nat

NoQualifier == "no_qualifier"

(* The qualifiers are tried the longest first; those of one length in the  *)
(* order a set of strings has in the worker's process, which differs from  *)
(* one process to the next: ranks is that order.                           *)
FirstQualifier(text, ranks) ==
  LET found == text \cap DOMAIN Qualifiers
      longest == {q \in found : \A o \in found : Qualifiers[o].length <= Qualifiers[q].length}
  IN  IF found = {} THEN NoQualifier
      ELSE CHOOSE q \in longest : \A o \in longest : ranks[q] <= ranks[o]

ClassOf(qualifier) == IF qualifier = NoQualifier THEN "none" ELSE Qualifiers[qualifier].class

-----------------------------------------------------------------------------
Truthy(number) == number # Missing /\ number[1] # 0

(* The change that was measured: a zero is passed over like a missing one, *)
(* and the absolute change counts in units, not in percent.                *)
CalculatedChange(verdict) ==
  IF Truthy(verdict.points) THEN verdict.points
  ELSE IF Truthy(verdict.percent) THEN verdict.percent
  ELSE IF verdict.absolute = Missing THEN Missing ELSE Given(verdict.absolute[1] * 10000)

DirectionFromChange(change) ==
  IF change = Missing THEN "none"
  ELSE IF change[1] > 0 THEN "increase"
  ELSE IF change[1] < 0 THEN "decrease" ELSE "unchanged"

Policy(metric, verdict) ==
  IF verdict.points # Missing \/ metric = "gross_margin"
  THEN [small |-> SmallPoints, large |-> LargePoints]
  ELSE [small |-> SmallPercent, large |-> LargePercent]

(* A finding that arithmetic backs needs its passage, its facts and a formula. *)
EvidenceMissing(claim, verdict) ==
  \/ ~claim.passage
  \/ verdict.current = Missing
  \/ /\ verdict.type \in {"percentage_change", "percentage_point_change", "directional_change"}
     /\ verdict.comparison = Missing
  \/ verdict.type = "none"

SeverityOf(type, verdict, change, complete) ==
  LET magnitude == IF change = Missing THEN 0 ELSE Size(change[1])
      contradicted == verdict.status = "contradicted" IN
  IF ~complete THEN "low"
  ELSE IF type = "numerical_claim_contradiction" /\ contradicted /\ magnitude >= 100000 THEN "high"
  ELSE IF type = "direction_contradiction" /\ contradicted THEN "high"
  ELSE IF type \in {"magnitude_overstatement", "magnitude_understatement"} /\ magnitude >= 50000
    THEN "medium"
  ELSE "low"

Finding(type, status, severity, of) ==
  [type |-> type, status |-> status, severity |-> severity, of |-> of]

NumericalType(claim, change) ==
  LET measured == DirectionFromChange(change) IN
  IF claim.direction # "none" /\ measured # "none" /\ claim.direction # measured
  THEN "direction_contradiction" ELSE "numerical_claim_contradiction"

NumericalDetectWhole(claim, verdict) ==   \* mutant: nothing is said without full evidence
  IF verdict.status # "contradicted" \/ EvidenceMissing(claim, verdict) THEN {}
  ELSE LET change == CalculatedChange(verdict)
           type == NumericalType(claim, change)
       IN  {[key |-> <<type, claim.id>>,
             finding |-> Finding(type, "candidate",
                           SeverityOf(type, verdict, change, TRUE), claim.id)]}

NumericalDetect(claim, verdict) ==
  IF verdict.status # "contradicted" THEN {}
  ELSE LET change == CalculatedChange(verdict)
           type == NumericalType(claim, change)
           complete == ~EvidenceMissing(claim, verdict)
       IN  {[key |-> <<type, claim.id>>,
             finding |-> Finding(type,
                           IF complete THEN "candidate" ELSE "insufficient_evidence",
                           SeverityOf(type, verdict, change, complete), claim.id)]}

MagnitudeType(claim, verdict, qualifier) ==
  LET change == Size(CalculatedChange(verdict)[1])
      policy == Policy(claim.metric, verdict) IN
  IF ClassOf(qualifier) \in {"strong", "strength"} /\ change <= policy.small
    THEN "magnitude_overstatement"
  ELSE IF ClassOf(qualifier) = "weak" /\ change >= policy.large
    THEN "magnitude_understatement"
  ELSE IF ClassOf(qualifier) = "strong" /\ claim.metric = "cash_and_cash_equivalents"
    THEN "unsupported_qualitative_claim"
  ELSE "none"

MagnitudeDetect(claim, verdict, ranks) ==
  LET qualifier == FirstQualifier(claim.text, ranks) IN
  IF \/ verdict.status \notin {"verified", "approximately_verified"}
     \/ qualifier = NoQualifier
     \/ CalculatedChange(verdict) = Missing
     \/ MagnitudeType(claim, verdict, qualifier) = "none" THEN {}
  ELSE LET type == MagnitudeType(claim, verdict, qualifier) IN
       {[key |-> <<type, claim.id, qualifier>>,
         finding |-> Finding(type, "candidate",
                       SeverityOf(type, verdict, CalculatedChange(verdict), TRUE), claim.id)]}

(* The magnitude of a claim is looked at only when its numbers hold.       *)
DetectForClaim(claim, verdict, ranks) ==
  IF NumericalDetect(claim, verdict) # {} THEN NumericalDetect(claim, verdict)
  ELSE MagnitudeDetect(claim, verdict, ranks)

-----------------------------------------------------------------------------
(* Narrative rules.                                                        *)

CertaintyTerms == {"will", "expect", "do not expect", "confident", "certain", "assured"}
NegativeTerms == {"slowdown", "decline", "weak", "deteriorated", "depend"}
PositiveTerms == {"strong", "improve", "growth", "higher", "recover", "sufficient"}
TopicTerms == {"demand", "orders", "liquidity", "financing", "revenue", "customer"}

TemporalConflict(previous, current) ==
  \/ /\ {"do not expect", "financing"} \subseteq previous
     /\ "financing" \in current /\ current \cap {"expect", "do not expect"} # {}
  \/ /\ previous \cap CertaintyTerms # {}
     /\ current \cap NegativeTerms # {}

TemporalDetect(change) ==
  IF ~TemporalConflict(change.previous, change.current) THEN {}
  ELSE {[key |-> <<"temporal_narrative_inconsistency", change.id>>,
         finding |-> Finding("temporal_narrative_inconsistency", "candidate",
                       IF change.materiality >= 65 THEN "medium" ELSE "low", change.id)]}

Topics(sentence) == sentence \cap TopicTerms
Polar(sentence, terms) == sentence \cap terms # {}
Leading(s, n) == SubSeq(s, 1, IF Len(s) < n THEN Len(s) ELSE n)

Conflicts(left, right) ==
  /\ Polar(left, PositiveTerms) /\ Polar(right, NegativeTerms)
  /\ Topics(left) \cap Topics(right) # {}

(* The first pair of sentences, left before right, that conflict.          *)
SectionConflict(left, right) ==
  LET l == Leading(left, 20)  r == Leading(right, 20)
      pairs == {p \in (1..Len(l)) \X (1..Len(r)) : Conflicts(l[p[1]], r[p[2]])}
  IN  IF pairs = {} THEN Missing
      ELSE CHOOSE p \in pairs :
             \A o \in pairs : p[1] < o[1] \/ (p[1] = o[1] /\ p[2] <= o[2])

Compared == {"risk_factors", "legal_proceedings", "notes"}

CrossSectionDetect(sections) ==
  LET ofTypes(types) == {k \in DOMAIN sections : sections[k].type \in types}
      mda == Leading(Only(sections, ofTypes({"mda"})), 2)
      others == Leading(Only(sections, ofTypes(Compared)), 4)
  IN  {[key |-> <<"narrative_cross_section_inconsistency", mda[p[1]].id, others[p[2]].id,
                  SectionConflict(mda[p[1]].sentences, others[p[2]].sentences)>>,
        finding |-> Finding("narrative_cross_section_inconsistency", "candidate", "medium",
                            mda[p[1]].id)] :
         p \in {q \in (1..Len(mda)) \X (1..Len(others)) :
                  SectionConflict(mda[q[1]].sentences, others[q[2]].sentences) # Missing}}

=============================================================================
