--------------------------- MODULE FactVerification ---------------------------
(***************************************************************************)
(* What decides the verdict on a financial claim: which XBRL facts fit it  *)
(* (xbrl_fact_resolution_service.py, financial_periods.py), and what the   *)
(* arithmetic over the facts says (financial_claim_verification_service).  *)
(* Scores, percentages and tolerances are whole numbers of                 *)
(* ten-thousandths, the places the code rounds to; values of facts are     *)
(* whole units.  A missing number is the empty sequence, a number n <<n>>. *)
(***************************************************************************)
EXTENDS Integers, Sequences, FiniteSets, SequencesExt

CONSTANTS
  MinScore,          \* xbrl_fact_min_score
  AmbiguityMargin,   \* xbrl_fact_ambiguity_margin
  AbsoluteTolerance, \* claim_absolute_tolerance
  PercentTolerance,  \* claim_percent_tolerance
  PointTolerance     \* claim_percentage_point_tolerance

ASSUME ToleranceAssumption ==
  /\ MinScore \in 0..10000 /\ AmbiguityMargin \in 0..10000
  /\ AbsoluteTolerance \in Nat /\ PercentTolerance \in Nat /\ PointTolerance \in Nat

Missing == <<>>
Given(n) == <<n>>
Size(n) == IF n < 0 THEN -n ELSE n

-----------------------------------------------------------------------------
(* Periods.  A fact has an instant or a range of days and a fiscal period. *)

QuarterDays == 75..105
HalfDays == 150..205
NineMonthDays == 240..290
YearDays == 330..380

FactPeriod(fact) ==
  IF fact.instant /\ ~fact.starts THEN "instant"
  ELSE IF ~fact.starts \/ ~fact.ends THEN "other_duration"
  ELSE IF fact.days \in QuarterDays THEN "quarterly_duration"
  ELSE IF fact.days \in 150..290 THEN "year_to_date_duration"
  ELSE IF fact.days \in YearDays THEN "annual_duration"
  ELSE "other_duration"

(* The function as it is written, fiscal periods first.                    *)
ClassifyFactPeriod(fact) ==
  IF fact.instant /\ ~fact.starts THEN "instant"
  ELSE IF ~fact.starts \/ ~fact.ends THEN "other_duration"
  ELSE IF fact.days \in QuarterDays /\ fact.fp \in {"Q1", "Q2", "Q3", "Q4"}
    THEN "quarterly_duration"
  ELSE IF \/ fact.days \in HalfDays /\ fact.fp \in {"Q2", "Q3"}
          \/ fact.days \in NineMonthDays /\ fact.fp = "Q3" THEN "year_to_date_duration"
  ELSE IF fact.days \in YearDays /\ fact.fp \in {"FY", "Q4"} THEN "annual_duration"
  ELSE FactPeriod(fact)

SupportedBases ==
  {"prior_quarter", "prior_year_quarter", "same_period_prior_year", "year_to_date",
   "prior_year_ytd"}

ExpectedPeriod(metric, basis) ==
  IF metric.behavior = "instant" THEN "instant"
  ELSE IF basis \in {"year_to_date", "prior_year_ytd"} THEN "year_to_date_duration"
  ELSE "quarterly_duration"

(* The spellings of a unit are one value each.                             *)
UnitsOf ==
  [monetary |-> {"usd"}, percentage |-> {"percent", "pure"},
   per_share |-> {"usd_per_share"}, count |-> {"shares", "pure"}]
UnitsCompatible(category, unit) ==
  category \in DOMAIN UnitsOf => unit \in UnitsOf[category]

-----------------------------------------------------------------------------
(* Scores of a fact for a concept of the metric and a filing.              *)

PeriodScore(fact, filing, expected) ==
  IF ClassifyFactPeriod(fact) # expected THEN 0
  ELSE IF fact.date = filing.date THEN 10000
  ELSE IF fact.year = filing.year THEN 6000
  ELSE 2500

ConceptScore(concept) == 10000 - 400 * (concept.priority - 1)
UnitScore(fact, concept) == IF UnitsCompatible(concept.category, fact.unit) THEN 10000 ELSE 0
AccessionScore(fact, filing) == IF fact.accession = filing.accession THEN 10000 ELSE 2000
FrameScore(fact) == IF fact.frame THEN 10000 ELSE 8000

ScoreCandidate(concept, fact, filing, expected) ==
  LET period == PeriodScore(fact, filing, expected)
      unit == UnitScore(fact, concept)
  IN  [fact |-> fact, period |-> period, unit |-> unit,
       combined |-> (25 * ConceptScore(concept) + 30 * period + 20 * unit
                     + 20 * AccessionScore(fact, filing) + 5 * FrameScore(fact)) \div 100,
       status |-> "candidate"]

(* One row for each fact stored under a concept of the metric.             *)
Places(concepts, facts) ==
  {p \in (DOMAIN concepts) \X (DOMAIN facts) : facts[p[2]].concept = concepts[p[1]].name}

(* The best row comes first; rows of equal score stay in the order of the  *)
(* concepts, and of the query within one.                                  *)
Precedes(p, q, score) ==
  \/ score[p] > score[q]
  \/ score[p] = score[q] /\ p[1] < q[1]
  \/ score[p] = score[q] /\ p[1] = q[1] /\ p[2] < q[2]

Candidates(concepts, facts, filing, expected) ==
  LET places == Places(concepts, facts)
      row == [p \in places |-> ScoreCandidate(concepts[p[1]], facts[p[2]], filing, expected)]
      score == [p \in places |-> row[p].combined]
  IN  [k \in 1..Cardinality(places) |->
         row[CHOOSE p \in places :
               Cardinality({q \in places : Precedes(q, p, score)}) = k - 1]]

Fits(row) == row.unit # 0 /\ row.period # 0
Ambiguous(rows) ==
  /\ Len(rows) > 1
  /\ rows[1].combined - rows[2].combined < AmbiguityMargin
  /\ rows[1].fact # rows[2].fact

SelectableOnScore(rows) ==   \* mutant: the unit and the period only count in the score
  /\ rows # <<>>
  /\ rows[1].combined >= MinScore
  /\ ~Ambiguous(rows)
Selectable(rows) ==
  /\ rows # <<>>
  /\ Fits(rows[1])
  /\ rows[1].combined >= MinScore
  /\ ~Ambiguous(rows)

(* The statuses _select leaves on the rows.                                *)
Marked(rows) ==
  IF Selectable(rows)
  THEN [i \in 1..Len(rows) |-> [rows[i] EXCEPT !.status = IF i = 1 THEN "selected" ELSE "rejected"]]
  ELSE IF rows # <<>> /\ Fits(rows[1]) /\ rows[1].combined >= MinScore
  THEN [i \in 1..Len(rows) |-> [rows[i] EXCEPT !.status = IF i < 3 THEN "ambiguous" ELSE @]]
  ELSE rows

Resolve(concepts, facts, filing, expected) ==
  LET rows == Candidates(concepts, facts, filing, expected) IN
  IF concepts = <<>> THEN [status |-> "unsupported_metric", fact |-> Missing, rows |-> <<>>, score |-> 0]
  ELSE IF Selectable(rows)
  THEN [status |-> "selected", fact |-> Given(rows[1].fact), rows |-> Marked(rows),
        score |-> rows[1].combined]
  ELSE [status |-> IF rows # <<>> /\ rows[1].unit = 0 THEN "unit_mismatch"
                   ELSE IF rows # <<>> /\ rows[1].period = 0 THEN "period_mismatch"
                   ELSE IF rows = <<>> THEN "insufficient_data" ELSE "ambiguous_fact",
        fact |-> Missing, rows |-> Marked(rows), score |-> 0]

-----------------------------------------------------------------------------
(* The arithmetic.  Decimal rounds a half away from zero.                  *)

Rounded(n, d) ==
  LET nearest == (2 * Size(n) + Size(d)) \div (2 * Size(d))
  IN  IF (n < 0) # (d < 0) THEN -nearest ELSE nearest
PercentOf(change, base) == Rounded(change * 1000000, base)

DirectionOk(direction, change) ==
  /\ direction = "increase" => change > 0
  /\ direction = "decrease" => change < 0
  /\ direction = "unchanged" => change = 0

Computed(status, type, absolute, percent, points, difference) ==
  [status |-> status, type |-> type, absolute |-> absolute, percent |-> percent,
   points |-> points, difference |-> difference]
Uncomputed(status) == Computed(status, "none", Missing, Missing, Missing, Missing)

DistanceFromSigned(reported, calculated) ==
  IF reported = Missing THEN Missing ELSE Given(Size(reported[1] - calculated))

Within(difference, tolerance) ==
  IF difference[1] = 0 THEN "verified"
  ELSE IF difference[1] <= tolerance THEN "approximately_verified"
  ELSE "contradicted"

VerifyAbsolute(claim, current) ==
  LET difference == DistanceFromSigned(claim.value, current.value * 10000) IN
  Computed(IF difference = Missing THEN "insufficient_data"
           ELSE IF difference[1] <= AbsoluteTolerance THEN "verified" ELSE "contradicted",
           "absolute_value", Missing, Missing, Missing, difference)

VerifyPoints(claim, change) ==
  LET points == change * 10000
      difference == DistanceFromSigned(claim.change, points)
  IN  Computed(IF difference = Missing THEN "insufficient_data"
               ELSE IF ~DirectionOk(claim.direction, points) THEN "contradicted"
               ELSE Within(difference, PointTolerance),
               "percentage_point_change", Given(change), Missing, Given(points), difference)

VerifyChange(claim, change, percent) ==
  LET difference == DistanceFromSigned(claim.change, percent)
  IN  Computed(IF ~DirectionOk(claim.direction, percent) THEN "contradicted"
               ELSE IF difference = Missing THEN "insufficient_data"
               ELSE Within(difference, PercentTolerance),
               "percentage_change", Given(change), Given(percent), Missing, difference)

NeedsComparison ==
  {"percentage_change", "percentage_point_change", "directional_change",
   "comparative_statement", "ratio_change"}

Calculate(claim, current, comparison) ==
  LET change == current.fact[1].value - comparison.fact[1].value
      base == comparison.fact[1].value
  IN  IF claim.type = "absolute_value" THEN VerifyAbsolute(claim, current.fact[1])
      ELSE IF comparison.status # "selected" THEN Uncomputed(comparison.status)
      ELSE IF claim.type = "percentage_point_change" THEN VerifyPoints(claim, change)
      ELSE IF base = 0
      THEN Computed("zero_denominator", "none", Given(change), Missing, Missing, Missing)
      ELSE IF claim.type = "percentage_change"
      THEN VerifyChange(claim, change, PercentOf(change, base))
      ELSE Computed("verified", "directional_change", Given(change),
                    Given(PercentOf(change, base)), Missing, Missing)

NotCompared == [status |-> "not_compared", fact |-> Missing, rows |-> <<>>, score |-> 0]

(* A claim that is neither an absolute value nor a comparison (qualitative) *)
(* has no second fact to calculate with.                                    *)
Verdict(claim, current, comparison) ==
  IF current.status # "selected" THEN Uncomputed(current.status)
  ELSE IF claim.type \in NeedsComparison /\ comparison = NotCompared
    THEN Uncomputed("insufficient_data")
  ELSE IF claim.type \notin NeedsComparison \cup {"absolute_value"}
    THEN Uncomputed("insufficient_data")
  ELSE Calculate(claim, current, comparison)

=============================================================================
