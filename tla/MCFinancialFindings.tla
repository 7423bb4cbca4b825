-------------------------- MODULE MCFinancialFindings --------------------------
(***************************************************************************)
(* A comparison with two claims about revenue, one of each filing, and one *)
(* whose metric has no concepts; the facts of the company in two versions. *)
(***************************************************************************)
EXTENDS FinancialFindings

CONSTANTS w1, w2, r1

MCWorkers == {w1, w2}
MCReviewers == {r1}
Symmetry == Permutations(MCWorkers)

MCQualifiers ==
  [strong |-> [length |-> 6, class |-> "strong"], modest |-> [length |-> 6, class |-> "weak"]]
MCOrders == {[strong |-> 2, modest |-> 1]}

MCFiling == [accession |-> "a2", date |-> 2, year |-> 2]
MCComparisonFiling == [accession |-> "a1", date |-> 1, year |-> 1]

Claim(id, filing, metric, direction, change) ==
  [id |-> id, filing |-> filing, type |-> "percentage_change", direction |-> direction,
   metric |-> metric, value |-> Missing, change |-> change, text |-> {"strong", "modest"},
   passage |-> TRUE, basis |-> "prior_year_quarter", edited |-> FALSE]
Edited(claim) == [claim EXCEPT !.basis = "year_to_date", !.edited = TRUE]

MCClaims == <<Claim("c1", MCFiling, "revenue", "increase", Given(120000)),
              [Claim("c2", MCComparisonFiling, "revenue", "none", Missing) EXCEPT
                 !.type = "absolute_value", !.value = Given(1000000)],
              Claim("c3", MCFiling, "backlog", "increase", Given(120000))>>
MCClaimEdits == [c1 |-> {}, c2 |-> {}, c3 |-> {Edited(MCClaims[3])}]
DeclineClaims == <<Claim("c1", MCFiling, "revenue", "decrease", Given(50000))>>
DeclineEdits == [c1 |-> {}]

MCConcepts == [revenue |-> <<[name |-> "Revenues", priority |-> 1, category |-> "monetary"]>>]
MCBehavior == [revenue |-> "duration"]

Fact(period, unit, days, value) ==
  [concept |-> "Revenues", unit |-> unit, date |-> period, year |-> period, days |-> days,
   fp |-> "Q2", starts |-> TRUE, ends |-> TRUE, instant |-> FALSE,
   accession |-> IF period = 2 THEN "a2" ELSE "a1", frame |-> TRUE, value |-> value]
Quarters(current, previous) == <<Fact(2, "usd", 91, current), Fact(1, "usd", 91, previous)>>
MCFactSets ==
  [steady |-> Quarters(101, 100) \o <<Fact(2, "usd", 181, 220)>>,
   foreign |-> <<Fact(2, "eur", 91, 112), Fact(1, "usd", 91, 100)>>]
DeclineFacts == [fallen |-> Quarters(95, 100), steady |-> Quarters(101, 100)]

Nothing == <<>>

=============================================================================
