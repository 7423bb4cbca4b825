------------------------------- MODULE Alignment -------------------------------
(***************************************************************************)
(* Which section of the previous filing a section of the current one goes  *)
(* with (section_matching_service.py), and which passages of the two       *)
(* sections go together (passage_alignment_service.py).  Scores, weights   *)
(* and thresholds are whole numbers of ten-thousandths; how alike two      *)
(* texts are by vectors, by words and to the reranker is a constant.       *)
(***************************************************************************)
EXTENDS Integers, Sequences, SequencesExt, FiniteSets, FiniteSetsExt

CONSTANTS
  Likeness,         \* [text, text] -> [dense, lexical, reranker]
  SectionWeights,   \* section_match_weight_*, by name
  PassageWeights,   \* passage_alignment_weight_*, by name
  SectionMinScore,  \* section_match_min_score
  PassageMinScore   \* passage_alignment_min_score

One == 10000   \* a score, a weight and a share are whole numbers of ten-thousandths

Shares == 0..One

Wordings == {pair[1] : pair \in DOMAIN Likeness}

ASSUME AlignmentAssumption ==
  /\ Likeness \in [Wordings \X Wordings -> [dense : Shares, lexical : Shares, reranker : Shares]]
  /\ SectionMinScore \in Shares /\ PassageMinScore \in Shares

(* What the settings demand of weights (_require_weight_sum).              *)
ASSUME WeightAssumption ==
  /\ SectionWeights \in [structural : Shares, heading : Shares, dense : Shares,
                         lexical : Shares, reranker : Shares, position : Shares]
  /\ SectionWeights.structural + SectionWeights.heading + SectionWeights.dense
       + SectionWeights.lexical + SectionWeights.reranker + SectionWeights.position = One
  /\ PassageWeights \in [dense : Shares, lexical : Shares, reranker : Shares, position : Shares]
  /\ PassageWeights.dense + PassageWeights.lexical + PassageWeights.reranker
       + PassageWeights.position = One

Clamp(score) == IF score < 0 THEN 0 ELSE IF score > One THEN One ELSE score
Apart(x, y) == IF x < y THEN y - x ELSE x - y

(* How close the i-th of m is to the j-th of n, from the ends of both. *)
PositionSimilarity(i, m, j, n) ==
  LET place(k, total) == (One * (k - 1)) \div (IF total > 1 THEN total - 1 ELSE 1) IN
  One - Apart(place(i, m), place(j, n))

(* What is promised of matches, between two filings or two sections: each  *)
(* of both sides is in one of them, alone or not.                          *)
CoversBoth(matches, current, previous) ==
  /\ \A i \in DOMAIN current : Cardinality({k \in DOMAIN matches : matches[k].current = i}) = 1
  /\ \A j \in DOMAIN previous : Cardinality({k \in DOMAIN matches : matches[k].previous = j}) = 1

-----------------------------------------------------------------------------
(* Sections.  A part number "" is none.                                    *)

StructuralSimilarity(current, previous) ==
  LET samePart == current.part # "" /\ current.part = previous.part
      sameItem == current.item # "" /\ current.item = previous.item
      sameType == current.type = previous.type
  IN  IF samePart /\ sameItem /\ sameType THEN One
      ELSE IF sameItem /\ sameType THEN 8500
      ELSE IF sameType THEN 6500
      ELSE IF samePart /\ sameItem THEN 4500 ELSE 0

SectionScore(current, previous, i, j) ==
  LET texts == Likeness[<<current[i].text, previous[j].text>>]
      titles == Likeness[<<current[i].title, previous[j].title>>]
      w == SectionWeights
  IN  Clamp((w.structural * StructuralSimilarity(current[i], previous[j])
             + w.heading * titles.lexical + w.dense * texts.dense + w.lexical * texts.lexical
             + w.reranker * titles.reranker
             + w.position * PositionSimilarity(i, Len(current), j, Len(previous))) \div One)

(* The first of those that score best.                                     *)
Best(current, previous, i, candidates) ==
  LET score(j) == SectionScore(current, previous, i, j) IN
  CHOOSE j \in candidates :
    \A k \in candidates : score(k) < score(j) \/ (score(k) = score(j) /\ j <= k)

MatchType(structural, combined) ==
  IF structural >= 9800 THEN "exact_structural"
  ELSE IF structural >= 5000 /\ combined >= 7500 THEN "hybrid" ELSE "semantic"

Unmatched(i, j, type) ==
  [current |-> i, previous |-> j, type |-> type, combined |-> 0, confidence |-> One]

(* A section of the current filing takes the best that is left.  0 is none. *)
MatchOne(current, previous, matches, i) ==
  LET free == DOMAIN previous \ {m.previous : m \in ToSet(matches)}
      j == Best(current, previous, i, free)
      score == SectionScore(current, previous, i, j)
  IN  IF free = {} \/ score < SectionMinScore
      THEN Append(matches, Unmatched(i, 0, "unmatched_current"))
      ELSE Append(matches,
             [current |-> i, previous |-> j, combined |-> score, confidence |-> score,
              type |-> MatchType(StructuralSimilarity(current[i], previous[j]), score)])

(* A section of the previous filing that nothing took is left over.        *)
LeaveOver(matches, j) ==
  IF \E m \in ToSet(matches) : m.previous = j THEN matches
  ELSE Append(matches, Unmatched(0, j, "unmatched_previous"))

MatchSections(current, previous) ==
  LET taken[i \in 0..Len(current)] ==
        IF i = 0 THEN <<>> ELSE MatchOne(current, previous, taken[i - 1], i)
      all[j \in 0..Len(previous)] ==
        IF j = 0 THEN taken[Len(current)] ELSE LeaveOver(all[j - 1], j)
  IN  all[Len(previous)]

(* No section that was left over would have matched another left over.     *)
SectionsFit(matches, current, previous) ==
  /\ CoversBoth(matches, current, previous)
  /\ \A m, n \in ToSet(matches) :
       m.current # 0 /\ m.previous = 0 /\ n.current = 0 /\ n.previous # 0
         => SectionScore(current, previous, m.current, n.previous) < SectionMinScore

-----------------------------------------------------------------------------
(* Passages: dynamic programming over (previous, current), and a walk back. *)

PassageScore(current, previous, i, j) ==
  LET texts == Likeness[<<current[i], previous[j]>>]
      w == PassageWeights
  IN  Clamp((w.dense * texts.dense + w.lexical * texts.lexical + w.reranker * texts.reranker
             + w.position * PositionSimilarity(i, Len(current), j, Len(previous))) \div One)

Gap == -800
Misfit == -1200   \* what a pair below the threshold costs

(* The values of the moves into a cell of the table of best values.        *)
PairValue(score) == IF score >= PassageMinScore THEN score ELSE Misfit
MatchValue(dp, score, row, col) == dp[row - 1][col - 1] + PairValue(score)
RemovedValue(dp, row, col) == dp[row - 1][col] + Gap

(* The table, by previous and by current passage from 0, row after row.    *)
Row(current, previous, above, row) ==
  LET cells[col \in 0..Len(current)] ==
        IF row = 0 \/ col = 0 THEN (row + col) * Gap
        ELSE Max({above[col - 1] + PairValue(PassageScore(current, previous, col, row)),
                  above[col] + Gap, cells[col - 1] + Gap})
  IN  cells
Values(current, previous) ==
  LET dp[row \in 0..Len(previous)] ==
        Row(current, previous, IF row = 0 THEN <<>> ELSE dp[row - 1], row)
  IN  dp

MoveAnyScore(dp, score, row, col) ==   \* mutant: a pair below the threshold is matched
  IF row = 0 THEN "added" ELSE IF col = 0 THEN "removed"
  ELSE IF dp[row][col] = MatchValue(dp, score, row, col) THEN "matched"
  ELSE IF dp[row][col] = RemovedValue(dp, row, col) THEN "removed" ELSE "added"

(* The best value may be that of a pair below the threshold, which is not  *)
(* matched all the same: the current passage is then an added one.         *)
Move(dp, score, row, col) ==
  IF row = 0 THEN "added" ELSE IF col = 0 THEN "removed"
  ELSE IF dp[row][col] = MatchValue(dp, score, row, col) /\ score >= PassageMinScore THEN "matched"
  ELSE IF dp[row][col] = RemovedValue(dp, row, col) THEN "removed" ELSE "added"

MatchedPair(i, j, score) ==
  [current |-> i, previous |-> j, type |-> "matched", combined |-> score, confidence |-> score]

(* The walk back, at a cell: the matches are those of the passages after it. *)
StepBack(current, previous, dp, walk) ==
  LET row == walk.row
      col == walk.col
      score == IF row = 0 \/ col = 0 THEN 0 ELSE PassageScore(current, previous, col, row)
      move == Move(dp, score, row, col)
  IN  IF row = 0 /\ col = 0 THEN walk
      ELSE IF move = "matched"
      THEN [row |-> row - 1, col |-> col - 1,
            matches |-> <<MatchedPair(col, row, score)>> \o walk.matches]
      ELSE IF move = "removed"
      THEN [row |-> row - 1, col |-> col,
            matches |-> <<Unmatched(0, row, "removed")>> \o walk.matches]
      ELSE [row |-> row, col |-> col - 1,
            matches |-> <<Unmatched(col, 0, "added")>> \o walk.matches]

AlignPassages(current, previous) ==
  LET dp == Values(current, previous)
      steps == Len(previous) + Len(current)
      walk[k \in 0..steps] ==
        IF k = 0 THEN [row |-> Len(previous), col |-> Len(current), matches |-> <<>>]
        ELSE StepBack(current, previous, dp, walk[k - 1])
  IN  walk[steps].matches

(* Matched passages score what the settings ask, and none crosses another. *)
PassagesFit(matches, current, previous) ==
  /\ CoversBoth(matches, current, previous)
  /\ \A k \in DOMAIN matches :
       /\ matches[k].type = "matched" => matches[k].combined >= PassageMinScore
       /\ \A l \in 1..k - 1 :
            /\ 0 < matches[k].current => matches[l].current < matches[k].current
            /\ 0 < matches[k].previous => matches[l].previous < matches[k].previous

=============================================================================
