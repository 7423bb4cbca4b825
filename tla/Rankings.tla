------------------------------- MODULE Rankings -------------------------------
(* Ordering by a score, and taking the first of the order.                  *)
EXTENDS Integers, Sequences, SequencesExt, FiniteSets

(* Places by score, the highest first; equals in the order given, as       *)
(* sorted() keeps them.                                                    *)
Above(scores, i) ==
  {j \in DOMAIN scores : scores[j] > scores[i] \/ (scores[j] = scores[i] /\ j < i)}
Standing(scores) == [i \in DOMAIN scores |-> 1 + Cardinality(Above(scores, i))]

(* A sequence, or some of it, by the scores of its places.                 *)
RankedBy(s, scores) ==
  LET place == Standing(scores) IN
  [k \in 1..Cardinality(DOMAIN scores) |-> s[CHOOSE i \in DOMAIN scores : place[i] = k]]
RankedAmong(s, among, score(_)) == RankedBy(s, [i \in among |-> score(s[i])])
Ranked(s, score(_)) == RankedAmong(s, DOMAIN s, score)

Top(s, n) == SubSeq(s, 1, IF n < Len(s) THEN n ELSE Len(s))

=============================================================================
