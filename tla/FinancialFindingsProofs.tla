------------------------ MODULE FinancialFindingsProofs ------------------------
(***************************************************************************)
(* Theorems about the claims of a comparison, their verdicts and the       *)
(* findings, for any claims, facts, workers and reviewers.                 *)
(***************************************************************************)
EXTENDS FinancialFindings, FiniteSetTheorems, SequenceTheorems, WellFoundedInduction, TLAPS

-----------------------------------------------------------------------------
(* The inductive invariant.                                                *)

ClaimRows == Range(Claims) \cup UNION {ClaimEdits[c] : c \in Ids}
JobFields == {"job", "upto", "todo", "written", "inserts", "pairs", "found"}
RowFields == {"type", "status", "severity", "of", "original", "review", "edits"}
VerdictFields ==
  {"status", "type", "absolute", "percent", "points", "difference", "current", "comparison"}

Shaped ==
  /\ DOMAIN claims = Ids /\ DOMAIN verdicts = Ids
  /\ DOMAIN workers = Workers /\ DOMAIN reviews = Reviewers
  /\ facts \in DOMAIN FactSets /\ extracted \in 0..Len(Claims)
  /\ \A w \in Workers : /\ DOMAIN workers[w] = JobFields /\ workers[w].todo \in Seq(ClaimRows)
                         /\ workers[w].upto \in 0..Len(Claims)
  /\ \A k \in DOMAIN findings : DOMAIN findings[k] = RowFields

(* A row of a claim is the extracted one, or a reviewer has changed it; a  *)
(* job that read an extracted row goes on with it.                         *)
Read(row) == row = Original(row.id) \/ claims[row.id].edited

RowsInv ==
  /\ \A c \in Ids : claims[c].id = c /\ claims[c] \in ClaimRows /\ Read(claims[c])
  /\ \A w \in Workers : \A i \in DOMAIN workers[w].todo : Read(workers[w].todo[i])

(* A verdict, committed or not, rests on facts that fit the claim as it    *)
(* was extracted, unless a reviewer has changed the claim.                 *)
Justified(c, verdict) ==
  /\ DOMAIN verdict = VerdictFields
  /\ claims[c].edited \/ RestsOnFittingFacts(Original(c), verdict)

VerdictsInv ==
  /\ \A c \in Ids : \/ verdicts[c] = Missing
                    \/ /\ verdicts[c] = <<verdicts[c][1]>>
                       /\ Justified(c, verdicts[c][1])
  /\ \A w \in Workers : \A p \in workers[w].written :
       /\ p.claim \in Ids /\ Justified(p.claim, p.verdict)
       /\ p.verdict.type # "none" => p.verdict.current # Missing

(* A job over the comparison has dealt with every claim it listed, or will. *)
Page(upto) == {Claims[i].id : i \in 1..FirstPage(upto)}
CoverInv ==
  \A w \in Workers : workers[w].job = "verify_comparison" =>
    \A c \in Page(workers[w].upto) :
                   \/ \E p \in workers[w].written : p.claim = c
                   \/ \E i \in DOMAIN workers[w].todo : workers[w].todo[i].id = c

(* An analysis stores what the rules found in the claims it read, one      *)
(* verdict of a claim; a numerical finding is about its claim.             *)
FindingsInv ==
  /\ \A w \in Workers : workers[w].job = "analyze" =>
       /\ \A p, q \in workers[w].pairs : p.claim.id = q.claim.id => p = q
       /\ \E ranks \in Orders : workers[w].found = FoundIn(workers[w].pairs, ranks)
  /\ \A k \in DOMAIN findings : k[1] \in NumericalTypes => findings[k].of = k[2]

-----------------------------------------------------------------------------
(* The candidates of a claim: the first of them is the best place's row.   *)

LEMMA LeastNatural ==
  ASSUME NEW S, S \subseteq Nat, S # {}
  PROVE  \E n \in S : \A m \in S : n <= m
<1> DEFINE Less == OpToRel(<, Nat)
<1>1. IsWellFoundedOn(Less, Nat)
  BY NatLessThanWellFounded
<1>2. ASSUME NEW x \in Nat, NEW y \in Nat, x < y PROVE <<x, y>> \in Less
  BY <1>2 DEF OpToRel
<1> HIDE DEF Less
<1>3. PICK n \in S : \A m \in S : ~ (<<m, n>> \in Less)
  BY <1>1, WFMin
<1>4. ASSUME NEW m \in S PROVE n <= m
  <2>1. m \in Nat /\ n \in Nat /\ ~ (<<m, n>> \in Less)
    BY <1>3
  <2>2. ~ (m < n)
    BY <2>1, <1>2
  <2> QED
    BY <2>1, <2>2
<1> QED
  BY <1>3, <1>4

LEMMA FirstExists ==
  ASSUME NEW places, IsFiniteSet(places), places # {}, places \subseteq Nat \X Nat,
         NEW score, \A p \in places : score[p] \in Int
  PROVE  \E p \in places : Cardinality({q \in places : Precedes(q, p, score)}) = 0
<1> DEFINE Before(p) == {q \in places : Precedes(q, p, score)}
           counts == {Cardinality(Before(p)) : p \in places}
<1>1. ASSUME NEW p \in places PROVE IsFiniteSet(Before(p)) /\ Cardinality(Before(p)) \in Nat
  <2>1. IsFiniteSet(Before(p))
    BY FS_Subset
  <2> QED
    BY <2>1, FS_CardinalityType
<1>2. counts \subseteq Nat /\ counts # {}
  BY <1>1
<1>3. PICK p \in places : \A o \in places : Cardinality(Before(p)) <= Cardinality(Before(o))
  <2> HIDE DEF counts, Before
  <2>1. PICK n \in counts : \A m \in counts : n <= m
    BY <1>2, LeastNatural
  <2> QED
    BY <2>1 DEF counts
<1>4. Before(p) = {}
  <2>1. SUFFICES ASSUME NEW q \in Before(p) PROVE FALSE
    OBVIOUS
  <2>2. q \in places /\ Precedes(q, p, score)
    OBVIOUS
  <2>3. /\ score[p] \in Int /\ score[q] \in Int
        /\ p[1] \in Nat /\ p[2] \in Nat /\ q[1] \in Nat /\ q[2] \in Nat
    BY <2>2
  <2>4. ~ Precedes(q, q, score)
    BY <2>3 DEF Precedes
  <2>5. ASSUME NEW o \in Before(q) PROVE o \in Before(p)
    <3>1. o \in places /\ Precedes(o, q, score) /\ score[o] \in Int /\ o[1] \in Nat /\ o[2] \in Nat
      BY <2>5
    <3>2. Precedes(o, p, score)
      BY <2>2, <2>3, <3>1 DEF Precedes
    <3> QED
      BY <3>1, <3>2
  <2>6. Before(q) \subseteq Before(p) /\ q \notin Before(q)
    BY <2>4, <2>5
  <2>7. IsFiniteSet(Before(p)) /\ Cardinality(Before(p)) \in Nat /\ Cardinality(Before(q)) \in Nat
    BY <1>1, <2>2
  <2>8. Cardinality(Before(p)) <= Cardinality(Before(q))
    BY <1>3, <2>2
  <2> HIDE DEF Before
  <2>9. Before(q) = Before(p)
    <3>1. \/ Before(q) = Before(p)
          \/ Cardinality(Before(q)) < Cardinality(Before(p))
      BY <2>6, <2>7, FS_Subset
    <3> QED
      BY <2>7, <2>8, <3>1
  <2> QED
    BY <2>6, <2>9, <2>1
<1> HIDE DEF Before
<1>5. Cardinality(Before(p)) = 0
  BY <1>4, FS_EmptySet
<1> QED
  BY <1>5 DEF Before

(* Lists as the database gives them, with a number to score each concept.  *)
Listed(list) == list \in Seq(Range(list))
Scored(concepts) == \A i \in DOMAIN concepts : concepts[i].priority \in Int

LEMMA ScoresAreNumbers ==
  ASSUME NEW concept, concept.priority \in Int, NEW fact, NEW filing, NEW expected
  PROVE  /\ ScoreCandidate(concept, fact, filing, expected).combined \in Int
         /\ ScoreCandidate(concept, fact, filing, expected).fact = fact
         /\ ScoreCandidate(concept, fact, filing, expected).unit = UnitScore(fact, concept)
         /\ ScoreCandidate(concept, fact, filing, expected).period
              = PeriodScore(fact, filing, expected)
<1>1. ConceptScore(concept) \in Int
  BY DEF ConceptScore
<1>2. /\ PeriodScore(fact, filing, expected) \in Int /\ UnitScore(fact, concept) \in Int
      /\ AccessionScore(fact, filing) \in Int /\ FrameScore(fact) \in Int
  BY DEF PeriodScore, UnitScore, AccessionScore, FrameScore
<1> QED
  BY <1>1, <1>2 DEF ScoreCandidate

LEMMA FirstCandidate ==
  ASSUME NEW concepts, Listed(concepts), Scored(concepts), NEW stored, Listed(stored),
         NEW filing, NEW expected, Candidates(concepts, stored, filing, expected) # <<>>
  PROVE  \E i \in DOMAIN concepts, j \in DOMAIN stored :
           /\ stored[j].concept = concepts[i].name
           /\ Candidates(concepts, stored, filing, expected)[1]
                = ScoreCandidate(concepts[i], stored[j], filing, expected)
<1> DEFINE places == Places(concepts, stored)
           row == [p \in places |-> ScoreCandidate(concepts[p[1]], stored[p[2]], filing, expected)]
           score == [p \in places |-> row[p].combined]
           Rank(p) == Cardinality({q \in places : Precedes(q, p, score)})
<1>1. /\ DOMAIN concepts = 1..Len(concepts) /\ Len(concepts) \in Nat
      /\ DOMAIN stored = 1..Len(stored) /\ Len(stored) \in Nat
  BY DEF Listed
<1>2. places \subseteq (DOMAIN concepts) \X (DOMAIN stored) /\ places \subseteq Nat \X Nat
  BY <1>1 DEF Places
<1>3. IsFiniteSet(places)
  <2>1. IsFiniteSet(DOMAIN concepts) /\ IsFiniteSet(DOMAIN stored)
    BY <1>1, FS_Interval
  <2>2. IsFiniteSet((DOMAIN concepts) \X (DOMAIN stored))
    BY <2>1, FS_Product
  <2> QED
    BY <1>2, <2>2, FS_Subset
<1>4. ASSUME NEW p \in places PROVE row[p].combined \in Int
  <2>1. p[1] \in DOMAIN concepts
    BY <1>2
  <2>2. concepts[p[1]].priority \in Int
    BY <2>1 DEF Scored
  <2> QED
    BY <2>2, ScoresAreNumbers
<1>5. \A p \in places : score[p] \in Int
  BY <1>4
<1>6. Candidates(concepts, stored, filing, expected)
        = [k \in 1..Cardinality(places) |-> row[CHOOSE p \in places : Rank(p) = k - 1]]
  BY DEF Candidates
<1>7. Cardinality(places) \in Nat
  BY <1>3, FS_CardinalityType
<1> HIDE DEF places
<1>8. places # {}
  <2>1. SUFFICES ASSUME places = {} PROVE FALSE
    OBVIOUS
  <2>2. Cardinality(places) = 0
    BY <2>1, FS_EmptySet
  <2>3. 1..Cardinality(places) = {}
    BY <2>2
  <2> DEFINE rows == Candidates(concepts, stored, filing, expected)
  <2>4. rows \in [1..0 -> {}] /\ 0 \in Nat
    BY <1>6, <2>2, <2>3
  <2> HIDE DEF rows
  <2>5. rows \in Seq({}) /\ Len(rows) = 0
    BY <2>4, SeqDef
  <2>6. rows = <<>>
    BY <2>5, EmptySeq
  <2> QED
    BY <2>6 DEF rows
<1>9. 1 \in 1..Cardinality(places)
  <2>1. Cardinality(places) # 0
    BY <1>3, <1>8, FS_EmptySet
  <2> QED
    BY <1>7, <2>1
<1> HIDE DEF score
<1>10. \E p \in places : Rank(p) = 0
  BY <1>2, <1>3, <1>5, <1>8, FirstExists
<1> HIDE DEF Rank
<1> DEFINE first == CHOOSE p \in places : Rank(p) = 1 - 1
<1>11. first \in places
  BY <1>10
<1>12. Candidates(concepts, stored, filing, expected)[1] = row[first]
  BY <1>6, <1>9
<1> HIDE DEF first
<1>13. /\ first[1] \in DOMAIN concepts /\ first[2] \in DOMAIN stored
       /\ stored[first[2]].concept = concepts[first[1]].name
  BY <1>2, <1>11 DEF Places, places
<1>14. row[first] = ScoreCandidate(concepts[first[1]], stored[first[2]], filing, expected)
  BY <1>11
<1> QED
  BY <1>12, <1>13, <1>14

(* A fact is selected only when its unit and its period are those that     *)
(* were asked for, and then by what the fact itself says of its days.      *)
Asks == {"instant", "year_to_date_duration", "quarterly_duration"}
FitsConcepts(fact, concepts) ==
  \E i \in DOMAIN concepts :
    concepts[i].name = fact.concept /\ UnitsCompatible(concepts[i].category, fact.unit)

LEMMA ExpectedIsAsked ==
  ASSUME NEW metric, NEW basis
  PROVE  ExpectedPeriod(metric, basis) \in Asks
BY DEF ExpectedPeriod, Asks

LEMMA PeriodsAgree ==
  ASSUME NEW fact, NEW expected \in Asks, ClassifyFactPeriod(fact) = expected
  PROVE  FactPeriod(fact) = expected
<1>1. CASE fact.instant /\ ~fact.starts
  BY <1>1 DEF ClassifyFactPeriod, FactPeriod
<1>2. CASE ~ (fact.instant /\ ~fact.starts)
  <2>1. CASE ~fact.starts \/ ~fact.ends
    BY <1>2, <2>1 DEF ClassifyFactPeriod, Asks
  <2>2. CASE ~ (~fact.starts \/ ~fact.ends)
    <3>1. fact.days \in HalfDays \cup NineMonthDays =>
            fact.days \in 150..290 /\ fact.days \notin QuarterDays
      BY DEF HalfDays, NineMonthDays, QuarterDays
    <3> QED
      BY <1>2, <2>2, <3>1 DEF ClassifyFactPeriod, FactPeriod, Asks
  <2> QED
    BY <2>1, <2>2
<1> QED
  BY <1>1, <1>2

LEMMA ResolvedFits ==
  ASSUME NEW concepts, Listed(concepts), Scored(concepts), NEW stored, Listed(stored),
         NEW filing, NEW expected \in Asks
  PROVE  LET found == Resolve(concepts, stored, filing, expected) IN
         /\ found.status # "selected" => found.fact = Missing
         /\ found.status = "selected" =>
              \E fact : /\ found.fact = <<fact>> /\ FactPeriod(fact) = expected
                        /\ FitsConcepts(fact, concepts)
<1> DEFINE rows == Candidates(concepts, stored, filing, expected)
           found == Resolve(concepts, stored, filing, expected)
<1> HIDE DEF rows
<1>1. CASE concepts # <<>> /\ Selectable(rows)
  <2>1. found.status = "selected" /\ found.fact = <<rows[1].fact>>
    BY <1>1 DEF Resolve, Given, rows
  <2>2. rows # <<>> /\ rows[1].unit # 0 /\ rows[1].period # 0
    BY <1>1 DEF Selectable, Fits
  <2>3. PICK i \in DOMAIN concepts, j \in DOMAIN stored :
          /\ stored[j].concept = concepts[i].name
          /\ rows[1] = ScoreCandidate(concepts[i], stored[j], filing, expected)
    BY <2>2, FirstCandidate DEF rows
  <2>4. concepts[i].priority \in Int
    BY DEF Scored
  <2>5. /\ rows[1].fact = stored[j] /\ rows[1].unit = UnitScore(stored[j], concepts[i])
        /\ rows[1].period = PeriodScore(stored[j], filing, expected)
    BY <2>3, <2>4, ScoresAreNumbers
  <2>6. UnitsCompatible(concepts[i].category, stored[j].unit)
    BY <2>2, <2>5 DEF UnitScore
  <2>7. FactPeriod(stored[j]) = expected
    <3>1. ClassifyFactPeriod(stored[j]) = expected
      BY <2>2, <2>5 DEF PeriodScore
    <3> QED
      BY <3>1, PeriodsAgree
  <2>8. FitsConcepts(stored[j], concepts)
    BY <2>3, <2>6 DEF FitsConcepts
  <2>9. found.fact = <<stored[j]>>
    BY <2>1, <2>5
  <2> QED
    BY <2>1, <2>7, <2>8, <2>9
<1>2. CASE ~ (concepts # <<>> /\ Selectable(rows))
  <2>1. found.status # "selected" /\ found.fact = Missing
    BY <1>2 DEF Resolve, rows
  <2> QED
    BY <2>1
<1> QED
  BY <1>1, <1>2

LEMMA RangeOfFound ==
  /\ Range(Missing) = {}
  /\ \A fact : Range(<<fact>>) = {fact}
BY DEF Range, Missing

LEMMA ResolvedForClaim ==
  ASSUME facts \in DOMAIN FactSets, NEW row, row.metric \in DOMAIN Concepts, NEW filing
  PROVE  /\ ResolveFor(row, filing).status # "selected" => ResolveFor(row, filing).fact = Missing
         /\ ResolveFor(row, filing).status = "selected" => ResolveFor(row, filing).fact # Missing
         /\ \A fact \in Range(ResolveFor(row, filing).fact) :
              /\ FactPeriod(fact)
                   = ExpectedPeriod([behavior |-> Behavior[row.metric]], row.basis)
              /\ FitsConcepts(fact, Concepts[row.metric])
<1> DEFINE concepts == Concepts[row.metric]
           stored == FactSets[facts]
           expected == ExpectedPeriod([behavior |-> Behavior[row.metric]], row.basis)
           found == ResolveFor(row, filing)
<1>1. Listed(concepts) /\ Scored(concepts)
  BY FindingsAssumption DEF Listed, Scored, Range
<1>2. Listed(stored)
  BY FindingsAssumption DEF Listed
<1>3. expected \in Asks
  BY ExpectedIsAsked
<1>4. found = Resolve(concepts, stored, filing, expected)
  BY DEF ResolveFor
<1> HIDE DEF concepts, stored, expected, found
<1>5. /\ found.status # "selected" => found.fact = Missing
      /\ found.status = "selected" =>
           \E fact : /\ found.fact = <<fact>> /\ FactPeriod(fact) = expected
                     /\ FitsConcepts(fact, concepts)
  BY <1>1, <1>2, <1>3, <1>4, ResolvedFits
<1>6. CASE found.status = "selected"
  <2>1. PICK fact : /\ found.fact = <<fact>> /\ FactPeriod(fact) = expected
                    /\ FitsConcepts(fact, concepts)
    BY <1>5, <1>6
  <2>2. Range(found.fact) = {fact} /\ found.fact # Missing
    BY <2>1, RangeOfFound DEF Missing
  <2> QED
    BY <1>6, <2>1, <2>2 DEF found, expected, concepts
<1>7. CASE found.status # "selected"
  <2>1. found.fact = Missing /\ Range(found.fact) = {}
    BY <1>5, <1>7, RangeOfFound
  <2> QED
    BY <1>7, <2>1 DEF found
<1> QED
  BY <1>6, <1>7

LEMMA ConceptFits ==
  ASSUME NEW row, NEW fact, FitsConcepts(fact, Concepts[row.metric])
  PROVE  \E concept \in Range(Concepts[row.metric]) :
           concept.name = fact.concept /\ UnitsCompatible(concept.category, fact.unit)
BY DEF FitsConcepts, Range

LEMMA VerdictNeedsItsFact ==
  ASSUME NEW row, NEW current, NEW comparison, Verdict(row, current, comparison).type # "none"
  PROVE  current.status = "selected"
BY DEF Verdict, Uncomputed, Computed

LEMMA VerifiedIsJustified ==
  ASSUME facts \in DOMAIN FactSets, NEW row
  PROVE  /\ Verified(row).claim = row.id
         /\ DOMAIN Verified(row).verdict = VerdictFields
         /\ RestsOnFittingFacts(row, Verified(row).verdict)
         /\ Verified(row).verdict.type # "none" => Verified(row).verdict.current # Missing
<1>1. \A verdict, current, comparison :
        /\ DOMAIN Resting(verdict, current, comparison) = VerdictFields
        /\ Resting(verdict, current, comparison).current = current
        /\ Resting(verdict, current, comparison).comparison = comparison
        /\ Resting(verdict, current, comparison).type = verdict.type
  BY DEF Resting, VerdictFields
<1>2. CASE row.metric \notin DOMAIN Concepts
  <2>1. /\ Verified(row).claim = row.id
        /\ Verified(row).verdict = Resting(Uncomputed("unsupported_metric"), Missing, Missing)
    BY <1>2 DEF Verified
  <2>2. Uncomputed("unsupported_metric").type = "none"
    BY DEF Uncomputed, Computed
  <2>3. RestsOnFittingFacts(row, Verified(row).verdict)
    BY <1>1, <2>1, RangeOfFound DEF RestsOnFittingFacts
  <2> QED
    BY <1>1, <2>1, <2>2, <2>3
<1>3. CASE row.metric \in DOMAIN Concepts
  <2> DEFINE current == ResolveFor(row, row.filing)
             comparison == IF current.status = "selected" THEN ComparisonOf(row) ELSE NotCompared
  <2>1. /\ Verified(row).claim = row.id
        /\ Verified(row).verdict
             = Resting(Verdict(row, current, comparison), current.fact, comparison.fact)
    BY <1>3 DEF Verified
  <2>2. \A fact \in Range(current.fact) :
          /\ FactPeriod(fact) = ExpectedPeriod([behavior |-> Behavior[row.metric]], row.basis)
          /\ FitsConcepts(fact, Concepts[row.metric])
    BY <1>3, ResolvedForClaim
  <2>3. \A fact \in Range(comparison.fact) :
          /\ FactPeriod(fact) = ExpectedPeriod([behavior |-> Behavior[row.metric]], row.basis)
          /\ FitsConcepts(fact, Concepts[row.metric])
    <3>1. CASE comparison = NotCompared
      <4>1. Range(comparison.fact) = {}
        BY <3>1, RangeOfFound DEF NotCompared
      <4> QED
        BY <4>1
    <3>2. CASE comparison = ResolveFor(row, ComparisonFiling)
      BY <1>3, <3>2, ResolvedForClaim
    <3> QED
      BY <3>1, <3>2 DEF ComparisonOf
  <2>4. Verdict(row, current, comparison).type # "none" => current.fact # Missing
    <3>1. current.status = "selected" => current.fact # Missing
      BY <1>3, ResolvedForClaim
    <3> QED
      BY <3>1, VerdictNeedsItsFact
  <2> HIDE DEF current, comparison
  <2>5. RestsOnFittingFacts(row, Verified(row).verdict)
    BY <1>1, <2>1, <2>2, <2>3, ConceptFits DEF RestsOnFittingFacts
  <2> QED
    BY <1>1, <2>1, <2>4, <2>5
<1> QED
  BY <1>2, <1>3

-----------------------------------------------------------------------------
(* What the steps leave of the jobs.                                       *)

LEMMA OriginalRows ==
  ASSUME NEW c \in Ids
  PROVE  Original(c) \in Range(Claims) /\ Original(c).id = c
BY DEF Ids, Original, Range

LEMMA IdleFields ==
  /\ DOMAIN Idle = JobFields /\ Idle.job = "idle" /\ Idle.upto = 0 /\ Idle.todo = <<>> /\ Idle.written = {}
  /\ Idle.inserts = FALSE /\ Idle.pairs = {} /\ Idle.found = {}
BY DEF Idle, JobFields

LEMMA PagesAreListed ==
  ASSUME NEW n \in 0..Len(Claims)
  PROVE  FirstPage(n) \in Nat /\ 1..FirstPage(n) \subseteq DOMAIN Claims /\ Page(n) \subseteq Ids
<1>1. DOMAIN Claims = 1..Len(Claims) /\ Len(Claims) \in Nat /\ ClaimLimit \in Nat
  BY FindingsAssumption
<1>2. FirstPage(n) \in Nat /\ FirstPage(n) <= n
  BY <1>1 DEF FirstPage
<1>3. 1..FirstPage(n) \subseteq DOMAIN Claims
  BY <1>1, <1>2
<1> QED
  BY <1>2, <1>3 DEF Page, Ids

LEMMA SomeClaims ==
  ASSUME Shaped, RowsInv
  PROVE  /\ \A n \in 0..Len(Claims) :
              [i \in 1..FirstPage(n) |-> claims[Claims[i].id]] \in Seq(ClaimRows)
         /\ \A c \in Ids : <<claims[c]>> \in Seq(ClaimRows)
<1>1. ASSUME NEW n \in 0..Len(Claims)
      PROVE  [i \in 1..FirstPage(n) |-> claims[Claims[i].id]] \in Seq(ClaimRows)
  <2>1. FirstPage(n) \in Nat /\ \A i \in 1..FirstPage(n) : Claims[i].id \in Ids
    BY PagesAreListed DEF Ids
  <2>2. [i \in 1..FirstPage(n) |-> claims[Claims[i].id]] \in [1..FirstPage(n) -> ClaimRows]
    BY <2>1 DEF RowsInv
  <2> QED
    BY <2>1, <2>2, SeqDef
<1>2. \A c \in Ids : <<claims[c]>> \in Seq(ClaimRows)
  BY DEF RowsInv
<1> QED
  BY <1>1, <1>2

(* Each step of a job changes the record of that job only.                 *)
OnlyJob(w) == \A o \in Workers \ {w} : workers'[o] = workers[o]

LEMMA StartsComparison ==
  ASSUME Shaped, NEW w \in Workers, StartVerifyComparison(w)
  PROVE  /\ DOMAIN workers' = Workers /\ OnlyJob(w) /\ DOMAIN workers'[w] = JobFields
         /\ workers'[w].job = "verify_comparison" /\ workers'[w].written = {}
         /\ workers'[w].upto \in 0..Len(Claims)
         /\ workers'[w].todo = [i \in 1..FirstPage(workers'[w].upto) |-> claims[Claims[i].id]]
<1>1. PICK upto \in extracted..Len(Claims) :
        workers' = [workers EXCEPT ![w] = [Idle EXCEPT !.job = "verify_comparison", !.upto = upto,
                      !.todo = [i \in 1..FirstPage(upto) |-> claims[Claims[i].id]]]]
  BY DEF StartVerifyComparison
<1>2. upto \in 0..Len(Claims)
  BY DEF Shaped
<1> DEFINE todo == [i \in 1..FirstPage(upto) |-> claims[Claims[i].id]]
<1>3. workers' = [workers EXCEPT ![w] = [Idle EXCEPT !.job = "verify_comparison", !.upto = upto,
                                                     !.todo = todo]]
  BY <1>1
<1> HIDE DEF todo
<1>4. /\ DOMAIN workers' = Workers /\ OnlyJob(w) /\ DOMAIN workers'[w] = JobFields
      /\ workers'[w].job = "verify_comparison" /\ workers'[w].written = {}
      /\ workers'[w].upto = upto /\ workers'[w].todo = todo
  BY <1>3, IdleFields DEF Shaped, OnlyJob, JobFields
<1> QED
  BY <1>2, <1>4 DEF todo

LEMMA StartsClaim ==
  ASSUME Shaped, NEW w \in Workers, NEW c \in Ids, StartVerifyClaim(w, c)
  PROVE  /\ DOMAIN workers' = Workers /\ OnlyJob(w) /\ DOMAIN workers'[w] = JobFields
         /\ workers'[w].job = "verify_claim" /\ workers'[w].written = {}
         /\ workers'[w].todo = <<claims[c]>> /\ workers'[w].upto = 0
BY IdleFields DEF Shaped, StartVerifyClaim, OnlyJob, JobFields

LEMMA Meets ==
  ASSUME Shaped, NEW w \in Workers, MeetInsert(w)
  PROVE  /\ DOMAIN workers' = Workers /\ OnlyJob(w) /\ DOMAIN workers'[w] = JobFields
         /\ workers'[w].job = workers[w].job /\ workers'[w].written = workers[w].written
         /\ workers'[w].todo = workers[w].todo /\ workers'[w].upto = workers[w].upto
         /\ workers'[w].pairs = workers[w].pairs /\ workers'[w].found = workers[w].found
BY DEF Shaped, MeetInsert, OnlyJob, JobFields

LEMMA Verifies ==
  ASSUME Shaped, NEW w \in Workers, VerifyNext(w)
  PROVE  /\ DOMAIN workers' = Workers /\ OnlyJob(w) /\ DOMAIN workers'[w] = JobFields
         /\ workers'[w].job = workers[w].job
         /\ workers'[w].written = workers[w].written \cup {Verified(Head(workers[w].todo))}
         /\ workers'[w].todo = Tail(workers[w].todo) /\ workers'[w].upto = workers[w].upto
         /\ workers'[w].pairs = workers[w].pairs /\ workers'[w].found = workers[w].found
<1> DEFINE row == Head(workers[w].todo)
           new == Verified(row)
           rest == Tail(workers[w].todo)
<1>1. workers' = [workers EXCEPT ![w].todo = rest, ![w].inserts = FALSE,
                                 ![w].written = @ \cup {new}]
  BY DEF VerifyNext
<1>2. DOMAIN workers = Workers /\ DOMAIN workers[w] = JobFields
  BY DEF Shaped
<1> HIDE DEF new, rest, row
<1>3. /\ DOMAIN workers' = Workers /\ OnlyJob(w) /\ DOMAIN workers'[w] = JobFields
      /\ workers'[w].job = workers[w].job
      /\ workers'[w].written = workers[w].written \cup {new} /\ workers'[w].todo = rest
      /\ workers'[w].upto = workers[w].upto
      /\ workers'[w].pairs = workers[w].pairs /\ workers'[w].found = workers[w].found
  BY <1>1, <1>2 DEF JobFields, OnlyJob
<1> QED
  BY <1>3 DEF new, rest, row

LEMMA Ends ==
  ASSUME Shaped, NEW w \in Workers, CommitVerdicts(w) \/ RollBack(w) \/ StoreFindings(w)
  PROVE  DOMAIN workers' = Workers /\ OnlyJob(w) /\ workers'[w] = Idle
<1>1. workers' = [workers EXCEPT ![w] = Idle]
  BY DEF CommitVerdicts, RollBack, StoreFindings
<1> QED
  BY <1>1 DEF Shaped, OnlyJob

LEMMA Analyzes ==
  ASSUME Shaped, NEW w \in Workers, Analyze(w)
  PROVE  /\ DOMAIN workers' = Workers /\ OnlyJob(w) /\ DOMAIN workers'[w] = JobFields
         /\ workers'[w].job = "analyze" /\ workers'[w].written = {} /\ workers'[w].todo = <<>>
         /\ workers'[w].upto = 0
         /\ workers'[w].pairs = {[claim |-> claims[c], verdict |-> verdicts[c][1]] :
                                   c \in {c \in Ids : verdicts[c] # Missing}}
         /\ \E ranks \in Orders : workers'[w].found = FoundIn(workers'[w].pairs, ranks)
<1> DEFINE pairs == {[claim |-> claims[c], verdict |-> verdicts[c][1]] :
                       c \in {c \in Ids : verdicts[c] # Missing}}
<1>1. PICK ranks \in Orders :
        workers' = [workers EXCEPT ![w] = [Idle EXCEPT !.job = "analyze", !.pairs = pairs,
                                                       !.found = FoundIn(pairs, ranks)]]
  BY DEF Analyze
<1> DEFINE found == FoundIn(pairs, ranks)
<1>2. workers' = [workers EXCEPT ![w] = [Idle EXCEPT !.job = "analyze", !.pairs = pairs,
                                                     !.found = found]]
  BY <1>1
<1> HIDE DEF pairs, found
<1>3. DOMAIN workers' = Workers /\ OnlyJob(w)
  BY <1>2 DEF Shaped, OnlyJob
<1>4. workers'[w] = [Idle EXCEPT !.job = "analyze", !.pairs = pairs, !.found = found]
  BY <1>2 DEF Shaped
<1>5. /\ DOMAIN workers'[w] = JobFields /\ workers'[w].job = "analyze"
      /\ workers'[w].written = {} /\ workers'[w].todo = <<>> /\ workers'[w].upto = 0
      /\ workers'[w].pairs = pairs /\ workers'[w].found = found
  BY <1>4, IdleFields DEF JobFields
<1>6. workers'[w].found = FoundIn(workers'[w].pairs, ranks)
  BY <1>5 DEF found
<1> QED
  BY <1>3, <1>5, <1>6 DEF pairs

LEMMA RowIds ==
  ASSUME NEW row \in ClaimRows
  PROVE  row.id \in Ids
<1>1. CASE row \in Range(Claims)
  BY <1>1 DEF Ids, Range
<1>2. CASE \E c \in Ids : row \in ClaimEdits[c]
  BY <1>2, FindingsAssumption
<1> QED
  BY <1>1, <1>2 DEF ClaimRows

(* A claim keeps its id, and once a reviewer has changed it, it stays      *)
(* changed.                                                                *)
EditedStays == \A c \in Ids : claims[c].edited => claims'[c].edited

LEMMA ClaimsMove ==
  ASSUME Shaped, RowsInv, [Next]_vars
  PROVE  /\ DOMAIN claims' = Ids /\ EditedStays
         /\ \A c \in Ids : /\ claims'[c].id = c /\ claims'[c] \in ClaimRows
                           /\ claims'[c] = Original(c) \/ claims'[c].edited
<1>1. \A c \in Ids : /\ claims[c].id = c /\ claims[c] \in ClaimRows
                     /\ claims[c] = Original(c) \/ claims[c].edited
  BY DEF RowsInv, Read
<1>2. CASE \E c \in Ids : ReviewClaim(c)
  <2>c. PICK c \in Ids : ReviewClaim(c)
    BY <1>2
  <2>1. PICK row \in ClaimEdits[c] : claims' = [claims EXCEPT ![c] = row]
    BY <2>c DEF ReviewClaim
  <2>2. row.id = c /\ row.edited /\ row \in ClaimRows
    BY FindingsAssumption DEF ClaimRows
  <2> QED
    BY <1>1, <2>1, <2>2 DEF Shaped, EditedStays
<1>3. CASE UNCHANGED claims
  BY <1>1, <1>3 DEF Shaped, EditedStays
<1>4. UNCHANGED claims \/ \E c \in Ids : ReviewClaim(c)
  <2>1. CASE \E w \in Workers :
               \/ StartVerifyComparison(w) \/ \E c \in Ids : StartVerifyClaim(w, c)
               \/ MeetInsert(w) \/ VerifyNext(w)
    BY <2>1 DEF StartVerifyComparison, StartVerifyClaim, MeetInsert, VerifyNext
  <2>2. CASE \E w \in Workers : CommitVerdicts(w) \/ RollBack(w) \/ Analyze(w) \/ StoreFindings(w)
    BY <2>2 DEF CommitVerdicts, RollBack, Analyze, StoreFindings
  <2>3. CASE \E r \in Reviewers : LoadFinding(r) \/ SaveReview(r)
    BY <2>3 DEF LoadFinding, SaveReview
  <2>4. CASE CommitExtracted \/ ReplaceFacts \/ UNCHANGED vars
    BY <2>4 DEF CommitExtracted, ReplaceFacts, vars
  <2> QED
    BY <2>1, <2>2, <2>3, <2>4 DEF Next
<1> QED
  BY <1>2, <1>3, <1>4

LEMMA TodoMoves ==
  ASSUME Shaped, RowsInv, [Next]_vars
  PROVE  /\ DOMAIN workers' = Workers
         /\ \A o \in Workers :
              /\ DOMAIN workers'[o] = JobFields /\ workers'[o].todo \in Seq(ClaimRows)
              /\ workers'[o].upto \in 0..Len(Claims)
              /\ \A i \in DOMAIN workers'[o].todo : Read(workers'[o].todo[i])
<1> DEFINE Right(job) == /\ DOMAIN job = JobFields /\ job.todo \in Seq(ClaimRows)
                         /\ job.upto \in 0..Len(Claims)
                         /\ \A i \in DOMAIN job.todo : Read(job.todo[i])
           Goal == DOMAIN workers' = Workers /\ \A o \in Workers : Right(workers'[o])
<1>1. DOMAIN workers = Workers /\ \A o \in Workers : Right(workers[o])
  BY DEF Shaped, RowsInv
<1>z. 0 \in 0..Len(Claims)
  BY FindingsAssumption
<1>2. Right(Idle)
  BY <1>z, IdleFields
<1>3. \A c \in Ids : Read(claims[c])
  BY DEF RowsInv
<1>4. ASSUME NEW w \in Workers, DOMAIN workers' = Workers, OnlyJob(w), Right(workers'[w])
      PROVE  Goal
  <2> HIDE DEF Right
  <2> QED
    BY <1>1, <1>4 DEF OnlyJob
<1>5. ASSUME NEW w \in Workers, StartVerifyComparison(w) PROVE Goal
  <2>1. /\ DOMAIN workers' = Workers /\ OnlyJob(w) /\ DOMAIN workers'[w] = JobFields
        /\ workers'[w].upto \in 0..Len(Claims)
        /\ workers'[w].todo = [i \in 1..FirstPage(workers'[w].upto) |-> claims[Claims[i].id]]
    BY <1>5, StartsComparison
  <2>2. workers'[w].todo \in Seq(ClaimRows)
    BY <2>1, SomeClaims
  <2>3. \A i \in DOMAIN workers'[w].todo : Read(workers'[w].todo[i])
    <3>1. \A i \in 1..FirstPage(workers'[w].upto) : Claims[i].id \in Ids
      BY <2>1, PagesAreListed DEF Ids
    <3> HIDE DEF Goal, Right
    <3> QED
      BY <1>3, <2>1, <3>1
  <2>4. Right(workers'[w])
    BY <2>1, <2>2, <2>3
  <2> QED
    BY <1>4, <2>1, <2>4
<1>6. ASSUME NEW w \in Workers, NEW c \in Ids, StartVerifyClaim(w, c) PROVE Goal
  <2>1. /\ DOMAIN workers' = Workers /\ OnlyJob(w) /\ DOMAIN workers'[w] = JobFields
        /\ workers'[w].todo = <<claims[c]>> /\ workers'[w].upto = 0
    BY <1>6, StartsClaim
  <2>2. workers'[w].todo \in Seq(ClaimRows)
    BY <2>1, SomeClaims
  <2>3. \A i \in DOMAIN workers'[w].todo : Read(workers'[w].todo[i])
    BY <1>3, <2>1
  <2>4. Right(workers'[w])
    BY <1>z, <2>1, <2>2, <2>3
  <2> QED
    BY <1>4, <2>1, <2>4
<1>7. ASSUME NEW w \in Workers, MeetInsert(w) PROVE Goal
  <2>1. /\ DOMAIN workers' = Workers /\ OnlyJob(w) /\ DOMAIN workers'[w] = JobFields
        /\ workers'[w].todo = workers[w].todo /\ workers'[w].upto = workers[w].upto
    BY <1>7, Meets
  <2>2. Right(workers'[w])
    BY <1>1, <2>1
  <2> QED
    BY <1>4, <2>1, <2>2
<1>8. ASSUME NEW w \in Workers, VerifyNext(w) PROVE Goal
  <2> DEFINE todo == workers[w].todo
  <2>1. /\ DOMAIN workers' = Workers /\ OnlyJob(w) /\ DOMAIN workers'[w] = JobFields
        /\ workers'[w].todo = Tail(todo) /\ workers'[w].upto = workers[w].upto
    BY <1>8, Verifies
  <2>2. todo \in Seq(ClaimRows) /\ todo # <<>> /\ \A i \in DOMAIN todo : Read(todo[i])
    BY <1>1, <1>8 DEF VerifyNext
  <2> HIDE DEF todo
  <2>3. /\ Tail(todo) \in Seq(ClaimRows)
        /\ \A i \in DOMAIN Tail(todo) : i + 1 \in DOMAIN todo /\ Tail(todo)[i] = todo[i + 1]
    BY <2>2
  <2>4. \A i \in DOMAIN Tail(todo) : Read(Tail(todo)[i])
    BY <2>2, <2>3
  <2>5. Right(workers'[w])
    BY <1>1, <2>1, <2>3, <2>4
  <2> QED
    BY <1>4, <2>1, <2>5
<1>9. ASSUME NEW w \in Workers, CommitVerdicts(w) \/ RollBack(w) \/ StoreFindings(w) PROVE Goal
  <2>1. DOMAIN workers' = Workers /\ OnlyJob(w) /\ workers'[w] = Idle
    BY <1>9, Ends
  <2> HIDE DEF Right
  <2> QED
    BY <1>2, <1>4, <2>1
<1>10. ASSUME NEW w \in Workers, Analyze(w) PROVE Goal
  <2>1. /\ DOMAIN workers' = Workers /\ OnlyJob(w) /\ DOMAIN workers'[w] = JobFields
        /\ workers'[w].todo = <<>> /\ workers'[w].upto = 0
    BY <1>10, Analyzes
  <2>2. Right(workers'[w])
    BY <1>z, <2>1
  <2> QED
    BY <1>4, <2>1, <2>2
<1>11. ASSUME UNCHANGED workers PROVE Goal
  <2> HIDE DEF Right
  <2> QED
    BY <1>1, <1>11
<1>12. ASSUME \E r \in Reviewers : LoadFinding(r) \/ SaveReview(r) PROVE Goal
  BY <1>11, <1>12 DEF LoadFinding, SaveReview
<1>13. ASSUME CommitExtracted \/ ReplaceFacts \/ (\E c \in Ids : ReviewClaim(c)) \/ UNCHANGED vars
       PROVE  Goal
  BY <1>11, <1>13 DEF CommitExtracted, ReplaceFacts, ReviewClaim, vars
<1>14. Goal
  <2> HIDE DEF Goal
  <2>1. CASE \E w \in Workers : StartVerifyComparison(w) \/ \E c \in Ids : StartVerifyClaim(w, c)
    BY <1>5, <1>6, <2>1
  <2>2. CASE \E w \in Workers : MeetInsert(w) \/ VerifyNext(w) \/ Analyze(w)
    BY <1>7, <1>8, <1>10, <2>2
  <2>3. CASE \E w \in Workers : CommitVerdicts(w) \/ RollBack(w) \/ StoreFindings(w)
    BY <1>9, <2>3
  <2> QED
    BY <1>12, <1>13, <2>1, <2>2, <2>3 DEF Next
<1> QED
  BY <1>14

LEMMA RowsOfFindings ==
  ASSUME NEW row, DOMAIN row = RowFields, NEW f
  PROVE  /\ DOMAIN Overwritten(row, f) = RowFields
         /\ Overwritten(row, f).type = f.type /\ Overwritten(row, f).status = f.status
         /\ Overwritten(row, f).of = row.of
         /\ Overwritten(row, f).review = row.review /\ Overwritten(row, f).edits = row.edits
BY DEF Overwritten, RowFields

LEMMA NewRows ==
  ASSUME NEW f
  PROVE  /\ DOMAIN NewRow(f) = RowFields
         /\ NewRow(f).type = f.type /\ NewRow(f).status = f.status /\ NewRow(f).of = f.of
BY DEF NewRow, RowFields

(* A review writes what it may of the row it loaded.                       *)
LEMMA Saves ==
  ASSUME Shaped, NEW r \in Reviewers, SaveReview(r)
  PROVE  /\ DOMAIN findings' = DOMAIN findings
         /\ \A k \in DOMAIN findings :
              /\ DOMAIN findings'[k] = RowFields /\ findings'[k].of = findings[k].of
              /\ k # reviews[r][1].key => findings'[k] = findings[k]
         /\ reviews[r] # <<>> /\ reviews' = [reviews EXCEPT ![r] = <<>>]
<1> DEFINE key == reviews[r][1].key
<1>1. \E a, b, c, d :
        findings' = [findings EXCEPT ![key].type = a, ![key].severity = b,
                                     ![key].review = c, ![key].edits = d]
  <2>1. PICK type \in {Missing} \cup {<<t>> : t \in ReviewTypes},
             severity \in {Missing} \cup {<<s>> : s \in ReviewSeverities},
             status \in ReviewStatuses :
          LET loaded == reviews[r][1].row
              edits == (IF type = Missing THEN <<>> ELSE "type" :> loaded.type)
                       @@ (IF severity = Missing THEN <<>> ELSE "severity" :> loaded.severity)
                       @@ loaded.edits
          IN  findings' = [findings EXCEPT
                ![key].type = Kept(type, loaded.type, @),
                ![key].severity = Kept(severity, loaded.severity, @),
                ![key].review = Kept(<<status>>, loaded.review, @),
                ![key].edits = Kept(<<edits>>, loaded.edits, @)]
    BY DEF SaveReview
  <2> DEFINE loaded == reviews[r][1].row
             edits == (IF type = Missing THEN <<>> ELSE "type" :> loaded.type)
                      @@ (IF severity = Missing THEN <<>> ELSE "severity" :> loaded.severity)
                      @@ loaded.edits
  <2>2. findings' = [findings EXCEPT
                ![key].type = Kept(type, loaded.type, @),
                ![key].severity = Kept(severity, loaded.severity, @),
                ![key].review = Kept(<<status>>, loaded.review, @),
                ![key].edits = Kept(<<edits>>, loaded.edits, @)]
    BY <2>1
  <2> HIDE DEF loaded, edits, key
  <2>3. findings' = [findings EXCEPT
                ![key].type = Kept(type, loaded.type, findings[key].type),
                ![key].severity = Kept(severity, loaded.severity, findings[key].severity),
                ![key].review = Kept(<<status>>, loaded.review, findings[key].review),
                ![key].edits = Kept(<<edits>>, loaded.edits, findings[key].edits)]
    BY <2>2
  <2> QED
    BY <2>3
<1>2. PICK a, b, c, d :
        findings' = [findings EXCEPT ![key].type = a, ![key].severity = b,
                                     ![key].review = c, ![key].edits = d]
  BY <1>1
<1>3. \A k \in DOMAIN findings : DOMAIN findings[k] = RowFields
  BY DEF Shaped
<1> HIDE DEF key
<1>4. DOMAIN findings' = DOMAIN findings
  BY <1>2
<1>5. ASSUME NEW k \in DOMAIN findings
      PROVE  /\ DOMAIN findings'[k] = RowFields /\ findings'[k].of = findings[k].of
             /\ k # key => findings'[k] = findings[k]
  BY <1>2, <1>3 DEF RowFields
<1>6. reviews[r] # <<>> /\ reviews' = [reviews EXCEPT ![r] = <<>>]
  BY DEF SaveReview
<1> QED
  BY <1>4, <1>5, <1>6 DEF key

LEMMA Stores ==
  ASSUME Shaped, NEW w \in Workers, StoreFindings(w)
  PROVE  /\ DOMAIN findings' = DOMAIN findings \cup {c.key : c \in workers[w].found}
         /\ \A k \in DOMAIN findings' :
              \/ /\ k \in DOMAIN findings /\ findings'[k] = findings[k]
                 /\ k \notin {c.key : c \in workers[w].found}
              \/ \E c \in workers[w].found :
                   /\ c.key = k
                   /\ findings'[k] = UpsertFinding(findings, k, c.finding)
<1> DEFINE keys == {c.key : c \in workers[w].found}
           Chosen(k) == CHOOSE c \in workers[w].found : c.key = k
<1>1. findings' = [k \in DOMAIN findings \cup keys |->
                     IF k \notin keys THEN findings[k]
                     ELSE UpsertFinding(findings, k, Chosen(k).finding)]
  BY DEF StoreFindings
<1>2. \A k \in keys : Chosen(k) \in workers[w].found /\ Chosen(k).key = k
  OBVIOUS
<1> HIDE DEF Chosen, keys
<1>3. DOMAIN findings' = DOMAIN findings \cup keys
  BY <1>1
<1>4. ASSUME NEW k \in DOMAIN findings'
      PROVE  \/ k \in DOMAIN findings /\ findings'[k] = findings[k] /\ k \notin keys
             \/ \E c \in workers[w].found :
                  c.key = k /\ findings'[k] = UpsertFinding(findings, k, c.finding)
  <2>1. CASE k \in keys
    <3>1. findings'[k] = UpsertFinding(findings, k, Chosen(k).finding)
      BY <1>1, <1>3, <2>1
    <3> QED
      BY <1>2, <2>1, <3>1
  <2>2. CASE k \notin keys
    BY <1>1, <1>3, <2>2
  <2> QED
    BY <2>1, <2>2
<1> QED
  BY <1>3, <1>4 DEF keys

LEMMA ShapedInit == Init => Shaped
<1> SUFFICES ASSUME Init PROVE Shaped
  OBVIOUS
<1>1. /\ claims = [c \in Ids |-> Original(c)] /\ facts \in DOMAIN FactSets
      /\ verdicts = [c \in Ids |-> Missing] /\ findings = <<>>
      /\ workers = [w \in Workers |-> Idle] /\ reviews = [r \in Reviewers |-> <<>>]
      /\ extracted = 0
  BY DEF Init
<1>z. 0 \in 0..Len(Claims)
  BY FindingsAssumption
<1>2. DOMAIN findings = {}
  BY <1>1
<1>3. \A w \in Workers : /\ DOMAIN workers[w] = JobFields /\ workers[w].todo \in Seq(ClaimRows)
                         /\ workers[w].upto \in 0..Len(Claims)
  <2>1. <<>> \in Seq(ClaimRows)
    BY EmptySeq
  <2>2. \A w \in Workers : workers[w] = Idle
    BY <1>1
  <2> QED
    BY <1>z, <2>1, <2>2, IdleFields
<1> QED
  BY <1>1, <1>z, <1>2, <1>3 DEF Shaped

LEMMA ShapedKept ==
  ASSUME Shaped, RowsInv, [Next]_vars
  PROVE  Shaped'
<1>1. DOMAIN claims' = Ids
  BY ClaimsMove
<1>2. /\ DOMAIN workers' = Workers
      /\ \A w \in Workers : /\ DOMAIN workers'[w] = JobFields /\ workers'[w].todo \in Seq(ClaimRows)
                             /\ workers'[w].upto \in 0..Len(Claims)
  BY TodoMoves
<1> DEFINE Rest == /\ DOMAIN verdicts' = Ids /\ DOMAIN reviews' = Reviewers
                   /\ facts' \in DOMAIN FactSets /\ extracted' \in 0..Len(Claims)
                   /\ \A k \in DOMAIN findings' : DOMAIN findings'[k] = RowFields
<1>3. ASSUME UNCHANGED <<extracted, verdicts, facts, findings, reviews>> PROVE Rest
  BY <1>3 DEF Shaped
<1>4. ASSUME NEW w \in Workers, StoreFindings(w) PROVE Rest
  <2>1. ASSUME NEW k \in DOMAIN findings' PROVE DOMAIN findings'[k] = RowFields
    <3>1. CASE k \in DOMAIN findings /\ findings'[k] = findings[k]
      BY <3>1 DEF Shaped
    <3>2. CASE \E c \in workers[w].found : findings'[k] = UpsertFinding(findings, k, c.finding)
      <4>1. PICK c \in workers[w].found : findings'[k] = UpsertFinding(findings, k, c.finding)
        BY <3>2
      <4>2. k \in DOMAIN findings => DOMAIN findings[k] = RowFields
        BY DEF Shaped
      <4> QED
        BY <4>1, <4>2, RowsOfFindings, NewRows DEF UpsertFinding
    <3> QED
      BY <1>4, <2>1, <3>1, <3>2, Stores
  <2>2. UNCHANGED <<extracted, verdicts, facts, reviews>>
    BY <1>4 DEF StoreFindings
  <2> QED
    BY <2>1, <2>2 DEF Shaped
<1>5. ASSUME NEW r \in Reviewers, SaveReview(r) PROVE Rest
  <2>1. \A k \in DOMAIN findings' : DOMAIN findings'[k] = RowFields
    BY <1>5, Saves
  <2>2. reviews' = [reviews EXCEPT ![r] = <<>>]
    BY <1>5, Saves
  <2>3. UNCHANGED <<extracted, verdicts, facts>>
    BY <1>5 DEF SaveReview
  <2> QED
    BY <2>1, <2>2, <2>3 DEF Shaped
<1>6. ASSUME NEW r \in Reviewers, LoadFinding(r) PROVE Rest
  BY <1>6 DEF LoadFinding, Shaped
<1>7. ASSUME NEW w \in Workers, CommitVerdicts(w) PROVE Rest
  BY <1>7 DEF CommitVerdicts, Shaped
<1>8. ASSUME ReplaceFacts PROVE Rest
  BY <1>8 DEF ReplaceFacts, Shaped
<1>9. ASSUME \E w \in Workers :
               \/ StartVerifyComparison(w) \/ \E c \in Ids : StartVerifyClaim(w, c)
               \/ MeetInsert(w) \/ VerifyNext(w) \/ RollBack(w) \/ Analyze(w)
      PROVE  Rest
  <2> HIDE DEF Rest
  <2> QED
    BY <1>3, <1>9 DEF StartVerifyComparison, StartVerifyClaim, MeetInsert, VerifyNext, RollBack,
                      Analyze
<1>c. ASSUME CommitExtracted PROVE Rest
  <2>1. UNCHANGED <<verdicts, facts, findings, reviews>> /\ extracted' \in extracted..Len(Claims)
    BY <1>c DEF CommitExtracted
  <2> QED
    BY <2>1 DEF Shaped
<1>10. ASSUME (\E c \in Ids : ReviewClaim(c)) \/ UNCHANGED vars PROVE Rest
  <2> HIDE DEF Rest
  <2> QED
    BY <1>3, <1>10 DEF ReviewClaim, vars
<1>11. Rest
  <2> HIDE DEF Rest
  <2> QED
    BY <1>4, <1>5, <1>6, <1>7, <1>8, <1>9, <1>c, <1>10 DEF Next
<1> QED
  BY <1>1, <1>2, <1>11 DEF Shaped

LEMMA RowsInit == Init => RowsInv
<1> SUFFICES ASSUME Init PROVE RowsInv
  OBVIOUS
<1>1. claims = [c \in Ids |-> Original(c)] /\ workers = [w \in Workers |-> Idle]
  BY DEF Init
<1>2. \A c \in Ids : claims[c].id = c /\ claims[c] \in ClaimRows /\ Read(claims[c])
  BY <1>1, OriginalRows DEF ClaimRows, Read
<1>3. \A w \in Workers : DOMAIN workers[w].todo = {}
  <2>1. \A w \in Workers : workers[w].todo = <<>>
    BY <1>1, IdleFields
  <2> QED
    BY <2>1
<1> QED
  BY <1>2, <1>3 DEF RowsInv

LEMMA RowsKept ==
  ASSUME Shaped, RowsInv, [Next]_vars
  PROVE  RowsInv'
<1>1. EditedStays
  BY ClaimsMove
<1>2. ASSUME NEW row \in ClaimRows, Read(row)
      PROVE  row = Original(row.id) \/ claims'[row.id].edited
  BY <1>1, <1>2, RowIds DEF Read, EditedStays
<1>3. \A c \in Ids : /\ claims'[c].id = c /\ claims'[c] \in ClaimRows
                     /\ claims'[c] = Original(claims'[c].id) \/ claims'[claims'[c].id].edited
  BY ClaimsMove
<1>4. ASSUME NEW w \in Workers, NEW i \in DOMAIN workers'[w].todo
      PROVE  LET row == workers'[w].todo[i] IN
             row = Original(row.id) \/ claims'[row.id].edited
  <2>1. workers'[w].todo \in Seq(ClaimRows) /\ Read(workers'[w].todo[i])
    BY TodoMoves
  <2>2. workers'[w].todo[i] \in ClaimRows
    BY <2>1
  <2> QED
    BY <1>2, <2>1, <2>2
<1> QED
  BY <1>3, <1>4 DEF RowsInv, Read

-----------------------------------------------------------------------------
(* What the jobs have written.                                             *)

(* A claim's verdict is right for a row the job may have read.             *)
WrittenRight(p) ==
  /\ p.claim \in Ids /\ Justified(p.claim, p.verdict)
  /\ p.verdict.type # "none" => p.verdict.current # Missing

LEMMA WritesAreRight ==
  ASSUME Shaped, RowsInv, NEW row \in ClaimRows, Read(row)
  PROVE  WrittenRight(Verified(row)) /\ Verified(row).claim = row.id
<1>1. /\ Verified(row).claim = row.id
      /\ DOMAIN Verified(row).verdict = VerdictFields
      /\ RestsOnFittingFacts(row, Verified(row).verdict)
      /\ Verified(row).verdict.type # "none" => Verified(row).verdict.current # Missing
  BY VerifiedIsJustified DEF Shaped
<1>2. row.id \in Ids
  BY RowIds
<1> DEFINE p == Verified(row)
<1> HIDE DEF p
<1>3. Justified(p.claim, p.verdict)
  BY <1>1 DEF Justified, Read, p
<1> QED
  BY <1>1, <1>2, <1>3 DEF WrittenRight, p

LEMMA WrittenMoves ==
  ASSUME Shaped, RowsInv, VerdictsInv, [Next]_vars
  PROVE  \A o \in Workers : \A p \in workers'[o].written : WrittenRight(p)
<1> DEFINE Right(job) == \A p \in job.written : WrittenRight(p)
           Goal == \A o \in Workers : Right(workers'[o])
<1>1. \A o \in Workers : Right(workers[o])
  BY DEF VerdictsInv, WrittenRight
<1>2. ASSUME NEW w \in Workers, OnlyJob(w), Right(workers'[w])
      PROVE  Goal
  <2> HIDE DEF Right
  <2> QED
    BY <1>1, <1>2 DEF OnlyJob
<1>3. ASSUME NEW job, job.written = {} PROVE Right(job)
  BY <1>3
<1>4. ASSUME NEW w \in Workers,
             \/ StartVerifyComparison(w) \/ \E c \in Ids : StartVerifyClaim(w, c)
             \/ CommitVerdicts(w) \/ RollBack(w) \/ StoreFindings(w) \/ Analyze(w)
      PROVE  Goal
  <2>1. OnlyJob(w) /\ workers'[w].written = {}
    BY <1>4, StartsComparison, StartsClaim, Ends, Analyzes, IdleFields
  <2> HIDE DEF Right, Goal
  <2> QED
    BY <1>2, <1>3, <2>1
<1>5. ASSUME NEW w \in Workers, MeetInsert(w) PROVE Goal
  <2>1. OnlyJob(w) /\ workers'[w].written = workers[w].written
    BY <1>5, Meets
  <2>2. Right(workers'[w])
    BY <1>1, <2>1
  <2> HIDE DEF Right, Goal
  <2> QED
    BY <1>2, <2>1, <2>2
<1>6. ASSUME NEW w \in Workers, VerifyNext(w) PROVE Goal
  <2> DEFINE row == Head(workers[w].todo)
  <2>1. OnlyJob(w) /\ workers'[w].written = workers[w].written \cup {Verified(row)}
    BY <1>6, Verifies
  <2>2. row \in ClaimRows /\ Read(row)
    <3>1. workers[w].todo \in Seq(ClaimRows) /\ workers[w].todo # <<>>
      BY <1>6 DEF Shaped, VerifyNext
    <3>2. row = workers[w].todo[1] /\ 1 \in DOMAIN workers[w].todo
      BY <3>1
    <3> QED
      BY <3>1, <3>2 DEF RowsInv
  <2> HIDE DEF row
  <2>3. WrittenRight(Verified(row))
    BY <2>2, WritesAreRight
  <2>4. Right(workers'[w])
    BY <1>1, <2>1, <2>3
  <2> HIDE DEF Right, Goal
  <2> QED
    BY <1>2, <2>1, <2>4
<1>7. ASSUME UNCHANGED workers PROVE Goal
  <2> HIDE DEF Right
  <2> QED
    BY <1>1, <1>7
<1>8. ASSUME \/ \E r \in Reviewers : LoadFinding(r) \/ SaveReview(r)
             \/ CommitExtracted \/ ReplaceFacts \/ (\E c \in Ids : ReviewClaim(c)) \/ UNCHANGED vars
      PROVE  UNCHANGED workers
  BY <1>8 DEF CommitExtracted, LoadFinding, SaveReview, ReplaceFacts, ReviewClaim, vars
<1>9. Goal
  <2> HIDE DEF Goal
  <2> QED
    BY <1>4, <1>5, <1>6, <1>7, <1>8 DEF Next
<1> QED
  BY <1>9

LEMMA Commits ==
  ASSUME NEW w \in Workers, CommitVerdicts(w), NEW c \in Ids
  PROVE  \/ \E p \in workers[w].written : p.claim = c /\ verdicts'[c] = <<p.verdict>>
         \/ /\ ~ (\E p \in workers[w].written : p.claim = c)
            /\ verdicts'[c] = verdicts[c]
<1> DEFINE Chosen(d) == CHOOSE p \in workers[w].written : p.claim = d
           of == [d \in WrittenBy(w) |-> Chosen(d)]
<1>1. verdicts' = [d \in Ids |-> IF d \in DOMAIN of THEN <<of[d].verdict>> ELSE verdicts[d]]
  BY DEF CommitVerdicts
<1>2. \A d \in WrittenBy(w) : Chosen(d) \in workers[w].written /\ Chosen(d).claim = d
  BY DEF WrittenBy
<1> HIDE DEF Chosen
<1>3. CASE c \in WrittenBy(w)
  <2>1. verdicts'[c] = <<Chosen(c).verdict>>
    BY <1>1, <1>3
  <2> QED
    BY <1>2, <1>3, <2>1
<1>4. CASE c \notin WrittenBy(w)
  BY <1>1, <1>4 DEF WrittenBy
<1> QED
  BY <1>3, <1>4

LEMMA VerdictsMove ==
  ASSUME Shaped, RowsInv, VerdictsInv, [Next]_vars
  PROVE  \A c \in Ids : \/ verdicts'[c] = Missing
                        \/ /\ verdicts'[c] = <<verdicts'[c][1]>>
                           /\ Justified(c, verdicts'[c][1])
<1> DEFINE Right(c, v) == v = Missing \/ (v = <<v[1]>> /\ Justified(c, v[1]))
           Goal == \A c \in Ids : Right(c, verdicts'[c])
<1>1. \A c \in Ids : Right(c, verdicts[c])
  BY DEF VerdictsInv
<1>2. ASSUME NEW w \in Workers, CommitVerdicts(w) PROVE Goal
  <2>1. ASSUME NEW c \in Ids, NEW p \in workers[w].written, p.claim = c,
               verdicts'[c] = <<p.verdict>>
        PROVE  Right(c, verdicts'[c])
    <3>1. Justified(c, p.verdict)
      BY <2>1 DEF VerdictsInv
    <3>2. verdicts'[c][1] = p.verdict
      BY <2>1
    <3> QED
      BY <2>1, <3>1, <3>2
  <2> HIDE DEF Right
  <2> QED
    BY <1>1, <1>2, <2>1, Commits
<1>3. ASSUME ReplaceFacts PROVE Goal
  <2> SUFFICES ASSUME NEW c \in Ids PROVE Right(c, verdicts'[c])
    OBVIOUS
  <2>1. CASE verdicts[c] = Missing
    BY <1>3, <2>1 DEF ReplaceFacts
  <2>2. CASE verdicts[c] # Missing
    <3> DEFINE old == verdicts[c][1]
               new == [old EXCEPT !.current = Missing, !.comparison = Missing]
    <3>1. verdicts'[c] = <<new>>
      BY <1>3, <2>2 DEF ReplaceFacts
    <3>2. DOMAIN old = VerdictFields
      BY <1>1, <2>2 DEF Justified
    <3> HIDE DEF old
    <3>3. DOMAIN new = VerdictFields /\ new.current = Missing /\ new.comparison = Missing
      BY <3>2 DEF VerdictFields
    <3> HIDE DEF new
    <3>4. RestsOnFittingFacts(Original(c), new)
      BY <3>3, RangeOfFound DEF RestsOnFittingFacts
    <3>5. Justified(c, new)
      BY <3>3, <3>4 DEF Justified
    <3> QED
      BY <3>1, <3>5
  <2> QED
    BY <2>1, <2>2
<1>4. ASSUME UNCHANGED verdicts PROVE Goal
  <2> HIDE DEF Right
  <2> QED
    BY <1>1, <1>4
<1>5. ASSUME \E w \in Workers :
               \/ StartVerifyComparison(w) \/ \E c \in Ids : StartVerifyClaim(w, c)
               \/ MeetInsert(w) \/ VerifyNext(w) \/ RollBack(w) \/ Analyze(w) \/ StoreFindings(w)
      PROVE  UNCHANGED verdicts
  BY <1>5 DEF StartVerifyComparison, StartVerifyClaim, MeetInsert, VerifyNext, RollBack, Analyze,
              StoreFindings
<1>6. ASSUME \/ \E r \in Reviewers : LoadFinding(r) \/ SaveReview(r)
             \/ CommitExtracted \/ (\E c \in Ids : ReviewClaim(c)) \/ UNCHANGED vars
      PROVE  UNCHANGED verdicts
  BY <1>6 DEF CommitExtracted, LoadFinding, SaveReview, ReviewClaim, vars
<1>7. Goal
  <2> HIDE DEF Goal
  <2> QED
    BY <1>2, <1>3, <1>4, <1>5, <1>6 DEF Next
<1> QED
  BY <1>7

LEMMA VerdictsInit == Init => VerdictsInv
<1> SUFFICES ASSUME Init PROVE VerdictsInv
  OBVIOUS
<1>1. \A c \in Ids : verdicts[c] = Missing
  BY DEF Init
<1>2. \A w \in Workers : workers[w].written = {}
  BY IdleFields DEF Init
<1> QED
  BY <1>1, <1>2 DEF VerdictsInv

LEMMA VerdictsKept ==
  ASSUME Shaped, RowsInv, VerdictsInv, [Next]_vars
  PROVE  VerdictsInv'
<1>1. EditedStays
  BY ClaimsMove
<1>2. ASSUME NEW c \in Ids, NEW verdict, Justified(c, verdict)
      PROVE  /\ DOMAIN verdict = VerdictFields
             /\ claims'[c].edited \/ RestsOnFittingFacts(Original(c), verdict)
  BY <1>1, <1>2 DEF Justified, EditedStays
<1>3. ASSUME NEW c \in Ids, verdicts'[c] # Missing
      PROVE  /\ verdicts'[c] = <<verdicts'[c][1]>>
             /\ DOMAIN verdicts'[c][1] = VerdictFields
             /\ claims'[c].edited \/ RestsOnFittingFacts(Original(c), verdicts'[c][1])
  BY <1>2, <1>3, VerdictsMove
<1>4. ASSUME NEW w \in Workers, NEW p \in workers'[w].written
      PROVE  /\ p.claim \in Ids /\ DOMAIN p.verdict = VerdictFields
             /\ claims'[p.claim].edited \/ RestsOnFittingFacts(Original(p.claim), p.verdict)
             /\ p.verdict.type # "none" => p.verdict.current # Missing
  <2>1. WrittenRight(p)
    BY WrittenMoves
  <2> QED
    BY <1>2, <2>1 DEF WrittenRight
<1> QED
  BY <1>3, <1>4 DEF VerdictsInv, Justified

(* Verification keeps to the claims as they were extracted.                *)
VerificationInv == Shaped /\ RowsInv /\ VerdictsInv

LEMMA VerificationKept == VerificationInv /\ [Next]_vars => VerificationInv'
BY ShapedKept, RowsKept, VerdictsKept DEF VerificationInv

LEMMA VerificationIsRight == Spec => []VerificationInv
<1>1. Init => VerificationInv
  BY ShapedInit, RowsInit, VerdictsInit DEF VerificationInv
<1> QED
  BY <1>1, VerificationKept, PTL DEF Spec

(* For any claims, facts, reviewers and jobs running at once, the facts    *)
(* that a verdict rests on are of the concepts and units of the metric and *)
(* of the kind of period the claim speaks of, a quarter, the year to date  *)
(* or an instant, unless a reviewer has changed the claim since            *)
(* (xbrl_fact_resolution_service._select, financial_claim_verification_    *)
(* service.verify_claim).                                                  *)
THEOREM FactsFit == Spec => []VerdictsUseFittingFacts
<1>1. VerificationInv => VerdictsUseFittingFacts
  <2> SUFFICES ASSUME VerificationInv, NEW c \in Ids, verdicts[c] # Missing, ~claims[c].edited
               PROVE  RestsOnFittingFacts(claims[c], verdicts[c][1])
    BY DEF VerdictsUseFittingFacts
  <2>1. claims[c].id = c /\ claims[c] = Original(c)
    BY DEF VerificationInv, RowsInv, Read
  <2>2. RestsOnFittingFacts(Original(c), verdicts[c][1])
    BY DEF VerificationInv, VerdictsInv, Justified
  <2> QED
    BY <2>1, <2>2
<1> QED
  BY <1>1, VerificationIsRight, PTL

LEMMA CoverInit == Init => CoverInv
<1> SUFFICES ASSUME Init PROVE CoverInv
  OBVIOUS
<1>1. \A w \in Workers : workers[w].job = "idle"
  BY IdleFields DEF Init
<1> QED
  BY <1>1 DEF CoverInv

LEMMA CoverKept ==
  ASSUME VerificationInv, CoverInv, [Next]_vars
  PROVE  CoverInv'
<1> USE DEF VerificationInv
<1> DEFINE Covers(job) == \A c \in Page(job.upto) :
                                         \/ \E p \in job.written : p.claim = c
                                         \/ \E i \in DOMAIN job.todo : job.todo[i].id = c
           Right(job) == job.job = "verify_comparison" => Covers(job)
           Goal == \A o \in Workers : Right(workers'[o])
<1>1. \A o \in Workers : Right(workers[o])
  BY DEF CoverInv
<1>2. ASSUME NEW w \in Workers, OnlyJob(w), Right(workers'[w])
      PROVE  Goal
  <2> HIDE DEF Right
  <2> QED
    BY <1>1, <1>2 DEF OnlyJob
<1>3. ASSUME NEW job, job.job # "verify_comparison" PROVE Right(job)
  BY <1>3
<1>4. ASSUME NEW w \in Workers,
             \/ \E c \in Ids : StartVerifyClaim(w, c)
             \/ CommitVerdicts(w) \/ RollBack(w) \/ StoreFindings(w) \/ Analyze(w)
      PROVE  Goal
  <2>1. OnlyJob(w) /\ workers'[w].job # "verify_comparison"
    BY <1>4, StartsClaim, Ends, Analyzes, IdleFields
  <2> HIDE DEF Right, Goal
  <2> QED
    BY <1>2, <1>3, <2>1
<1>5. ASSUME NEW w \in Workers, StartVerifyComparison(w) PROVE Goal
  <2>1. /\ OnlyJob(w) /\ workers'[w].upto \in 0..Len(Claims)
        /\ workers'[w].todo = [i \in 1..FirstPage(workers'[w].upto) |-> claims[Claims[i].id]]
    BY <1>5, StartsComparison
  <2>2. ASSUME NEW c \in Page(workers'[w].upto)
        PROVE  \E i \in DOMAIN workers'[w].todo : workers'[w].todo[i].id = c
    <3>1. PICK i \in 1..FirstPage(workers'[w].upto) : Claims[i].id = c
      BY DEF Page
    <3>2. claims[c].id = c
      BY <2>1, PagesAreListed DEF RowsInv
    <3> QED
      BY <2>1, <3>1, <3>2
  <2>3. Right(workers'[w])
    BY <2>2
  <2> HIDE DEF Right, Goal
  <2> QED
    BY <1>2, <2>1, <2>3
<1>6. ASSUME NEW w \in Workers, MeetInsert(w) PROVE Goal
  <2>1. /\ OnlyJob(w) /\ workers'[w].job = workers[w].job
        /\ workers'[w].written = workers[w].written /\ workers'[w].todo = workers[w].todo
        /\ workers'[w].upto = workers[w].upto
    BY <1>6, Meets
  <2>2. ASSUME workers[w].job = "verify_comparison" PROVE Covers(workers'[w])
    <3>1. Right(workers[w])
      <4> HIDE DEF Right
      <4> QED
        BY <1>1
    <3>2. Covers(workers[w])
      <4> HIDE DEF Covers
      <4> QED
        BY <2>2, <3>1
    <3> QED
      BY <2>1, <3>2
  <2>3. Right(workers'[w])
    <3> HIDE DEF Covers
    <3> QED
      BY <2>1, <2>2
  <2> HIDE DEF Right, Goal
  <2> QED
    BY <1>2, <2>1, <2>3
<1>7. ASSUME NEW w \in Workers, VerifyNext(w) PROVE Goal
  <2> DEFINE todo == workers[w].todo
             row == Head(todo)
             new == Verified(row)
  <2>1. /\ OnlyJob(w) /\ workers'[w].job = workers[w].job
        /\ workers'[w].written = workers[w].written \cup {new}
        /\ workers'[w].todo = Tail(todo) /\ workers'[w].upto = workers[w].upto
    BY <1>7, Verifies
  <2>2. todo \in Seq(ClaimRows) /\ todo # <<>>
    BY <1>7 DEF Shaped, VerifyNext
  <2>3. new.claim = row.id
    BY VerifiedIsJustified DEF Shaped
  <2> HIDE DEF new
  <2>4. ASSUME NEW c \in Page(workers[w].upto), Right(workers[w]), workers[w].job = "verify_comparison"
        PROVE  \/ \E p \in workers'[w].written : p.claim = c
               \/ \E i \in DOMAIN workers'[w].todo : workers'[w].todo[i].id = c
    <3>1. CASE \E p \in workers[w].written : p.claim = c
      BY <2>1, <3>1
    <3>2. CASE \E i \in DOMAIN todo : todo[i].id = c
      <4>1. PICK i \in DOMAIN todo : todo[i].id = c
        BY <3>2
      <4> HIDE DEF todo
      <4>2. CASE i = 1
        <5>1. row.id = c
          BY <2>2, <4>1, <4>2
        <5> QED
          BY <2>1, <2>3, <5>1
      <4>3. CASE i # 1
        <5>1. i - 1 \in DOMAIN Tail(todo) /\ Tail(todo)[i - 1] = todo[i]
          BY <2>2, <4>3
        <5> QED
          BY <2>1, <4>1, <5>1
      <4> QED
        BY <4>2, <4>3
    <3> QED
      BY <2>4, <3>1, <3>2
  <2>5. Right(workers'[w])
    BY <1>1, <2>1, <2>4
  <2> HIDE DEF Right, Goal
  <2> QED
    BY <1>2, <2>1, <2>5
<1>8. ASSUME UNCHANGED workers PROVE Goal
  <2> HIDE DEF Right
  <2> QED
    BY <1>1, <1>8
<1>9. ASSUME \/ \E r \in Reviewers : LoadFinding(r) \/ SaveReview(r)
             \/ CommitExtracted \/ ReplaceFacts \/ (\E c \in Ids : ReviewClaim(c)) \/ UNCHANGED vars
      PROVE  UNCHANGED workers
  BY <1>9 DEF CommitExtracted, LoadFinding, SaveReview, ReplaceFacts, ReviewClaim, vars
<1>10. Goal
  <2> HIDE DEF Goal
  <2> QED
    BY <1>4, <1>5, <1>6, <1>7, <1>8, <1>9 DEF Next
<1> QED
  BY <1>10 DEF CoverInv

LEMMA CommittedIsWhole ==
  ASSUME VerificationInv, CoverInv, NEW w \in Workers,
         workers[w].job = "verify_comparison", CommitVerdicts(w), NEW i \in 1..FirstPage(extracted')
  PROVE  LET verdict == verdicts'[Claims[i].id] IN
         /\ verdict # Missing
         /\ verdict[1].type # "none" => verdict[1].current # Missing
<1> DEFINE c == Claims[i].id
<1>0. workers[w].upto \in 0..Len(Claims) /\ extracted' = workers[w].upto
  BY DEF CommitVerdicts, VerificationInv, Shaped
<1>c. c \in Page(workers[w].upto) /\ c \in Ids
  BY <1>0, PagesAreListed DEF Page
<1> HIDE DEF c
<1>1. workers[w].todo = <<>>
  BY DEF CommitVerdicts
<1>2. DOMAIN workers[w].todo = {}
  BY <1>1
<1>3. \E p \in workers[w].written : p.claim = c
  BY <1>2, <1>c DEF CoverInv
<1>4. PICK p \in workers[w].written : p.claim = c /\ verdicts'[c] = <<p.verdict>>
  BY <1>3, <1>c, Commits
<1>5. p.verdict.type # "none" => p.verdict.current # Missing
  BY DEF VerificationInv, VerdictsInv
<1> QED
  BY <1>4, <1>5 DEF Missing, c

(* Whenever a job over the whole comparison commits, every claim then      *)
(* stored, up to the limit of the listing, has a verdict, and one that     *)
(* arithmetic gave has the fact it was calculated from, however            *)
(* extraction, ingestion and other jobs have interleaved with it           *)
(* (FinancialVerificationService.verify_claims_for_comparison).            *)
THEOREM CommittedComparisonsAreWhole == Spec => VerifiedComparisonIsWhole
<1>1. VerificationInv /\ CoverInv /\ [Next]_vars => CoverInv'
  BY CoverKept
<1>2. VerificationInv /\ CoverInv =>
        [\A w \in Workers : workers[w].job = "verify_comparison" /\ CommitVerdicts(w) =>
           \A i \in 1..FirstPage(extracted') :
             LET verdict == verdicts'[Claims[i].id] IN
             /\ verdict # Missing
             /\ verdict[1].type # "none" => verdict[1].current # Missing]_vars
  BY CommittedIsWhole
<1> QED
  BY <1>1, <1>2, CoverInit, VerificationIsRight, PTL DEF Spec, VerifiedComparisonIsWhole

-----------------------------------------------------------------------------
(* What an analysis finds.                                                 *)

MagnitudeTypes ==
  {"magnitude_overstatement", "magnitude_understatement", "unsupported_qualitative_claim"}

LEMMA NumericalCandidates ==
  ASSUME NEW claim, NEW verdict
  PROVE  /\ verdict.status # "contradicted" => NumericalDetect(claim, verdict) = {}
         /\ verdict.status = "contradicted" =>
              \E c : /\ NumericalDetect(claim, verdict) = {c}
                     /\ c.key[1] \in NumericalTypes /\ c.key[2] = claim.id
                     /\ c.finding.type \in NumericalTypes /\ c.finding.of = claim.id
                     /\ c.finding.status = IF EvidenceMissing(claim, verdict)
                                           THEN "insufficient_evidence" ELSE "candidate"
<1>1. CASE verdict.status # "contradicted"
  BY <1>1 DEF NumericalDetect
<1>2. CASE verdict.status = "contradicted"
  <2> DEFINE type == NumericalType(claim, CalculatedChange(verdict))
             complete == ~EvidenceMissing(claim, verdict)
             severity == SeverityOf(type, verdict, CalculatedChange(verdict), complete)
             status == IF complete THEN "candidate" ELSE "insufficient_evidence"
             c == [key |-> <<type, claim.id>>,
                   finding |-> Finding(type, status, severity, claim.id)]
  <2>1. NumericalDetect(claim, verdict) = {c}
    BY <1>2 DEF NumericalDetect
  <2>2. type \in NumericalTypes
    BY DEF NumericalType, NumericalTypes
  <2>3. status = IF EvidenceMissing(claim, verdict) THEN "insufficient_evidence" ELSE "candidate"
    OBVIOUS
  <2> HIDE DEF type, complete, severity, status
  <2>4. /\ c.key[1] = type /\ c.key[2] = claim.id
        /\ c.finding.type = type /\ c.finding.of = claim.id /\ c.finding.status = status
    BY DEF Finding
  <2> HIDE DEF c
  <2> QED
    BY <1>2, <2>1, <2>2, <2>3, <2>4
<1> QED
  BY <1>1, <1>2

LEMMA MagnitudeCandidates ==
  ASSUME NEW claim, NEW verdict, NEW ranks
  PROVE  \/ MagnitudeDetect(claim, verdict, ranks) = {}
         \/ \E c : /\ MagnitudeDetect(claim, verdict, ranks) = {c}
                   /\ c.key[1] \in MagnitudeTypes /\ c.key[2] = claim.id
<1> DEFINE qualifier == FirstQualifier(claim.text, ranks)
           type == MagnitudeType(claim, verdict, qualifier)
           finding == Finding(type, "candidate",
                        SeverityOf(type, verdict, CalculatedChange(verdict), TRUE), claim.id)
           c == [key |-> <<type, claim.id, qualifier>>, finding |-> finding]
<1>1. type \in MagnitudeTypes \cup {"none"}
  BY DEF MagnitudeType, MagnitudeTypes
<1>2. \/ MagnitudeDetect(claim, verdict, ranks) = {}
      \/ MagnitudeDetect(claim, verdict, ranks) = {c} /\ type # "none"
  BY DEF MagnitudeDetect
<1> HIDE DEF type, qualifier, finding
<1>3. c.key[1] = type /\ c.key[2] = claim.id
  OBVIOUS
<1> HIDE DEF c
<1> QED
  BY <1>1, <1>2, <1>3

(* A claim and its verdict give one finding at most, about that claim.     *)
LEMMA ClaimCandidates ==
  ASSUME NEW claim, NEW verdict, NEW ranks
  PROVE  /\ \A c, d \in DetectForClaim(claim, verdict, ranks) : c = d
         /\ \A c \in DetectForClaim(claim, verdict, ranks) :
              /\ c.key[1] \in NumericalTypes \cup MagnitudeTypes /\ c.key[2] = claim.id
              /\ c.key[1] \in NumericalTypes => c.finding.of = claim.id
<1>1. CASE NumericalDetect(claim, verdict) # {}
  <2>1. verdict.status = "contradicted"
    BY <1>1, NumericalCandidates
  <2>2. DetectForClaim(claim, verdict, ranks) = NumericalDetect(claim, verdict)
    BY <1>1 DEF DetectForClaim
  <2> QED
    BY <2>1, <2>2, NumericalCandidates
<1>2. CASE NumericalDetect(claim, verdict) = {}
  <2>1. DetectForClaim(claim, verdict, ranks) = MagnitudeDetect(claim, verdict, ranks)
    BY <1>2 DEF DetectForClaim
  <2>2. \A type \in MagnitudeTypes : type \notin NumericalTypes
    BY DEF MagnitudeTypes, NumericalTypes
  <2> QED
    BY <2>1, <2>2, MagnitudeCandidates
<1> QED
  BY <1>1, <1>2

LEMMA TemporalCandidates ==
  ASSUME NEW change
  PROVE  /\ \A c, d \in TemporalDetect(change) : c = d
         /\ \A c \in TemporalDetect(change) :
              c.key[1] = "temporal_narrative_inconsistency" /\ c.key[2] = change.id
BY DEF TemporalDetect

LEMMA SectionCandidates ==
  ASSUME NEW sections, NEW c \in CrossSectionDetect(sections)
  PROVE  /\ c.key[1] = "narrative_cross_section_inconsistency"
         /\ c.finding = Finding("narrative_cross_section_inconsistency", "candidate", "medium",
                                c.key[2])
<1> DEFINE ofTypes(types) == {k \in DOMAIN sections : sections[k].type \in types}
           mda == Leading(Only(sections, ofTypes({"mda"})), 2)
           others == Leading(Only(sections, ofTypes(Compared)), 4)
           Conflict(p) == SectionConflict(mda[p[1]].sentences, others[p[2]].sentences)
           Candidate(p) ==
             [key |-> <<"narrative_cross_section_inconsistency", mda[p[1]].id, others[p[2]].id,
                        Conflict(p)>>,
              finding |-> Finding("narrative_cross_section_inconsistency", "candidate", "medium",
                                  mda[p[1]].id)]
           places == {q \in (1..Len(mda)) \X (1..Len(others)) : Conflict(q) # Missing}
<1>1. CrossSectionDetect(sections) = {Candidate(p) : p \in places}
  BY DEF CrossSectionDetect
<1> HIDE DEF Candidate, places
<1>2. PICK p \in places : c = Candidate(p)
  BY <1>1
<1> HIDE DEF mda, others, Conflict
<1>3. /\ Candidate(p).key[1] = "narrative_cross_section_inconsistency"
      /\ Candidate(p).key[2] = mda[p[1]].id
      /\ Candidate(p).finding
           = Finding("narrative_cross_section_inconsistency", "candidate", "medium", mda[p[1]].id)
  BY DEF Candidate
<1> QED
  BY <1>2, <1>3

LEMMA SourcesOfFindings ==
  ASSUME NEW pairs, NEW ranks, NEW c
  PROVE  c \in FoundIn(pairs, ranks) <=>
           \/ \E p \in pairs : c \in DetectForClaim(p.claim, p.verdict, ranks)
           \/ \E i \in DOMAIN Changes : c \in TemporalDetect(Changes[i])
           \/ c \in CrossSectionDetect(Sections)
<1> DEFINE OfClaim(p) == DetectForClaim(p.claim, p.verdict, ranks)
           OfChange(i) == TemporalDetect(Changes[i])
           ofClaims == UNION {OfClaim(p) : p \in pairs}
           ofChanges == UNION {OfChange(i) : i \in DOMAIN Changes}
           ofSections == CrossSectionDetect(Sections)
<1>1. FoundIn(pairs, ranks) = ofClaims \cup ofChanges \cup ofSections
  BY DEF FoundIn
<1> HIDE DEF OfClaim, OfChange, ofSections
<1>2. c \in ofClaims <=> \E p \in pairs : c \in OfClaim(p)
  OBVIOUS
<1>3. c \in ofChanges <=> \E i \in DOMAIN Changes : c \in OfChange(i)
  OBVIOUS
<1> HIDE DEF ofClaims, ofChanges
<1>4. c \in FoundIn(pairs, ranks) <=>
        \/ \E p \in pairs : c \in OfClaim(p)
        \/ \E i \in DOMAIN Changes : c \in OfChange(i)
        \/ c \in ofSections
  BY <1>1, <1>2, <1>3
<1> QED
  BY <1>4 DEF OfClaim, OfChange, ofSections

(* No two findings of an analysis have one fingerprint.                    *)
OneVerdictEach(pairs) == \A p, q \in pairs : p.claim.id = q.claim.id => p = q

LEMMA FingerprintsApart ==
  ASSUME NEW pairs, OneVerdictEach(pairs), NEW ranks,
         NEW c \in FoundIn(pairs, ranks), NEW d \in FoundIn(pairs, ranks), c.key = d.key
  PROVE  c.finding = d.finding
<1> DEFINE OfClaim(e, p) == e \in DetectForClaim(p.claim, p.verdict, ranks)
           OfChange(e, i) == e \in TemporalDetect(Changes[i])
<1>1. ASSUME NEW e \in FoundIn(pairs, ranks)
      PROVE  \/ \E p \in pairs : OfClaim(e, p)
             \/ \E i \in DOMAIN Changes : OfChange(e, i)
             \/ e \in CrossSectionDetect(Sections)
  BY <1>1, SourcesOfFindings
<1>2. ASSUME NEW e, NEW p \in pairs, OfClaim(e, p)
      PROVE  e.key[1] \in NumericalTypes \cup MagnitudeTypes /\ e.key[2] = p.claim.id
  BY <1>2, ClaimCandidates
<1>3. ASSUME NEW e, NEW i \in DOMAIN Changes, OfChange(e, i)
      PROVE  e.key[1] = "temporal_narrative_inconsistency" /\ e.key[2] = Changes[i].id
  BY <1>3, TemporalCandidates
<1>4. /\ "temporal_narrative_inconsistency" \notin NumericalTypes \cup MagnitudeTypes
      /\ "narrative_cross_section_inconsistency" \notin NumericalTypes \cup MagnitudeTypes
  BY DEF NumericalTypes, MagnitudeTypes
<1> HIDE DEF OfClaim, OfChange
<1>5. CASE \E p \in pairs : OfClaim(c, p)
  <2>1. PICK p \in pairs : OfClaim(c, p)
    BY <1>5
  <2>2. \E q \in pairs : OfClaim(d, q)
    BY <1>1, <1>2, <1>3, <1>4, <2>1, SectionCandidates
  <2>3. PICK q \in pairs : OfClaim(d, q)
    BY <2>2
  <2>4. p = q
    BY <1>2, <2>1, <2>3 DEF OneVerdictEach
  <2>5. c = d
    BY <2>1, <2>3, <2>4, ClaimCandidates DEF OfClaim
  <2> QED
    BY <2>5
<1>6. CASE \E i \in DOMAIN Changes : OfChange(c, i)
  <2>1. PICK i \in DOMAIN Changes : OfChange(c, i)
    BY <1>6
  <2>2. \E j \in DOMAIN Changes : OfChange(d, j)
    BY <1>1, <1>2, <1>3, <1>4, <2>1, SectionCandidates
  <2>3. PICK j \in DOMAIN Changes : OfChange(d, j)
    BY <2>2
  <2>4. i = j
    BY <1>3, <2>1, <2>3, FindingsAssumption
  <2>5. c = d
    BY <2>1, <2>3, <2>4, TemporalCandidates DEF OfChange
  <2> QED
    BY <2>5
<1>7. CASE c \in CrossSectionDetect(Sections)
  <2>1. d \in CrossSectionDetect(Sections)
    BY <1>1, <1>2, <1>3, <1>4, <1>7, SectionCandidates
  <2> QED
    BY <1>7, <2>1, SectionCandidates
<1> QED
  BY <1>1, <1>5, <1>6, <1>7

LEMMA NumericalFindings ==
  ASSUME NEW pairs, NEW ranks, NEW c \in FoundIn(pairs, ranks), c.key[1] \in NumericalTypes
  PROVE  c.finding.of = c.key[2]
<1>1. \E p \in pairs : c \in DetectForClaim(p.claim, p.verdict, ranks)
  <2>1. "temporal_narrative_inconsistency" \notin NumericalTypes
    BY DEF NumericalTypes
  <2>2. "narrative_cross_section_inconsistency" \notin NumericalTypes
    BY DEF NumericalTypes
  <2> QED
    BY <2>1, <2>2, SourcesOfFindings, TemporalCandidates, SectionCandidates
<1> QED
  BY <1>1, ClaimCandidates

(* The analysis of a worker, while it is one.                              *)
Analysis(job) ==
  job.job = "analyze" =>
    OneVerdictEach(job.pairs) /\ \E ranks \in Orders : job.found = FoundIn(job.pairs, ranks)
NumericalRows == \A k \in DOMAIN findings : k[1] \in NumericalTypes => findings[k].of = k[2]

LEMMA FindingsParts == FindingsInv <=> (\A w \in Workers : Analysis(workers[w])) /\ NumericalRows
BY DEF FindingsInv, Analysis, NumericalRows, OneVerdictEach

LEMMA FindingsInit == Init => FindingsInv
<1> SUFFICES ASSUME Init PROVE FindingsInv
  OBVIOUS
<1>1. \A w \in Workers : workers[w].job = "idle"
  BY IdleFields DEF Init
<1>2. DOMAIN findings = {}
  BY DEF Init
<1> QED
  BY <1>1, <1>2 DEF FindingsInv

LEMMA AnalysesMove ==
  ASSUME VerificationInv, FindingsInv, [Next]_vars
  PROVE  \A o \in Workers : Analysis(workers'[o])
<1> USE DEF VerificationInv
<1> DEFINE Goal == \A o \in Workers : Analysis(workers'[o])
<1>1. \A o \in Workers : Analysis(workers[o])
  BY FindingsParts
<1>2. ASSUME NEW w \in Workers, OnlyJob(w), Analysis(workers'[w])
      PROVE  Goal
  BY <1>1, <1>2 DEF OnlyJob
<1>3. ASSUME NEW job, job.job # "analyze" PROVE Analysis(job)
  BY <1>3 DEF Analysis
<1>4. ASSUME NEW w \in Workers,
             \/ StartVerifyComparison(w) \/ \E c \in Ids : StartVerifyClaim(w, c)
             \/ CommitVerdicts(w) \/ RollBack(w) \/ StoreFindings(w)
      PROVE  Goal
  <2>1. OnlyJob(w) /\ workers'[w].job # "analyze"
    BY <1>4, StartsComparison, StartsClaim, Ends, IdleFields
  <2> HIDE DEF Goal
  <2> QED
    BY <1>2, <1>3, <2>1
<1>5. ASSUME NEW w \in Workers, MeetInsert(w) \/ VerifyNext(w) PROVE Goal
  <2>1. /\ OnlyJob(w) /\ workers'[w].job = workers[w].job
        /\ workers'[w].pairs = workers[w].pairs /\ workers'[w].found = workers[w].found
    BY <1>5, Meets, Verifies
  <2>2. Analysis(workers'[w])
    BY <1>1, <2>1 DEF Analysis
  <2> HIDE DEF Goal
  <2> QED
    BY <1>2, <2>1, <2>2
<1>6. ASSUME NEW w \in Workers, Analyze(w) PROVE Goal
  <2> DEFINE pairs == {[claim |-> claims[c], verdict |-> verdicts[c][1]] :
                         c \in {c \in Ids : verdicts[c] # Missing}}
  <2>1. /\ OnlyJob(w) /\ workers'[w].pairs = pairs
        /\ \E ranks \in Orders : workers'[w].found = FoundIn(workers'[w].pairs, ranks)
    BY <1>6, Analyzes
  <2>2. OneVerdictEach(pairs)
    <3>1. \A c \in Ids : claims[c].id = c
      BY DEF RowsInv
    <3>2. SUFFICES ASSUME NEW p \in pairs, NEW q \in pairs, p.claim.id = q.claim.id PROVE p = q
      BY DEF OneVerdictEach
    <3>3. PICK c \in Ids : p = [claim |-> claims[c], verdict |-> verdicts[c][1]]
      OBVIOUS
    <3>4. PICK d \in Ids : q = [claim |-> claims[d], verdict |-> verdicts[d][1]]
      OBVIOUS
    <3>5. c = d
      BY <3>1, <3>2, <3>3, <3>4
    <3> QED
      BY <3>3, <3>4, <3>5
  <2> HIDE DEF pairs, Goal
  <2>3. Analysis(workers'[w])
    BY <2>1, <2>2 DEF Analysis
  <2> QED
    BY <1>2, <2>1, <2>3
<1>7. ASSUME UNCHANGED workers PROVE Goal
  BY <1>1, <1>7
<1>8. ASSUME \/ \E r \in Reviewers : LoadFinding(r) \/ SaveReview(r)
             \/ CommitExtracted \/ ReplaceFacts \/ (\E c \in Ids : ReviewClaim(c)) \/ UNCHANGED vars
      PROVE  UNCHANGED workers
  BY <1>8 DEF CommitExtracted, LoadFinding, SaveReview, ReplaceFacts, ReviewClaim, vars
<1>9. Goal
  <2> HIDE DEF Goal
  <2> QED
    BY <1>4, <1>5, <1>6, <1>7, <1>8 DEF Next
<1> QED
  BY <1>9

LEMMA NumericalRowsKept ==
  ASSUME VerificationInv, FindingsInv, [Next]_vars
  PROVE  NumericalRows'
<1> USE DEF VerificationInv
<1>1. \A k \in DOMAIN findings : k[1] \in NumericalTypes => findings[k].of = k[2]
  BY DEF FindingsInv
<1>2. ASSUME NEW w \in Workers, StoreFindings(w),
             NEW k \in DOMAIN findings', k[1] \in NumericalTypes
      PROVE  findings'[k].of = k[2]
  <2>1. CASE k \in DOMAIN findings /\ findings'[k] = findings[k]
    BY <1>1, <1>2, <2>1
  <2>2. CASE \E c \in workers[w].found :
               c.key = k /\ findings'[k] = UpsertFinding(findings, k, c.finding)
    <3>1. PICK c \in workers[w].found :
            c.key = k /\ findings'[k] = UpsertFinding(findings, k, c.finding)
      BY <2>2
    <3>2. \E ranks \in Orders : workers[w].found = FoundIn(workers[w].pairs, ranks)
      BY <1>2, FindingsParts DEF Analysis, StoreFindings
    <3>3. c.finding.of = k[2]
      BY <1>2, <3>1, <3>2, NumericalFindings
    <3>4. CASE k \in DOMAIN findings
      <4>1. DOMAIN findings[k] = RowFields
        BY <3>4 DEF Shaped
      <4>2. findings'[k].of = findings[k].of
        BY <3>1, <3>4, <4>1, RowsOfFindings DEF UpsertFinding
      <4> QED
        BY <1>1, <1>2, <3>4, <4>2
    <3>5. CASE k \notin DOMAIN findings
      BY <3>1, <3>3, <3>5, NewRows DEF UpsertFinding
    <3> QED
      BY <3>4, <3>5
  <2> QED
    BY <1>2, <2>1, <2>2, Stores
<1>3. ASSUME NEW r \in Reviewers, SaveReview(r),
             NEW k \in DOMAIN findings', k[1] \in NumericalTypes
      PROVE  findings'[k].of = k[2]
  BY <1>1, <1>3, Saves
<1>4. ASSUME UNCHANGED findings, NEW k \in DOMAIN findings', k[1] \in NumericalTypes
      PROVE  findings'[k].of = k[2]
  BY <1>1, <1>4
<1>5. ASSUME \E w \in Workers :
               \/ StartVerifyComparison(w) \/ \E c \in Ids : StartVerifyClaim(w, c)
               \/ MeetInsert(w) \/ VerifyNext(w) \/ RollBack(w) \/ Analyze(w) \/ CommitVerdicts(w)
      PROVE  UNCHANGED findings
  BY <1>5 DEF StartVerifyComparison, StartVerifyClaim, MeetInsert, VerifyNext, RollBack, Analyze,
              CommitVerdicts
<1>6. ASSUME \/ \E r \in Reviewers : LoadFinding(r)
             \/ CommitExtracted \/ ReplaceFacts \/ (\E c \in Ids : ReviewClaim(c)) \/ UNCHANGED vars
      PROVE  UNCHANGED findings
  BY <1>6 DEF CommitExtracted, LoadFinding, ReplaceFacts, ReviewClaim, vars
<1>7. UNCHANGED findings \/ (\E w \in Workers : StoreFindings(w)) \/ \E r \in Reviewers : SaveReview(r)
  BY <1>5, <1>6 DEF Next
<1> QED
  BY <1>2, <1>3, <1>4, <1>7 DEF NumericalRows

LEMMA FindingsKept ==
  ASSUME VerificationInv, FindingsInv, [Next]_vars
  PROVE  FindingsInv'
<1>1. \A w \in Workers : Analysis(workers'[w])
  BY AnalysesMove
<1>2. NumericalRows'
  BY NumericalRowsKept
<1> QED
  BY <1>1, <1>2 DEF FindingsInv, Analysis, NumericalRows, OneVerdictEach

LEMMA FindingsAreRight == Spec => [](VerificationInv /\ FindingsInv)
<1>1. VerificationInv /\ FindingsInv /\ [Next]_vars => FindingsInv'
  BY FindingsKept
<1> QED
  BY <1>1, FindingsInit, VerificationIsRight, PTL DEF Spec

FindingsApart ==
  \A w \in Workers : workers[w].job = "analyze" =>
    \A c, d \in workers[w].found : c.key = d.key => c.finding = d.finding

(* An analysis never holds two different findings of one fingerprint, so   *)
(* that the order in which it stores them makes no difference              *)
(* (analyze_comparison, the unique fingerprint of ContradictionFinding).   *)
THEOREM StoringOrderIsFree == Spec => []FindingsApart
<1>1. FindingsInv => FindingsApart
  <2> SUFFICES ASSUME FindingsInv, NEW w \in Workers, workers[w].job = "analyze",
                      NEW c \in workers[w].found, NEW d \in workers[w].found, c.key = d.key
               PROVE  c.finding = d.finding
    BY DEF FindingsApart
  <2>1. /\ OneVerdictEach(workers[w].pairs)
        /\ \E ranks \in Orders : workers[w].found = FoundIn(workers[w].pairs, ranks)
    BY FindingsParts DEF Analysis
  <2> QED
    BY <2>1, FingerprintsApart
<1> QED
  BY <1>1, FindingsAreRight, PTL

LEMMA ContradictionIsStored ==
  ASSUME VerificationInv, FindingsInv, NEW w \in Workers, StoreFindings(w),
         NEW p \in workers[w].pairs, p.verdict.status = "contradicted"
  PROVE  \E k \in DOMAIN findings' :
           /\ findings'[k].of = p.claim.id /\ findings'[k].type \in NumericalTypes
           /\ findings'[k].status = IF EvidenceMissing(p.claim, p.verdict)
                                    THEN "insufficient_evidence" ELSE "candidate"
<1> USE DEF VerificationInv
<1> DEFINE status == IF EvidenceMissing(p.claim, p.verdict)
                     THEN "insufficient_evidence" ELSE "candidate"
<1>1. OneVerdictEach(workers[w].pairs)
  BY FindingsParts DEF Analysis, StoreFindings
<1>2. PICK ranks \in Orders : workers[w].found = FoundIn(workers[w].pairs, ranks)
  BY FindingsParts DEF Analysis, StoreFindings
<1>3. PICK c : /\ NumericalDetect(p.claim, p.verdict) = {c}
               /\ c.key[1] \in NumericalTypes /\ c.key[2] = p.claim.id
               /\ c.finding.type \in NumericalTypes /\ c.finding.of = p.claim.id
               /\ c.finding.status = status
  BY NumericalCandidates
<1> HIDE DEF status
<1>4. c \in workers[w].found
  <2>1. c \in DetectForClaim(p.claim, p.verdict, ranks)
    BY <1>3 DEF DetectForClaim
  <2> QED
    BY <1>2, <2>1, SourcesOfFindings
<1>5. c.key \in DOMAIN findings'
  <2>1. c.key \in {x.key : x \in workers[w].found}
    BY <1>4
  <2>2. DOMAIN findings' = DOMAIN findings \cup {x.key : x \in workers[w].found}
    BY Stores
  <2> QED
    BY <2>1, <2>2
<1>6. PICK d \in workers[w].found :
        d.key = c.key /\ findings'[c.key] = UpsertFinding(findings, c.key, d.finding)
  BY <1>4, <1>5, Stores
<1>7. d.finding = c.finding
  BY <1>1, <1>2, <1>4, <1>6, FingerprintsApart
<1>8. /\ findings'[c.key].type = c.finding.type /\ findings'[c.key].status = c.finding.status
      /\ findings'[c.key].of = p.claim.id
  <2>1. CASE c.key \in DOMAIN findings
    <3>1. DOMAIN findings[c.key] = RowFields
      BY <2>1 DEF Shaped
    <3>2. findings[c.key].of = p.claim.id
      BY <1>3, <2>1 DEF FindingsInv
    <3> QED
      BY <1>6, <1>7, <2>1, <3>1, <3>2, RowsOfFindings DEF UpsertFinding
  <2>2. CASE c.key \notin DOMAIN findings
    BY <1>3, <1>6, <1>7, <2>2, NewRows DEF UpsertFinding
  <2> QED
    BY <2>1, <2>2
<1>9. \E k \in DOMAIN findings' :
        /\ findings'[k].of = p.claim.id /\ findings'[k].type \in NumericalTypes
        /\ findings'[k].status = status
  BY <1>3, <1>5, <1>8
<1> QED
  BY <1>9 DEF status

(* For any claims and any interleaving of jobs and reviews, an analysis    *)
(* that commits leaves a finding of a numerical type for each claim it     *)
(* read as contradicted, a candidate exactly when its evidence is there,   *)
(* also where the finding was stored before and a reviewer has worked on   *)
(* it (contradiction_analysis_service.NumericalContradictionDetector,      *)
(* ContradictionRepository.upsert).                                        *)
THEOREM ContradictionsAreReported == Spec => ContradictionsAreFound
<1>1. VerificationInv /\ FindingsInv =>
        [\A w \in Workers : StoreFindings(w) =>
           \A p \in workers[w].pairs : p.verdict.status = "contradicted" =>
             \E k \in DOMAIN findings' :
               /\ findings'[k].of = p.claim.id /\ findings'[k].type \in NumericalTypes
               /\ findings'[k].status = IF EvidenceMissing(p.claim, p.verdict)
                                        THEN "insufficient_evidence" ELSE "candidate"]_vars
  BY ContradictionIsStored
<1> QED
  BY <1>1, FindingsAreRight, PTL DEF ContradictionsAreFound

LEMMA DecisionIsKept ==
  ASSUME Shaped, [Next]_vars, NEW k \in DOMAIN findings
  PROVE  /\ k \in DOMAIN findings'
         /\ \/ findings'[k].review = findings[k].review /\ findings'[k].edits = findings[k].edits
            \/ \E r \in Reviewers : reviews[r] # <<>> /\ reviews[r][1].key = k /\ reviews'[r] = <<>>
<1> DEFINE Same == k \in DOMAIN findings' /\ findings'[k].review = findings[k].review
                   /\ findings'[k].edits = findings[k].edits
<1>1. DOMAIN findings[k] = RowFields
  BY DEF Shaped
<1>2. CASE \E w \in Workers : StoreFindings(w)
  <2>1. PICK w \in Workers : StoreFindings(w)
    BY <1>2
  <2>2. k \in DOMAIN findings'
    BY <2>1, Stores
  <2>3. \/ findings'[k] = findings[k]
        \/ \E c \in workers[w].found : findings'[k] = UpsertFinding(findings, k, c.finding)
    BY <2>1, <2>2, Stores
  <2> QED
    BY <1>1, <2>2, <2>3, RowsOfFindings DEF UpsertFinding
<1>3. CASE \E r \in Reviewers : SaveReview(r)
  <2>1. PICK r \in Reviewers : SaveReview(r)
    BY <1>3
  <2>2. /\ DOMAIN findings' = DOMAIN findings
        /\ k # reviews[r][1].key => findings'[k] = findings[k]
        /\ reviews[r] # <<>> /\ reviews'[r] = <<>>
    BY <2>1, Saves DEF Shaped
  <2> QED
    BY <2>2
<1>4. CASE UNCHANGED findings
  BY <1>4
<1>5. ASSUME \E w \in Workers :
               \/ StartVerifyComparison(w) \/ \E c \in Ids : StartVerifyClaim(w, c)
               \/ MeetInsert(w) \/ VerifyNext(w) \/ RollBack(w) \/ Analyze(w) \/ CommitVerdicts(w)
      PROVE  UNCHANGED findings
  BY <1>5 DEF StartVerifyComparison, StartVerifyClaim, MeetInsert, VerifyNext, RollBack, Analyze,
              CommitVerdicts
<1>6. ASSUME \/ \E r \in Reviewers : LoadFinding(r)
             \/ CommitExtracted \/ ReplaceFacts \/ (\E c \in Ids : ReviewClaim(c)) \/ UNCHANGED vars
      PROVE  UNCHANGED findings
  BY <1>6 DEF CommitExtracted, LoadFinding, ReplaceFacts, ReviewClaim, vars
<1>7. UNCHANGED findings \/ (\E w \in Workers : StoreFindings(w)) \/ \E r \in Reviewers : SaveReview(r)
  BY <1>5, <1>6 DEF Next
<1> QED
  BY <1>2, <1>3, <1>4, <1>7

(* No finding disappears, and the status a reviewer gave one and the       *)
(* record of what edits replaced in it are changed by a reviewer only,     *)
(* however many analyses run again over it; the edited values are not kept *)
(* (ContradictionRepository.upsert_finding, review_contradiction).         *)
THEOREM ReviewsSurvive == Spec => DecisionsSurvive
<1>1. VerificationInv =>
        ([Next]_vars =>
         [\A k \in DOMAIN findings :
            /\ k \in DOMAIN findings'
            /\ \/ findings'[k].review = findings[k].review /\ findings'[k].edits = findings[k].edits
               \/ \E r \in Reviewers : reviews[r] # <<>> /\ reviews[r][1].key = k /\ reviews'[r] = <<>>
            ]_vars)
  BY DecisionIsKept DEF VerificationInv
<1> QED
  BY <1>1, VerificationIsRight, PTL DEF Spec, DecisionsSurvive

=============================================================================
