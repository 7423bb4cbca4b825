------------------------ MODULE ClaimExtractionProofs ------------------------
(***************************************************************************)
(* Proofs about the claim-extraction stage, for any items, batch limits,   *)
(* contexts and numbers of attempts, crashes and faults.  The ledger is    *)
(* kept consistent with whatever plan_batches returns; that a comparison   *)
(* found ready is resolved needs that the plan holds every item.           *)
(***************************************************************************)
EXTENDS ClaimExtraction, SequenceTheorems, WellFoundedInduction, TLAPS

-----------------------------------------------------------------------------
(* The planner.  Induction takes the form the provers can use: a set of    *)
(* naturals that holds 0, and i + 1 with each i, holds them all.           *)
LEMMA UpTo ==
  ASSUME NEW n \in Nat, NEW S, 0 \in S, \A i \in 0..n - 1 : i \in S => i + 1 \in S
  PROVE  0..n \subseteq S
<1> SUFFICES ASSUME (0..n) \ S # {} PROVE FALSE
  OBVIOUS
<1> DEFINE Missing == (0..n) \ S
           Less == OpToRel(<, Nat)
<1>1. \A x, y \in Nat : x < y => <<x, y>> \in Less
  BY DEF OpToRel
<1>2. IsWellFoundedOn(Less, Nat)
  BY NatLessThanWellFounded
<1> HIDE DEF Less
<1>3. PICK k \in Missing : \A m \in Missing : ~ (<<m, k>> \in Less)
  <2>1. Missing \subseteq Nat /\ Missing # {}
    OBVIOUS
  <2> HIDE DEF Missing
  <2> QED
    BY <1>2, <2>1, WFMin
<1>4. k # 0 /\ k - 1 \in 0..n - 1 /\ k - 1 \in Nat /\ k \in Nat /\ k - 1 < k
  OBVIOUS
<1>5. k - 1 \in S
  <2>1. <<k - 1, k>> \in Less
    BY <1>1, <1>4
  <2>2. k - 1 \notin Missing
    BY <1>3, <2>1
  <2> QED
    BY <1>4, <2>2
<1>6. (k - 1) + 1 \in S
  BY <1>4, <1>5
<1> QED
  BY <1>4, <1>6

(* The packings after each item, which plan_batches' recursion defines.    *)
LEMMA PackedExists ==
  ASSUME NEW items \in Seq(Items)
  PROVE  \E f : /\ f[0] = NewPacking
                /\ \A i \in 1..Len(items) : f[i] = Place(f[i - 1], items[i])
                /\ PlanBatches(items) = Closed(f[Len(items)])
<1> DEFINE n == Len(items)
           Packs(f, m) == f = [i \in 0..m |-> IF i = 0 THEN NewPacking
                                                       ELSE Place(f[i - 1], items[i])]
           S == {m \in 0..n : \E f : Packs(f, m)}
           packed == CHOOSE f : Packs(f, n)
<1>1. n \in Nat
  OBVIOUS
<1>2. PlanBatches(items) = Closed(packed[n])
  BY DEF PlanBatches
<1> HIDE DEF n
<1>3. 0 \in S
  <2> DEFINE f == [i \in 0..0 |-> NewPacking]
  <2>1. Packs(f, 0)
    OBVIOUS
  <2>2. 0 \in 0..n
    BY <1>1
  <2> HIDE DEF f, Packs
  <2> QED
    BY <2>1, <2>2
<1>4. ASSUME NEW m \in 0..n - 1, m \in S PROVE m + 1 \in S
  <2>1. PICK f : Packs(f, m)
    BY <1>4
  <2> DEFINE g == [i \in 0..m + 1 |-> IF i = m + 1 THEN Place(f[m], items[m + 1]) ELSE f[i]]
  <2>2. m \in Nat /\ m + 1 \in 0..n
    BY <1>1
  <2>3. ASSUME NEW i \in 0..m + 1
        PROVE  g[i] = IF i = 0 THEN NewPacking ELSE Place(g[i - 1], items[i])
    <3>1. CASE i = m + 1
      <4>1. i # 0 /\ i - 1 = m /\ m \in 0..m + 1 /\ m # m + 1
        BY <2>2, <3>1
      <4>2. g[i] = Place(f[m], items[m + 1]) /\ g[i - 1] = f[m]
        BY <3>1, <4>1
      <4> QED
        BY <3>1, <4>1, <4>2
    <3>2. CASE i # m + 1
      <4>1. i \in 0..m
        BY <2>2, <3>2
      <4>2. g[i] = f[i]
        BY <3>2
      <4>3. CASE i = 0
        BY <2>1, <4>1, <4>2, <4>3
      <4>4. CASE i # 0
        <5>1. i - 1 \in 0..m + 1 /\ i - 1 # m + 1
          BY <2>2, <4>1, <4>4
        <5>2. g[i - 1] = f[i - 1]
          BY <5>1
        <5> QED
          BY <2>1, <4>1, <4>2, <4>4, <5>2
      <4> QED
        BY <4>3, <4>4
    <3> QED
      BY <3>1, <3>2
  <2>4. Packs(g, m + 1)
    <3>1. g = [i \in 0..m + 1 |-> g[i]]
      OBVIOUS
    <3> HIDE DEF g
    <3> QED
      BY <2>3, <3>1
  <2> HIDE DEF g, Packs
  <2> QED
    BY <2>2, <2>4
<1>5. n \in S
  <2>1. 0..n \subseteq S
    <3> HIDE DEF S
    <3> QED
      BY <1>1, <1>3, <1>4, UpTo
  <2>2. n \in 0..n
    BY <1>1
  <2> HIDE DEF S
  <2> QED
    BY <2>1, <2>2
<1>6. Packs(packed, n)
  <2>1. \E f : Packs(f, n)
    BY <1>5
  <2> HIDE DEF Packs
  <2> QED
    BY <2>1
<1> HIDE DEF packed
<1>7. packed[0] = NewPacking /\ \A i \in 1..n : packed[i] = Place(packed[i - 1], items[i])
  BY <1>1, <1>6
<1> QED
  BY <1>2, <1>7 DEF n

Packings == [groups: Seq(Seq(Items)), current: Seq(Items), tokens: Nat]
Packs(p, item) ==
  item \in ToSet(p.current) \/ \E b \in DOMAIN p.groups : item \in ToSet(p.groups[b])

LEMMA AppendHolds ==
  ASSUME NEW A, NEW s \in Seq(A), NEW x \in A
  PROVE  /\ Append(s, x) \in Seq(A) /\ DOMAIN Append(s, x) = DOMAIN s \cup {Len(s) + 1}
         /\ \A i \in DOMAIN s : Append(s, x)[i] = s[i]
         /\ Append(s, x)[Len(s) + 1] = x
         /\ ToSet(Append(s, x)) = ToSet(s) \cup {x}
<1>1. /\ Append(s, x) \in Seq(A) /\ DOMAIN Append(s, x) = 1..Len(s) + 1
      /\ \A i \in 1..Len(s) : Append(s, x)[i] = s[i]
      /\ Append(s, x)[Len(s) + 1] = x
  BY AppendProperties
<1>2. DOMAIN s = 1..Len(s) /\ Len(s) \in Nat
  OBVIOUS
<1>3. DOMAIN Append(s, x) = DOMAIN s \cup {Len(s) + 1}
  BY <1>1, <1>2
<1> HIDE DEF ToSet
<1>4. \A y : y \in ToSet(Append(s, x)) <=> y \in ToSet(s) \cup {x}
  BY <1>1, <1>2, <1>3 DEF ToSet
<1> QED
  BY <1>1, <1>2, <1>3, <1>4

(* An item is placed, and none already placed is dropped.                  *)
LEMMA PlacePacks ==
  ASSUME NEW p \in Packings, NEW item \in Items
  PROVE  /\ Place(p, item) \in Packings
         /\ Packs(Place(p, item), item)
         /\ \A x : Packs(p, x) => Packs(Place(p, item), x)
<1>1. /\ p.groups \in Seq(Seq(Items)) /\ p.current \in Seq(Items) /\ p.tokens \in Nat
      /\ p = [groups |-> p.groups, current |-> p.current, tokens |-> p.tokens]
  BY DEF Packings
<1>2. FixedOverhead + Cost(item) \in Nat /\ p.tokens + Cost(item) \in Nat
  BY <1>1, BatchingAssumption DEF Cost
<1>3. CASE Full(p, item)
  <2>1. Place(p, item) = [groups |-> Append(p.groups, p.current), current |-> <<item>>,
                          tokens |-> FixedOverhead + Cost(item)]
    BY <1>3 DEF Place
  <2>2. <<item>> \in Seq(Items) /\ ToSet(<<item>>) = {item}
    BY DEF ToSet
  <2>3. /\ Append(p.groups, p.current) \in Seq(Seq(Items))
        /\ DOMAIN Append(p.groups, p.current) = DOMAIN p.groups \cup {Len(p.groups) + 1}
        /\ \A b \in DOMAIN p.groups : Append(p.groups, p.current)[b] = p.groups[b]
        /\ Append(p.groups, p.current)[Len(p.groups) + 1] = p.current
    BY <1>1, AppendHolds
  <2> HIDE DEF ToSet
  <2>4. Place(p, item) \in Packings
    BY <1>2, <2>1, <2>2, <2>3 DEF Packings
  <2>5. /\ Place(p, item).groups = Append(p.groups, p.current)
        /\ Place(p, item).current = <<item>>
    BY <2>1
  <2>6. Packs(Place(p, item), item)
    BY <2>2, <2>5 DEF Packs
  <2>7. ASSUME NEW x, Packs(p, x) PROVE Packs(Place(p, item), x)
    <3>1. CASE x \in ToSet(p.current)
      <4>1. Len(p.groups) + 1 \in DOMAIN Append(p.groups, p.current)
        BY <2>3
      <4> QED
        BY <2>3, <2>5, <3>1, <4>1 DEF Packs
    <3>2. ASSUME NEW k \in DOMAIN p.groups, x \in ToSet(p.groups[k])
          PROVE  Packs(Place(p, item), x)
      <4>1. k \in DOMAIN Append(p.groups, p.current) /\ Append(p.groups, p.current)[k] = p.groups[k]
        BY <2>3
      <4> QED
        BY <2>5, <3>2, <4>1 DEF Packs
    <3> QED
      BY <2>7, <3>1, <3>2 DEF Packs
  <2> QED
    BY <2>4, <2>6, <2>7
<1>4. CASE ~Full(p, item)
  <2>1. Place(p, item) = [groups |-> p.groups, current |-> Append(p.current, item),
                          tokens |-> p.tokens + Cost(item)]
    BY <1>1, <1>4 DEF Place
  <2>2. /\ Append(p.current, item) \in Seq(Items)
        /\ ToSet(Append(p.current, item)) = ToSet(p.current) \cup {item}
    BY <1>1, AppendHolds
  <2> HIDE DEF ToSet
  <2>3. Place(p, item) \in Packings
    BY <1>1, <1>2, <2>1, <2>2 DEF Packings
  <2>4. /\ Place(p, item).groups = p.groups
        /\ Place(p, item).current = Append(p.current, item)
    BY <2>1
  <2>5. Packs(Place(p, item), item)
    BY <2>2, <2>4 DEF Packs
  <2>6. \A x : Packs(p, x) => Packs(Place(p, item), x)
    BY <2>2, <2>4 DEF Packs
  <2> QED
    BY <2>3, <2>5, <2>6
<1> QED
  BY <1>3, <1>4

LEMMA ClosedPacks ==
  ASSUME NEW p \in Packings
  PROVE  /\ Closed(p) \in Seq(Seq(Items))
         /\ \A x : Packs(p, x) => \E b \in DOMAIN Closed(p) : x \in ToSet(Closed(p)[b])
<1>1. p.groups \in Seq(Seq(Items)) /\ p.current \in Seq(Items)
  BY DEF Packings
<1>2. CASE p.current = <<>>
  <2>1. ToSet(p.current) = {}
    BY <1>2 DEF ToSet
  <2> HIDE DEF ToSet
  <2> QED
    BY <1>1, <1>2, <2>1 DEF Closed, Packs
<1>3. CASE p.current # <<>>
  <2>1. Closed(p) = Append(p.groups, p.current)
    BY <1>3 DEF Closed
  <2> HIDE DEF ToSet
  <2> QED
    BY <1>1, <2>1, AppendHolds DEF Packs
<1> QED
  BY <1>2, <1>3

(* A plan is a sequence of batches in which each planned item is found.    *)
LEMMA PlanCovers ==
  ASSUME NEW items \in Seq(Items)
  PROVE  /\ PlanBatches(items) \in Seq(Seq(Items))
         /\ \A x \in ToSet(items) : \E b \in DOMAIN PlanBatches(items) :
              x \in ToSet(PlanBatches(items)[b])
<1> DEFINE n == Len(items)
<1>1. PICK f : /\ f[0] = NewPacking
               /\ \A i \in 1..n : f[i] = Place(f[i - 1], items[i])
               /\ PlanBatches(items) = Closed(f[n])
  BY PackedExists
<1>2. n \in Nat /\ DOMAIN items = 1..n /\ \A i \in 1..n : items[i] \in Items
  OBVIOUS
<1> DEFINE S == {i \in 0..n : f[i] \in Packings /\ \A k \in 1..i : Packs(f[i], items[k])}
<1> HIDE DEF n
<1>3. 0 \in S
  <2>1. NewPacking \in Packings
    BY BatchingAssumption DEF NewPacking, Packings
  <2> QED
    BY <1>1, <1>2, <2>1
<1>4. ASSUME NEW i \in 0..n - 1, i \in S PROVE i + 1 \in S
  <2>1. i + 1 \in 1..n /\ (i + 1) - 1 = i /\ i + 1 \in 0..n
    BY <1>2
  <2>2. f[i + 1] = Place(f[i], items[i + 1])
    <3>1. f[i + 1] = Place(f[(i + 1) - 1], items[i + 1])
      BY <1>1, <2>1
    <3> QED
      BY <2>1, <3>1
  <2>3. f[i] \in Packings /\ \A k \in 1..i : Packs(f[i], items[k])
    BY <1>4
  <2>4. /\ f[i + 1] \in Packings /\ Packs(f[i + 1], items[i + 1])
        /\ \A k \in 1..i : Packs(f[i + 1], items[k])
    BY <1>2, <2>1, <2>2, <2>3, PlacePacks
  <2>5. \A k \in 1..i + 1 : k \in 1..i \/ k = i + 1
    BY <2>1
  <2> QED
    BY <2>1, <2>4, <2>5
<1>5. n \in S
  <2>1. 0..n \subseteq S
    <3> HIDE DEF S
    <3> QED
      BY <1>2, <1>3, <1>4, UpTo
  <2> QED
    BY <1>2, <2>1
<1>6. f[n] \in Packings /\ \A k \in 1..n : Packs(f[n], items[k])
  BY <1>5
<1>7. ToSet(items) = {items[k] : k \in 1..n}
  BY <1>2 DEF ToSet
<1> HIDE DEF ToSet
<1> QED
  BY <1>1, <1>6, <1>7, ClosedPacks

-----------------------------------------------------------------------------
(* The stage.                                                              *)

(* Rows and the attempt's variables are records of the expected fields. *)
RowShaped(r) == r = [items |-> r.items, context |-> r.context,
                     status |-> r.status, results |-> r.results]

Shaped ==
  /\ \A i \in DOMAIN ledger : RowShaped(ledger[i])
  /\ \A i \in DOMAIN attempt.rows : RowShaped(attempt.rows[i])
  /\ attempt = [pc |-> attempt.pc, rows |-> attempt.rows, at |-> attempt.at,
                todo |-> attempt.todo, records |-> attempt.records]
  /\ attempt.at \in Nat \ {0}

Executing == attempt.pc \in {"next", "asking", "whole", "partial", "failing"}
InBatch   == attempt.pc \in {"asking", "whole", "partial", "failing"}

(* The attempt's snapshot of the ledger is right about what is ahead of it. *)
SnapshotHolds ==
  /\ Executing =>
       \A i \in DOMAIN attempt.rows :
         /\ i \in DOMAIN ledger
         /\ ledger[i].items = attempt.rows[i].items
         /\ i \notin 1..attempt.at - 1 => ledger[i].results = attempt.rows[i].results
  /\ InBatch => attempt.at \in DOMAIN attempt.rows

(* What is asked, and then what is answered, with what is on record, is the *)
(* whole batch.                                                            *)
BatchCovered ==
  /\ attempt.pc = "asking" =>
       /\ attempt.todo = ToSet(ThisBatch.items) \ Done(ThisBatch)
  /\ attempt.pc = "whole" =>
       ToSet(ThisBatch.items) \subseteq DOMAIN attempt.records \cup DOMAIN ThisBatch.results

StageInv == Shaped /\ SnapshotHolds /\ BatchCovered /\ CompletedIsComplete

-----------------------------------------------------------------------------
LEMMA StageInit == Init => StageInv
  BY DEF Init, StageInv, Shaped, SnapshotHolds, BatchCovered, CompletedIsComplete, Idle,
         NoRecords, NoResults, Executing, InBatch

LEMMA SyncKeepsRows ==
  ASSUME NEW rows, NEW plan, NEW c, \A i \in DOMAIN rows : RowShaped(rows[i])
  PROVE  /\ DOMAIN Synced(rows, plan, c) = DOMAIN plan
         /\ \A i \in DOMAIN plan : RowShaped(Synced(rows, plan, c)[i])
         /\ \A i \in DOMAIN plan : Synced(rows, plan, c)[i].status = "completed" =>
              i \in DOMAIN rows /\ Synced(rows, plan, c)[i] = rows[i]
  BY DEF Synced, Pending, RowShaped


LEMMA MarkedRows ==
  ASSUME NEW rows, NEW i \in DOMAIN rows, NEW status, NEW results,
         \A j \in DOMAIN rows : RowShaped(rows[j])
  PROVE  LET marked == MarkWith(rows, i, status, results) IN
         /\ DOMAIN marked = DOMAIN rows
         /\ \A j \in DOMAIN rows \ {i} : marked[j] = rows[j]
         /\ marked[i] = [items |-> rows[i].items, context |-> rows[i].context,
                         status |-> status, results |-> Merged(rows[i].results, results)]
  BY DEF MarkWith

LEMMA ProcessingRows ==
  ASSUME NEW rows, NEW i \in DOMAIN rows, \A j \in DOMAIN rows : RowShaped(rows[j])
  PROVE  LET marked == MarkProcessing(rows, i) IN
         /\ DOMAIN marked = DOMAIN rows
         /\ \A j \in DOMAIN rows \ {i} : marked[j] = rows[j]
         /\ marked[i] = [items |-> rows[i].items, context |-> rows[i].context,
                         status |-> "processing", results |-> rows[i].results]
  BY DEF MarkProcessing, RowShaped

LEMMA MergedDomain ==
  ASSUME NEW old, NEW new PROVE DOMAIN Merged(old, new) = DOMAIN old \cup DOMAIN new
  BY DEF Merged

LEMMA StageStep == StageInv /\ [Next]_vars => StageInv'
<1> SUFFICES ASSUME StageInv, [Next]_vars PROVE StageInv'
  OBVIOUS
<1> USE DEF StageInv
<1>1. CASE Begin
  BY <1>1 DEF Begin, Idle, NoRecords, NoResults, Shaped, SnapshotHolds, BatchCovered,
              CompletedIsComplete, Executing, InBatch
<1>2. CASE StoreDeterministic
  BY <1>2 DEF StoreDeterministic, Shaped, SnapshotHolds, BatchCovered,
              CompletedIsComplete, Executing, InBatch
<1>3. CASE SyncPlan
  <2> DEFINE plan == PlanBatches(material.model)
             rows == Synced(ledger, plan, context)
  <2>1. attempt.pc = "stored" /\ attempt' = [attempt EXCEPT !.pc = "next", !.rows = rows]
    BY <1>3 DEF SyncPlan
  <2>2. (ledger' = ledger /\ DOMAIN plan = {}) \/ ledger' = rows
    BY <1>3 DEF SyncPlan
  <2>3. /\ DOMAIN rows = DOMAIN plan
        /\ \A i \in DOMAIN rows : RowShaped(rows[i])
        /\ \A i \in DOMAIN rows : rows[i].status = "completed" =>
             i \in DOMAIN ledger /\ rows[i] = ledger[i]
    BY SyncKeepsRows DEF Shaped
  <2> HIDE DEF plan, rows
  <2>4. /\ attempt'.pc = "next" /\ attempt'.rows = rows /\ attempt'.at = attempt.at
        /\ attempt' = [pc |-> "next", rows |-> rows, at |-> attempt.at,
                       todo |-> attempt.todo, records |-> attempt.records]
    BY <2>1 DEF Shaped
  <2>5. Shaped'
    BY <2>2, <2>3, <2>4 DEF Shaped
  <2>6. SnapshotHolds'
    BY <2>2, <2>3, <2>4 DEF SnapshotHolds, Executing, InBatch
  <2>7. CompletedIsComplete'
    BY <2>2, <2>3 DEF CompletedIsComplete
  <2> QED
    BY <2>4, <2>5, <2>6, <2>7 DEF BatchCovered
<1>4. CASE SkipBatch
  <2>1. /\ attempt'.pc = "next" /\ attempt'.rows = attempt.rows /\ attempt'.at = attempt.at + 1
        /\ ledger' = ledger /\ Shaped'
    BY <1>4 DEF SkipBatch, AtBatch, Shaped
  <2>2. attempt.at \in Nat /\ attempt.pc = "next"
    BY <1>4 DEF Shaped, SkipBatch, AtBatch
  <2> QED
    BY <2>1, <2>2 DEF SnapshotHolds, BatchCovered, CompletedIsComplete, Executing, InBatch
<1>5. CASE StartBatch
  <2>1. /\ attempt.pc = "next" /\ attempt.at \in DOMAIN attempt.rows
        /\ ledger' = MarkProcessing(ledger, attempt.at)
    BY <1>5 DEF StartBatch, AtBatch
  <2>2. /\ attempt'.pc = "asking" /\ attempt'.rows = attempt.rows /\ attempt'.at = attempt.at
        /\ attempt'.todo = ToSet(ThisBatch.items) \ Done(ThisBatch)
        /\ attempt' = [pc |-> attempt'.pc, rows |-> attempt'.rows, at |-> attempt'.at,
                       todo |-> attempt'.todo, records |-> attempt'.records]
    BY <1>5 DEF StartBatch, Shaped
  <2>3. attempt.at \in DOMAIN ledger
    BY <2>1 DEF SnapshotHolds, Executing
  <2>4. /\ DOMAIN ledger' = DOMAIN ledger
        /\ \A j \in DOMAIN ledger \ {attempt.at} : ledger'[j] = ledger[j]
        /\ ledger'[attempt.at] = [items |-> ledger[attempt.at].items,
              context |-> ledger[attempt.at].context,
              status |-> "processing", results |-> ledger[attempt.at].results]
    BY <2>1, <2>3, ProcessingRows DEF Shaped
  <2>5. Shaped'
    BY <2>2, <2>4 DEF Shaped, RowShaped
  <2>6. SnapshotHolds'
    BY <2>1, <2>2, <2>4 DEF SnapshotHolds, Executing, InBatch
  <2>7. BatchCovered'
    BY <2>2 DEF BatchCovered, ThisBatch
  <2>8. CompletedIsComplete'
    BY <2>4 DEF CompletedIsComplete
  <2> QED
    BY <2>5, <2>6, <2>7, <2>8
<1>6. CASE Answer
  <2>1. PICK answered \in SUBSET attempt.todo : \E outcomes \in [answered -> Outcomes] :
          attempt' = [attempt EXCEPT
            !.pc = IF answered = attempt.todo THEN "whole" ELSE "partial",
            !.records = outcomes]
    BY <1>6 DEF Answer
  <2>2. /\ attempt'.pc = (IF answered = attempt.todo THEN "whole" ELSE "partial")
        /\ attempt'.rows = attempt.rows /\ attempt'.at = attempt.at
        /\ DOMAIN attempt'.records = answered
        /\ attempt' = [pc |-> attempt'.pc, rows |-> attempt'.rows, at |-> attempt'.at,
                       todo |-> attempt'.todo, records |-> attempt'.records]
    BY <2>1 DEF Shaped
  <2>3. attempt.pc = "asking" /\ ledger' = ledger
    BY <1>6 DEF Answer
  <2>4. Shaped' /\ SnapshotHolds' /\ CompletedIsComplete'
    BY <2>2, <2>3 DEF Shaped, SnapshotHolds, CompletedIsComplete, Executing, InBatch
  <2>5. Done(ThisBatch) \subseteq DOMAIN ThisBatch.results
    BY DEF Done
  <2>6. BatchCovered'
    BY <2>2, <2>3, <2>5 DEF BatchCovered, ThisBatch
  <2> QED
    BY <2>4, <2>6
<1>7. CASE CommitBatch
  <2> DEFINE i == attempt.at
  <2>1. /\ attempt.pc = "whole" /\ ledger' = MarkWith(ledger, i, "completed", attempt.records)
    BY <1>7 DEF CommitBatch, MarkCompleted
  <2>2. /\ attempt'.pc = "next" /\ attempt'.rows = attempt.rows /\ attempt'.at = i + 1
        /\ attempt' = [pc |-> attempt'.pc, rows |-> attempt'.rows, at |-> attempt'.at,
                       todo |-> attempt'.todo, records |-> attempt'.records]
    BY <1>7 DEF CommitBatch, Shaped
  <2>3. /\ i \in DOMAIN attempt.rows /\ i \in DOMAIN ledger /\ i \in Nat
        /\ ledger[i].items = attempt.rows[i].items
        /\ ledger[i].results = attempt.rows[i].results
    BY <2>1 DEF SnapshotHolds, Executing, InBatch, Shaped
  <2>4. /\ DOMAIN ledger' = DOMAIN ledger
        /\ \A j \in DOMAIN ledger \ {i} : ledger'[j] = ledger[j]
        /\ ledger'[i] = [items |-> ledger[i].items, context |-> ledger[i].context,
              status |-> "completed", results |-> Merged(ledger[i].results, attempt.records)]
    <3> HIDE DEF i
    <3> QED BY <2>1, <2>3, MarkedRows DEF Shaped
  <2>5. Shaped'
    BY <2>2, <2>3, <2>4 DEF Shaped, RowShaped
  <2>6. SnapshotHolds'
    <3>1. ~InBatch'
      BY <2>2 DEF InBatch
    <3>2. ASSUME NEW j \in DOMAIN attempt.rows
          PROVE  /\ j \in DOMAIN ledger' /\ ledger'[j].items = attempt.rows[j].items
                 /\ j \notin 1..(i + 1) - 1 => ledger'[j].results = attempt.rows[j].results
      <4>1. /\ j \in DOMAIN ledger /\ ledger[j].items = attempt.rows[j].items
            /\ j \notin 1..i - 1 => ledger[j].results = attempt.rows[j].results
        BY <2>1 DEF SnapshotHolds, Executing
      <4>2. CASE j = i
        <5>1. 1 <= i => i \in 1..(i + 1) - 1
          BY <2>3
        <5>2. i # 0
          BY <2>3 DEF Shaped
        <5> QED
          BY <4>1, <4>2, <5>1, <5>2, <2>3, <2>4
      <4>3. CASE j # i
        <5>1. j \notin 1..(i + 1) - 1 => j \notin 1..i - 1
          BY <2>3
        <5> QED
          BY <4>1, <4>3, <5>1, <2>4
      <4> QED
        BY <4>2, <4>3
    <3> QED
      BY <2>2, <3>1, <3>2 DEF SnapshotHolds
  <2>7. ToSet(ledger[i].items) \subseteq DOMAIN Merged(ledger[i].results, attempt.records)
    BY <2>1, <2>3, MergedDomain DEF BatchCovered, ThisBatch
  <2>8. CompletedIsComplete'
    BY <2>4, <2>7 DEF CompletedIsComplete
  <2> QED
    BY <2>2, <2>5, <2>6, <2>8 DEF BatchCovered
<1>8. CASE CommitPartial
  BY <1>8 DEF CommitPartial, Shaped, SnapshotHolds, BatchCovered, CompletedIsComplete,
              Executing, InBatch
<1>9. CASE LoseSession
  <2>1. /\ attempt.pc \in {"partial", "whole"} /\ ledger' = ledger
        /\ \E records : attempt' = [attempt EXCEPT !.pc = "failing", !.records = records]
    BY <1>9 DEF LoseSession
  <2> QED
    BY <2>1 DEF Shaped, SnapshotHolds, BatchCovered, CompletedIsComplete, Executing, InBatch
<1>10. CASE RecordFailure
  <2> DEFINE i == attempt.at
  <2>1. /\ attempt.pc = "failing" /\ ledger' = MarkWith(ledger, i, "failed", attempt.records)
        /\ attempt' = Idle
    BY <1>10 DEF RecordFailure, MarkFailed
  <2>2. i \in DOMAIN ledger
    BY <2>1 DEF SnapshotHolds, Executing, InBatch
  <2>3. /\ DOMAIN ledger' = DOMAIN ledger
        /\ \A j \in DOMAIN ledger \ {i} : ledger'[j] = ledger[j]
        /\ ledger'[i] = [items |-> ledger[i].items, context |-> ledger[i].context,
              status |-> "failed", results |-> Merged(ledger[i].results, attempt.records)]
    <3> HIDE DEF i
    <3> QED BY <2>1, <2>2, MarkedRows DEF Shaped
  <2>4. Shaped'
    BY <2>1, <2>3 DEF Shaped, RowShaped, Idle
  <2>5. CompletedIsComplete'
    BY <2>3 DEF CompletedIsComplete
  <2> QED
    BY <2>1, <2>4, <2>5 DEF SnapshotHolds, BatchCovered, Executing, InBatch, Idle
<1>11. CASE FailToRecord \/ Crash
  BY <1>11 DEF FailToRecord, Crash, Idle, Shaped, SnapshotHolds, BatchCovered,
               CompletedIsComplete, Executing, InBatch
<1>12. CASE Return
  <2>1. /\ attempt' = [pc |-> "returned", rows |-> <<>>, at |-> 1, todo |-> {},
                        records |-> NoRecords]
        /\ ledger' = ledger
    BY <1>12 DEF Return, Idle
  <2> QED
    BY <2>1 DEF Shaped, SnapshotHolds, BatchCovered, CompletedIsComplete,
                Executing, InBatch
<1>13. CASE ReapSession \/ OtherTakesLock \/ OtherReleasesLock \/ Drift \/ UNCHANGED vars
  <2>1. UNCHANGED <<ledger, attempt>>
    BY <1>13 DEF ReapSession, OtherTakesLock, OtherReleasesLock, Drift, vars
  <2> QED
    BY <2>1 DEF Shaped, SnapshotHolds, BatchCovered, CompletedIsComplete, Executing,
                InBatch, ThisBatch
<1> QED
  BY <1>1, <1>2, <1>3, <1>4, <1>5, <1>6, <1>7, <1>8, <1>9, <1>10, <1>11, <1>12, <1>13 DEF Next

(***************************************************************************)
(* Over any attempts, failures, crashes and changes of plan, each item of a *)
(* completed batch has its outcome on record (mark_completed, sync_plan).  *)
(***************************************************************************)
THEOREM CompletionCarriesOutcomes == Spec => []CompletedIsComplete
<1>1. StageInv => CompletedIsComplete
  BY DEF StageInv
<1> QED
  BY StageInit, StageStep, <1>1, PTL DEF Spec

(* The provider is asked for no item whose final outcome is on record.     *)
THEOREM AnswersAreKept == Spec => []NothingAskedTwice
<1>1. StageInv => NothingAskedTwice
  BY DEF StageInv, NothingAskedTwice, BatchCovered, SnapshotHolds, Executing, InBatch,
         ThisBatch, Done
<1> QED
  BY StageInit, StageStep, <1>1, PTL DEF Spec

-----------------------------------------------------------------------------
(* Without session failures the claims of what is recorded are stored.     *)
StoredInv ==
  /\ SuccessIsStored
  /\ attempt.pc = "failing" => Found \subseteq claims
FaultlessInv == faults \in Nat /\ (faults = 0 => StoredInv)

LEMMA MergedSuccess ==
  ASSUME NEW old, NEW new, NEW item \in DOMAIN Merged(old, new),
         Merged(old, new)[item] = "success"
  PROVE  \/ item \in DOMAIN new /\ new[item] = "success"
         \/ item \in DOMAIN old /\ old[item] = "success"
  BY DEF Merged

LEMMA StoredStep ==
  ASSUME StageInv, StoredInv, [Next]_vars, ~LoseSession, ~FailToRecord PROVE StoredInv'
<1>1. CASE SyncPlan
  <2>1. ledger' = ledger \/ ledger' = Synced(ledger, PlanBatches(material.model), context)
    BY <1>1 DEF SyncPlan
  <2>2. attempt'.pc = "next" /\ claims' = claims /\ faults' = faults
    BY <1>1 DEF SyncPlan, budgets, StageInv, Shaped
  <2>3. \A i \in DOMAIN ledger' :
          \/ i \in DOMAIN ledger /\ ledger'[i] = ledger[i]
          \/ ledger'[i].results = NoResults
    BY <2>1 DEF Synced, Pending
  <2>4. SuccessIsStored'
    BY <2>2, <2>3 DEF StoredInv, SuccessIsStored, NoResults
  <2> QED
    BY <2>2, <2>4 DEF StoredInv
<1>2. CASE StartBatch
  <2>1. attempt.pc = "next" /\ attempt.at \in DOMAIN ledger
    BY <1>2 DEF StartBatch, AtBatch, StageInv, SnapshotHolds, Executing
  <2>2. /\ DOMAIN ledger' = DOMAIN ledger
        /\ \A j \in DOMAIN ledger : ledger'[j].results = ledger[j].results
    <3> DEFINE i == attempt.at
    <3>1. ledger' = MarkProcessing(ledger, i)
      BY <1>2 DEF StartBatch
    <3>2. \A j \in DOMAIN ledger : RowShaped(ledger[j])
      BY DEF StageInv, Shaped
    <3> HIDE DEF i
    <3>3. /\ DOMAIN ledger' = DOMAIN ledger
          /\ \A j \in DOMAIN ledger \ {i} : ledger'[j] = ledger[j]
          /\ i \in DOMAIN ledger => ledger'[i].results = ledger[i].results
      BY <3>1, <3>2, ProcessingRows DEF MarkProcessing
    <3> QED
      BY <3>3
  <2>3. attempt'.pc = "asking" /\ claims' = claims /\ faults' = faults
    BY <1>2 DEF StartBatch, budgets, StageInv, Shaped
  <2>4. SuccessIsStored'
    BY <2>2, <2>3 DEF StoredInv, SuccessIsStored
  <2> QED
    BY <2>3, <2>4 DEF StoredInv
<1>3. CASE CommitBatch \/ RecordFailure
  <2> DEFINE i == attempt.at
  <2>1. \E mark : ledger' = MarkWith(ledger, i, mark, attempt.records)
    BY <1>3 DEF CommitBatch, RecordFailure, MarkCompleted, MarkFailed
  <2>2. i \in DOMAIN ledger
    BY <1>3 DEF CommitBatch, RecordFailure, StageInv, SnapshotHolds, Executing, InBatch
  <2>3. /\ DOMAIN ledger' = DOMAIN ledger
        /\ \A j \in DOMAIN ledger \ {i} : ledger'[j] = ledger[j]
        /\ ledger'[i].results = Merged(ledger[i].results, attempt.records)
    <3>1. PICK mark : ledger' = MarkWith(ledger, i, mark, attempt.records)
      BY <2>1
    <3> HIDE DEF i
    <3> QED
      BY <3>1, <2>2 DEF MarkWith
  <2>4. claims \subseteq claims' /\ Found \subseteq claims'
    BY <1>3 DEF CommitBatch, RecordFailure, StoredInv
  <2>5. SuccessIsStored'
    <3> SUFFICES ASSUME NEW j \in DOMAIN ledger', NEW item \in DOMAIN ledger'[j].results,
                        ledger'[j].results[item] = "success"
                 PROVE  item \in claims'
      BY DEF SuccessIsStored
    <3>1. CASE j # i
      BY <3>1, <2>3, <2>4 DEF StoredInv, SuccessIsStored
    <3>2. CASE j = i
      <4>1. \/ item \in DOMAIN attempt.records /\ attempt.records[item] = "success"
            \/ item \in DOMAIN ledger[i].results /\ ledger[i].results[item] = "success"
        BY <3>2, <2>3, MergedSuccess
      <4> QED
        BY <4>1, <2>2, <2>4 DEF StoredInv, SuccessIsStored, Found
    <3> QED
      BY <3>1, <3>2
  <2>6. attempt'.pc # "failing" /\ faults' = faults
    <3>1. CASE CommitBatch
      BY <3>1 DEF CommitBatch, budgets, StageInv, Shaped
    <3>2. CASE RecordFailure
      BY <3>2 DEF RecordFailure, budgets, Idle
    <3> QED
      BY <1>3, <3>1, <3>2
  <2> QED
    BY <2>5, <2>6 DEF StoredInv
<1>4. CASE CommitPartial
  <2>1. /\ claims' = claims \cup Found /\ ledger' = ledger /\ faults' = faults
        /\ attempt'.records = attempt.records
    BY <1>4 DEF CommitPartial, budgets, StageInv, Shaped
  <2> QED
    BY <2>1 DEF StoredInv, SuccessIsStored, Found
<1>5. CASE StoreDeterministic \/ OtherReleasesLock
  <2>1. /\ claims \subseteq claims' /\ ledger' = ledger /\ faults' = faults
        /\ attempt'.pc = "failing" => attempt.pc = "failing"
        /\ attempt'.records = attempt.records
    BY <1>5 DEF StoreDeterministic, OtherReleasesLock, budgets, StageInv, Shaped
  <2> QED
    BY <2>1 DEF StoredInv, SuccessIsStored, Found
<1>6. CASE Begin \/ SkipBatch \/ Answer \/ Return \/ Crash
  <2>1. claims' = claims /\ ledger' = ledger /\ faults' = faults
    BY <1>6 DEF Begin, SkipBatch, Answer, Return, Crash, budgets
  <2>2. attempt'.pc # "failing"
    <3>1. CASE Begin
      BY <3>1 DEF Begin, Idle
    <3>2. CASE SkipBatch
      BY <3>2 DEF SkipBatch, AtBatch, StageInv, Shaped
    <3>3. CASE Answer
      <4>1. \E new \in {"whole", "partial"} : \E records :
              attempt' = [attempt EXCEPT !.pc = new, !.records = records]
        BY <3>3 DEF Answer
      <4> QED
        BY <4>1 DEF StageInv, Shaped
    <3>4. CASE Return
      <4>1. attempt' = [pc |-> "returned", rows |-> <<>>, at |-> 1, todo |-> {},
                        records |-> NoRecords]
        BY <3>4 DEF Return, Idle
      <4> QED
        BY <4>1
    <3>5. CASE Crash
      BY <3>5 DEF Crash, Idle
    <3> QED
      BY <1>6, <3>1, <3>2, <3>3, <3>4, <3>5
  <2> QED
    BY <2>1, <2>2 DEF StoredInv, SuccessIsStored
<1>7. CASE ReapSession \/ OtherTakesLock \/ Drift \/ UNCHANGED vars
  <2>1. UNCHANGED <<ledger, attempt, claims, faults>>
    BY <1>7 DEF ReapSession, OtherTakesLock, Drift, vars, budgets
  <2> QED
    BY <2>1 DEF StoredInv, SuccessIsStored, Found
<1> QED
  BY <1>1, <1>2, <1>3, <1>4, <1>5, <1>6, <1>7 DEF Next

LEMMA FaultlessStep ==
  ASSUME StageInv, FaultlessInv, [Next]_vars PROVE FaultlessInv'
<1>1. CASE LoseSession \/ FailToRecord
  <2>1. faults' = faults + 1
    BY <1>1 DEF LoseSession, FailToRecord
  <2> QED
    BY <2>1 DEF FaultlessInv
<1>2. CASE ~LoseSession /\ ~FailToRecord
  <2>1. faults' = faults
    <3>1. CASE \/ Begin \/ StoreDeterministic \/ SyncPlan \/ SkipBatch \/ StartBatch \/ Answer
      BY <3>1 DEF Begin, StoreDeterministic, SyncPlan, SkipBatch, StartBatch, Answer, budgets
    <3>2. CASE CommitBatch \/ CommitPartial \/ RecordFailure \/ Return \/ Crash
      BY <3>2 DEF CommitBatch, CommitPartial, RecordFailure, Return, Crash, budgets
    <3>3. CASE ReapSession \/ OtherTakesLock \/ OtherReleasesLock \/ Drift \/ UNCHANGED vars
      BY <3>3 DEF ReapSession, OtherTakesLock, OtherReleasesLock, Drift, vars, budgets
    <3> QED
      BY <1>2, <3>1, <3>2, <3>3 DEF Next
  <2>2. faults' = 0 => StoredInv'
    BY <1>2, <2>1, StoredStep DEF FaultlessInv
  <2> QED
    BY <2>1, <2>2 DEF FaultlessInv
<1> QED
  BY <1>1, <1>2

(***************************************************************************)
(* As long as no database session fails after the answers came, an item    *)
(* recorded as a success has its claims stored, whatever crashes and       *)
(* provider errors happen (CommitBatch is one transaction, and a partial   *)
(* batch commits its claims before its failure is recorded).               *)
(***************************************************************************)
THEOREM SuccessIsKept == Spec => []FaultlessSuccessIsStored
<1>1. Init => FaultlessInv
  BY DEF Init, FaultlessInv, StoredInv, SuccessIsStored, Idle
<1>2. StageInv /\ FaultlessInv /\ [Next]_vars => FaultlessInv'
  BY FaultlessStep
<1>3. FaultlessInv => FaultlessSuccessIsStored
  BY DEF FaultlessInv, StoredInv, FaultlessSuccessIsStored
<1> QED
  BY <1>1, <1>2, <1>3, StageInit, StageStep, PTL DEF Spec

-----------------------------------------------------------------------------
(* The marks of the batches ahead are those the attempt has seen, and the  *)
(* batch it works on is not complete.                                      *)
MarksHold ==
  /\ Executing =>
       \A i \in DOMAIN attempt.rows :
         i \notin 1..attempt.at => ledger[i].status = attempt.rows[i].status
  /\ AtBatch => ledger[attempt.at].status = ThisBatch.status
  /\ InBatch => ledger[attempt.at].status # "completed"

LEMMA MarksInit == Init => MarksHold
  BY DEF Init, MarksHold, Executing, InBatch, AtBatch, Idle

LEMMA MarksStep ==
  ASSUME StageInv, MarksHold, [Next]_vars PROVE MarksHold'
<1>1. attempt = [pc |-> attempt.pc, rows |-> attempt.rows, at |-> attempt.at,
                 todo |-> attempt.todo, records |-> attempt.records]
      /\ attempt.at \in Nat \ {0}
  BY DEF StageInv, Shaped
<1>2. CASE SyncPlan
  <2> DEFINE rows == Synced(ledger, PlanBatches(material.model), context)
  <2>1. /\ attempt'.pc = "next" /\ attempt'.rows = rows
        /\ ledger' = rows \/ DOMAIN rows = {}
    BY <1>1, <1>2 DEF SyncPlan, Synced
  <2> HIDE DEF rows
  <2> QED
    BY <2>1 DEF MarksHold, AtBatch, ThisBatch, InBatch
<1>3. CASE SkipBatch
  <2>1. /\ attempt.pc = "next" /\ ledger' = ledger
        /\ attempt'.pc = "next" /\ attempt'.rows = attempt.rows /\ attempt'.at = attempt.at + 1
    BY <1>1, <1>3 DEF SkipBatch, AtBatch
  <2>2. ASSUME NEW i, i \notin 1..attempt.at + 1 PROVE i \notin 1..attempt.at
    BY <1>1, <2>2
  <2>3. attempt.at + 1 \notin 1..attempt.at
    BY <1>1
  <2> QED
    BY <2>1, <2>2, <2>3 DEF MarksHold, AtBatch, ThisBatch, InBatch, Executing
<1>4. CASE StartBatch
  <2> DEFINE i == attempt.at
  <2>1. /\ attempt.pc = "next" /\ i \in DOMAIN ledger /\ ledger' = MarkProcessing(ledger, i)
        /\ \A j \in DOMAIN ledger : RowShaped(ledger[j])
    BY <1>4 DEF StartBatch, AtBatch, StageInv, SnapshotHolds, Executing, Shaped
  <2>2. attempt'.pc = "asking" /\ attempt'.rows = attempt.rows /\ attempt'.at = i
    BY <1>1, <1>4 DEF StartBatch
  <2> HIDE DEF i
  <2>3. /\ DOMAIN ledger' = DOMAIN ledger
        /\ \A j \in DOMAIN ledger \ {i} : ledger'[j] = ledger[j]
        /\ ledger'[i].status = "processing"
    BY <2>1 DEF MarkProcessing, RowShaped
  <2>4. i \in 1..i
    BY <1>1 DEF i
  <2>5. \A j \in DOMAIN attempt.rows : j \in DOMAIN ledger
    BY <2>1 DEF StageInv, SnapshotHolds, Executing
  <2> QED
    BY <2>1, <2>2, <2>3, <2>4, <2>5 DEF MarksHold, AtBatch, Executing, i
<1>5. CASE CommitBatch
  <2> DEFINE i == attempt.at
  <2>1. /\ attempt.pc = "whole" /\ i \in DOMAIN ledger
        /\ ledger' = MarkWith(ledger, i, "completed", attempt.records)
    BY <1>5 DEF CommitBatch, MarkCompleted, StageInv, SnapshotHolds, Executing, InBatch
  <2>2. attempt'.pc = "next" /\ attempt'.rows = attempt.rows /\ attempt'.at = i + 1
    BY <1>1, <1>5 DEF CommitBatch
  <2> HIDE DEF i
  <2>3. /\ DOMAIN ledger' = DOMAIN ledger
        /\ \A j \in DOMAIN ledger \ {i} : ledger'[j] = ledger[j]
    BY <2>1 DEF MarkWith
  <2>4. /\ \A j : j \notin 1..i + 1 => j \notin 1..i /\ j # i
        /\ i + 1 \notin 1..i /\ i + 1 # i
    BY <1>1 DEF i
  <2>5. \A j \in DOMAIN attempt.rows : j \in DOMAIN ledger
    BY <2>1 DEF StageInv, SnapshotHolds, Executing
  <2> QED
    BY <2>1, <2>2, <2>3, <2>4, <2>5 DEF MarksHold, AtBatch, ThisBatch, InBatch, Executing, i
<1>6. CASE Answer \/ CommitPartial \/ LoseSession
  <2>1. \E pc \in {"whole", "partial", "failing"} : \E records :
          attempt' = [attempt EXCEPT !.pc = pc, !.records = records]
    <3>1. CASE Answer
      <4>1. \E pc \in {"whole", "partial"} : \E records :
              attempt' = [attempt EXCEPT !.pc = pc, !.records = records]
        BY <3>1 DEF Answer
      <4> QED
        BY <4>1
    <3>2. CASE CommitPartial
      <4>1. attempt' = [attempt EXCEPT !.pc = "failing", !.records = attempt.records]
        BY <1>1, <3>2 DEF CommitPartial
      <4> QED
        BY <4>1
    <3>3. CASE LoseSession
      <4>1. \E records : attempt' = [attempt EXCEPT !.pc = "failing", !.records = records]
        BY <3>3 DEF LoseSession
      <4> QED
        BY <4>1
    <3> QED
      BY <1>6, <3>1, <3>2, <3>3
  <2>2. ledger' = ledger /\ attempt.pc \in {"asking", "whole", "partial"}
    BY <1>6 DEF Answer, CommitPartial, LoseSession
  <2> QED
    BY <1>1, <2>1, <2>2, SMTT(30) DEF MarksHold, AtBatch, InBatch, Executing
<1>7. CASE Begin \/ StoreDeterministic \/ RecordFailure \/ FailToRecord \/ Return \/ Crash
  <2>1. attempt'.pc \in {"idle", "locked", "stored", "returned"}
    BY <1>1, <1>7 DEF Begin, StoreDeterministic, RecordFailure, FailToRecord, Return, Crash, Idle
  <2> QED
    BY <2>1 DEF MarksHold, AtBatch, InBatch, Executing
<1>8. CASE ReapSession \/ OtherTakesLock \/ OtherReleasesLock \/ Drift \/ UNCHANGED vars
  <2>1. UNCHANGED <<ledger, attempt>>
    BY <1>8 DEF ReapSession, OtherTakesLock, OtherReleasesLock, Drift, vars
  <2> QED
    BY <2>1 DEF MarksHold, AtBatch, ThisBatch, InBatch, Executing
<1> QED
  BY <1>2, <1>3, <1>4, <1>5, <1>6, <1>7, <1>8 DEF Next

(***************************************************************************)
(* A batch that is complete for the items and the context in force is      *)
(* never touched again, over any attempts, failures and crashes: sync_plan *)
(* keeps its row, the loop skips it, and what marks a row is at another.   *)
(***************************************************************************)
THEOREM CompletionIsKept == Spec => CompletedStays
<1> DEFINE plan == PlanBatches(material.model)
           Kept == \A i \in DOMAIN ledger \cap DOMAIN plan :
                     (/\ ledger[i].status = "completed" /\ ledger[i].context = context
                      /\ ledger[i].items = plan[i])
                     => (i \in DOMAIN ledger' /\ ledger'[i] = ledger[i])
<1>1. ASSUME StageInv, MarksHold, [Next]_vars PROVE Kept
  <2>1. CASE SyncPlan
    <3>1. ledger' = ledger \/ ledger' = Synced(ledger, plan, context)
      BY <2>1 DEF SyncPlan
    <3> HIDE DEF plan
    <3> QED
      BY <3>1 DEF Synced, plan
  <2>2. CASE StartBatch \/ CommitBatch \/ RecordFailure
    <3> DEFINE at == attempt.at
    <3>1. at \in DOMAIN ledger /\ ledger[at].status # "completed"
      <4>1. CASE StartBatch
        BY <1>1, <4>1 DEF StartBatch, AtBatch, MarksHold, StageInv, SnapshotHolds, Executing
      <4>2. CASE CommitBatch \/ RecordFailure
        BY <1>1, <4>2 DEF CommitBatch, RecordFailure, MarksHold, StageInv, SnapshotHolds,
                    Executing, InBatch
      <4> QED
        BY <2>2, <4>1, <4>2
    <3>2. \/ ledger' = MarkProcessing(ledger, at)
          \/ \E mark : ledger' = MarkWith(ledger, at, mark, attempt.records)
      BY <2>2 DEF StartBatch, CommitBatch, RecordFailure, MarkCompleted, MarkFailed
    <3> HIDE DEF at
    <3>3. DOMAIN ledger' = DOMAIN ledger /\ \A j \in DOMAIN ledger \ {at} : ledger'[j] = ledger[j]
      <4>1. CASE ledger' = MarkProcessing(ledger, at)
        BY <4>1 DEF MarkProcessing
      <4>2. CASE \E mark : ledger' = MarkWith(ledger, at, mark, attempt.records)
        <5>1. PICK mark : ledger' = MarkWith(ledger, at, mark, attempt.records)
          BY <4>2
        <5> QED
          BY <5>1 DEF MarkWith
      <4> QED
        BY <3>2, <4>1, <4>2
    <3> HIDE DEF plan
    <3> QED
      BY <3>1, <3>3
  <2>3. CASE ~ (SyncPlan \/ StartBatch \/ CommitBatch \/ RecordFailure)
    <3>1. ledger' = ledger
      <4>1. CASE Begin \/ StoreDeterministic \/ SkipBatch \/ Answer \/ CommitPartial
        BY <4>1 DEF Begin, StoreDeterministic, SkipBatch, Answer, CommitPartial
      <4>2. CASE LoseSession \/ FailToRecord \/ Return \/ Crash
        BY <4>2 DEF LoseSession, FailToRecord, Return, Crash
      <4>3. CASE ReapSession \/ OtherTakesLock \/ OtherReleasesLock \/ Drift \/ UNCHANGED vars
        BY <4>3 DEF ReapSession, OtherTakesLock, OtherReleasesLock, Drift, vars
      <4> QED
        BY <1>1, <2>3, <4>1, <4>2, <4>3 DEF Next
    <3> HIDE DEF plan
    <3> QED
      BY <3>1
  <2> QED
    BY <2>1, <2>2, <2>3
<1>2. StageInv /\ MarksHold /\ [Next]_vars => [Kept]_vars
  <2> HIDE DEF Kept
  <2> QED
    BY <1>1
<1>3. StageInv /\ MarksHold /\ [Next]_vars => MarksHold'
  BY MarksStep
<1>4. Spec => [][Kept]_vars
  <2> HIDE DEF Kept
  <2> QED
    BY <1>2, <1>3, StageInit, StageStep, MarksInit, PTL DEF Spec
<1> QED
  BY <1>4 DEF CompletedStays

-----------------------------------------------------------------------------
(* The types, which the length of the ledger and of the plan rest on.      *)

LEMMA ResultsAre ==
  ASSUME NEW f, NEW D \in SUBSET Items, f \in [D -> Outcomes] PROVE f \in Results
  BY DEF Results

LEMMA ResultsHold ==
  ASSUME NEW f \in Results
  PROVE  DOMAIN f \subseteq Items /\ f \in [DOMAIN f -> Outcomes]
<1>1. PICK D \in SUBSET Items : f \in [D -> Outcomes]
  BY DEF Results
<1> QED
  BY <1>1

LEMMA NoResultsTyped == NoResults \in Results
<1>1. NoResults \in [{} -> Outcomes]
  BY DEF NoResults
<1> QED
  BY <1>1, ResultsAre

LEMMA MergedTyped ==
  ASSUME NEW old \in Results, NEW new \in Results PROVE Merged(old, new) \in Results
<1>1. /\ DOMAIN old \subseteq Items /\ old \in [DOMAIN old -> Outcomes]
      /\ DOMAIN new \subseteq Items /\ new \in [DOMAIN new -> Outcomes]
  BY ResultsHold
<1>2. Merged(old, new) \in [DOMAIN old \cup DOMAIN new -> Outcomes]
  BY <1>1 DEF Merged
<1> QED
  BY <1>1, <1>2, ResultsAre

LEMMA MarkTyped ==
  ASSUME NEW rows \in Seq(Rows), NEW i \in DOMAIN rows, NEW status \in BatchStatuses,
         NEW results \in Results
  PROVE  MarkWith(rows, i, status, results) \in Seq(Rows)
<1>1. rows[i] \in Rows
  OBVIOUS
<1>2. Merged(rows[i].results, results) \in Results
  BY <1>1, MergedTyped DEF Rows
<1> DEFINE row == [items |-> rows[i].items, context |-> rows[i].context, status |-> status,
                   results |-> Merged(rows[i].results, results)]
<1>3. row \in Rows
  BY <1>1, <1>2 DEF Rows
<1>4. MarkWith(rows, i, status, results) = [rows EXCEPT ![i] = row]
  BY DEF MarkWith
<1> HIDE DEF row
<1> QED
  BY <1>3, <1>4

LEMMA ProcessingTyped ==
  ASSUME NEW rows \in Seq(Rows), NEW i \in DOMAIN rows
  PROVE  MarkProcessing(rows, i) \in Seq(Rows)
<1> DEFINE row == [rows[i] EXCEPT !.status = "processing"]
<1>1. rows[i] \in Rows
  OBVIOUS
<1>2. row \in Rows
  BY <1>1 DEF Rows, BatchStatuses
<1>3. MarkProcessing(rows, i) = [rows EXCEPT ![i] = row]
  BY DEF MarkProcessing
<1> HIDE DEF row
<1> QED
  BY <1>2, <1>3

LEMMA FunctionIsSequence ==
  ASSUME NEW A, NEW n \in Nat, NEW f \in [1..n -> A] PROVE f \in Seq(A)
  BY SeqDef

LEMMA SyncedTyped ==
  ASSUME NEW rows \in Seq(Rows), NEW plan \in Seq(Seq(Items)), NEW c \in Contexts
  PROVE  Synced(rows, plan, c) \in Seq(Rows)
<1>1. ASSUME NEW i \in DOMAIN plan PROVE Synced(rows, plan, c)[i] \in Rows
  <2>1. Pending(plan[i], c) \in Rows
    BY NoResultsTyped DEF Pending, Rows, BatchStatuses
  <2>2. i \in DOMAIN rows => rows[i] \in Rows
    OBVIOUS
  <2> QED
    BY <2>1, <2>2 DEF Synced
<1>2. DOMAIN Synced(rows, plan, c) = 1..Len(plan) /\ Len(plan) \in Nat
  BY DEF Synced
<1>3. Synced(rows, plan, c) = [i \in DOMAIN plan |-> Synced(rows, plan, c)[i]]
  BY DEF Synced
<1> DEFINE synced == Synced(rows, plan, c)
<1>4. synced = [i \in DOMAIN plan |-> synced[i]] /\ \A i \in DOMAIN plan : synced[i] \in Rows
  BY <1>1, <1>3
<1> HIDE DEF synced
<1>5. Len(plan) \in Nat /\ synced \in [1..Len(plan) -> Rows]
  BY <1>2, <1>4
<1>6. synced \in Seq(Rows)
  BY <1>5, FunctionIsSequence
<1> QED
  BY <1>6 DEF synced

LEMMA IdleTyped ==
  Idle \in Attempts /\ \A pc \in {"locked", "returned"} : [Idle EXCEPT !.pc = pc] \in Attempts
<1>1. Idle \in Attempts
  BY NoResultsTyped DEF Attempts, Idle, NoRecords
<1> QED
  BY <1>1 DEF Attempts

LEMMA TypeInit == Init => TypeOK
  BY IdleTyped DEF Init, TypeOK

LEMMA TypeStep ==
  ASSUME TypeOK, StageInv, [Next]_vars PROVE TypeOK'
<1> USE DEF TypeOK
<1>1. attempt \in Attempts /\ ledger \in Seq(Rows)
  OBVIOUS
<1>2. material.model \in Seq(Items) /\ material.deterministic \subseteq Items
  BY MaterialAssumption
<1>3. CASE Begin
  BY <1>3, IdleTyped DEF Begin
<1>4. CASE StoreDeterministic
  BY <1>1, <1>2, <1>4 DEF StoreDeterministic, Attempts
<1>5. CASE SyncPlan
  <2> DEFINE rows == Synced(ledger, PlanBatches(material.model), context)
  <2>1. rows \in Seq(Rows)
    BY <1>2, PlanCovers, SyncedTyped
  <2> HIDE DEF rows
  <2>2. /\ attempt' = [attempt EXCEPT !.pc = "next", !.rows = rows]
        /\ ledger' \in {ledger, rows} /\ UNCHANGED <<material, context, claims, holder, planned>>
    BY <1>5 DEF SyncPlan, rows
  <2>3. attempt' \in Attempts
    BY <1>1, <2>1, <2>2 DEF Attempts
  <2> QED
    BY <2>1, <2>2, <2>3
<1>6. CASE SkipBatch
  BY <1>1, <1>6 DEF SkipBatch, Attempts
<1>7. CASE StartBatch
  <2>1. /\ attempt.at \in DOMAIN attempt.rows /\ attempt.at \in DOMAIN ledger
    BY <1>7 DEF StartBatch, AtBatch, StageInv, SnapshotHolds, Executing
  <2>2. ledger' \in Seq(Rows)
    BY <1>1, <1>7, <2>1, ProcessingTyped DEF StartBatch
  <2>3. ToSet(ThisBatch.items) \subseteq Items
    <3>1. ThisBatch \in Rows
      BY <1>1, <2>1 DEF ThisBatch, Attempts
    <3>2. ThisBatch.items \in Seq(Items)
      BY <3>1 DEF Rows
    <3> QED
      BY <3>2 DEF ToSet
  <2>4. attempt' \in Attempts
    BY <1>1, <1>7, <2>3 DEF StartBatch, Attempts
  <2> QED
    BY <1>7, <2>2, <2>4 DEF StartBatch
<1>8. CASE Answer
  <2>1. PICK answered \in SUBSET attempt.todo : \E outcomes \in [answered -> Outcomes] :
          attempt' = [attempt EXCEPT
            !.pc = IF answered = attempt.todo THEN "whole" ELSE "partial",
            !.records = outcomes]
    BY <1>8 DEF Answer
  <2>2. PICK outcomes \in [answered -> Outcomes] :
          attempt' = [attempt EXCEPT
            !.pc = IF answered = attempt.todo THEN "whole" ELSE "partial",
            !.records = outcomes]
    BY <2>1
  <2>3. outcomes \in Results
    BY <1>1, ResultsAre DEF Attempts
  <2>4. attempt' \in Attempts
    BY <1>1, <2>2, <2>3 DEF Attempts
  <2> QED
    BY <1>8, <2>4 DEF Answer
<1>9. Found \subseteq Items
  BY <1>1, ResultsHold DEF Found, Attempts
<1>10. CASE CommitBatch
  <2>1. ledger' \in Seq(Rows)
    <3>1. attempt.at \in DOMAIN ledger /\ attempt.records \in Results /\ "completed" \in BatchStatuses
      BY <1>1, <1>10 DEF CommitBatch, StageInv, SnapshotHolds, Executing, InBatch, Attempts, BatchStatuses
    <3> QED
      BY <1>1, <1>10, <3>1, MarkTyped DEF CommitBatch, MarkCompleted
  <2>2. attempt' \in Attempts
    <3>1. attempt' = [pc |-> "next", rows |-> attempt.rows, at |-> attempt.at + 1, todo |-> {},
                      records |-> NoResults]
      BY <1>1, <1>10 DEF CommitBatch, NoRecords, Attempts
    <3>2. attempt.rows \in Seq(Rows) /\ attempt.at + 1 \in Nat
      BY <1>1 DEF Attempts
    <3> QED
      BY <3>1, <3>2, NoResultsTyped DEF Attempts
  <2> QED
    BY <1>9, <1>10, <2>1, <2>2 DEF CommitBatch
<1>11. CASE CommitPartial
  BY <1>1, <1>9, <1>11 DEF CommitPartial, Attempts
<1>12. CASE LoseSession
  <2>1. PICK n \in 0..Len(ThisBatch.items) :
          LET noted == DOMAIN attempt.records \cap {ThisBatch.items[j] : j \in 1..n} IN
          attempt' = [attempt EXCEPT !.pc = "failing", !.records = Restrict(@, noted)]
    BY <1>12 DEF LoseSession
  <2> DEFINE noted == DOMAIN attempt.records \cap {ThisBatch.items[j] : j \in 1..n}
  <2>2. attempt' = [attempt EXCEPT !.pc = "failing", !.records = Restrict(attempt.records, noted)]
    BY <2>1
  <2>3. noted \subseteq DOMAIN attempt.records
    OBVIOUS
  <2> HIDE DEF noted
  <2>4. attempt.records \in Results
    BY <1>1 DEF Attempts
  <2>5. /\ DOMAIN attempt.records \subseteq Items
        /\ attempt.records \in [DOMAIN attempt.records -> Outcomes]
    BY <2>4, ResultsHold
  <2>6. Restrict(attempt.records, noted) \in [noted -> Outcomes] /\ noted \subseteq Items
    BY <2>3, <2>5 DEF Restrict
  <2>7. Restrict(attempt.records, noted) \in Results
    BY <2>6, ResultsAre
  <2>8. attempt' \in Attempts
    BY <1>1, <2>2, <2>7 DEF Attempts
  <2> QED
    BY <1>12, <2>8 DEF LoseSession
<1>13. CASE RecordFailure
  <2>1. ledger' \in Seq(Rows)
    <3>1. attempt.at \in DOMAIN ledger /\ attempt.records \in Results /\ "failed" \in BatchStatuses
      BY <1>1, <1>13 DEF RecordFailure, StageInv, SnapshotHolds, Executing, InBatch, Attempts, BatchStatuses
    <3> QED
      BY <1>1, <1>13, <3>1, MarkTyped DEF RecordFailure, MarkFailed
  <2> QED
    BY <1>13, <2>1, IdleTyped DEF RecordFailure
<1>14. CASE FailToRecord \/ Crash
  BY <1>14, IdleTyped DEF FailToRecord, Crash
<1>15. CASE Return
  <2>1. Len(attempt.rows) \in Nat
    BY <1>1 DEF Attempts
  <2> QED
    BY <1>15, <2>1, IdleTyped DEF Return
<1>16. CASE ReapSession \/ OtherTakesLock \/ OtherReleasesLock
  <2>1. ToSet(material.model) \subseteq Items
    BY <1>2 DEF ToSet
  <2> QED
    BY <1>2, <1>16, <2>1 DEF ReapSession, OtherTakesLock, OtherReleasesLock
<1>17. CASE Drift \/ UNCHANGED vars
  BY <1>17 DEF Drift, vars
<1> QED
  BY <1>3, <1>4, <1>5, <1>6, <1>7, <1>8, <1>10, <1>11, <1>12, <1>13, <1>14, <1>15, <1>16, <1>17 DEF Next

(* The ledger, what the attempt holds and what the node reports have their *)
(* types over all attempts: the ledger stays a sequence of rows, whatever  *)
(* plans replace each other (sync_plan, mark_completed, mark_failed).      *)
THEOREM TypeCorrect == Spec => []TypeOK
<1>1. StageInv /\ TypeOK /\ [Next]_vars => TypeOK'
  BY TypeStep
<1> QED
  BY <1>1, StageInit, StageStep, TypeInit, PTL DEF Spec

-----------------------------------------------------------------------------
(* From its plan on, an attempt, and then what it reported, agree with the *)
(* ledger; an empty plan leaves the ledger as it was.                      *)
Plan == PlanBatches(material.model)

PlanStands ==
  /\ material.deterministic \subseteq claims
  /\ Plan # <<>> =>
       /\ DOMAIN ledger = DOMAIN Plan
       /\ \A i \in DOMAIN Plan : ledger[i].items = Plan[i] /\ ledger[i].context = context

Reported == attempt.pc = "returned" /\ planned # Unknown

ReportHolds ==
  /\ attempt.pc = "stored" => material.deterministic \subseteq claims
  /\ Executing => PlanStands /\ Len(attempt.rows) = Len(Plan)
  /\ Reported => PlanStands /\ planned = Len(Plan)

LEMMA ReportInit == Init => ReportHolds
  BY DEF Init, ReportHolds, Executing, Reported, Idle

LEMMA PlanKept ==
  ASSUME PlanStands, UNCHANGED <<material, context>>, claims \subseteq claims',
         DOMAIN ledger' = DOMAIN ledger,
         \A i \in DOMAIN ledger : ledger'[i].items = ledger[i].items
                                   /\ ledger'[i].context = ledger[i].context
  PROVE  PlanStands'
<1>1. Plan' = Plan
  BY DEF Plan
<1> QED
  BY <1>1 DEF PlanStands

LEMMA ReportStep ==
  ASSUME TypeOK, StageInv, ReportHolds, [Next]_vars PROVE ReportHolds'
<1>1. /\ attempt = [pc |-> attempt.pc, rows |-> attempt.rows, at |-> attempt.at,
                    todo |-> attempt.todo, records |-> attempt.records]
      /\ attempt.rows \in Seq(Rows) /\ ledger \in Seq(Rows) /\ material.model \in Seq(Items)
      /\ context \in Contexts
  BY MaterialAssumption DEF StageInv, Shaped, TypeOK, Attempts
<1>2. UNCHANGED material => Plan' = Plan
  BY DEF Plan
<1>3. CASE Begin \/ RecordFailure \/ FailToRecord \/ Crash
  <2>1. attempt'.pc \in {"idle", "locked"} \/ (attempt'.pc = "returned" /\ planned' = Unknown)
    <3>1. CASE Begin
      BY <3>1 DEF Begin, Idle
    <3>2. CASE RecordFailure \/ FailToRecord \/ Crash
      BY <3>2 DEF RecordFailure, FailToRecord, Crash, Idle
    <3> QED
      BY <1>3, <3>1, <3>2
  <2> QED
    BY <2>1 DEF ReportHolds, Executing, Reported
<1>4. CASE StoreDeterministic
  <2>1. attempt'.pc = "stored" /\ material.deterministic \subseteq claims' /\ material' = material
    BY <1>1, <1>4 DEF StoreDeterministic
  <2> QED
    BY <2>1 DEF ReportHolds, Executing, Reported
<1>5. CASE SyncPlan
  <2> DEFINE rows == Synced(ledger, Plan, context)
  <2>1. /\ material.deterministic \subseteq claims /\ UNCHANGED <<material, context, claims>>
        /\ attempt'.pc = "next" /\ attempt'.rows = rows
        /\ Plan # <<>> => ledger' = rows
    BY <1>1, <1>5 DEF SyncPlan, ReportHolds, Plan
  <2>2. Plan \in Seq(Seq(Items))
    BY <1>1, PlanCovers DEF Plan
  <2>3. rows \in Seq(Rows)
    BY <1>1, <2>2, SyncedTyped
  <2>4. /\ DOMAIN rows = DOMAIN Plan
        /\ \A i \in DOMAIN Plan : rows[i].items = Plan[i] /\ rows[i].context = context
    BY DEF Synced, Pending
  <2> HIDE DEF rows
  <2>5. Len(rows) = Len(Plan)
    BY <2>2, <2>3, <2>4
  <2>6. Plan' = Plan
    BY <1>2, <2>1
  <2>7. PlanStands'
    BY <2>1, <2>4, <2>6 DEF PlanStands
  <2> QED
    BY <2>1, <2>5, <2>6, <2>7 DEF ReportHolds, Reported
<1>6. CASE StartBatch \/ CommitBatch
  <2> DEFINE at == attempt.at
  <2>1. /\ Executing /\ attempt'.rows = attempt.rows
        /\ attempt'.pc \in {"asking", "next"} /\ UNCHANGED <<material, context>>
        /\ claims \subseteq claims'
    BY <1>1, <1>6 DEF StartBatch, AtBatch, CommitBatch, Executing
  <2>2. \/ ledger' = MarkProcessing(ledger, at)
        \/ \E mark : ledger' = MarkWith(ledger, at, mark, attempt.records)
    BY <1>6 DEF StartBatch, CommitBatch, MarkCompleted
  <2>3. \A i \in DOMAIN ledger : RowShaped(ledger[i])
    BY DEF StageInv, Shaped
  <2> HIDE DEF at
  <2>4. /\ DOMAIN ledger' = DOMAIN ledger
        /\ \A i \in DOMAIN ledger : ledger'[i].items = ledger[i].items
                                     /\ ledger'[i].context = ledger[i].context
    <3>1. CASE ledger' = MarkProcessing(ledger, at)
      BY <2>3, <3>1 DEF MarkProcessing, RowShaped
    <3>2. CASE \E mark : ledger' = MarkWith(ledger, at, mark, attempt.records)
      <4>1. PICK mark : ledger' = MarkWith(ledger, at, mark, attempt.records)
        BY <3>2
      <4> QED
        BY <4>1 DEF MarkWith
    <3> QED
      BY <2>2, <3>1, <3>2
  <2>5. PlanStands'
    BY <2>1, <2>4, PlanKept DEF ReportHolds
  <2> QED
    BY <1>2, <2>1, <2>5 DEF ReportHolds, Reported
<1>7. CASE Return
  <2>1. /\ Executing /\ attempt'.pc = "returned" /\ planned' = Len(attempt.rows)
        /\ UNCHANGED <<material, context, claims, ledger>>
    BY <1>7 DEF Return, Executing, Idle
  <2>2. PlanStands'
    BY <2>1, PlanKept DEF ReportHolds
  <2> QED
    BY <1>2, <2>1, <2>2 DEF ReportHolds, Executing
<1>8. CASE SkipBatch \/ Answer \/ CommitPartial \/ LoseSession
  <2>1. /\ Executing /\ UNCHANGED <<material, context, ledger>> /\ claims \subseteq claims'
    BY <1>8 DEF SkipBatch, AtBatch, Answer, CommitPartial, LoseSession, Executing
  <2>2. attempt'.rows = attempt.rows /\ attempt'.pc \in {"next", "whole", "partial", "failing"}
    <3>1. CASE SkipBatch \/ CommitPartial
      BY <1>1, <3>1 DEF SkipBatch, AtBatch, CommitPartial
    <3>2. CASE Answer
      <4>1. \E pc \in {"whole", "partial"} : \E records :
              attempt' = [attempt EXCEPT !.pc = pc, !.records = records]
        BY <3>2 DEF Answer
      <4> QED
        BY <1>1, <4>1
    <3>3. CASE LoseSession
      <4>1. \E records : attempt' = [attempt EXCEPT !.pc = "failing", !.records = records]
        BY <3>3 DEF LoseSession
      <4> QED
        BY <1>1, <4>1
    <3> QED
      BY <1>8, <3>1, <3>2, <3>3
  <2>3. PlanStands'
    BY <2>1, PlanKept DEF ReportHolds
  <2> QED
    BY <1>2, <2>1, <2>2, <2>3 DEF ReportHolds, Reported
<1>9. CASE ReapSession \/ OtherTakesLock \/ OtherReleasesLock \/ UNCHANGED vars
  <2>1. UNCHANGED <<material, context, ledger, attempt, planned>> /\ claims \subseteq claims'
    BY <1>9 DEF ReapSession, OtherTakesLock, OtherReleasesLock, vars, budgets
  <2>2. PlanStands => PlanStands'
    BY <2>1, PlanKept
  <2> QED
    BY <1>2, <2>1, <2>2 DEF ReportHolds, Reported, Executing
<1>10. CASE Drift
  BY <1>10 DEF Drift, ReportHolds, Reported, Executing
<1> QED
  BY <1>3, <1>4, <1>5, <1>6, <1>7, <1>8, <1>9, <1>10 DEF Next

(***************************************************************************)
(* A stage that reported its plan and that the readiness guard finds       *)
(* complete has settled every item the comparison yields, by an answer on  *)
(* record in the context in force or by the regular expressions, whatever  *)
(* attempts, failures and plans came before (evaluate_readiness,           *)
(* plan_batches, sync_plan).                                               *)
(***************************************************************************)
THEOREM ReadyIsResolved == Spec => []ReportedReadyIsResolved
<1>1. ASSUME TypeOK, StageInv, ReportHolds, Ready, planned # Unknown,
             NEW item \in ToSet(material.model) \cup material.deterministic
      PROVE  Resolved(item)
  <2>1. PlanStands /\ planned = Len(Plan) /\ StageBlockers(ledger, planned, TRUE) = {}
    BY <1>1 DEF ReportHolds, Reported, Ready
  <2>2. ledger \in Seq(Rows) /\ material.model \in Seq(Items)
    BY <1>1, MaterialAssumption DEF TypeOK
  <2>3. CASE item \in material.deterministic
    BY <2>1, <2>3 DEF PlanStands, Resolved
  <2>4. CASE item \in ToSet(material.model)
    <3>1. Plan \in Seq(Seq(Items)) /\ \E b \in DOMAIN Plan : item \in ToSet(Plan[b])
      BY <2>2, <2>4, PlanCovers DEF Plan
    <3>2. PICK b \in DOMAIN Plan : item \in ToSet(Plan[b])
      BY <3>1
    <3>3. Plan # <<>>
      BY <3>2
    <3>4. b \in DOMAIN ledger /\ ledger[b].items = Plan[b] /\ ledger[b].context = context
      BY <2>1, <3>2, <3>3 DEF PlanStands
    <3>5. ledger[b].status = "completed"
      <4>1. ledger # <<>>
        BY <3>4
      <4>2. CompletedRows(ledger) = DOMAIN ledger
        BY <2>1, <4>1 DEF StageBlockers
      <4> QED
        BY <3>4, <4>2 DEF CompletedRows
    <3>6. ToSet(ledger[b].items) \subseteq DOMAIN ledger[b].results
      BY <1>1, <3>4, <3>5 DEF StageInv, CompletedIsComplete
    <3> HIDE DEF ToSet
    <3> QED
      BY <3>2, <3>4, <3>6 DEF Resolved
  <2> QED
    BY <2>3, <2>4
<1>2. TypeOK /\ StageInv /\ ReportHolds => ReportedReadyIsResolved
  BY <1>1 DEF ReportedReadyIsResolved, AllResolved
<1>3. TypeOK /\ StageInv /\ ReportHolds /\ [Next]_vars => ReportHolds'
  BY ReportStep
<1> QED
  BY <1>2, <1>3, ReportInit, TypeCorrect, StageInit, StageStep, PTL DEF Spec

=============================================================================
