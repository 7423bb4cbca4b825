-------------------------- MODULE ComparisonProofs --------------------------
(***************************************************************************)
(* Proofs about the comparison of two filings, for any layouts, texts,     *)
(* ledgers, parses, crashes and changes of configuration.                  *)
(*                                                                         *)
(* The first part proves what the recursive functions compute.  Induction  *)
(* takes the form the provers can use: a set of naturals that holds 0, and *)
(* i + 1 with each i, holds them all.                                      *)
(***************************************************************************)
EXTENDS ComparisonPipeline, FiniteSetTheorems, SequenceTheorems, WellFoundedInduction, TLAPS

LEMMA LeastNatural ==
  ASSUME NEW S, S \subseteq Nat, S # {}
  PROVE  \E n \in S : \A m \in S : n <= m
<1> DEFINE Less == OpToRel(<, Nat)
<1>1. IsWellFoundedOn(Less, Nat)
  BY NatLessThanWellFounded
<1>2. ASSUME NEW x \in Nat, NEW y \in Nat, x < y PROVE <<x, y>> \in Less
  BY <1>2 DEF OpToRel
<1> HIDE DEF Less
<1>3. PICK n \in S : \A m \in S : ~ (<<m, n>> \in Less)
  BY <1>1, WFMin
<1>4. ASSUME NEW m \in S PROVE n <= m
  <2>1. m \in Nat /\ n \in Nat /\ ~ (<<m, n>> \in Less)
    BY <1>3
  <2>2. ~ (m < n)
    BY <2>1, <1>2
  <2> QED
    BY <2>1, <2>2
<1> QED
  BY <1>3, <1>4

LEMMA UpTo ==
  ASSUME NEW n \in Nat, NEW S, 0 \in S, \A i \in 0..n - 1 : i \in S => i + 1 \in S
  PROVE  0..n \subseteq S
<1> SUFFICES ASSUME (0..n) \ S # {} PROVE FALSE
  OBVIOUS
<1>1. PICK k \in (0..n) \ S : \A m \in (0..n) \ S : k <= m
  <2>1. (0..n) \ S \subseteq Nat
    OBVIOUS
  <2> QED
    BY <2>1, LeastNatural
<1>2. k # 0 /\ k - 1 \in 0..n - 1
  BY <1>1
<1>3. k - 1 \in S
  BY <1>1, <1>2
<1>4. (k - 1) + 1 \in S
  BY <1>2, <1>3
<1> QED
  BY <1>1, <1>4

(* A function that a recursion over a sequence's places defines exists.    *)
Steps(n, T) == [T \X (1..n) -> T]
Follows(f, n, T, e, step) ==
  /\ f \in [0..n -> T] /\ f[0] = e
  /\ \A i \in 1..n : f[i] = step[<<f[i - 1], i>>]

LEMMA FoldExists ==
  ASSUME NEW n \in Nat, NEW T, NEW e \in T, NEW step \in Steps(n, T)
  PROVE  \E f : Follows(f, n, T, e, step)
<1> USE DEF Steps, Follows
<1> DEFINE Goes(m, f) == f[0] = e /\ \A i \in 1..m : f[i] = step[<<f[i - 1], i>>]
           S == {m \in 0..n : \E f \in [0..m -> T] : Goes(m, f)}
<1>1. 0 \in S
  <2> DEFINE f == [i \in 0..0 |-> e]
  <2>1. f \in [0..0 -> T] /\ Goes(0, f)
    OBVIOUS
  <2>2. 0 \in 0..n
    OBVIOUS
  <2> HIDE DEF f
  <2> QED
    BY <2>1, <2>2
<1>2. ASSUME NEW i \in 0..n - 1, i \in S PROVE i + 1 \in S
  <2>1. PICK f \in [0..i -> T] : Goes(i, f)
    BY <1>2
  <2> DEFINE g == [k \in 0..i + 1 |-> IF k = i + 1 THEN step[<<f[i], i + 1>>] ELSE f[k]]
  <2>2. i + 1 \in 1..n /\ f[i] \in T /\ i \in 0..i
    OBVIOUS
  <2>3. step[<<f[i], i + 1>>] \in T
    BY <2>2
  <2>4. g \in [0..i + 1 -> T]
    BY <2>3
  <2>5. g[0] = e
    BY <2>1
  <2>6. ASSUME NEW k \in 1..i + 1 PROVE g[k] = step[<<g[k - 1], k>>]
    <3>1. CASE k = i + 1
      <4>1. i \in 0..i + 1 /\ i # i + 1 /\ k - 1 = i
        BY <3>1
      <4>2. g[k] = step[<<f[i], i + 1>>] /\ g[k - 1] = f[i]
        BY <3>1, <4>1
      <4> QED
        BY <3>1, <4>2
    <3>2. CASE k # i + 1
      <4>1. k \in 1..i /\ k - 1 \in 0..i /\ k - 1 # i + 1
        BY <3>2
      <4>2. g[k] = f[k] /\ g[k - 1] = f[k - 1]
        BY <4>1
      <4> QED
        BY <2>1, <4>1, <4>2
    <3> QED
      BY <3>1, <3>2
  <2>7. Goes(i + 1, g)
    BY <2>5, <2>6
  <2>8. i + 1 \in 0..n
    OBVIOUS
  <2> HIDE DEF g
  <2> QED
    BY <2>4, <2>7, <2>8
<1>3. n \in S
  <2> HIDE DEF S
  <2> QED
    BY <1>1, <1>2, UpTo
<1> QED
  BY <1>3

(* The elements of a longer sequence.                                      *)
LEMMA ToSetAppend ==
  ASSUME NEW A, NEW s \in Seq(A), NEW x \in A
  PROVE  Append(s, x) \in Seq(A) /\ ToSet(Append(s, x)) = ToSet(s) \cup {x}
<1>1. /\ Append(s, x) \in Seq(A) /\ DOMAIN Append(s, x) = 1..Len(s) + 1
      /\ \A i \in 1..Len(s) : Append(s, x)[i] = s[i]
      /\ Append(s, x)[Len(s) + 1] = x
  BY AppendProperties
<1>2. DOMAIN s = 1..Len(s) /\ Len(s) \in Nat
  OBVIOUS
<1>3. DOMAIN Append(s, x) = DOMAIN s \cup {Len(s) + 1}
  BY <1>1, <1>2
<1> HIDE DEF ToSet
<1>4. \A y : y \in ToSet(Append(s, x)) <=> y \in ToSet(s) \cup {x}
  BY <1>1, <1>2, <1>3 DEF ToSet
<1> QED
  BY <1>1, <1>4

LEMMA ThoseAre ==
  ASSUME NEW A, NEW s \in Seq(A), NEW set
  PROVE  Those(s, set) \in Seq(A) /\ ToSet(Those(s, set)) = ToSet(s) \cap set
<1> DEFINE n == Len(s)
           keep(k, i) == IF s[i] \in set THEN Append(k, s[i]) ELSE k
           step == [x \in Seq(A) \X (1..n) |-> keep(x[1], x[2])]
           Kept(f) == f = [i \in 0..n |-> IF i = 0 THEN <<>> ELSE keep(f[i - 1], i)]
           kept == CHOOSE f : Kept(f)
<1>1. n \in Nat /\ <<>> \in Seq(A) /\ \A i \in 1..n : s[i] \in A
  OBVIOUS
<1>2. {s[k] : k \in 1..n} = ToSet(s)
  BY DEF ToSet
<1>3. Those(s, set) = kept[n]
  BY DEF Those
<1> HIDE DEF n
<1>4. step \in Steps(n, Seq(A))
  BY <1>1, ToSetAppend DEF Steps
<1>5. \A k \in Seq(A), i \in 1..n : step[<<k, i>>] = keep(k, i)
  OBVIOUS
<1> HIDE DEF step, keep
<1>6. PICK f : Follows(f, n, Seq(A), <<>>, step)
  BY <1>1, <1>4, FoldExists
<1>7. \A i \in 1..n : i - 1 \in 0..n /\ f[i] = keep(f[i - 1], i)
  <2>1. \A i \in 1..n : i - 1 \in 0..n
    BY <1>1
  <2> QED
    BY <2>1, <1>5, <1>6 DEF Follows
<1>8. Kept(f)
  BY <1>1, <1>6, <1>7 DEF Follows
<1>9. Kept(kept)
  BY <1>8
<1> HIDE DEF kept
<1>10. kept[0] = <<>> /\ \A i \in 1..n : kept[i] = keep(kept[i - 1], i)
  BY <1>1, <1>9
<1> DEFINE S == {i \in 0..n : /\ kept[i] \in Seq(A)
                             /\ ToSet(kept[i]) = {s[k] : k \in 1..i} \cap set}
<1>11. 0 \in S
  <2>1. ToSet(<<>>) = {} /\ {s[k] : k \in 1..0} = {}
    BY DEF ToSet
  <2>2. 0 \in 0..n
    BY <1>1
  <2> QED
    BY <1>1, <1>10, <2>1, <2>2
<1>12. ASSUME NEW i \in 0..n - 1, i \in S PROVE i + 1 \in S
  <2>1. i + 1 \in 1..n /\ (i + 1) - 1 = i /\ s[i + 1] \in A
    BY <1>1
  <2>2. kept[i + 1] = keep(kept[i], i + 1)
    BY <1>10, <2>1
  <2>3. {s[k] : k \in 1..i + 1} = {s[k] : k \in 1..i} \cup {s[i + 1]}
    BY <2>1
  <2>4. kept[i] \in Seq(A) /\ ToSet(kept[i]) = {s[k] : k \in 1..i} \cap set
    BY <1>12
  <2>5. kept[i + 1] \in Seq(A) /\ ToSet(kept[i + 1]) = {s[k] : k \in 1..i + 1} \cap set
    <3>1. CASE s[i + 1] \in set
      BY <2>1, <2>2, <2>3, <2>4, <3>1, ToSetAppend DEF keep
    <3>2. CASE s[i + 1] \notin set
      BY <2>2, <2>3, <2>4, <3>2 DEF keep
    <3> QED
      BY <3>1, <3>2
  <2> QED
    BY <2>1, <2>5
<1>13. n \in S
  <2>1. 0..n \subseteq S
    <3> HIDE DEF S
    <3> QED
      BY <1>1, <1>11, <1>12, UpTo
  <2>2. n \in 0..n
    BY <1>1
  <2> QED
    BY <2>1, <2>2
<1> QED
  BY <1>2, <1>3, <1>13

LEMMA ToSetConcat ==
  ASSUME NEW A, NEW s \in Seq(A), NEW t \in Seq(A)
  PROVE  s \o t \in Seq(A) /\ ToSet(s \o t) = ToSet(s) \cup ToSet(t)
<1>1. /\ s \o t \in Seq(A) /\ DOMAIN (s \o t) = 1..Len(s) + Len(t)
      /\ \A i \in 1..Len(s) + Len(t) :
           (s \o t)[i] = IF i <= Len(s) THEN s[i] ELSE t[i - Len(s)]
  BY ConcatProperties
<1>2. /\ DOMAIN s = 1..Len(s) /\ Len(s) \in Nat
      /\ DOMAIN t = 1..Len(t) /\ Len(t) \in Nat
  OBVIOUS
<1>3. ASSUME NEW i \in DOMAIN s PROVE s[i] \in ToSet(s \o t)
  BY <1>1, <1>2 DEF ToSet
<1>4. ASSUME NEW i \in DOMAIN t PROVE t[i] \in ToSet(s \o t)
  <2>1. i + Len(s) \in 1..Len(s) + Len(t) /\ ~ (i + Len(s) <= Len(s))
    BY <1>2
  <2>2. (s \o t)[i + Len(s)] = t[(i + Len(s)) - Len(s)] /\ (i + Len(s)) - Len(s) = i
    BY <1>1, <1>2, <2>1
  <2> QED
    BY <1>1, <2>1, <2>2 DEF ToSet
<1>5. ASSUME NEW i \in 1..Len(s) + Len(t) PROVE (s \o t)[i] \in ToSet(s) \cup ToSet(t)
  <2>1. CASE i <= Len(s)
    BY <1>1, <1>2, <2>1 DEF ToSet
  <2>2. CASE ~ (i <= Len(s))
    <3>1. i - Len(s) \in DOMAIN t
      BY <1>2, <2>2
    <3> QED
      BY <1>1, <2>2, <3>1 DEF ToSet
  <2> QED
    BY <2>1, <2>2
<1>6. /\ \A y \in ToSet(s \o t) : y \in ToSet(s) \cup ToSet(t)
      /\ \A y \in ToSet(s) : y \in ToSet(s \o t)
      /\ \A y \in ToSet(t) : y \in ToSet(s \o t)
  BY <1>1, <1>3, <1>4, <1>5 DEF ToSet
<1> HIDE DEF ToSet
<1> QED
  BY <1>1, <1>6

LEMMA FlattenDef ==
  ASSUME NEW A, NEW seqs \in Seq(Seq(A)), seqs # <<>>
  PROVE  \E f : /\ FlattenSeq(seqs) = f[Len(seqs)]
               /\ \A i \in 1..Len(seqs) :
                    f[i] = IF i = 1 THEN seqs[i] ELSE f[i - 1] \o seqs[i]
<1> DEFINE n == Len(seqs)
           step == [x \in Seq(A) \X (1..n) |-> x[1] \o seqs[x[2]]]
           Flat(f) == f = [i \in 1..n |-> IF i = 1 THEN seqs[i] ELSE f[i - 1] \o seqs[i]]
           flat == CHOOSE f : Flat(f)
<1>1. n \in Nat \ {0} /\ <<>> \in Seq(A) /\ (\A i \in 1..n : seqs[i] \in Seq(A))
  OBVIOUS
<1>2. FlattenSeq(seqs) = flat[n]
  BY <1>1 DEF FlattenSeq
<1> HIDE DEF n
<1>3. step \in Steps(n, Seq(A))
  BY <1>1, ToSetConcat DEF Steps
<1>4. \A s \in Seq(A), i \in 1..n : step[<<s, i>>] = s \o seqs[i]
  OBVIOUS
<1> HIDE DEF step
<1>5. PICK f : Follows(f, n, Seq(A), <<>>, step)
  BY <1>1, <1>3, FoldExists
<1>6. \A i \in 1..n : i - 1 \in 0..n /\ f[i] = f[i - 1] \o seqs[i]
  <2>1. \A i \in 1..n : i - 1 \in 0..n
    BY <1>1
  <2> QED
    BY <2>1, <1>4, <1>5 DEF Follows
<1> DEFINE g == [i \in 1..n |-> f[i]]
<1>7. ASSUME NEW i \in 1..n
      PROVE  g[i] = IF i = 1 THEN seqs[i] ELSE g[i - 1] \o seqs[i]
  <2>1. CASE i = 1
    <3>1. f[i] = <<>> \o seqs[i]
      <4>1. i - 1 = 0 /\ f[0] = <<>>
        BY <1>5, <2>1 DEF Follows
      <4> QED
        BY <1>6, <4>1
    <3> QED
      BY <1>1, <2>1, <3>1, ConcatEmptySeq
  <2>2. CASE i # 1
    <3>1. i - 1 \in 1..n
      BY <1>1, <2>2
    <3> QED
      BY <1>6, <2>2, <3>1
  <2> QED
    BY <2>1, <2>2
<1>8. Flat(g)
  BY <1>7
<1>9. Flat(flat)
  BY <1>8
<1> HIDE DEF flat
<1>10. \A i \in 1..n : flat[i] = IF i = 1 THEN seqs[i] ELSE flat[i - 1] \o seqs[i]
  BY <1>9
<1> QED
  BY <1>2, <1>10 DEF n

LEMMA FlattenIs ==
  ASSUME NEW A, NEW seqs \in Seq(Seq(A))
  PROVE  /\ FlattenSeq(seqs) \in Seq(A)
         /\ ToSet(FlattenSeq(seqs)) = UNION {ToSet(seqs[i]) : i \in DOMAIN seqs}
<1> DEFINE n == Len(seqs)
<1>1. n \in Nat /\ <<>> \in Seq(A) /\ (\A i \in 1..n : seqs[i] \in Seq(A)) /\ DOMAIN seqs = 1..n
  OBVIOUS
<1>2. CASE n = 0
  <2>1. seqs = <<>> /\ DOMAIN seqs = {} /\ FlattenSeq(seqs) = seqs
    BY <1>2 DEF FlattenSeq
  <2>2. <<>> \in Seq(A) /\ ToSet(<<>>) = {}
    BY DEF ToSet
  <2>3. {ToSet(seqs[i]) : i \in DOMAIN seqs} = {}
    BY <2>1
  <2> QED
    BY <2>1, <2>2, <2>3
<1>3. CASE n # 0
  <2>1. PICK flat : /\ FlattenSeq(seqs) = flat[n]
                    /\ \A i \in 1..n :
                         flat[i] = IF i = 1 THEN seqs[i] ELSE flat[i - 1] \o seqs[i]
    <3>1. seqs # <<>>
      BY <1>3
    <3> QED
      BY <3>1, FlattenDef
  <2> HIDE DEF n
  <2> DEFINE S == {i \in 0..n : i > 0 => /\ flat[i] \in Seq(A)
                                         /\ ToSet(flat[i]) = UNION {ToSet(seqs[k]) : k \in 1..i}}
  <2>10. 0 \in S
    BY <1>1
  <2>11. ASSUME NEW i \in 0..n - 1, i \in S PROVE i + 1 \in S
    <3>1. i + 1 \in 1..n /\ (i + 1) - 1 = i /\ seqs[i + 1] \in Seq(A)
      BY <1>1
    <3>2. UNION {ToSet(seqs[k]) : k \in 1..i + 1}
            = (UNION {ToSet(seqs[k]) : k \in 1..i}) \cup ToSet(seqs[i + 1])
      <4>1. 1..i + 1 = (1..i) \cup {i + 1}
        BY <3>1
      <4> HIDE DEF ToSet
      <4> QED
        BY <4>1
    <3>3. CASE i = 0
      <4>1. flat[i + 1] = seqs[i + 1] /\ 1..i = {}
        BY <2>1, <3>1, <3>3
      <4>2. flat[i + 1] \in Seq(A) /\ ToSet(flat[i + 1]) = UNION {ToSet(seqs[k]) : k \in 1..i + 1}
        BY <3>1, <3>2, <4>1
      <4> QED
        BY <3>1, <4>2
    <3>4. CASE i # 0
      <4>1. flat[i + 1] = flat[i] \o seqs[i + 1]
        <5>1. i + 1 # 1
          BY <1>1, <3>4
        <5>2. flat[i + 1] = flat[(i + 1) - 1] \o seqs[i + 1]
          BY <2>1, <3>1, <5>1
        <5> QED
          BY <3>1, <5>2
      <4>2. flat[i] \in Seq(A) /\ ToSet(flat[i]) = UNION {ToSet(seqs[k]) : k \in 1..i}
        BY <2>11, <3>4, <3>1
      <4>3. /\ flat[i + 1] \in Seq(A)
            /\ ToSet(flat[i + 1]) = ToSet(flat[i]) \cup ToSet(seqs[i + 1])
        BY <3>1, <4>1, <4>2, ToSetConcat
      <4>4. flat[i + 1] \in Seq(A) /\ ToSet(flat[i + 1]) = UNION {ToSet(seqs[k]) : k \in 1..i + 1}
        BY <3>2, <4>2, <4>3
      <4> QED
        BY <3>1, <4>4
    <3> QED
      BY <3>3, <3>4
  <2>12. n \in S
    <3>1. 0..n \subseteq S
      <4> HIDE DEF S
      <4> QED
        BY <1>1, <2>10, <2>11, UpTo
    <3>2. n \in 0..n
      BY <1>1
    <3> QED
      BY <3>1, <3>2
  <2> QED
    BY <1>1, <1>3, <2>1, <2>12
<1> QED
  BY <1>2, <1>3

-----------------------------------------------------------------------------
(* The planner of batches.                                                 *)

LEMMA CostIsNat ==
  ASSUME NEW item \in Items
  PROVE  Cost(item) \in Nat
  BY BatchingAssumption DEF Cost

(* The packings of the first i items, for each i.                          *)
Packings == [groups: Seq(Seq(Items)), current: Seq(Items), tokens: Nat]
Packed(f, items) ==
  /\ f[0] = NewPacking
  /\ \A i \in 0..Len(items) : f[i] \in Packings
  /\ \A i \in 1..Len(items) : f[i] = Place(f[i - 1], items[i])

LEMMA PlaceTypes ==
  ASSUME NEW p \in Packings, NEW item \in Items
  PROVE  Place(p, item) \in Packings
<1>1. /\ p.groups \in Seq(Seq(Items)) /\ p.current \in Seq(Items) /\ p.tokens \in Nat
      /\ p = [groups |-> p.groups, current |-> p.current, tokens |-> p.tokens]
  BY DEF Packings
<1>2. /\ Append(p.groups, p.current) \in Seq(Seq(Items))
      /\ Append(p.current, item) \in Seq(Items) /\ <<item>> \in Seq(Items)
  BY <1>1
<1>3. FixedOverhead + Cost(item) \in Nat /\ p.tokens + Cost(item) \in Nat
  BY <1>1, CostIsNat, BatchingAssumption
<1>4. CASE Full(p, item)
  BY <1>2, <1>3, <1>4 DEF Place, Packings
<1>5. CASE ~Full(p, item)
  <2>1. Place(p, item) = [groups |-> p.groups, current |-> Append(p.current, item),
                          tokens |-> p.tokens + Cost(item)]
    BY <1>1, <1>5 DEF Place
  <2> QED
    BY <1>1, <1>2, <1>3, <2>1 DEF Packings
<1> QED
  BY <1>4, <1>5

LEMMA PackedExists ==
  ASSUME NEW items \in Seq(Items)
  PROVE  \E f : Packed(f, items) /\ PlanBatches(items) = Closed(f[Len(items)])
<1> DEFINE n == Len(items)
           step == [x \in Packings \X (1..n) |-> Place(x[1], items[x[2]])]
           Packs(f) == f = [i \in 0..n |-> IF i = 0 THEN NewPacking
                                                    ELSE Place(f[i - 1], items[i])]
           packed == CHOOSE f : Packs(f)
<1>1. n \in Nat /\ NewPacking \in Packings /\ \A i \in 1..n : items[i] \in Items
  BY BatchingAssumption DEF NewPacking, Packings
<1>2. PlanBatches(items) = Closed(packed[n])
  BY DEF PlanBatches
<1> HIDE DEF n
<1>3. step \in Steps(n, Packings)
  BY <1>1, PlaceTypes DEF Steps
<1>4. \A p \in Packings, i \in 1..n : step[<<p, i>>] = Place(p, items[i])
  OBVIOUS
<1> HIDE DEF step
<1>5. PICK f : Follows(f, n, Packings, NewPacking, step)
  BY <1>1, <1>3, FoldExists
<1>6. \A i \in 1..n : i - 1 \in 0..n
  BY <1>1
<1>7. /\ \A i \in 0..n : f[i] \in Packings
      /\ f[0] = NewPacking
      /\ \A i \in 1..n : f[i] = Place(f[i - 1], items[i])
      /\ f = [i \in 0..n |-> f[i]]
  BY <1>4, <1>5, <1>6 DEF Follows
<1>8. Packs(f)
  <2>1. \A i \in 0..n : f[i] = IF i = 0 THEN NewPacking ELSE Place(f[i - 1], items[i])
    <3>1. \A i \in 0..n : i # 0 => i \in 1..n
      BY <1>1
    <3> QED
      BY <1>7, <3>1
  <2> QED
    BY <1>7, <2>1
<1>9. Packs(packed)
  BY <1>8
<1> HIDE DEF packed
<1>10. packed[0] = NewPacking /\ \A i \in 1..n : packed[i] = Place(packed[i - 1], items[i])
  BY <1>1, <1>9
<1> DEFINE S == {i \in 0..n : packed[i] = f[i]}
<1>11. 0 \in S
  BY <1>1, <1>7, <1>10
<1>12. ASSUME NEW i \in 0..n - 1, i \in S PROVE i + 1 \in S
  <2>1. i + 1 \in 1..n /\ (i + 1) - 1 = i
    BY <1>1
  <2>2. /\ f[i + 1] = Place(f[(i + 1) - 1], items[i + 1])
        /\ packed[i + 1] = Place(packed[(i + 1) - 1], items[i + 1])
    BY <1>7, <1>10, <2>1
  <2> QED
    BY <1>12, <2>1, <2>2
<1>13. 0..n \subseteq S
  <2> HIDE DEF S
  <2> QED
    BY <1>1, <1>11, <1>12, UpTo
<1>14. n \in 0..n
  BY <1>1
<1> QED
  BY <1>2, <1>7, <1>13, <1>14 DEF Packed, n

Whole(p) == FlattenSeq(p.groups) \o p.current
Good(p) ==
  /\ \A i \in DOMAIN p.groups : Allowed(p.groups[i])
  /\ p.current # <<>> => Allowed(p.current)
  /\ p.tokens = RequestTokens(p.current)

(* The items in the batches, and the items a packing holds.                *)
InBatches(groups) == UNION {ToSet(groups[b]) : b \in DOMAIN groups}
Held(p) == ToSet(p.current) \cup InBatches(p.groups)

LEMMA AppendHolds ==
  ASSUME NEW groups \in Seq(Seq(Items)), NEW batch \in Seq(Items)
  PROVE  InBatches(Append(groups, batch)) = InBatches(groups) \cup ToSet(batch)
<1> DEFINE all == Append(groups, batch)
<1>1. /\ DOMAIN all = 1..Len(groups) + 1
      /\ \A b \in 1..Len(groups) : all[b] = groups[b]
      /\ all[Len(groups) + 1] = batch
  BY AppendProperties
<1>2. DOMAIN groups = 1..Len(groups) /\ Len(groups) \in Nat
  OBVIOUS
<1> HIDE DEF all, ToSet
<1>3. \A b \in DOMAIN all : b \in DOMAIN groups \/ b = Len(groups) + 1
  BY <1>1, <1>2
<1>4. DOMAIN groups \subseteq DOMAIN all /\ Len(groups) + 1 \in DOMAIN all
  BY <1>1, <1>2
<1>5. \A b \in DOMAIN groups : all[b] = groups[b]
  BY <1>1, <1>2
<1>6. (UNION {ToSet(all[b]) : b \in DOMAIN all})
        = (UNION {ToSet(groups[b]) : b \in DOMAIN groups}) \cup ToSet(batch)
  BY <1>1, <1>3, <1>4, <1>5
<1> QED
  BY <1>6 DEF all, InBatches

LEMMA PlaceHolds ==
  ASSUME NEW p \in Packings, NEW item \in Items
  PROVE  Held(Place(p, item)) = Held(p) \cup {item}
<1>1. /\ p.groups \in Seq(Seq(Items)) /\ p.current \in Seq(Items)
      /\ p = [groups |-> p.groups, current |-> p.current, tokens |-> p.tokens]
  BY DEF Packings
<1>2. CASE Full(p, item)
  <2>1. Place(p, item).groups = Append(p.groups, p.current) /\ Place(p, item).current = <<item>>
    BY <1>2 DEF Place
  <2>2. ToSet(<<item>>) = {item}
    BY DEF ToSet
  <2>3. InBatches(Append(p.groups, p.current)) = InBatches(p.groups) \cup ToSet(p.current)
    BY <1>1, AppendHolds
  <2> HIDE DEF ToSet, InBatches
  <2> QED
    BY <2>1, <2>2, <2>3 DEF Held
<1>3. CASE ~Full(p, item)
  <2>1. Place(p, item).groups = p.groups /\ Place(p, item).current = Append(p.current, item)
    BY <1>1, <1>3 DEF Place
  <2>2. ToSet(Append(p.current, item)) = ToSet(p.current) \cup {item}
    BY <1>1, ToSetAppend
  <2> HIDE DEF ToSet, InBatches
  <2> QED
    BY <2>1, <2>2 DEF Held
<1> QED
  BY <1>2, <1>3

LEMMA ClosedHolds ==
  ASSUME NEW p \in Packings
  PROVE  /\ Closed(p) \in Seq(Seq(Items))
         /\ InBatches(Closed(p)) = Held(p)
<1>1. p.groups \in Seq(Seq(Items)) /\ p.current \in Seq(Items)
  BY DEF Packings
<1>2. CASE p.current = <<>>
  <2>1. ToSet(p.current) = {} /\ Closed(p) = p.groups
    BY <1>2 DEF ToSet, Closed
  <2> HIDE DEF ToSet
  <2> QED
    BY <1>1, <2>1 DEF Held
<1>3. CASE p.current # <<>>
  <2>1. Closed(p) = Append(p.groups, p.current)
    BY <1>3 DEF Closed
  <2>2. InBatches(Append(p.groups, p.current)) = InBatches(p.groups) \cup ToSet(p.current)
    BY <1>1, AppendHolds
  <2>3. Append(p.groups, p.current) \in Seq(Seq(Items))
    BY <1>1, AppendProperties
  <2> HIDE DEF ToSet, InBatches
  <2> QED
    BY <2>1, <2>2, <2>3 DEF Held
<1> QED
  BY <1>2, <1>3

(* The items of a plan's batches are those planned.                        *)
LEMMA PlanCovers ==
  ASSUME NEW items \in Seq(Items)
  PROVE  /\ PlanBatches(items) \in Seq(Seq(Items))
         /\ UNION {ToSet(PlanBatches(items)[i]) : i \in DOMAIN PlanBatches(items)} = ToSet(items)
<1> DEFINE n == Len(items)
<1>1. PICK f : Packed(f, items) /\ PlanBatches(items) = Closed(f[n])
  BY PackedExists
<1>2. n \in Nat /\ \A i \in 1..n : items[i] \in Items
  OBVIOUS
<1>3. ToSet(items) = {items[k] : k \in 1..n}
  BY DEF ToSet
<1> HIDE DEF n
<1> DEFINE S == {i \in 0..n : Held(f[i]) = {items[k] : k \in 1..i}}
<1>4. /\ \A i \in 0..n : f[i] \in Packings
      /\ f[0] = NewPacking
      /\ \A i \in 1..n : f[i] = Place(f[i - 1], items[i])
  BY <1>1 DEF Packed, n
<1>5. 0 \in S
  <2>1. Held(NewPacking) = {}
    BY DEF Held, InBatches, NewPacking, ToSet
  <2> QED
    BY <1>2, <1>4, <2>1
<1>6. ASSUME NEW i \in 0..n - 1, i \in S PROVE i + 1 \in S
  <2>1. i + 1 \in 1..n /\ (i + 1) - 1 = i /\ i + 1 \in 0..n /\ i \in 0..n
    BY <1>2
  <2>2. f[i + 1] = Place(f[i], items[i + 1])
    <3>1. f[i + 1] = Place(f[(i + 1) - 1], items[i + 1])
      BY <1>4, <2>1
    <3> QED
      BY <2>1, <3>1
  <2>3. Held(f[i + 1]) = Held(f[i]) \cup {items[i + 1]}
    BY <1>2, <1>4, <2>1, <2>2, PlaceHolds
  <2>4. Held(f[i]) = {items[k] : k \in 1..i}
    BY <1>6
  <2>5. \A k : k \in 1..i + 1 <=> k \in 1..i \/ k = i + 1
    BY <2>1
  <2>6. {items[k] : k \in 1..i + 1} = {items[k] : k \in 1..i} \cup {items[i + 1]}
    BY <2>5
  <2> HIDE DEF Held
  <2> QED
    BY <2>1, <2>3, <2>4, <2>6
<1>7. n \in S
  <2>1. 0..n \subseteq S
    <3> HIDE DEF S
    <3> QED
      BY <1>2, <1>5, <1>6, UpTo
  <2>2. n \in 0..n
    BY <1>2
  <2> HIDE DEF S
  <2> QED
    BY <2>1, <2>2
<1>8. f[n] \in Packings /\ Held(f[n]) = {items[k] : k \in 1..n}
  BY <1>2, <1>4, <1>7
<1>9. PlanBatches(items) \in Seq(Seq(Items)) /\ InBatches(PlanBatches(items)) = ToSet(items)
  <2> HIDE DEF ToSet, Held, InBatches
  <2> QED
    BY <1>1, <1>3, <1>8, ClosedHolds
<1> QED
  BY <1>9 DEF InBatches

-----------------------------------------------------------------------------
(* The invariant of the pipeline, by the phases of an attempt.             *)

Loaded    == {"loaded", "aligning", "matched", "prepared", "stored", "next", "asking", "whole",
              "partial"}
Settled   == Loaded \ {"loaded", "aligning"}
Prepared  == Settled \ {"matched"}
Planned   == {"next", "asking", "whole", "partial"}
InBatch   == {"asking", "whole", "partial", "failing"}
Executing == Planned \cup InBatch

Fields == {"pc", "ledgered", "seen", "known", "prior", "pairs", "items", "rows", "at", "todo",
           "records"}
RowShaped(r) == r = [items |-> r.items, context |-> r.context,
                     status |-> r.status, results |-> r.results]
RowsShaped(rows) == \A i \in DOMAIN rows : RowShaped(rows[i])

Shaped ==
  /\ parse \in Parses /\ settings \in SettingSets /\ context \in Contexts
  /\ comparison = [status |-> comparison.status, marker |-> comparison.marker]
  /\ comparison.marker = [print |-> comparison.marker.print, sections |-> comparison.marker.sections,
                          pairs |-> comparison.marker.pairs]
  /\ RowsShaped(ledger)
  /\ DOMAIN attempt = Fields
  /\ attempt.at \in Nat \ {0}
  /\ RowsShaped(attempt.rows)

(* The pairs of the first sections of a layout.                            *)
PairsAt(print, i) == ToSet(Layout[print][i].pairs)
PairsBefore(print, at) == UNION {PairsAt(print, i) : i \in {j \in DOMAIN Layout[print] : j < at}}

(* The marker, while there is one, tells what its fingerprint gives.       *)
MarkerHolds ==
  LET print == comparison.marker.print IN
  print # None =>
    /\ print \in Prints /\ print.parse <= parse
    /\ comparison.marker.sections = Len(Layout[print])
    /\ matched \subseteq NamesOf[print] /\ aligned \subseteq PairsOf[print]
    /\ matched = NamesOf[print] => comparison.marker.pairs = Cardinality(PairsOf[print])

AlignedLive == matched \subseteq LiveNames[parse] /\ aligned \subseteq LivePairs[parse]

(* What an attempt has matched so far; all of it, when no parse came since. *)
AttemptMatches ==
  /\ attempt.pc \in {"started", "loaded"} => attempt.pairs = {} /\ attempt.at = 1
  /\ attempt.pc \in Loaded =>
       /\ attempt.seen \in Prints /\ attempt.seen.parse <= parse
       /\ attempt.seen.settings = settings
       /\ comparison.marker.print # None => comparison.marker.print.parse <= attempt.seen.parse
  /\ attempt.pc = "aligning" =>
       /\ comparison.marker = Unmarked
       /\ attempt.at \in 1..Len(Layout[attempt.seen]) + 1
       /\ attempt.pairs \subseteq PairsBefore(attempt.seen, attempt.at)
       /\ matched = NamesOf[attempt.seen] =>
            attempt.pairs = PairsBefore(attempt.seen, attempt.at)
  /\ attempt.pc \in Settled =>
       /\ comparison.marker = Marker
       /\ attempt.pairs \subseteq PairsOf[attempt.seen]
       /\ matched = NamesOf[attempt.seen] => attempt.pairs = PairsOf[attempt.seen]
  /\ attempt.pc \in Settled \cup {"aligning"} =>
       /\ matched \subseteq NamesOf[attempt.seen] /\ aligned \subseteq attempt.pairs
       /\ attempt.seen.parse = parse => matched = NamesOf[attempt.seen] /\ aligned = attempt.pairs

MatchInv == MarkerHolds /\ AlignedLive /\ AttemptMatches

(* The batches an attempt goes through: those of its candidates that need  *)
(* the model.                                                              *)
BatchesInv ==
  /\ attempt.pc \in Prepared \cup InBatch => attempt.items \in Seq(Items)
  /\ attempt.pc \in {"prepared", "stored"} => attempt.at = 1
  /\ attempt.pc \in Executing =>
       /\ \E n \in Nat : DOMAIN attempt.rows = 1..n
       /\ \A i \in DOMAIN attempt.rows :
            /\ attempt.rows[i].items \in Seq(Items)
            /\ ToSet(attempt.rows[i].items) \subseteq ToSet(attempt.items) \ Local
  /\ attempt.pc \in InBatch => attempt.at \in DOMAIN attempt.rows

(* The attempt's snapshot of the ledger is right about what is ahead of it. *)
SnapshotHolds ==
  attempt.pc \in Executing /\ attempt.ledgered =>
    \A i \in DOMAIN attempt.rows :
      /\ i \in DOMAIN ledger
      /\ ledger[i].items = attempt.rows[i].items /\ ledger[i].context = attempt.rows[i].context
      /\ i >= attempt.at => ledger[i].results = attempt.rows[i].results

BatchCovered ==
  /\ attempt.pc \in InBatch => DOMAIN attempt.records \subseteq ToSet(ThisBatch.items)
  /\ attempt.pc \notin {"whole", "partial", "failing", "raising"} => attempt.records = NoResults
  /\ attempt.pc = "whole" => DOMAIN attempt.records = ToSet(ThisBatch.items)

(* Successes on record for what is behind the attempt are known to it.     *)
SuccessesKnown ==
  /\ attempt.pc \in Planned /\ attempt.ledgered =>
       \A i \in DOMAIN attempt.rows : i < attempt.at =>
         TextsOf(Outcome(ledger[i].results, "success")) \subseteq attempt.known
  /\ attempt.pc \in InBatch \ {"failing"} =>
       TextsOf(Outcome(ThisBatch.results, "success")) \subseteq attempt.known
  /\ attempt.pc = "asking" => attempt.todo \cap attempt.known = {}
  /\ \A item \in DOMAIN attempt.records :
       /\ attempt.records[item] \in {"success", "requires_review"}
       /\ attempt.records[item] = "success" => Text[item] \in attempt.known

LedgerInv == SnapshotHolds /\ BatchCovered /\ SuccessesKnown /\ NothingToRepair

(* Whatever an attempt, the ledger or a change calls a success was given.  *)
RowGiven(row) ==
  \A item \in Outcome(row.results, "success") : Answered(Text[item], VersionOf[row.context])

AnswersGiven ==
  /\ attempt.pc = "idle" => attempt.known = {}
  /\ \A text \in attempt.known : Answered(text, VersionOf[context])
  /\ \A i \in DOMAIN ledger : RowGiven(ledger[i])
  /\ attempt.pc \in Executing =>
       \A i \in DOMAIN attempt.rows :
         attempt.rows[i].context = context /\ RowGiven(attempt.rows[i])

(* A candidate whose passages are gone has no pair that could be stored.   *)
CandidatesHold ==
  attempt.pc \in Prepared \cup InBatch =>
    \A item \in ToSet(attempt.items) : item.live \/ item.pair \notin aligned

ChangesHold ==
  /\ DOMAIN changes \subseteq aligned
  /\ \A p \in DOMAIN changes :
       /\ changes[p] = [kind |-> changes[p].kind, version |-> changes[p].version]
       /\ changes[p].kind = "no_change" <=> [pair |-> p, live |-> TRUE] \in Local
       /\ changes[p].kind = "success" =>
            Answered(Text[[pair |-> p, live |-> TRUE]], changes[p].version)

GivenInv == AnswersGiven /\ CandidatesHold /\ ChangesHold

(* While no parse comes, every pair is a candidate, and stored once passed. *)
CoverInv ==
  /\ attempt.pc \in Prepared /\ attempt.seen.parse = parse =>
       \A p \in PairsOf[attempt.seen] : [pair |-> p, live |-> TRUE] \in ToSet(attempt.items)
  /\ attempt.pc \in Prepared \ {"prepared"} /\ attempt.seen.parse = parse =>
       \A item \in LocalItems : item.pair \in DOMAIN changes
  /\ attempt.pc \in Planned /\ attempt.seen.parse = parse =>
       /\ \A item \in ToSet(attempt.items) \ Local :
            \E i \in DOMAIN attempt.rows : item \in ToSet(attempt.rows[i].items)
       /\ \A i \in DOMAIN attempt.rows : i < attempt.at =>
            \A item \in ToSet(attempt.rows[i].items) : item.pair \in DOMAIN changes
  /\ comparison.status = "completed" =>
       /\ attempt.pc = "idle" /\ comparison.marker.print # None
       /\ comparison.marker.print.parse = parse => DOMAIN changes = PairsOf[comparison.marker.print]

-----------------------------------------------------------------------------
(* What the constants give: sections, pairs, and what lives in a parse.    *)

LEMMA LayoutIs ==
  ASSUME NEW print \in Prints
  PROVE  /\ print.parse \in Parses /\ print.settings \in SettingSets
         /\ print = [parse |-> print.parse, settings |-> print.settings]
         /\ Layout[print] \in Seq([name: Names, pairs: Seq(Pairs)])
         /\ DOMAIN Layout[print] = 1..Len(Layout[print]) /\ Len(Layout[print]) \in Nat
         /\ \A i \in DOMAIN Layout[print] : Layout[print][i].pairs \in Seq(Pairs)
<1>1. Layout[print] \in Seq([name: Names, pairs: Seq(Pairs)])
  BY ComparisonAssumption
<1>2. /\ DOMAIN Layout[print] = 1..Len(Layout[print]) /\ Len(Layout[print]) \in Nat
      /\ \A i \in 1..Len(Layout[print]) : Layout[print][i] \in [name: Names, pairs: Seq(Pairs)]
  BY <1>1, ElementOfSeq, LenProperties
<1> QED
  BY <1>1, <1>2 DEF Prints

LEMMA PairsAre ==
  ASSUME NEW print \in Prints
  PROVE  /\ PairSeq[print] \in Seq(Pairs)
         /\ PairsOf[print] = ToSet(PairSeq[print])
         /\ PairsOf[print] = UNION {PairsAt(print, i) : i \in DOMAIN Layout[print]}
         /\ IsFiniteSet(PairsOf[print])
<1> DEFINE seqs == [i \in DOMAIN Layout[print] |-> Layout[print][i].pairs]
<1>1. PairSeq[print] = FlattenSeq(seqs)
  BY DEF PairSeq
<1>2. seqs \in Seq(Seq(Pairs)) /\ DOMAIN seqs = DOMAIN Layout[print]
  <2>1. /\ DOMAIN Layout[print] = 1..Len(Layout[print]) /\ Len(Layout[print]) \in Nat
        /\ \A i \in DOMAIN Layout[print] : Layout[print][i].pairs \in Seq(Pairs)
    BY LayoutIs
  <2>2. seqs = [i \in 1..Len(Layout[print]) |-> Layout[print][i].pairs]
    BY <2>1
  <2>3. seqs \in [1..Len(Layout[print]) -> Seq(Pairs)]
    BY <2>1, <2>2
  <2> HIDE DEF seqs
  <2>4. seqs \in Seq(Seq(Pairs))
    BY <2>1, <2>3, SeqDef
  <2> QED
    BY <2>1, <2>3, <2>4
<1>3. \A i \in DOMAIN Layout[print] : seqs[i] = Layout[print][i].pairs
  OBVIOUS
<1> HIDE DEF seqs
<1>4. PairSeq[print] \in Seq(Pairs)
  BY <1>1, <1>2, FlattenIs
<1>5. ToSet(PairSeq[print]) = UNION {ToSet(seqs[i]) : i \in DOMAIN seqs}
  BY <1>1, <1>2, FlattenIs
<1>6. PairsOf[print] = ToSet(PairSeq[print])
  BY DEF PairsOf
<1>7. {ToSet(seqs[i]) : i \in DOMAIN seqs} = {PairsAt(print, i) : i \in DOMAIN Layout[print]}
  BY <1>2, <1>3 DEF PairsAt
<1>8. IsFiniteSet(ToSet(PairSeq[print]))
  <2> DEFINE s == PairSeq[print]
             n == Len(s)
  <2>1. n \in Nat /\ DOMAIN s = 1..n
    BY <1>4
  <2>2. IsFiniteSet(1..n)
    BY <2>1, FS_Interval
  <2>3. s \in Surjection(1..n, ToSet(s))
    BY <1>4, <2>1 DEF ToSet, Surjection
  <2> QED
    BY <2>2, <2>3, FS_Surjection
<1> QED
  BY <1>4, <1>5, <1>6, <1>7, <1>8

LEMMA NamesAre ==
  ASSUME NEW print \in Prints
  PROVE  /\ NamesOf[print] = {Layout[print][i].name : i \in DOMAIN Layout[print]}
         /\ IsFiniteSet(NamesOf[print])
         /\ Cardinality(NamesOf[print]) = Len(Layout[print])
<1> DEFINE n == Len(Layout[print])
           name == [i \in 1..n |-> Layout[print][i].name]
<1>1. n \in Nat /\ DOMAIN Layout[print] = 1..n
  BY LayoutIs
<1>2. NamesOf[print] = {Layout[print][i].name : i \in DOMAIN Layout[print]}
  BY DEF NamesOf, ToSet
<1>3. \A i, j \in 1..n : name[i] = name[j] => i = j
  BY <1>1, LayoutAssumption
<1>4. name \in Bijection(1..n, NamesOf[print])
  BY <1>1, <1>2, <1>3 DEF Bijection, Injection, Surjection, IsInjective
<1>5. IsFiniteSet(1..n) /\ Cardinality(1..n) = n
  BY <1>1, FS_Interval
<1> HIDE DEF name, n
<1>6. ExistsBijection(1..n, NamesOf[print])
  BY <1>4 DEF ExistsBijection
<1>7. IsFiniteSet(NamesOf[print]) /\ Cardinality(NamesOf[print]) = Cardinality(1..n)
  BY <1>5, <1>6, FS_Bijection
<1> QED
  BY <1>2, <1>5, <1>7 DEF n

LEMMA LiveAre ==
  ASSUME NEW print \in Prints
  PROVE  /\ NamesOf[print] \subseteq LiveNames[print.parse]
         /\ PairsOf[print] \subseteq LivePairs[print.parse]
         /\ \A p \in Parses : \A i \in DOMAIN Layout[print] :
              Layout[print][i].name \in LiveNames[p] => PairsAt(print, i) \subseteq LivePairs[p]
<1>1. /\ print.parse \in Parses /\ print.settings \in SettingSets
      /\ print = [parse |-> print.parse, settings |-> print.settings]
  BY LayoutIs
<1>2. NamesOf[print] \subseteq LiveNames[print.parse]
  BY <1>1 DEF LiveNames
<1>3. PairsOf[print] \subseteq LivePairs[print.parse]
  BY <1>1 DEF LivePairs
<1>4. \A p \in Parses : \A i \in DOMAIN Layout[print] :
        Layout[print][i].name \in LiveNames[p] => PairsAt(print, i) \subseteq LivePairs[p]
  BY LayoutAssumption DEF PairsAt
<1> QED
  BY <1>2, <1>3, <1>4

LEMMA PairsBeforeAre ==
  ASSUME NEW print \in Prints
  PROVE  /\ PairsBefore(print, 1) = {}
         /\ \A i \in DOMAIN Layout[print] :
              /\ PairsBefore(print, i + 1) = PairsBefore(print, i) \cup PairsAt(print, i)
              /\ PairsAt(print, i) \subseteq PairsOf[print]
         /\ \A at \in Nat : PairsBefore(print, at) \subseteq PairsOf[print]
         /\ PairsBefore(print, Len(Layout[print]) + 1) = PairsOf[print]
<1> DEFINE D == DOMAIN Layout[print]
<1>1. D = 1..Len(Layout[print]) /\ Len(Layout[print]) \in Nat
  BY LayoutIs
<1>2. PairsOf[print] = UNION {PairsAt(print, i) : i \in D}
  BY PairsAre
<1> HIDE DEF D
<1>3. PairsBefore(print, 1) = {}
  <2>1. {j \in D : j < 1} = {}
    BY <1>1
  <2> QED
    BY <2>1 DEF PairsBefore, D
<1>4. ASSUME NEW i \in D
      PROVE  PairsBefore(print, i + 1) = PairsBefore(print, i) \cup PairsAt(print, i)
  <2>1. {j \in D : j < i + 1} = {j \in D : j < i} \cup {i}
    BY <1>1
  <2> QED
    BY <2>1 DEF PairsBefore, D
<1>5. \A at \in Nat : PairsBefore(print, at) \subseteq PairsOf[print]
  BY <1>2 DEF PairsBefore, D
<1>6. PairsBefore(print, Len(Layout[print]) + 1) = PairsOf[print]
  <2>1. {j \in D : j < Len(Layout[print]) + 1} = D
    BY <1>1
  <2> QED
    BY <1>2, <2>1 DEF PairsBefore, D
<1>7. \A i \in D : PairsAt(print, i) \subseteq PairsOf[print]
  BY <1>2
<1> QED
  BY <1>3, <1>4, <1>5, <1>6, <1>7 DEF D

(* Sets as large as what the layout gives are what the layout gives.       *)
LEMMA CountsDecide ==
  ASSUME NEW print \in Prints, NEW names \in SUBSET NamesOf[print],
         NEW pairs \in SUBSET PairsOf[print]
  PROVE  /\ Len(Layout[print]) = Cardinality(names) => names = NamesOf[print]
         /\ Cardinality(PairsOf[print]) = Cardinality(pairs) => pairs = PairsOf[print]
  BY NamesAre, PairsAre, FS_Subset

(* Matching that the marker's counts agree with is complete.               *)
LEMMA CountsMeanComplete ==
  ASSUME MarkerHolds, comparison.marker.print # None,
         comparison.marker.sections = Cardinality(matched),
         comparison.marker.pairs = Cardinality(aligned)
  PROVE  matched = NamesOf[comparison.marker.print] /\ aligned = PairsOf[comparison.marker.print]
<1>1. matched = NamesOf[comparison.marker.print]
  BY CountsDecide DEF MarkerHolds
<1> QED
  BY <1>1, CountsDecide DEF MarkerHolds

-----------------------------------------------------------------------------
(* The ledger's operations on rows.                                        *)

LEMMA RowsStayShaped ==
  ASSUME NEW rows, RowsShaped(rows)
  PROVE  /\ \A plan, c : RowsShaped(Synced(rows, plan, c))
         /\ \A plan, c : RowsShaped([i \in DOMAIN plan |-> Pending(plan[i], c)])
         /\ \A i : RowsShaped(MarkProcessing(rows, i))
         /\ \A i, status, results : RowsShaped(MarkWith(rows, i, status, results))
  BY DEF Synced, Pending, MarkProcessing, MarkWith, RowShaped, RowsShaped

LEMMA SyncedRows ==
  ASSUME NEW rows, NEW plan, NEW c, RowsShaped(rows)
  PROVE  /\ DOMAIN Synced(rows, plan, c) = DOMAIN plan
         /\ \A i \in DOMAIN plan :
              LET row == Synced(rows, plan, c)[i] IN
              /\ RowShaped(row) /\ row.items = plan[i] /\ row.context = c
              /\ (i \in DOMAIN rows /\ row = rows[i]) \/ row = Pending(plan[i], c)
  BY DEF Synced, Pending, RowShaped, RowsShaped

LEMMA MarkedRows ==
  ASSUME NEW rows, NEW i, NEW status, NEW results, RowsShaped(rows)
  PROVE  LET marked == MarkWith(rows, i, status, results) IN
         /\ DOMAIN marked = DOMAIN rows
         /\ \A j \in DOMAIN rows \ {i} : marked[j] = rows[j]
         /\ i \in DOMAIN rows =>
              marked[i] = [items |-> rows[i].items, context |-> rows[i].context,
                           status |-> status, results |-> Merged(rows[i].results, results)]
         /\ \A j \in DOMAIN rows : /\ RowShaped(marked[j]) /\ marked[j].items = rows[j].items
                                   /\ marked[j].context = rows[j].context
  BY DEF MarkWith, RowShaped, RowsShaped

LEMMA ProcessingRows ==
  ASSUME NEW rows, NEW i, RowsShaped(rows)
  PROVE  LET marked == MarkProcessing(rows, i) IN
         /\ DOMAIN marked = DOMAIN rows
         /\ \A j \in DOMAIN rows \ {i} : marked[j] = rows[j]
         /\ i \in DOMAIN rows =>
              marked[i] = [items |-> rows[i].items, context |-> rows[i].context,
                           status |-> "processing", results |-> rows[i].results]
         /\ \A j \in DOMAIN rows : /\ RowShaped(marked[j]) /\ marked[j].items = rows[j].items
                                   /\ marked[j].context = rows[j].context
                                   /\ marked[j].results = rows[j].results
  BY DEF MarkProcessing, RowShaped, RowsShaped

(* What a commit or a failure leaves on record of one outcome.             *)
LEMMA MergedOutcome ==
  ASSUME NEW old, NEW new, NEW outcome
  PROVE  /\ DOMAIN Merged(old, new) = DOMAIN old \cup DOMAIN new
         /\ Outcome(Merged(old, new), outcome) \subseteq Outcome(old, outcome) \cup Outcome(new, outcome)
  BY DEF Merged, Outcome

-----------------------------------------------------------------------------
LEMMA IdleShaped ==
  /\ DOMAIN Idle = Fields /\ Idle.pc = "idle" /\ Idle.at = 1 /\ Idle.rows = <<>>
  /\ Idle.pairs = {} /\ Idle.known = {} /\ Idle.records = NoResults /\ Idle.items = <<>>
  BY DEF Idle, Fields

LEMMA ShapedInit == Init => Shaped
<1> SUFFICES ASSUME Init PROVE Shaped
  OBVIOUS
<1>1. 1 \in Parses
  BY ComparisonAssumption DEF Parses
<1>2. comparison = [status |-> "queued", marker |-> Unmarked] /\ attempt = Idle /\ ledger = <<>>
  BY DEF Init
<1> QED
  BY <1>1, <1>2, ComparisonAssumption, IdleShaped DEF Init, Shaped, RowsShaped, Unmarked

LEMMA ShapedStep == Shaped /\ [Next]_vars => Shaped'
<1> SUFFICES ASSUME Shaped, [Next]_vars PROVE Shaped'
  OBVIOUS
<1> DEFINE M(m) == m = [print |-> m.print, sections |-> m.sections, pairs |-> m.pairs]
           C(c) == c = [status |-> c.status, marker |-> c.marker] /\ M(c.marker)
           R(rows) == RowsShaped(rows)
           A(a) == DOMAIN a = Fields /\ a.at \in Nat \ {0} /\ R(a.rows)
           I(p, s, c) == p \in Parses /\ s \in SettingSets /\ c \in Contexts
<1>1. C(comparison) /\ R(ledger) /\ A(attempt) /\ I(parse, settings, context)
  BY DEF Shaped
<1>2. SUFFICES C(comparison') /\ R(ledger') /\ A(attempt') /\ I(parse', settings', context')
  BY DEF Shaped
<1>3. A(Idle)
  BY IdleShaped DEF RowsShaped
<1>4. CASE Begin
  <2>1. A(attempt')
    BY <1>3, <1>4 DEF Begin, Fields
  <2> QED
    BY <1>1, <1>4, <2>1 DEF Begin, inputs, matches
<1>5. CASE LoadSections
  BY <1>1, <1>5 DEF LoadSections, Fields, inputs, budgets
<1>6. CASE ReuseMatching
  BY <1>1, <1>6 DEF ReuseMatching, Fields, inputs, matches
<1>7. CASE ReplaceSectionMatches
  BY <1>1, <1>7 DEF ReplaceSectionMatches, Unmarked, Fields, inputs
<1>8. CASE AlignSection
  BY <1>1, <1>8 DEF AlignSection, Fields, inputs
<1>9. CASE MarkMatched
  BY <1>1, <1>9 DEF MarkMatched, Marker, Fields, inputs
<1>10. CASE PrepareCandidates
  BY <1>1, <1>10 DEF PrepareCandidates, Fields, inputs
<1>11. CASE StoreLocal
  BY <1>1, <1>11 DEF StoreLocal, Fields, inputs, matches
<1>12. CASE SyncPlan
  <2> DEFINE plan == PlanBatches(Those(attempt.items, Items \ Local))
             synced == Synced(ledger, plan, context)
             fresh == [i \in DOMAIN plan |-> Pending(plan[i], context)]
  <2>1. R(synced) /\ R(fresh)
    BY <1>1, RowsStayShaped
  <2>2. \E rows : R(rows) /\ attempt' = [attempt EXCEPT !.pc = "next", !.rows = rows]
                  /\ (ledger' = ledger \/ ledger' = synced)
    BY <1>12, <2>1 DEF SyncPlan
  <2>3. A(attempt')
    BY <1>1, <2>2 DEF Fields
  <2> QED
    BY <1>1, <1>12, <2>1, <2>2, <2>3 DEF SyncPlan, inputs, matches
<1>13. CASE StartBatch
  <2>1. ledger' = ledger \/ ledger' = MarkProcessing(ledger, attempt.at)
    BY <1>13 DEF StartBatch
  <2>2. R(ledger')
    BY <1>1, <2>1, RowsStayShaped
  <2>3. A(attempt')
    BY <1>1, <1>13 DEF StartBatch, Fields
  <2> QED
    BY <1>1, <1>13, <2>2, <2>3 DEF StartBatch, inputs, matches
<1>14. CASE Classify
  <2>1. A(attempt')
    BY <1>1, <1>14 DEF Classify, Fields
  <2> QED
    BY <1>1, <1>14, <2>1 DEF Classify, inputs, matches
<1>15. CASE AnswerMisfit
  BY <1>1, <1>15 DEF AnswerMisfit, Fields, inputs, matches
<1>16. CASE CommitBatch
  <2>1. ledger' = ledger \/ ledger' = MarkWith(ledger, attempt.at, "completed", attempt.records)
    BY <1>16 DEF CommitBatch, MarkCompleted
  <2>2. R(ledger')
    BY <1>1, <2>1, RowsStayShaped
  <2>3. A(attempt')
    BY <1>1, <1>16 DEF CommitBatch, Fields
  <2> QED
    BY <1>1, <1>16, <2>2, <2>3 DEF CommitBatch, inputs, matches
<1>17. CASE CommitPartial
  BY <1>1, <1>17 DEF CommitPartial, Fields, inputs, matches
<1>18. CASE Complete
  BY <1>1, <1>3, <1>18 DEF Complete, Marker, inputs
<1>19. CASE LoseSession
  BY <1>1, <1>19 DEF LoseSession, Fields, inputs, matches
<1>20. CASE RecordFailure
  <2>1. ledger' = ledger \/ ledger' = MarkWith(ledger, attempt.at, "failed", attempt.records)
    BY <1>20 DEF RecordFailure, MarkFailed
  <2>2. R(ledger')
    BY <1>1, <2>1, RowsStayShaped
  <2>3. A(attempt')
    BY <1>1, <1>20 DEF RecordFailure, Fields
  <2> QED
    BY <1>1, <1>20, <2>2, <2>3 DEF RecordFailure, inputs, matches
<1>21. CASE FailComparison
  BY <1>1, <1>3, <1>21 DEF FailComparison, inputs
<1>22. CASE Crash
  BY <1>1, <1>3, <1>22 DEF Crash, inputs, matches
<1>23. CASE Reparse
  <2>1. parse' \in Parses
    BY <1>1, <1>23, ComparisonAssumption DEF Reparse, Parses
  <2> QED
    BY <1>1, <1>23, <2>1 DEF Reparse
<1>24. CASE Drift
  BY <1>1, <1>24 DEF Drift, matches
<1>25. CASE UNCHANGED vars
  BY <1>1, <1>25 DEF vars
<1> QED
  BY <1>4, <1>5, <1>6, <1>7, <1>8, <1>9, <1>10, <1>11, <1>12, <1>13, <1>14, <1>15, <1>16, <1>17,
     <1>18, <1>19, <1>20, <1>21, <1>22, <1>23, <1>24, <1>25 DEF Next

(* Actions that leave the matching as it is, and only use it.              *)
LEMMA QuietSteps ==
  ASSUME Shaped,
         \/ PrepareCandidates \/ StoreLocal \/ SyncPlan \/ StartBatch \/ Classify \/ AnswerMisfit
         \/ CommitBatch \/ CommitPartial \/ LoseSession \/ RecordFailure
  PROVE  /\ UNCHANGED <<inputs, matched, aligned>> /\ comparison'.marker = comparison.marker
         /\ attempt'.seen = attempt.seen /\ attempt'.pairs = attempt.pairs
         /\ \/ attempt.pc \in Settled /\ attempt'.pc \in Settled
            \/ attempt'.pc \in {"failing", "raising"}
<1>1. DOMAIN attempt = Fields /\ comparison = [status |-> comparison.status, marker |-> comparison.marker]
  BY DEF Shaped
<1>2. CASE PrepareCandidates
  BY <1>1, <1>2 DEF PrepareCandidates, Fields, Settled, Loaded
<1>3. CASE StoreLocal
  BY <1>1, <1>3 DEF StoreLocal, Fields, Settled, Loaded, matches
<1>4. CASE SyncPlan
  <2>1. /\ UNCHANGED <<inputs, matches>> /\ attempt.pc = "stored"
        /\ \E rows : attempt' = [attempt EXCEPT !.pc = "next", !.rows = rows]
    BY <1>4 DEF SyncPlan
  <2> QED
    BY <1>1, <2>1 DEF Fields, Settled, Loaded, matches
<1>5. CASE StartBatch
  BY <1>1, <1>5 DEF StartBatch, AtBatch, Fields, Settled, Loaded, matches
<1>6. CASE Classify
  <2>1. /\ UNCHANGED <<inputs, matches>> /\ attempt.pc = "asking"
        /\ \E pc \in {"whole", "partial"} : \E known, records :
             attempt' = [attempt EXCEPT !.pc = pc, !.known = known, !.records = records]
    BY <1>6 DEF Classify
  <2> QED
    BY <1>1, <2>1 DEF Fields, Settled, Loaded, matches
<1>7. CASE AnswerMisfit
  BY <1>1, <1>7 DEF AnswerMisfit, Fields, Settled, Loaded, matches
<1>8. CASE CommitBatch
  BY <1>1, <1>8 DEF CommitBatch, Fields, Settled, Loaded, matches
<1>9. CASE CommitPartial
  BY <1>1, <1>9 DEF CommitPartial, Fields, Settled, Loaded, matches
<1>10. CASE LoseSession
  BY <1>1, <1>10 DEF LoseSession, Fields, Settled, Loaded, matches
<1>11. CASE RecordFailure
  BY <1>1, <1>11 DEF RecordFailure, Fields, Settled, Loaded, matches
<1> QED
  BY <1>2, <1>3, <1>4, <1>5, <1>6, <1>7, <1>8, <1>9, <1>10, <1>11

LEMMA MatchInit == Init => MatchInv
<1> SUFFICES ASSUME Init PROVE MatchInv
  OBVIOUS
<1>1. /\ comparison.marker = Unmarked /\ matched = {} /\ aligned = {}
      /\ attempt.pc = "idle" /\ Unmarked.print = None
  BY IdleShaped DEF Init, Unmarked
<1> QED
  BY <1>1 DEF MatchInv, MarkerHolds, AlignedLive, AttemptMatches, Loaded, Settled

LEMMA MatchStep == Shaped /\ MatchInv /\ [Next]_vars => MatchInv'
<1> SUFFICES ASSUME Shaped, MatchInv, [Next]_vars PROVE MatchInv'
  OBVIOUS
<1>1. /\ DOMAIN attempt = Fields /\ attempt.at \in Nat \ {0} /\ parse \in Parses
      /\ comparison = [status |-> comparison.status, marker |-> comparison.marker]
      /\ comparison.marker = [print |-> comparison.marker.print,
                              sections |-> comparison.marker.sections,
                              pairs |-> comparison.marker.pairs]
  BY DEF Shaped
<1>2. MarkerHolds /\ AlignedLive /\ AttemptMatches
  BY DEF MatchInv
<1>3. Parses \subseteq Nat /\ \A print \in Prints : print # None /\ print.parse \in Nat
  BY ComparisonAssumption DEF Parses, Prints
<1>4. SUFFICES MarkerHolds' /\ AlignedLive' /\ AttemptMatches'
  BY DEF MatchInv
<1>5. ASSUME UNCHANGED <<parse, matched, aligned>>, comparison'.marker = comparison.marker
      PROVE  MarkerHolds' /\ AlignedLive'
  BY <1>2, <1>5 DEF MarkerHolds, AlignedLive
<1>6. ASSUME attempt' = Idle PROVE AttemptMatches'
  BY <1>6, IdleShaped DEF AttemptMatches, Loaded, Settled
<1>7. CASE \/ PrepareCandidates \/ StoreLocal \/ SyncPlan \/ StartBatch \/ Classify
           \/ AnswerMisfit \/ CommitBatch \/ CommitPartial \/ LoseSession \/ RecordFailure
  <2>1. /\ UNCHANGED <<inputs, matched, aligned>> /\ comparison'.marker = comparison.marker
        /\ attempt'.seen = attempt.seen /\ attempt'.pairs = attempt.pairs
        /\ \/ attempt.pc \in Settled /\ attempt'.pc \in Settled
           \/ attempt'.pc \in {"failing", "raising"}
    BY <1>7, QuietSteps
  <2>2. AttemptMatches'
    <3>1. CASE attempt.pc \in Settled /\ attempt'.pc \in Settled
      BY <1>2, <2>1, <3>1 DEF AttemptMatches, Marker, Settled, Loaded, inputs
    <3>2. CASE attempt'.pc \in {"failing", "raising"}
      BY <3>2 DEF AttemptMatches, Settled, Loaded
    <3> QED
      BY <2>1, <3>1, <3>2
  <2> QED
    BY <1>5, <2>1, <2>2 DEF inputs
<1>8. CASE Begin
  <2>1. /\ UNCHANGED <<inputs, matches>>
        /\ attempt'.pc = "started" /\ attempt'.pairs = {} /\ attempt'.at = 1
    BY <1>8, IdleShaped DEF Begin, Fields
  <2> QED
    BY <1>5, <2>1 DEF inputs, matches, AttemptMatches, Loaded, Settled
<1>9. CASE LoadSections
  <2>1. /\ UNCHANGED <<inputs, matched, aligned>> /\ comparison'.marker = comparison.marker
        /\ attempt'.pc = "loaded" /\ attempt'.seen = Now
        /\ attempt'.pairs = {} /\ attempt'.at = 1
    BY <1>1, <1>2, <1>9 DEF LoadSections, Fields, AttemptMatches
  <2>2. Now \in Prints /\ Now.parse = parse /\ Now.settings = settings
    BY DEF Now, Prints, Shaped
  <2>3. MarkerHolds' /\ AlignedLive'
    BY <1>5, <2>1 DEF inputs
  <2>4. parse <= parse
    BY <1>1, <1>3
  <2> QED
    BY <1>2, <2>1, <2>2, <2>3, <2>4 DEF MarkerHolds, AttemptMatches, Loaded, Settled, inputs
<1>10. CASE ReuseMatching
  <2>1. /\ UNCHANGED <<inputs, matches>> /\ Reusable
        /\ attempt.pc = "loaded" /\ attempt'.pc = "matched"
        /\ attempt'.seen = attempt.seen /\ attempt'.pairs = aligned
    BY <1>1, <1>10 DEF ReuseMatching, Fields
  <2>2. attempt.seen \in Prints /\ comparison.marker.print = attempt.seen
    BY <1>2, <2>1 DEF AttemptMatches, Loaded, Reusable
  <2>3. matched = NamesOf[attempt.seen] /\ aligned = PairsOf[attempt.seen]
    BY <1>2, <1>3, <2>1, <2>2, CountsMeanComplete DEF Reusable
  <2>4. comparison.marker = Marker'
    BY <1>1, <1>2, <1>3, <2>1, <2>2 DEF MarkerHolds, Reusable, Marker
  <2>5. MarkerHolds' /\ AlignedLive'
    BY <1>5, <2>1 DEF inputs, matches
  <2>6. AttemptMatches'
    BY <1>2, <2>1, <2>2, <2>3, <2>4 DEF AttemptMatches, Loaded, Settled, inputs, matches
  <2> QED
    BY <2>5, <2>6
<1>11. CASE ReplaceSectionMatches
  <2>1. /\ UNCHANGED inputs /\ NamesOf[attempt.seen] \subseteq LiveNames[parse]
        /\ comparison'.marker = Unmarked /\ matched' = NamesOf[attempt.seen] /\ aligned' = {}
        /\ attempt.pc = "loaded" /\ attempt'.pc = "aligning"
        /\ attempt'.seen = attempt.seen /\ attempt'.pairs = attempt.pairs /\ attempt'.at = attempt.at
    BY <1>1, <1>11 DEF ReplaceSectionMatches, Fields
  <2>2. /\ attempt.seen \in Prints /\ attempt.seen.parse <= parse /\ attempt.seen.settings = settings
        /\ attempt.pairs = {} /\ attempt.at = 1
    BY <1>2, <2>1 DEF AttemptMatches, Loaded
  <2>3. Unmarked.print = None
    BY DEF Unmarked
  <2>4. PairsBefore(attempt.seen, 1) = {} /\ Len(Layout[attempt.seen]) \in Nat
    BY <2>2, PairsBeforeAre, LayoutIs
  <2>5. 1 \in 1..Len(Layout[attempt.seen]) + 1
    BY <2>4
  <2>6. MarkerHolds' /\ AlignedLive'
    BY <2>1, <2>3 DEF MarkerHolds, AlignedLive, inputs
  <2>7. AttemptMatches'
    BY <2>1, <2>2, <2>3, <2>4, <2>5 DEF AttemptMatches, Loaded, Settled, inputs
  <2> QED
    BY <2>6, <2>7
<1>12. CASE AlignSection
  <2> DEFINE i == attempt.at
             seen == attempt.seen
             new == IF ThisSection.name \in matched THEN ToSet(ThisSection.pairs) ELSE {}
  <2>1. /\ UNCHANGED <<inputs, comparison, matched>> /\ aligned' = aligned \cup new
        /\ attempt.pc = "aligning" /\ attempt'.pc = "aligning" /\ i \in DOMAIN Layout[seen]
        /\ attempt'.seen = seen /\ attempt'.pairs = attempt.pairs \cup new /\ attempt'.at = i + 1
    BY <1>1, <1>12 DEF AlignSection, AtSection, Fields
  <2>2. /\ seen \in Prints /\ comparison.marker = Unmarked
        /\ attempt.pairs \subseteq PairsBefore(seen, i)
        /\ matched = NamesOf[seen] => attempt.pairs = PairsBefore(seen, i)
        /\ matched \subseteq NamesOf[seen] /\ aligned \subseteq attempt.pairs
        /\ seen.parse = parse => matched = NamesOf[seen] /\ aligned = attempt.pairs
    BY <1>2, <2>1 DEF AttemptMatches, Loaded
  <2>3. /\ new \subseteq PairsAt(seen, i)
        /\ matched = NamesOf[seen] => new = PairsAt(seen, i)
        /\ new \subseteq LivePairs[parse]
    <3>1. /\ ThisSection.name \in NamesOf[seen]
          /\ ThisSection.name = Layout[seen][i].name /\ ToSet(ThisSection.pairs) = PairsAt(seen, i)
      BY <2>1, <2>2, NamesAre DEF ThisSection, PairsAt
    <3>2. ThisSection.name \in LiveNames[parse] => PairsAt(seen, i) \subseteq LivePairs[parse]
      BY <1>1, <2>1, <2>2, <3>1, LiveAre
    <3> QED
      BY <1>2, <3>1, <3>2 DEF AlignedLive
  <2>4. /\ PairsBefore(seen, i + 1) = PairsBefore(seen, i) \cup PairsAt(seen, i)
        /\ i + 1 \in 1..Len(Layout[seen]) + 1
    BY <2>1, <2>2, PairsBeforeAre, LayoutIs
  <2> HIDE DEF new
  <2>5. MarkerHolds' /\ AlignedLive'
    BY <1>2, <2>1, <2>2, <2>3 DEF MarkerHolds, AlignedLive, Unmarked, inputs
  <2>6. AttemptMatches'
    <3>1. /\ seen.parse <= parse /\ seen.settings = settings
          /\ comparison.marker.print # None => comparison.marker.print.parse <= seen.parse
      BY <1>2, <2>1 DEF AttemptMatches, Loaded
    <3>2. /\ attempt'.pairs \subseteq PairsBefore(seen, i + 1)
          /\ matched = NamesOf[seen] => attempt'.pairs = PairsBefore(seen, i + 1)
          /\ aligned' \subseteq attempt'.pairs
          /\ seen.parse = parse => aligned' = attempt'.pairs
      BY <2>1, <2>2, <2>3, <2>4
    <3> QED
      BY <2>1, <2>2, <2>4, <3>1, <3>2 DEF AttemptMatches, Loaded, Settled, inputs
  <2> QED
    BY <2>5, <2>6
<1>13. CASE MarkMatched
  <2> DEFINE seen == attempt.seen
  <2>1. /\ UNCHANGED <<inputs, matched, aligned>> /\ comparison'.marker = Marker
        /\ attempt.pc = "aligning" /\ attempt'.pc = "matched"
        /\ attempt.at \notin DOMAIN Layout[seen]
        /\ attempt'.seen = seen /\ attempt'.pairs = attempt.pairs
    BY <1>1, <1>13 DEF MarkMatched, Fields
  <2>2. /\ seen \in Prints /\ seen.parse <= parse /\ seen.settings = settings
        /\ attempt.at \in 1..Len(Layout[seen]) + 1
        /\ attempt.pairs \subseteq PairsBefore(seen, attempt.at)
        /\ matched = NamesOf[seen] => attempt.pairs = PairsBefore(seen, attempt.at)
        /\ matched \subseteq NamesOf[seen] /\ aligned \subseteq attempt.pairs
        /\ seen.parse = parse => matched = NamesOf[seen] /\ aligned = attempt.pairs
    BY <1>2, <2>1 DEF AttemptMatches, Loaded
  <2>3. attempt.at = Len(Layout[seen]) + 1 /\ PairsBefore(seen, attempt.at) = PairsOf[seen]
    BY <2>1, <2>2, LayoutIs, PairsBeforeAre
  <2>4. /\ Marker.print = seen /\ Marker.sections = Len(Layout[seen])
        /\ Marker.pairs = Cardinality(attempt.pairs) /\ Marker' = Marker
    BY <2>1 DEF Marker
  <2>5. MarkerHolds' /\ AlignedLive'
    BY <1>2, <2>1, <2>2, <2>3, <2>4 DEF MarkerHolds, AlignedLive, inputs
  <2>6. seen.parse <= seen.parse
    BY <1>3, <2>2
  <2>7. AttemptMatches'
    BY <2>1, <2>2, <2>3, <2>4, <2>6 DEF AttemptMatches, Loaded, Settled, inputs
  <2> QED
    BY <2>5, <2>7
<1>14. CASE Complete
  <2>1. /\ UNCHANGED <<inputs, matched, aligned>> /\ attempt' = Idle
        /\ attempt.pc = "next" /\ comparison'.marker = Marker
    BY <1>14 DEF Complete
  <2>2. comparison.marker = Marker
    BY <1>2, <2>1 DEF AttemptMatches, Settled, Loaded
  <2> QED
    BY <1>5, <1>6, <2>1, <2>2 DEF inputs
<1>15. CASE FailComparison \/ Crash
  <2>1. /\ UNCHANGED <<inputs, matched, aligned>> /\ attempt' = Idle
        /\ comparison'.marker = comparison.marker
    BY <1>1, <1>15 DEF FailComparison, Crash, matches
  <2> QED
    BY <1>5, <1>6, <2>1 DEF inputs
<1>16. CASE Reparse
  <2>1. /\ UNCHANGED <<settings, comparison, attempt>> /\ parse' = parse + 1
        /\ matched' \subseteq matched /\ matched' \subseteq LiveNames[parse']
        /\ aligned' \subseteq aligned /\ aligned' \subseteq LivePairs[parse']
    BY <1>16 DEF Reparse
  <2>2. \A print \in Prints : print.parse <= parse => print.parse <= parse' /\ print.parse # parse'
    BY <1>1, <1>3, <2>1
  <2>3. Marker' = Marker
    BY <2>1 DEF Marker
  <2>4. MarkerHolds' /\ AlignedLive'
    BY <1>2, <2>1, <2>2 DEF MarkerHolds, AlignedLive
  <2>5. AttemptMatches'
    BY <1>2, <2>1, <2>2, <2>3 DEF AttemptMatches, Loaded, Settled
  <2> QED
    BY <2>4, <2>5
<1>17. CASE Drift
  <2>1. UNCHANGED <<parse, matched, aligned, comparison, attempt>> /\ attempt.pc = "idle"
    BY <1>17 DEF Drift, matches
  <2> QED
    BY <1>5, <2>1 DEF AttemptMatches, Loaded, Settled
<1>18. CASE UNCHANGED vars
  <2>1. UNCHANGED <<parse, settings, matched, aligned, comparison, attempt>>
    BY <1>18 DEF vars
  <2> QED
    BY <1>2, <1>5, <2>1 DEF AttemptMatches, Marker
<1> QED
  BY <1>7, <1>8, <1>9, <1>10, <1>11, <1>12, <1>13, <1>14, <1>15, <1>16, <1>17, <1>18 DEF Next

(***************************************************************************)
(* The variables keep their types, and what is stored of the matching is   *)
(* what the attempts at it have got to (_recompute_matching).              *)
(***************************************************************************)
THEOREM Matching == Spec => [](Shaped /\ MatchInv)
  BY ShapedInit, MatchInit, ShapedStep, MatchStep, PTL DEF Spec

(***************************************************************************)
(* Matching whose marker agrees with the counts, and so would be reused,   *)
(* is all of what the marker's fingerprint gives, whatever was interrupted *)
(* or parsed again since (_matching_still_valid).                          *)
(***************************************************************************)
THEOREM ReusedMatching == Spec => []ReusedMatchingIsComplete
<1>1. MatchInv => ReusedMatchingIsComplete
  BY CountsMeanComplete DEF MatchInv, ReusedMatchingIsComplete
<1> QED
  BY <1>1, Matching, PTL

(***************************************************************************)
(* While matching for the filings and settings in force is complete, no    *)
(* step takes a change away: it would be found reusable                    *)
(* (process_comparison, delete_section_matches).                           *)
(***************************************************************************)
THEOREM ReuseKeepsChanges == Spec => ClassifiedIsKept
<1>1. ASSUME Shaped, MatchInv, Matched(Now), Now' = Now, [Next]_vars
      PROVE  DOMAIN changes \subseteq DOMAIN changes'
  <2>1. /\ Now \in Prints /\ Now.parse = parse /\ Now.settings = settings
        /\ parse \in Nat /\ None \notin Prints /\ Parses \subseteq Nat
    BY <1>1, ComparisonAssumption DEF Now, Prints, Shaped, Parses
  <2>2. ~ReplaceSectionMatches
    <3>1. SUFFICES ASSUME attempt.pc = "loaded" PROVE Reusable
      BY DEF ReplaceSectionMatches
    <3>2. /\ comparison.marker.print = Now /\ matched = NamesOf[Now] /\ aligned = PairsOf[Now]
      BY <1>1 DEF Matched
    <3>3. /\ comparison.marker.sections = Len(Layout[Now])
          /\ comparison.marker.pairs = Cardinality(PairsOf[Now])
      BY <1>1, <2>1, <3>2 DEF MatchInv, MarkerHolds
    <3>4. /\ attempt.seen \in Prints /\ attempt.seen.parse <= parse
          /\ attempt.seen.settings = settings /\ parse <= attempt.seen.parse
      BY <1>1, <2>1, <3>1, <3>2 DEF MatchInv, AttemptMatches, Loaded
    <3>5. attempt.seen.parse \in Parses /\ attempt.seen = [parse |-> attempt.seen.parse, settings |-> attempt.seen.settings]
      BY <3>4, LayoutIs
    <3>6. attempt.seen.parse = parse
      <4>1. attempt.seen.parse \in Nat /\ parse \in Nat
        BY <2>1, <3>5
      <4> QED
        BY <3>4, <4>1
    <3>7. attempt.seen = Now
      BY <3>4, <3>5, <3>6 DEF Now
    <3>8. Cardinality(NamesOf[Now]) = Len(Layout[Now])
      BY <2>1, NamesAre
    <3> QED
      BY <3>2, <3>3, <3>7, <3>8 DEF Reusable
  <2>3. ~Reparse
    BY <1>1, <2>1 DEF Reparse, Now
  <2>4. \A items : DOMAIN changes \subseteq DOMAIN changes \cup {item.pair : item \in items}
    OBVIOUS
  <2>5. CASE StoreLocal \/ CommitBatch \/ CommitPartial
    BY <2>5 DEF StoreLocal, CommitBatch, CommitPartial, WithChanges
  <2>6. CASE UNCHANGED changes
    BY <2>6
  <2>7. \/ StoreLocal \/ CommitBatch \/ CommitPartial \/ UNCHANGED changes
    BY <1>1, <2>2, <2>3 DEF Next, vars, Begin, LoadSections, ReuseMatching, AlignSection, MarkMatched,
       PrepareCandidates, SyncPlan, StartBatch, Classify, AnswerMisfit, Complete, LoseSession,
       RecordFailure, FailComparison, Crash, Drift
  <2> QED
    BY <2>5, <2>6, <2>7
<1>2. Shaped /\ MatchInv /\ [Next]_vars =>
        [(Matched(Now) /\ Now' = Now) => DOMAIN changes \subseteq DOMAIN changes']_vars
  BY <1>1
<1> QED
  BY <1>2, Matching, PTL DEF Spec, ClassifiedIsKept

-----------------------------------------------------------------------------
LEMMA CandidatesAre ==
  ASSUME attempt.seen \in Prints, attempt.pairs \subseteq PairsOf[attempt.seen]
  PROVE  /\ Candidates \in Seq(Items)
         /\ ToSet(Candidates) =
              {[pair |-> p, live |-> p \in LivePairs[parse]] : p \in attempt.pairs}
<1> DEFINE pairs == Those(PairSeq[attempt.seen], attempt.pairs)
<1>1. pairs \in Seq(Pairs) /\ ToSet(pairs) = attempt.pairs
  <2>1. PairSeq[attempt.seen] \in Seq(Pairs) /\ PairsOf[attempt.seen] = ToSet(PairSeq[attempt.seen])
    BY PairsAre
  <2>2. pairs \in Seq(Pairs) /\ ToSet(pairs) = ToSet(PairSeq[attempt.seen]) \cap attempt.pairs
    BY <2>1, ThoseAre
  <2> QED
    BY <2>1, <2>2
<1>2. Candidates = [i \in DOMAIN pairs |-> [pair |-> pairs[i], live |-> pairs[i] \in LivePairs[parse]]]
  BY DEF Candidates
<1> HIDE DEF pairs
<1>3. DOMAIN pairs = 1..Len(pairs) /\ Len(pairs) \in Nat /\ \A i \in DOMAIN pairs : pairs[i] \in Pairs
  BY <1>1
<1>4. Candidates \in [1..Len(pairs) -> Items]
  BY <1>2, <1>3, ComparisonAssumption
<1>5. Candidates \in Seq(Items)
  BY <1>3, <1>4, SeqDef
<1>6. ToSet(Candidates) = {[pair |-> p, live |-> p \in LivePairs[parse]] : p \in ToSet(pairs)}
  BY <1>2 DEF ToSet
<1> QED
  BY <1>1, <1>5, <1>6

(* What an attempt plans: its candidates that are not settled locally.     *)
LEMMA PlannedAre ==
  ASSUME attempt.items \in Seq(Items)
  PROVE  LET plan == PlanBatches(Those(attempt.items, Items \ Local)) IN
         /\ plan \in Seq(Seq(Items)) /\ \E n \in Nat : DOMAIN plan = 1..n
         /\ UNION {ToSet(plan[i]) : i \in DOMAIN plan} = ToSet(attempt.items) \ Local
<1> DEFINE items == Those(attempt.items, Items \ Local)
           plan == PlanBatches(items)
<1>1. items \in Seq(Items) /\ ToSet(items) = ToSet(attempt.items) \cap (Items \ Local)
  BY ThoseAre
<1>2. ToSet(attempt.items) \subseteq Items
  BY DEF ToSet
<1> HIDE DEF items
<1>3. plan \in Seq(Seq(Items)) /\ UNION {ToSet(plan[i]) : i \in DOMAIN plan} = ToSet(items)
  BY <1>1, PlanCovers
<1>4. DOMAIN plan = 1..Len(plan) /\ Len(plan) \in Nat
  BY <1>3
<1> QED
  BY <1>1, <1>2, <1>3, <1>4 DEF items

(* The rows an attempt goes through, whether or not it keeps a ledger.     *)
LEMMA RowsAfterSync ==
  ASSUME Shaped, SyncPlan
  PROVE  LET plan == PlanBatches(Those(attempt.items, Items \ Local)) IN
         /\ DOMAIN attempt'.rows = DOMAIN plan
         /\ \A i \in DOMAIN plan :
              /\ attempt'.rows[i].items = plan[i] /\ attempt'.rows[i].context = context
              /\ \/ i \in DOMAIN ledger /\ attempt'.rows[i] = ledger[i]
                 \/ attempt'.rows[i] = Pending(plan[i], context)
         /\ attempt.ledgered /\ plan # <<>> => ledger' = attempt'.rows
         /\ ~ (attempt.ledgered /\ plan # <<>>) => ledger' = ledger
         /\ attempt.pc = "stored" /\ attempt'.pc = "next"
         /\ attempt'.items = attempt.items /\ attempt'.at = attempt.at
         /\ attempt'.known = attempt.known /\ attempt'.records = attempt.records
         /\ attempt'.ledgered = attempt.ledgered
         /\ attempt'.seen = attempt.seen /\ attempt'.pairs = attempt.pairs
         /\ UNCHANGED <<inputs, matches, changes, given>>
<1> DEFINE plan == PlanBatches(Those(attempt.items, Items \ Local))
           synced == Synced(ledger, plan, context)
           fresh == [i \in DOMAIN plan |-> Pending(plan[i], context)]
           T(rows) == /\ DOMAIN rows = DOMAIN plan
                      /\ \A i \in DOMAIN plan :
                           /\ rows[i].items = plan[i] /\ rows[i].context = context
                           /\ \/ i \in DOMAIN ledger /\ rows[i] = ledger[i]
                              \/ rows[i] = Pending(plan[i], context)
<1>1. DOMAIN attempt = Fields /\ RowsShaped(ledger)
  BY DEF Shaped
<1>2. T(synced)
  BY <1>1 DEF RowsShaped, RowShaped, Synced, Pending
<1>3. T(fresh)
  BY DEF Pending
<1>4. /\ attempt.pc = "stored" /\ UNCHANGED <<inputs, matches, changes, given>>
      /\ IF attempt.ledgered /\ plan # <<>>
         THEN ledger' = synced /\ attempt' = [attempt EXCEPT !.pc = "next", !.rows = synced]
         ELSE ledger' = ledger /\ attempt' = [attempt EXCEPT !.pc = "next", !.rows = fresh]
  BY DEF SyncPlan
<1> HIDE DEF plan, synced, fresh
<1>5. \A rows : attempt' = [attempt EXCEPT !.pc = "next", !.rows = rows] => attempt'.rows = rows
  BY <1>1 DEF Fields
<1>6. /\ attempt'.pc = "next"
      /\ attempt'.items = attempt.items /\ attempt'.at = attempt.at
      /\ attempt'.known = attempt.known /\ attempt'.records = attempt.records
      /\ attempt'.ledgered = attempt.ledgered
      /\ attempt'.seen = attempt.seen /\ attempt'.pairs = attempt.pairs
  BY <1>1, <1>4 DEF Fields
<1>7. CASE attempt.ledgered /\ plan # <<>>
  <2>1. ledger' = synced /\ attempt' = [attempt EXCEPT !.pc = "next", !.rows = synced]
    BY <1>4, <1>7
  <2>2. attempt'.rows = synced
    BY <1>5, <2>1
  <2>3. T(attempt'.rows)
    BY <1>2, <2>2
  <2> QED
    BY <1>4, <1>7, <1>6, <2>1, <2>2, <2>3 DEF plan
<1>8. CASE ~ (attempt.ledgered /\ plan # <<>>)
  <2>1. ledger' = ledger /\ attempt' = [attempt EXCEPT !.pc = "next", !.rows = fresh]
    BY <1>4, <1>8
  <2>2. attempt'.rows = fresh
    BY <1>5, <2>1
  <2>3. T(attempt'.rows)
    BY <1>3, <2>2
  <2> QED
    BY <1>4, <1>8, <1>6, <2>1, <2>2, <2>3 DEF plan
<1> QED
  BY <1>7, <1>8

(* Steps within the batches, and out of them: the rows stay.               *)
LEMMA BatchSteps ==
  ASSUME Shaped,
         \/ StartBatch \/ Classify \/ AnswerMisfit \/ CommitBatch \/ CommitPartial
         \/ RecordFailure \/ LoseSession
  PROVE  /\ attempt'.items = attempt.items /\ attempt'.rows = attempt.rows
         /\ attempt'.ledgered = attempt.ledgered /\ attempt'.seen = attempt.seen
         /\ UNCHANGED <<inputs, matches>>
         /\ \/ /\ attempt.pc \in Executing /\ attempt'.pc \in InBatch /\ attempt'.at = attempt.at
               /\ attempt.pc \in InBatch \/ attempt.at \in DOMAIN attempt.rows
            \/ attempt.pc = "whole" /\ attempt'.pc = "next" /\ attempt'.at = attempt.at + 1
            \/ attempt'.pc = "raising"
<1>1. DOMAIN attempt = Fields
  BY DEF Shaped
<1>2. CASE StartBatch
  BY <1>1, <1>2 DEF StartBatch, AtBatch, Fields, Executing, Planned, InBatch
<1>3. CASE Classify
  <2>1. /\ UNCHANGED <<inputs, matches>> /\ attempt.pc = "asking"
        /\ \E pc \in {"whole", "partial"} : \E known, records :
             attempt' = [attempt EXCEPT !.pc = pc, !.known = known, !.records = records]
    BY <1>3 DEF Classify
  <2> QED
    BY <1>1, <2>1 DEF Fields, Executing, Planned, InBatch
<1>4. CASE AnswerMisfit
  BY <1>1, <1>4 DEF AnswerMisfit, Fields, Executing, Planned, InBatch
<1>5. CASE CommitBatch
  BY <1>1, <1>5 DEF CommitBatch, Fields
<1>6. CASE CommitPartial
  BY <1>1, <1>6 DEF CommitPartial, Fields, Executing, Planned, InBatch
<1>7. CASE LoseSession
  BY <1>1, <1>7 DEF LoseSession, Fields, Executing, Planned, InBatch
<1>8. CASE RecordFailure
  BY <1>1, <1>8 DEF RecordFailure, Fields
<1> QED
  BY <1>2, <1>3, <1>4, <1>5, <1>6, <1>7, <1>8

LEMMA BatchesInit == Init => BatchesInv
  BY IdleShaped DEF Init, BatchesInv, Prepared, Settled, Loaded, Executing, Planned, InBatch

LEMMA BatchesStep == Shaped /\ MatchInv /\ BatchesInv /\ [Next]_vars => BatchesInv'
<1> SUFFICES ASSUME Shaped, MatchInv, BatchesInv, [Next]_vars PROVE BatchesInv'
  OBVIOUS
<1>1. DOMAIN attempt = Fields
  BY DEF Shaped
<1>2. ASSUME attempt'.pc \notin Prepared \cup InBatch PROVE BatchesInv'
  BY <1>2 DEF BatchesInv, Prepared, Settled, Loaded, Executing, Planned, InBatch
<1>3. CASE StartBatch \/ Classify \/ AnswerMisfit \/ CommitBatch \/ CommitPartial \/ RecordFailure
           \/ LoseSession
  <2>1. /\ attempt'.items = attempt.items /\ attempt'.rows = attempt.rows
        /\ \/ /\ attempt.pc \in Executing /\ attempt'.pc \in InBatch /\ attempt'.at = attempt.at
              /\ attempt.pc \in InBatch \/ attempt.at \in DOMAIN attempt.rows
           \/ attempt.pc = "whole" /\ attempt'.pc = "next" /\ attempt'.at = attempt.at + 1
           \/ attempt'.pc = "raising"
    BY <1>3, BatchSteps
  <2> QED
    BY <2>1 DEF BatchesInv, Prepared, Settled, Loaded, Executing, Planned, InBatch
<1>4. CASE SyncPlan
  <2> DEFINE plan == PlanBatches(Those(attempt.items, Items \ Local))
  <2>1. /\ DOMAIN attempt'.rows = DOMAIN plan
        /\ \A i \in DOMAIN plan : attempt'.rows[i].items = plan[i]
        /\ attempt.pc = "stored" /\ attempt'.pc = "next" /\ attempt'.items = attempt.items
    BY <1>4, RowsAfterSync
  <2>2. attempt.items \in Seq(Items)
    BY <2>1 DEF BatchesInv, Prepared, Settled, Loaded
  <2>3. /\ plan \in Seq(Seq(Items)) /\ \E n \in Nat : DOMAIN plan = 1..n
        /\ UNION {ToSet(plan[i]) : i \in DOMAIN plan} = ToSet(attempt.items) \ Local
    BY <2>2, PlannedAre
  <2> HIDE DEF plan
  <2>4. \A i \in DOMAIN plan : plan[i] \in Seq(Items) /\ ToSet(plan[i]) \subseteq ToSet(attempt.items) \ Local
    BY <2>3
  <2> QED
    BY <2>1, <2>2, <2>3, <2>4 DEF BatchesInv, Prepared, Settled, Loaded, Executing, Planned, InBatch
<1>5. CASE PrepareCandidates
  <2>1. /\ attempt.pc = "matched" /\ attempt'.pc = "prepared"
        /\ attempt'.items = Candidates /\ attempt'.at = 1
    BY <1>1, <1>5 DEF PrepareCandidates, Fields
  <2>2. attempt.seen \in Prints /\ attempt.pairs \subseteq PairsOf[attempt.seen]
    BY <2>1 DEF MatchInv, AttemptMatches, Settled, Loaded
  <2>3. Candidates \in Seq(Items)
    BY <2>2, CandidatesAre
  <2> QED
    BY <2>1, <2>3 DEF BatchesInv, Prepared, Settled, Loaded, Executing, Planned, InBatch
<1>6. CASE StoreLocal
  <2>1. /\ attempt.pc = "prepared" /\ attempt'.pc = "stored"
        /\ attempt'.items = attempt.items /\ attempt'.at = attempt.at
    BY <1>1, <1>6 DEF StoreLocal, Fields
  <2> QED
    BY <2>1 DEF BatchesInv, Prepared, Settled, Loaded, Executing, Planned, InBatch
<1>7. CASE Begin \/ LoadSections \/ ReuseMatching \/ ReplaceSectionMatches \/ AlignSection
           \/ MarkMatched \/ Complete \/ FailComparison \/ Crash
  <2>1. attempt'.pc \in {"started", "loaded", "matched", "aligning", "idle"}
    BY <1>1, <1>7, IdleShaped DEF Begin, LoadSections, ReuseMatching, ReplaceSectionMatches,
       AlignSection, AtSection, MarkMatched, Complete, FailComparison, Crash, Fields
  <2> QED
    BY <1>2, <2>1 DEF Prepared, Settled, Loaded, InBatch
<1>8. CASE Reparse \/ Drift \/ UNCHANGED vars
  <2>1. UNCHANGED attempt
    BY <1>8 DEF Reparse, Drift, vars
  <2> QED
    BY <2>1 DEF BatchesInv
<1> QED
  BY <1>3, <1>4, <1>5, <1>6, <1>7, <1>8 DEF Next

-----------------------------------------------------------------------------
(* Steps that leave the ledger alone and begin, or end, outside a batch.   *)
LEMMA IdleLedgerSteps ==
  ASSUME Shaped, LedgerInv,
         \/ Begin \/ LoadSections \/ ReuseMatching \/ ReplaceSectionMatches \/ AlignSection
         \/ MarkMatched \/ PrepareCandidates \/ StoreLocal \/ Complete \/ FailComparison \/ Crash
  PROVE  /\ ledger' = ledger /\ attempt'.records = NoResults
         /\ attempt'.pc \notin Executing \cup {"raising"}
<1>1. DOMAIN attempt = Fields
  BY DEF Shaped
<1>2. attempt.pc \notin {"whole", "partial", "failing", "raising"} => attempt.records = NoResults
  BY DEF LedgerInv, BatchCovered
<1>3. CASE Begin \/ Complete \/ FailComparison \/ Crash
  <2>1. /\ ledger' = ledger
        /\ \/ attempt' = Idle
           \/ attempt'.pc = "started" /\ attempt'.records = Idle.records
    BY <1>3, IdleShaped DEF Begin, Complete, FailComparison, Crash, Fields
  <2> QED
    BY <2>1, IdleShaped DEF Executing, Planned, InBatch
<1>4. CASE LoadSections
  BY <1>1, <1>2, <1>4 DEF LoadSections, Fields, Executing, Planned, InBatch
<1>5. CASE ReuseMatching
  BY <1>1, <1>2, <1>5 DEF ReuseMatching, Fields, Executing, Planned, InBatch
<1>6. CASE ReplaceSectionMatches
  BY <1>1, <1>2, <1>6 DEF ReplaceSectionMatches, Fields, Executing, Planned, InBatch
<1>7. CASE AlignSection
  BY <1>1, <1>2, <1>7 DEF AlignSection, AtSection, Fields, Executing, Planned, InBatch
<1>8. CASE MarkMatched
  BY <1>1, <1>2, <1>8 DEF MarkMatched, Fields, Executing, Planned, InBatch
<1>9. CASE PrepareCandidates
  BY <1>1, <1>2, <1>9 DEF PrepareCandidates, Fields, Executing, Planned, InBatch
<1>10. CASE StoreLocal
  BY <1>1, <1>2, <1>10 DEF StoreLocal, Fields, Executing, Planned, InBatch
<1> QED
  BY <1>3, <1>4, <1>5, <1>6, <1>7, <1>8, <1>9, <1>10

(* What a request settles of the batch: what was not asked, and what was    *)
(* answered; of that, what is known, well answered included, is a success. *)
Answers(answered, good) ==
  /\ good \subseteq answered /\ answered \subseteq attempt.todo
  /\ attempt.pc = "asking"
  /\ attempt'.pc = IF answered = attempt.todo THEN "whole" ELSE "partial"
  /\ attempt'.known = attempt.known \cup good
  /\ attempt'.records =
       [item \in {item \in ToSet(ThisBatch.items) : Text[item] \notin attempt.todo \ answered} |->
          IF Text[item] \in attempt.known \cup good THEN "success" ELSE "requires_review"]
  /\ attempt'.at = attempt.at /\ attempt'.rows = attempt.rows /\ attempt'.items = attempt.items
  /\ attempt'.ledgered = attempt.ledgered
  /\ given' = given \cup (good \X {context})
  /\ UNCHANGED <<inputs, matches, changes, ledger>>

LEMMA ClassifySteps ==
  ASSUME Shaped, Classify
  PROVE  \E answered \in SUBSET attempt.todo : \E good : Answers(answered, good)
<1> DEFINE settled(answered) ==
             {item \in ToSet(ThisBatch.items) : Text[item] \notin attempt.todo \ answered}
           records(answered, good) ==
             [item \in settled(answered) |->
                IF Text[item] \in attempt.known \cup good THEN "success" ELSE "requires_review"]
<1>1. PICK answered \in SUBSET attempt.todo :
        \E good \in SUBSET answered :
          /\ attempt' = [attempt EXCEPT !.pc = IF answered = attempt.todo THEN "whole" ELSE "partial",
                                        !.known = attempt.known \cup good,
                                        !.records = records(answered, good)]
          /\ given' = given \cup (good \X {context})
  BY DEF Classify
<1>2. PICK good \in SUBSET answered :
          /\ attempt' = [attempt EXCEPT !.pc = IF answered = attempt.todo THEN "whole" ELSE "partial",
                                        !.known = attempt.known \cup good,
                                        !.records = records(answered, good)]
          /\ given' = given \cup (good \X {context})
  BY <1>1
<1>3. DOMAIN attempt = Fields
  BY DEF Shaped
<1>4. /\ attempt'.pc = IF answered = attempt.todo THEN "whole" ELSE "partial"
      /\ attempt'.known = attempt.known \cup good /\ attempt'.records = records(answered, good)
      /\ attempt'.at = attempt.at /\ attempt'.rows = attempt.rows /\ attempt'.items = attempt.items
      /\ attempt'.ledgered = attempt.ledgered
  <2> HIDE DEF records
  <2> QED
    BY <1>2, <1>3 DEF Fields
<1>5. attempt.pc = "asking" /\ UNCHANGED <<inputs, matches, changes, ledger>>
  BY DEF Classify
<1>6. Answers(answered, good)
  BY <1>2, <1>4, <1>5 DEF Answers
<1> QED
  BY <1>6

LEMMA NoResultsAre ==
  DOMAIN NoResults = {} /\ \A outcome : TextsOf(Outcome(NoResults, outcome)) = {}
  BY DEF NoResults, Outcome, TextsOf

LEMMA LedgerInit == Init => LedgerInv
<1> SUFFICES ASSUME Init PROVE LedgerInv
  OBVIOUS
<1>1. attempt = Idle /\ ledger = <<>>
  BY DEF Init
<1> QED
  BY <1>1, IdleShaped, NoResultsAre DEF LedgerInv, SnapshotHolds, BatchCovered, SuccessesKnown,
     NothingToRepair, Executing, Planned, InBatch

LEMMA LedgerStep == Shaped /\ BatchesInv /\ LedgerInv /\ [Next]_vars => LedgerInv'
<1> SUFFICES ASSUME Shaped, BatchesInv, LedgerInv, [Next]_vars PROVE LedgerInv'
  OBVIOUS
<1>1. DOMAIN attempt = Fields /\ RowsShaped(ledger) /\ RowsShaped(attempt.rows) /\ attempt.at \in Nat
  BY DEF Shaped
<1>2. SnapshotHolds /\ BatchCovered /\ SuccessesKnown /\ NothingToRepair
  BY DEF LedgerInv
<1>3. SUFFICES SnapshotHolds' /\ BatchCovered' /\ SuccessesKnown' /\ NothingToRepair'
  BY DEF LedgerInv
<1>4. ASSUME ledger' = ledger, attempt'.records = NoResults, attempt'.pc \notin Executing \cup {"raising"}
      PROVE  SnapshotHolds' /\ BatchCovered' /\ SuccessesKnown' /\ NothingToRepair'
  BY <1>2, <1>4, NoResultsAre DEF SnapshotHolds, BatchCovered, SuccessesKnown, NothingToRepair,
     Executing, Planned, InBatch
<1>5. CASE \/ Begin \/ LoadSections \/ ReuseMatching \/ ReplaceSectionMatches \/ AlignSection
           \/ MarkMatched \/ PrepareCandidates \/ StoreLocal \/ Complete \/ FailComparison \/ Crash
  BY <1>4, <1>5, IdleLedgerSteps
<1>6. CASE SyncPlan
  <2> DEFINE plan == PlanBatches(Those(attempt.items, Items \ Local))
  <2>1. /\ DOMAIN attempt'.rows = DOMAIN plan
        /\ \A i \in DOMAIN plan :
             \/ i \in DOMAIN ledger /\ attempt'.rows[i] = ledger[i]
             \/ attempt'.rows[i] = Pending(plan[i], context)
        /\ attempt.ledgered /\ plan # <<>> => ledger' = attempt'.rows
        /\ ~ (attempt.ledgered /\ plan # <<>>) => ledger' = ledger
        /\ attempt.pc = "stored" /\ attempt'.pc = "next"
        /\ attempt'.at = attempt.at /\ attempt'.records = attempt.records
        /\ attempt'.ledgered = attempt.ledgered
    BY <1>6, RowsAfterSync
  <2>2. attempt.at = 1 /\ attempt.records = NoResults
    BY <1>2, <2>1 DEF BatchesInv, BatchCovered
  <2>3. attempt.items \in Seq(Items)
    BY <2>1 DEF BatchesInv, Prepared, Settled, Loaded
  <2>4. \E n \in Nat : DOMAIN plan = 1..n
    BY <2>3, PlannedAre
  <2>5. plan = <<>> => DOMAIN plan = {}
    OBVIOUS
  <2> HIDE DEF plan
  <2>6. SnapshotHolds'
    BY <2>1, <2>5 DEF SnapshotHolds
  <2>7. BatchCovered'
    BY <2>1, <2>2 DEF BatchCovered, InBatch
  <2>8. SuccessesKnown'
    <3>1. \A i \in DOMAIN attempt'.rows : ~ (i < attempt'.at)
      BY <2>1, <2>2, <2>4
    <3> QED
      BY <2>1, <2>2, <3>1, NoResultsAre DEF SuccessesKnown, InBatch
  <2>9. NothingToRepair'
    <3>1. CASE ledger' = ledger
      BY <1>2, <3>1 DEF NothingToRepair
    <3>2. CASE ledger' = attempt'.rows
      <4>1. \A i : Pending(plan[i], context).status # "completed"
        BY DEF Pending
      <4> QED
        BY <1>2, <2>1, <3>2, <4>1 DEF NothingToRepair
    <3> QED
      BY <2>1, <3>1, <3>2
  <2> QED
    BY <2>6, <2>7, <2>8, <2>9
<1>7. CASE StartBatch
  <2> DEFINE at == attempt.at
             marked == MarkProcessing(ledger, at)
  <2>1. /\ attempt.pc = "next" /\ attempt'.pc = "asking" /\ at \in DOMAIN attempt.rows
        /\ ledger' = ledger \/ ledger' = marked
        /\ attempt'.known = Known /\ attempt'.todo \cap Known = {}
        /\ attempt'.at = at /\ attempt'.rows = attempt.rows /\ attempt'.ledgered = attempt.ledgered
        /\ attempt'.records = attempt.records
    BY <1>1, <1>7 DEF StartBatch, AtBatch, Fields
  <2>2. /\ DOMAIN marked = DOMAIN ledger
        /\ \A j \in DOMAIN ledger \ {at} : marked[j] = ledger[j]
        /\ at \in DOMAIN ledger => marked[at].status = "processing"
        /\ \A j \in DOMAIN ledger : /\ marked[j].items = ledger[j].items
                                    /\ marked[j].context = ledger[j].context
                                    /\ marked[j].results = ledger[j].results
    BY <1>1 DEF MarkProcessing, RowsShaped, RowShaped
  <2> HIDE DEF marked
  <2>3. /\ DOMAIN ledger' = DOMAIN ledger
        /\ \A j \in DOMAIN ledger : /\ ledger'[j].items = ledger[j].items
                                    /\ ledger'[j].context = ledger[j].context
                                    /\ ledger'[j].results = ledger[j].results
                                    /\ ledger'[j].status = "completed" => ledger[j].status = "completed"
    BY <2>1, <2>2
  <2>4. SnapshotHolds'
    BY <1>2, <2>1, <2>3 DEF SnapshotHolds, Executing, Planned
  <2>5. attempt.records = NoResults
    BY <1>2, <2>1 DEF BatchCovered
  <2>6. BatchCovered'
    BY <2>1, <2>5, NoResultsAre DEF BatchCovered, InBatch
  <2>7. ThisBatch' = ThisBatch /\ attempt.known \subseteq Known
        /\ TextsOf(Outcome(ThisBatch.results, "success")) \subseteq Known
    BY <2>1 DEF ThisBatch, Known
  <2>8. SuccessesKnown'
    <3>1. attempt.ledgered => \A i \in DOMAIN attempt.rows : i < at =>
             TextsOf(Outcome(ledger'[i].results, "success")) \subseteq attempt.known
      BY <1>2, <2>1, <2>3 DEF SuccessesKnown, SnapshotHolds, Planned, Executing
    <3>2. TextsOf(Outcome(ThisBatch'.results, "success")) \subseteq attempt'.known
      BY <2>1, <2>7
    <3> QED
      BY <2>1, <2>5, <2>7, <3>1, <3>2, NoResultsAre DEF SuccessesKnown, InBatch
  <2>9. NothingToRepair'
    BY <1>2, <2>3 DEF NothingToRepair
  <2> QED
    BY <2>4, <2>6, <2>8, <2>9
<1>8. CASE Classify
  <2>1. PICK answered \in SUBSET attempt.todo : \E good : Answers(answered, good)
    BY <1>8, ClassifySteps
  <2>2. PICK good : Answers(answered, good)
    BY <2>1
  <2> DEFINE settled == {item \in ToSet(ThisBatch.items) : Text[item] \notin attempt.todo \ answered}
  <2>3. settled \subseteq ToSet(ThisBatch.items)
        /\ (answered = attempt.todo => settled = ToSet(ThisBatch.items))
    OBVIOUS
  <2>4. /\ attempt.pc = "asking" /\ ledger' = ledger
        /\ attempt'.pc = IF answered = attempt.todo THEN "whole" ELSE "partial"
        /\ attempt'.known = attempt.known \cup good
        /\ attempt'.records = [item \in settled |->
             IF Text[item] \in attempt.known \cup good THEN "success" ELSE "requires_review"]
        /\ attempt'.at = attempt.at /\ attempt'.rows = attempt.rows
        /\ attempt'.ledgered = attempt.ledgered
    BY <2>2 DEF Answers
  <2> HIDE DEF settled
  <2>5. ThisBatch' = ThisBatch /\ DOMAIN attempt'.records = settled
        /\ \A item \in settled :
             /\ attempt'.records[item] \in {"success", "requires_review"}
             /\ attempt'.records[item] = "success" => Text[item] \in attempt'.known
    BY <2>4 DEF ThisBatch
  <2>6. SnapshotHolds'
    BY <1>2, <2>4 DEF SnapshotHolds, Executing, Planned, InBatch
  <2>7. BatchCovered'
    BY <2>4, <2>3, <2>5 DEF BatchCovered, InBatch
  <2>8. SuccessesKnown'
    <3>1. attempt.ledgered => \A i \in DOMAIN attempt.rows : i < attempt.at =>
             TextsOf(Outcome(ledger[i].results, "success")) \subseteq attempt.known
      BY <1>2, <2>4 DEF SuccessesKnown, Planned
    <3>2. TextsOf(Outcome(ThisBatch.results, "success")) \subseteq attempt.known
      BY <1>2, <2>4 DEF SuccessesKnown, InBatch
    <3>3. /\ attempt'.ledgered => \A i \in DOMAIN attempt'.rows : i < attempt'.at =>
               TextsOf(Outcome(ledger'[i].results, "success")) \subseteq attempt'.known
          /\ TextsOf(Outcome(ThisBatch'.results, "success")) \subseteq attempt'.known
      BY <2>4, <2>5, <3>1, <3>2
    <3> QED
      BY <2>4, <2>5, <3>3 DEF SuccessesKnown
  <2>9. NothingToRepair'
    BY <1>2, <2>4 DEF NothingToRepair
  <2> QED
    BY <2>6, <2>7, <2>8, <2>9
<1>9. CASE AnswerMisfit \/ CommitPartial
  <2>1. /\ attempt.pc \in {"asking", "partial"} /\ attempt'.pc = "failing" /\ ledger' = ledger
        /\ attempt'.rows = attempt.rows /\ attempt'.at = attempt.at
        /\ attempt'.known = attempt.known /\ attempt'.records = attempt.records
        /\ attempt'.ledgered = attempt.ledgered
    BY <1>1, <1>9 DEF AnswerMisfit, CommitPartial, Fields
  <2>2. SnapshotHolds' /\ BatchCovered'
    BY <1>2, <2>1 DEF SnapshotHolds, BatchCovered, ThisBatch, Executing, Planned, InBatch
  <2>3. SuccessesKnown'
    BY <1>2, <2>1 DEF SuccessesKnown, Planned, InBatch
  <2>4. NothingToRepair'
    BY <1>2, <2>1 DEF NothingToRepair
  <2> QED
    BY <2>2, <2>3, <2>4
<1>10. CASE CommitBatch
  <2> DEFINE at == attempt.at
             marked == MarkWith(ledger, at, "completed", attempt.records)
  <2>1. /\ attempt.pc = "whole" /\ attempt'.pc = "next"
        /\ ledger' = ledger \/ ledger' = marked
        /\ ~attempt.ledgered => ledger' = ledger
        /\ attempt'.known = attempt.known /\ attempt'.records = NoResults
        /\ attempt'.at = at + 1 /\ attempt'.rows = attempt.rows
        /\ attempt'.ledgered = attempt.ledgered
    BY <1>1, <1>10 DEF CommitBatch, MarkCompleted, Fields
  <2>2. /\ DOMAIN marked = DOMAIN ledger
        /\ \A j \in DOMAIN ledger \ {at} : marked[j] = ledger[j]
        /\ at \in DOMAIN ledger =>
             marked[at] = [items |-> ledger[at].items, context |-> ledger[at].context,
                           status |-> "completed",
                           results |-> Merged(ledger[at].results, attempt.records)]
    BY <1>1 DEF MarkWith, RowsShaped, RowShaped
  <2>3. /\ at \in DOMAIN attempt.rows /\ DOMAIN attempt.records = ToSet(ThisBatch.items)
        /\ \E n \in Nat : DOMAIN attempt.rows = 1..n
    BY <1>2, <2>1 DEF BatchesInv, BatchCovered, InBatch, Executing, Planned
  <2>4. attempt.ledgered =>
          \A i \in DOMAIN attempt.rows :
            /\ i \in DOMAIN ledger
            /\ ledger[i].items = attempt.rows[i].items /\ ledger[i].context = attempt.rows[i].context
            /\ i >= at => ledger[i].results = attempt.rows[i].results
    BY <1>2, <2>1 DEF SnapshotHolds, Executing, Planned
  <2> HIDE DEF marked
  <2>5. SnapshotHolds'
    <3>1. \A i \in DOMAIN attempt.rows : i >= at + 1 => i >= at /\ i # at
      BY <1>1, <2>3
    <3>2. attempt.ledgered =>
            \A i \in DOMAIN attempt.rows :
              /\ i \in DOMAIN ledger'
              /\ ledger'[i].items = attempt.rows[i].items /\ ledger'[i].context = attempt.rows[i].context
              /\ i >= at + 1 => ledger'[i].results = attempt.rows[i].results
      <4>1. SUFFICES ASSUME attempt.ledgered, NEW i \in DOMAIN attempt.rows
                     PROVE  /\ i \in DOMAIN ledger'
                            /\ ledger'[i].items = attempt.rows[i].items
                            /\ ledger'[i].context = attempt.rows[i].context
                            /\ i >= at + 1 => ledger'[i].results = attempt.rows[i].results
        OBVIOUS
      <4>2. CASE ledger' = ledger \/ i # at
        BY <2>1, <2>2, <2>4, <3>1, <4>1, <4>2
      <4>3. CASE ledger' = marked /\ i = at
        BY <2>2, <2>4, <3>1, <4>1, <4>3
      <4> QED
        BY <2>1, <4>2, <4>3
    <3> QED
      BY <2>1, <3>2 DEF SnapshotHolds
  <2>6. BatchCovered'
    BY <2>1 DEF BatchCovered, InBatch
  <2>7. SuccessesKnown'
    <3>1. /\ attempt.ledgered => \A i \in DOMAIN attempt.rows : i < at =>
               TextsOf(Outcome(ledger[i].results, "success")) \subseteq attempt.known
          /\ TextsOf(Outcome(ThisBatch.results, "success")) \subseteq attempt.known
          /\ \A item \in DOMAIN attempt.records :
               attempt.records[item] = "success" => Text[item] \in attempt.known
      BY <1>2, <2>1 DEF SuccessesKnown, Planned, InBatch
    <3>2. ASSUME attempt.ledgered
          PROVE  TextsOf(Outcome(ledger'[at].results, "success")) \subseteq attempt.known
      <4>1. at \in DOMAIN ledger /\ ledger[at].results = ThisBatch.results
        BY <1>1, <2>3, <2>4, <3>2 DEF ThisBatch
      <4>2. TextsOf(Outcome(attempt.records, "success")) \subseteq attempt.known
        BY <3>1 DEF TextsOf, Outcome
      <4>3. CASE ledger' = ledger
        BY <3>1, <4>1, <4>3
      <4>4. CASE ledger' = marked
        <5>1. ledger'[at].results = Merged(ThisBatch.results, attempt.records)
          BY <2>2, <4>1, <4>4
        <5>2. Outcome(ledger'[at].results, "success")
                \subseteq Outcome(ThisBatch.results, "success") \cup Outcome(attempt.records, "success")
          BY <5>1, MergedOutcome
        <5> QED
          BY <3>1, <4>2, <5>2 DEF TextsOf
      <4> QED
        BY <2>1, <4>3, <4>4
    <3>3. attempt.ledgered => \A i \in DOMAIN attempt.rows : i < at + 1 =>
            TextsOf(Outcome(ledger'[i].results, "success")) \subseteq attempt.known
      <4>1. SUFFICES ASSUME attempt.ledgered, NEW i \in DOMAIN attempt.rows, i < at + 1
                     PROVE  TextsOf(Outcome(ledger'[i].results, "success")) \subseteq attempt.known
        OBVIOUS
      <4>2. i = at \/ i < at
        BY <1>1, <2>3, <4>1
      <4>3. i # at => ledger'[i] = ledger[i]
        BY <2>1, <2>2, <2>4, <4>1
      <4> QED
        BY <3>1, <3>2, <4>1, <4>2, <4>3
    <3> QED
      BY <2>1, <3>3, NoResultsAre DEF SuccessesKnown, InBatch
  <2>8. NothingToRepair'
    <3>1. CASE ledger' = ledger
      BY <1>2, <3>1 DEF NothingToRepair
    <3>2. CASE ledger' = marked /\ attempt.ledgered
      <4>1. at \in DOMAIN ledger /\ ledger[at].items = ThisBatch.items
        BY <2>3, <2>4, <3>2 DEF ThisBatch
      <4>2. ToSet(marked[at].items) \subseteq DOMAIN marked[at].results
        BY <2>2, <2>3, <4>1 DEF Merged
      <4> QED
        BY <1>2, <2>2, <3>2, <4>1, <4>2 DEF NothingToRepair
    <3> QED
      BY <2>1, <3>1, <3>2
  <2> QED
    BY <2>5, <2>6, <2>7, <2>8
<1>11. CASE LoseSession
  <2>1. /\ attempt'.pc = IF attempt.pc \in {"whole", "partial"} THEN "failing" ELSE "raising"
        /\ ledger' = ledger /\ attempt'.rows = attempt.rows /\ attempt'.at = attempt.at
        /\ attempt'.known = attempt.known /\ attempt'.records = attempt.records
        /\ attempt'.ledgered = attempt.ledgered
    BY <1>1, <1>11 DEF LoseSession, Fields
  <2>2. SnapshotHolds' /\ BatchCovered'
    BY <1>2, <2>1 DEF SnapshotHolds, BatchCovered, ThisBatch, Executing, Planned, InBatch
  <2>3. SuccessesKnown'
    BY <1>2, <2>1 DEF SuccessesKnown, Planned, InBatch
  <2>4. NothingToRepair'
    BY <1>2, <2>1 DEF NothingToRepair
  <2> QED
    BY <2>2, <2>3, <2>4
<1>12. CASE RecordFailure
  <2> DEFINE failed == MarkWith(ledger, attempt.at, "failed", attempt.records)
  <2>1. /\ attempt'.pc = "raising" /\ attempt'.known = attempt.known
        /\ attempt'.records = attempt.records /\ (ledger' = ledger \/ ledger' = failed)
    BY <1>1, <1>12 DEF RecordFailure, MarkFailed, Fields
  <2>2. SnapshotHolds' /\ BatchCovered' /\ SuccessesKnown'
    BY <1>2, <2>1 DEF SnapshotHolds, BatchCovered, SuccessesKnown, Executing, Planned, InBatch
  <2>3. /\ DOMAIN failed = DOMAIN ledger
        /\ \A j \in DOMAIN ledger : failed[j] = ledger[j] \/ failed[j].status = "failed"
    BY <1>1 DEF MarkWith, RowsShaped, RowShaped
  <2>4. NothingToRepair'
    BY <1>2, <2>1, <2>3 DEF NothingToRepair
  <2> QED
    BY <2>2, <2>4
<1>13. CASE Reparse \/ Drift \/ UNCHANGED vars
  <2>1. UNCHANGED <<attempt, ledger>>
    BY <1>13 DEF Reparse, Drift, vars
  <2> QED
    BY <1>2, <2>1 DEF SnapshotHolds, BatchCovered, SuccessesKnown, NothingToRepair, ThisBatch
<1> QED
  BY <1>5, <1>6, <1>7, <1>8, <1>9, <1>10, <1>11, <1>12, <1>13 DEF Next

LEMMA LedgerHolds == Shaped /\ BatchesInv /\ LedgerInv => NothingToRepair /\ ResultsAreNotAskedAgain
<1> SUFFICES ASSUME Shaped, BatchesInv, LedgerInv PROVE NothingToRepair /\ ResultsAreNotAskedAgain
  OBVIOUS
<1>1. SUFFICES ASSUME attempt.pc = "asking", attempt.ledgered, NEW i \in 1..attempt.at
               PROVE  attempt.todo \cap TextsOf(Outcome(ledger[i].results, "success")) = {}
  BY DEF LedgerInv, ResultsAreNotAskedAgain
<1>2. attempt.at \in DOMAIN attempt.rows /\ attempt.at \in Nat /\ \E n \in Nat : DOMAIN attempt.rows = 1..n
  BY <1>1 DEF BatchesInv, Executing, Planned, InBatch, Shaped
<1>3. i \in DOMAIN attempt.rows /\ (i < attempt.at \/ i = attempt.at)
  BY <1>1, <1>2
<1>4. TextsOf(Outcome(ledger[i].results, "success")) \subseteq attempt.known
  <2>1. CASE i < attempt.at
    BY <1>1, <1>3, <2>1 DEF LedgerInv, SuccessesKnown, Planned
  <2>2. CASE i = attempt.at
    <3>1. i >= attempt.at
      BY <1>2, <2>2
    <3>2. ledger[i].results = ThisBatch.results
      BY <1>1, <1>3, <2>2, <3>1 DEF LedgerInv, SnapshotHolds, Executing, Planned, ThisBatch
    <3> QED
      BY <1>1, <3>2 DEF LedgerInv, SuccessesKnown, InBatch
  <2> QED
    BY <1>3, <2>1, <2>2
<1> QED
  BY <1>1, <1>4 DEF LedgerInv, SuccessesKnown

(***************************************************************************)
(* The ledger of the batches is in step with the plan and with the answers *)
(* that the running attempt holds (sync_plan, mark_completed,              *)
(* _classify_in_batches).                                                  *)
(***************************************************************************)
THEOREM LedgerIsRight == Spec => [](Shaped /\ MatchInv /\ BatchesInv /\ LedgerInv)
  BY ShapedInit, MatchInit, BatchesInit, LedgerInit, ShapedStep, MatchStep, BatchesStep, LedgerStep,
     PTL DEF Spec

(***************************************************************************)
(* A batch on record as completed has the outcome of each of its items, so *)
(* that the repair of such batches has nothing to do (mark_completed).     *)
(***************************************************************************)
THEOREM NothingIsRepaired == Spec => []NothingToRepair
  BY LedgerIsRight, LedgerHolds, PTL

(***************************************************************************)
(* An attempt that keeps a ledger does not ask again for what it, or an    *)
(* attempt before it, put on record (overlay_from_records).                *)
(***************************************************************************)
THEOREM ResultsAreReused == Spec => []ResultsAreNotAskedAgain
  BY LedgerIsRight, LedgerHolds, PTL

-----------------------------------------------------------------------------
(* Answers are never forgotten.                                            *)
LEMMA GivenGrows ==
  ASSUME [Next]_vars
  PROVE  given \subseteq given'
  BY DEF Next, vars, Begin, LoadSections, ReuseMatching, ReplaceSectionMatches, AlignSection,
     MarkMatched, PrepareCandidates, StoreLocal, SyncPlan, StartBatch, Classify, AnswerMisfit,
     CommitBatch, CommitPartial, Complete, LoseSession, RecordFailure, FailComparison, Crash,
     Reparse, Drift

(* What is recorded of an attempt's answers was given.                     *)
LEMMA RecordsGiven ==
  ASSUME LedgerInv, GivenInv
  PROVE  \A item \in Outcome(attempt.records, "success") :
           Answered(Text[item], VersionOf[context])
  BY DEF LedgerInv, SuccessesKnown, GivenInv, AnswersGiven, Outcome

(* A stored answer is for a candidate whose passages are there.            *)
LEMMA StoredAnswers ==
  ASSUME Shaped, BatchesInv, LedgerInv, GivenInv, attempt.pc \in {"whole", "partial"},
         Storable(DOMAIN attempt.records), NEW item \in DOMAIN attempt.records
  PROVE  LET there == [pair |-> item.pair, live |-> TRUE] IN
         /\ there \notin Local /\ item.pair \in aligned
         /\ RecordOf(item.pair) \in {"success", "requires_review"}
         /\ RecordOf(item.pair) = "success" => Answered(Text[there], VersionOf[context])
<1>1. /\ DOMAIN attempt.records \subseteq ToSet(ThisBatch.items)
      /\ ToSet(ThisBatch.items) \subseteq ToSet(attempt.items) \ Local
      /\ attempt.items \in Seq(Items)
  BY DEF LedgerInv, BatchCovered, BatchesInv, ThisBatch, InBatch, Executing
<1>2. \A x \in ToSet(attempt.items) : x \in Items /\ (x.live \/ x.pair \notin aligned)
  <2>1. \A x \in ToSet(attempt.items) : x \in Items
    BY <1>1 DEF ToSet
  <2> QED
    BY <2>1 DEF GivenInv, CandidatesHold, InBatch
<1>3. \A x \in DOMAIN attempt.records :
        /\ x.pair \in aligned /\ x \notin Local /\ x = [pair |-> x.pair, live |-> TRUE]
  <2>1. SUFFICES ASSUME NEW x \in DOMAIN attempt.records
                 PROVE  x.pair \in aligned /\ x \notin Local /\ x = [pair |-> x.pair, live |-> TRUE]
    OBVIOUS
  <2>2. x.pair \in aligned
    BY <2>1 DEF Storable
  <2>3. x \in [pair: Pairs, live: BOOLEAN] /\ x \notin Local /\ x.live
    BY <1>1, <1>2, <2>1, <2>2, ComparisonAssumption
  <2> QED
    BY <2>2, <2>3
<1> DEFINE chosen == CHOOSE x \in DOMAIN attempt.records : x.pair = item.pair
<1>4. chosen \in DOMAIN attempt.records /\ chosen.pair = item.pair
  OBVIOUS
<1>5. chosen = [pair |-> item.pair, live |-> TRUE] /\ chosen \notin Local /\ item.pair \in aligned
  BY <1>3, <1>4
<1>6. RecordOf(item.pair) = attempt.records[chosen]
  BY DEF RecordOf
<1> HIDE DEF chosen
<1>7. attempt.records[chosen] \in {"success", "requires_review"}
  BY <1>4 DEF LedgerInv, SuccessesKnown
<1>8. attempt.records[chosen] = "success" => Answered(Text[chosen], VersionOf[context])
  BY <1>4, RecordsGiven DEF Outcome
<1> QED
  BY <1>5, <1>6, <1>7, <1>8

LEMMA GivenInit == Init => GivenInv
<1> SUFFICES ASSUME Init PROVE GivenInv
  OBVIOUS
<1>1. attempt = Idle /\ ledger = <<>> /\ changes = NoChanges
  BY DEF Init
<1> QED
  BY <1>1, IdleShaped DEF GivenInv, AnswersGiven, CandidatesHold, ChangesHold, NoChanges,
     Prepared, Settled, Loaded, Executing, Planned, InBatch

(* A change that a step keeps is as right as it was.                       *)
LEMMA ChangesStep ==
  Shaped /\ MatchInv /\ BatchesInv /\ LedgerInv /\ GivenInv /\ [Next]_vars => ChangesHold'
<1> SUFFICES ASSUME Shaped, MatchInv, BatchesInv, LedgerInv, GivenInv, [Next]_vars PROVE ChangesHold'
  OBVIOUS
<1> DEFINE Later(text, version) ==
             \E c \in Contexts : VersionOf[c] = version /\ <<text, c>> \in given'
           Right(p, change) ==
             /\ change = [kind |-> change.kind, version |-> change.version]
             /\ change.kind = "no_change" <=> [pair |-> p, live |-> TRUE] \in Local
             /\ change.kind = "success" => Later(Text[[pair |-> p, live |-> TRUE]], change.version)
<1>0. \A text, version : Answered(text, version) => Later(text, version)
  BY GivenGrows DEF Answered
<1>1. DOMAIN changes \subseteq aligned /\ \A p \in DOMAIN changes : Right(p, changes[p])
  <2> HIDE DEF Later
  <2> QED
    BY <1>0 DEF GivenInv, ChangesHold
<1>2. SUFFICES DOMAIN changes' \subseteq aligned' /\ \A p \in DOMAIN changes' : Right(p, changes'[p])
  BY DEF ChangesHold, Answered, Later
<1> HIDE DEF Later
<1>3. ASSUME NEW items, Storable(items), aligned' = aligned,
             DOMAIN changes' = DOMAIN changes \cup {item.pair : item \in items},
             \A p \in DOMAIN changes \ {item.pair : item \in items} : changes'[p] = changes[p],
             \A item \in items : Right(item.pair, changes'[item.pair])
      PROVE  DOMAIN changes' \subseteq aligned' /\ \A p \in DOMAIN changes' : Right(p, changes'[p])
  <2> DEFINE pairs == {item.pair : item \in items}
  <2>1. pairs \subseteq aligned
    BY <1>3 DEF Storable
  <2>2. \A p \in pairs : Right(p, changes'[p])
    BY <1>3
  <2> HIDE DEF Right
  <2> QED
    BY <1>1, <1>3, <2>1, <2>2
<1>4. CASE StoreLocal
  <2>1. /\ Storable(LocalItems) /\ aligned' = aligned
        /\ DOMAIN changes' = DOMAIN changes \cup {item.pair : item \in LocalItems}
        /\ \A p \in DOMAIN changes \ {item.pair : item \in LocalItems} : changes'[p] = changes[p]
        /\ \A item \in LocalItems :
             changes'[item.pair] = [kind |-> "no_change", version |-> VersionOf[context]]
    BY <1>4 DEF StoreLocal, WithChanges, matches
  <2>2. Local \subseteq [pair: Pairs, live: {TRUE}]
    BY ComparisonAssumption
  <2>3. ASSUME NEW item \in Local PROVE item = [pair |-> item.pair, live |-> TRUE]
    <3>1. item \in [pair: Pairs, live: {TRUE}]
      BY <2>2
    <3>2. item = [pair |-> item.pair, live |-> item.live] /\ item.live \in {TRUE}
      BY <3>1
    <3> QED
      BY <3>2
  <2>4. ASSUME NEW item \in LocalItems PROVE Right(item.pair, changes'[item.pair])
    <3>1. [pair |-> item.pair, live |-> TRUE] \in Local
      BY <2>3 DEF LocalItems
    <3>2. changes'[item.pair] = [kind |-> "no_change", version |-> VersionOf[context]]
      BY <2>1
    <3> QED
      BY <3>1, <3>2
  <2> HIDE DEF Right
  <2> QED
    BY <1>3, <2>1, <2>4
<1>5. CASE CommitBatch \/ CommitPartial
  <2>1. /\ Storable(DOMAIN attempt.records) /\ aligned' = aligned
        /\ attempt.pc \in {"whole", "partial"}
        /\ DOMAIN changes' = DOMAIN changes \cup {item.pair : item \in DOMAIN attempt.records}
        /\ \A p \in DOMAIN changes \ {item.pair : item \in DOMAIN attempt.records} :
             changes'[p] = changes[p]
        /\ \A item \in DOMAIN attempt.records :
             changes'[item.pair] = [kind |-> RecordOf(item.pair), version |-> VersionOf[context]]
    BY <1>5 DEF CommitBatch, CommitPartial, WithChanges, matches
  <2>2. \A item \in DOMAIN attempt.records : Right(item.pair, changes'[item.pair])
    <3>1. SUFFICES ASSUME NEW item \in DOMAIN attempt.records
                   PROVE  Right(item.pair, changes'[item.pair])
      OBVIOUS
    <3>2. /\ [pair |-> item.pair, live |-> TRUE] \notin Local
          /\ RecordOf(item.pair) \in {"success", "requires_review"}
          /\ RecordOf(item.pair) = "success" =>
               Answered(Text[[pair |-> item.pair, live |-> TRUE]], VersionOf[context])
      BY <2>1, <3>1, StoredAnswers
    <3>3. changes'[item.pair] = [kind |-> RecordOf(item.pair), version |-> VersionOf[context]]
      BY <2>1
    <3>4. RecordOf(item.pair) = "success" =>
            Later(Text[[pair |-> item.pair, live |-> TRUE]], VersionOf[context])
      BY <1>0, <3>2
    <3> HIDE DEF Later
    <3> QED
      BY <3>2, <3>3, <3>4
  <2> HIDE DEF Right
  <2> QED
    BY <1>3, <2>1, <2>2
<1>6. CASE ReplaceSectionMatches
  BY <1>6 DEF ReplaceSectionMatches, NoChanges
<1>7. CASE AlignSection
  <2>1. aligned \subseteq aligned' /\ changes' = changes
    BY <1>7 DEF AlignSection
  <2> HIDE DEF Right
  <2> QED
    BY <1>1, <2>1
<1>8. CASE Reparse
  <2>1. /\ aligned' = aligned \cap LivePairs[parse']
        /\ DOMAIN changes' = DOMAIN changes \cap LivePairs[parse']
        /\ \A p \in DOMAIN changes' : changes'[p] = changes[p]
    BY <1>8 DEF Reparse, Restrict
  <2> HIDE DEF Right
  <2> QED
    BY <1>1, <2>1
<1>9. CASE UNCHANGED <<aligned, changes>>
  <2> HIDE DEF Right
  <2> QED
    BY <1>1, <1>9
<1>10. \/ StoreLocal \/ CommitBatch \/ CommitPartial \/ ReplaceSectionMatches \/ AlignSection
       \/ Reparse \/ UNCHANGED <<aligned, changes>>
  BY DEF Next, vars, matches, Begin, LoadSections, ReuseMatching, MarkMatched, PrepareCandidates,
     SyncPlan, StartBatch, Classify, AnswerMisfit, Complete, LoseSession, RecordFailure,
     FailComparison, Crash, Drift
<1> QED
  BY <1>4, <1>5, <1>6, <1>7, <1>8, <1>9, <1>10

LEMMA CandidatesStep ==
  Shaped /\ MatchInv /\ GivenInv /\ [Next]_vars => CandidatesHold'
<1> SUFFICES ASSUME Shaped, MatchInv, GivenInv, [Next]_vars PROVE CandidatesHold'
  OBVIOUS
<1>1. DOMAIN attempt = Fields
  BY DEF Shaped
<1>2. CandidatesHold
  BY DEF GivenInv
<1>3. CASE StartBatch \/ Classify \/ AnswerMisfit \/ CommitBatch \/ CommitPartial \/ RecordFailure
           \/ LoseSession
  <2>1. /\ attempt'.items = attempt.items /\ aligned' = aligned
        /\ attempt.pc \in Executing \/ attempt'.pc = "raising"
    BY <1>3, BatchSteps DEF matches, Executing, Planned, InBatch
  <2> QED
    BY <1>2, <2>1 DEF CandidatesHold, Prepared, Settled, Loaded, Executing, Planned, InBatch
<1>4. CASE SyncPlan
  <2>1. attempt'.items = attempt.items /\ aligned' = aligned /\ attempt.pc = "stored"
    BY <1>4, RowsAfterSync DEF matches
  <2> QED
    BY <1>2, <2>1 DEF CandidatesHold, Prepared, Settled, Loaded
<1>5. CASE StoreLocal
  <2>1. attempt'.items = attempt.items /\ aligned' = aligned /\ attempt.pc = "prepared"
    BY <1>1, <1>5 DEF StoreLocal, Fields, matches
  <2> QED
    BY <1>2, <2>1 DEF CandidatesHold, Prepared, Settled, Loaded
<1>6. CASE PrepareCandidates
  <2>1. attempt.pc = "matched" /\ attempt'.items = Candidates /\ aligned' = aligned
    BY <1>1, <1>6 DEF PrepareCandidates, Fields
  <2>2. attempt.seen \in Prints /\ attempt.pairs \subseteq PairsOf[attempt.seen]
    BY <2>1 DEF MatchInv, AttemptMatches, Settled, Loaded
  <2>3. ToSet(Candidates) = {[pair |-> p, live |-> p \in LivePairs[parse]] : p \in attempt.pairs}
    BY <2>2, CandidatesAre
  <2>4. aligned \subseteq LivePairs[parse]
    BY DEF MatchInv, AlignedLive
  <2>5. \A item \in ToSet(Candidates) : item.live \/ item.pair \notin aligned
    <3>1. SUFFICES ASSUME NEW p \in attempt.pairs
                   PROVE  LET item == [pair |-> p, live |-> p \in LivePairs[parse]] IN
                          item.live \/ item.pair \notin aligned
      BY <2>3
    <3>2. CASE p \in LivePairs[parse]
      BY <3>2
    <3>3. CASE p \notin aligned
      BY <3>3
    <3> QED
      BY <2>4, <3>2, <3>3
  <2> QED
    BY <2>1, <2>5 DEF CandidatesHold
<1>7. CASE Begin \/ LoadSections \/ ReuseMatching \/ ReplaceSectionMatches \/ AlignSection
           \/ MarkMatched \/ Complete \/ FailComparison \/ Crash
  <2>1. attempt'.pc \in {"started", "loaded", "matched", "aligning", "idle"}
    BY <1>1, <1>7, IdleShaped DEF Begin, LoadSections, ReuseMatching, ReplaceSectionMatches,
       AlignSection, AtSection, MarkMatched, Complete, FailComparison, Crash, Fields
  <2> QED
    BY <2>1 DEF CandidatesHold, Prepared, Settled, Loaded, InBatch
<1>8. CASE Reparse \/ Drift \/ UNCHANGED vars
  <2>1. UNCHANGED attempt /\ aligned' \subseteq aligned
    BY <1>8 DEF Reparse, Drift, vars, matches
  <2> QED
    BY <1>2, <2>1 DEF CandidatesHold
<1> QED
  BY <1>3, <1>4, <1>5, <1>6, <1>7, <1>8 DEF Next

LEMMA AnswersStep ==
  Shaped /\ BatchesInv /\ LedgerInv /\ GivenInv /\ [Next]_vars => AnswersGiven'
<1> SUFFICES ASSUME Shaped, BatchesInv, LedgerInv, GivenInv, [Next]_vars PROVE AnswersGiven'
  OBVIOUS
<1> DEFINE Later(text, version) ==
             \E c \in Contexts : VersionOf[c] = version /\ <<text, c>> \in given'
           Right(row) ==
             \A item \in Outcome(row.results, "success") : Later(Text[item], VersionOf[row.context])
           Holds(texts, version) == \A text \in texts : Later(text, version)
<1>1. \A text, version : Answered(text, version) => Later(text, version)
  BY GivenGrows DEF Answered
<1>2. DOMAIN attempt = Fields /\ RowsShaped(ledger) /\ context \in Contexts /\ attempt.at \in Nat
  BY DEF Shaped
<1>3. /\ Holds(attempt.known, VersionOf[context]) /\ (attempt.pc = "idle" => attempt.known = {})
      /\ \A i \in DOMAIN ledger : Right(ledger[i])
      /\ attempt.pc \in Executing =>
           \A i \in DOMAIN attempt.rows : attempt.rows[i].context = context /\ Right(attempt.rows[i])
  <2> HIDE DEF Later
  <2> QED
    BY <1>1 DEF GivenInv, AnswersGiven, RowGiven
<1>4. SUFFICES
        /\ attempt'.pc = "idle" => attempt'.known = {}
        /\ Holds(attempt'.known, VersionOf[context'])
        /\ \A i \in DOMAIN ledger' : Right(ledger'[i])
        /\ attempt'.pc \in Executing =>
             \A i \in DOMAIN attempt'.rows : attempt'.rows[i].context = context' /\ Right(attempt'.rows[i])
  BY DEF AnswersGiven, RowGiven, Answered
<1> HIDE DEF Later
<1>5. ASSUME attempt' = Idle, UNCHANGED <<context, ledger>>
      PROVE  /\ attempt'.pc = "idle" => attempt'.known = {}
             /\ Holds(attempt'.known, VersionOf[context'])
             /\ \A i \in DOMAIN ledger' : Right(ledger'[i])
             /\ attempt'.pc \notin Executing
  <2> HIDE DEF Right
  <2> QED
    BY <1>3, <1>5, IdleShaped DEF Executing, Planned, InBatch
<1>6. CASE Begin
  <2>1. /\ attempt'.pc = "started" /\ attempt'.known = Stored("success", {VersionOf[context]})
        /\ UNCHANGED <<context, ledger>>
    BY <1>6, IdleShaped DEF Begin, Fields, inputs
  <2>2. Holds(Stored("success", {VersionOf[context]}), VersionOf[context])
    BY <1>1 DEF Stored, GivenInv, ChangesHold
  <2> HIDE DEF Right, Holds
  <2> QED
    BY <1>3, <2>1, <2>2 DEF Executing, Planned, InBatch
<1>7. CASE \/ LoadSections \/ ReuseMatching \/ ReplaceSectionMatches \/ AlignSection
           \/ MarkMatched \/ PrepareCandidates \/ StoreLocal
  <2>1. /\ attempt'.pc \in {"loaded", "matched", "aligning", "prepared", "stored"}
        /\ attempt'.known = attempt.known /\ UNCHANGED <<context, ledger>>
    BY <1>2, <1>7 DEF LoadSections, ReuseMatching, ReplaceSectionMatches, AlignSection, AtSection,
       MarkMatched, PrepareCandidates, StoreLocal, Fields, inputs
  <2> HIDE DEF Right, Holds
  <2> QED
    BY <1>3, <2>1 DEF Executing, Planned, InBatch
<1>8. CASE SyncPlan
  <2> DEFINE plan == PlanBatches(Those(attempt.items, Items \ Local))
  <2>1. /\ DOMAIN attempt'.rows = DOMAIN plan
        /\ \A i \in DOMAIN plan :
             /\ attempt'.rows[i].context = context
             /\ \/ i \in DOMAIN ledger /\ attempt'.rows[i] = ledger[i]
                \/ attempt'.rows[i] = Pending(plan[i], context)
        /\ ledger' = attempt'.rows \/ ledger' = ledger
        /\ attempt'.pc = "next" /\ attempt'.known = attempt.known /\ context' = context
    BY <1>8, RowsAfterSync DEF inputs
  <2> HIDE DEF plan
  <2>2. \A i : Right(Pending(plan[i], context))
    BY NoResultsAre DEF Pending, Outcome
  <2> HIDE DEF Right, Holds
  <2>3. \A i \in DOMAIN plan : Right(attempt'.rows[i])
    BY <1>3, <2>1, <2>2
  <2> QED
    BY <1>3, <2>1, <2>3
<1>9. CASE StartBatch
  <2>1. /\ attempt.pc = "next" /\ attempt'.pc = "asking" /\ attempt.at \in DOMAIN attempt.rows
        /\ ledger' = ledger \/ ledger' = MarkProcessing(ledger, attempt.at)
        /\ attempt'.known = attempt.known \cup TextsOf(Outcome(ThisBatch.results, "success"))
        /\ attempt'.rows = attempt.rows /\ context' = context
    BY <1>2, <1>9 DEF StartBatch, AtBatch, Known, Fields, inputs
  <2>2. /\ DOMAIN ledger' = DOMAIN ledger
        /\ \A j \in DOMAIN ledger : /\ ledger'[j].context = ledger[j].context
                                    /\ ledger'[j].results = ledger[j].results
    BY <1>2, <2>1 DEF MarkProcessing, RowsShaped, RowShaped
  <2>3. Right(ThisBatch) /\ ThisBatch.context = context
    BY <1>3, <2>1 DEF ThisBatch, Executing, Planned
  <2>4. Holds(TextsOf(Outcome(ThisBatch.results, "success")), VersionOf[context])
    BY <2>3 DEF TextsOf
  <2>5. \A i \in DOMAIN ledger' : Right(ledger'[i])
    BY <1>3, <2>2
  <2>6. Holds(attempt'.known, VersionOf[context'])
    BY <1>3, <2>1, <2>4
  <2> HIDE DEF Right, Holds
  <2> QED
    BY <1>3, <2>1, <2>5, <2>6 DEF Executing, Planned
<1>10. CASE Classify
  <2>1. PICK answered \in SUBSET attempt.todo : \E good : Answers(answered, good)
    BY <1>10, ClassifySteps
  <2>2. PICK good : Answers(answered, good)
    BY <2>1
  <2>3. /\ attempt.pc = "asking" /\ attempt'.pc \in {"whole", "partial"}
        /\ attempt'.known = attempt.known \cup good /\ attempt'.rows = attempt.rows
        /\ given' = given \cup (good \X {context}) /\ UNCHANGED <<context, ledger>>
    BY <2>2 DEF Answers, inputs
  <2>4. Holds(good, VersionOf[context])
    BY <1>2, <2>3 DEF Later
  <2>5. Holds(attempt'.known, VersionOf[context'])
    BY <1>3, <2>3, <2>4
  <2> HIDE DEF Right, Holds
  <2> QED
    BY <1>3, <2>3, <2>5 DEF Executing, Planned
<1>11. CASE AnswerMisfit \/ CommitPartial \/ LoseSession
  <2>1. /\ attempt'.known = attempt.known /\ attempt'.rows = attempt.rows
        /\ attempt'.pc \in {"failing", "raising"} /\ UNCHANGED <<context, ledger>>
        /\ attempt.pc \in Executing \/ attempt'.pc = "raising"
    BY <1>2, <1>11 DEF AnswerMisfit, CommitPartial, LoseSession, Fields, inputs,
       Executing, Planned, InBatch
  <2> HIDE DEF Right, Holds
  <2> QED
    BY <1>3, <2>1 DEF Executing, Planned, InBatch
<1>12. ASSUME NEW status, ledger' = MarkWith(ledger, attempt.at, status, attempt.records),
              attempt.ledgered, attempt.pc \in {"whole", "failing"}
       PROVE  \A i \in DOMAIN ledger' : Right(ledger'[i])
  <2> DEFINE at == attempt.at
  <2>1. /\ at \in DOMAIN attempt.rows /\ attempt.rows[at].context = context
        /\ at \in DOMAIN ledger /\ ledger[at].context = attempt.rows[at].context
    BY <1>3, <1>12 DEF BatchesInv, LedgerInv, SnapshotHolds, Executing, Planned, InBatch
  <2>2. /\ DOMAIN ledger' = DOMAIN ledger
        /\ \A j \in DOMAIN ledger \ {at} : ledger'[j] = ledger[j]
        /\ ledger'[at].context = context
        /\ ledger'[at].results = Merged(ledger[at].results, attempt.records)
    BY <1>2, <1>12, <2>1 DEF MarkWith, RowsShaped, RowShaped
  <2>3. \A item \in Outcome(attempt.records, "success") : Later(Text[item], VersionOf[context])
    BY <1>1, RecordsGiven
  <2>4. \A item \in Outcome(ledger[at].results, "success") : Later(Text[item], VersionOf[context])
    BY <1>3, <2>1
  <2>5. Outcome(ledger'[at].results, "success")
          \subseteq Outcome(ledger[at].results, "success") \cup Outcome(attempt.records, "success")
    BY <2>2, MergedOutcome
  <2>6. Right(ledger'[at])
    BY <2>2, <2>3, <2>4, <2>5
  <2> HIDE DEF Right
  <2> QED
    BY <1>3, <2>2, <2>6
<1>13. CASE CommitBatch
  <2>1. /\ attempt.pc = "whole" /\ attempt'.pc = "next" /\ context' = context
        /\ \/ attempt.ledgered /\ ledger' = MarkWith(ledger, attempt.at, "completed", attempt.records)
           \/ ledger' = ledger
        /\ attempt'.known = attempt.known /\ attempt'.rows = attempt.rows
    BY <1>2, <1>13 DEF CommitBatch, MarkCompleted, Fields, inputs
  <2>2. \A i \in DOMAIN ledger' : Right(ledger'[i])
    <3> HIDE DEF Right
    <3> QED
      BY <1>3, <1>12, <2>1
  <2> HIDE DEF Right, Holds
  <2> QED
    BY <1>3, <2>1, <2>2 DEF Executing, Planned
<1>14. CASE RecordFailure
  <2>1. /\ attempt.pc = "failing" /\ attempt'.pc = "raising" /\ context' = context
        /\ \/ attempt.ledgered /\ ledger' = MarkWith(ledger, attempt.at, "failed", attempt.records)
           \/ ledger' = ledger
        /\ attempt'.known = attempt.known
    BY <1>2, <1>14 DEF RecordFailure, MarkFailed, Fields, inputs
  <2>2. \A i \in DOMAIN ledger' : Right(ledger'[i])
    <3> HIDE DEF Right
    <3> QED
      BY <1>3, <1>12, <2>1
  <2> HIDE DEF Right, Holds
  <2> QED
    BY <1>3, <2>1, <2>2 DEF Executing, Planned, InBatch
<1>15. CASE Complete \/ FailComparison \/ Crash
  <2>1. attempt' = Idle /\ UNCHANGED <<context, ledger>>
    BY <1>15 DEF Complete, FailComparison, Crash, inputs
  <2> HIDE DEF Right, Holds
  <2> QED
    BY <1>5, <2>1
<1>16. CASE Drift
  <2>1. attempt.pc = "idle" /\ UNCHANGED <<attempt, ledger>>
    BY <1>16 DEF Drift
  <2>2. Holds({}, VersionOf[context'])
    OBVIOUS
  <2> HIDE DEF Right, Holds
  <2> QED
    BY <1>3, <2>1, <2>2 DEF Executing, Planned, InBatch
<1>17. CASE Reparse \/ UNCHANGED vars
  <2>1. UNCHANGED <<attempt, ledger, context>>
    BY <1>17 DEF Reparse, vars
  <2> HIDE DEF Right, Holds
  <2> QED
    BY <1>3, <2>1
<1> QED
  BY <1>6, <1>7, <1>8, <1>9, <1>10, <1>11, <1>13, <1>14, <1>15, <1>16, <1>17 DEF Next

LEMMA GivenHolds == GivenInv => ResultsWereGiven
  BY DEF GivenInv, AnswersGiven, ChangesHold, RowGiven, ResultsWereGiven

(***************************************************************************)
(* Every result in the changes and on record was given by the provider for *)
(* the same texts under the same version of the prompt, through all copies *)
(* between attempts, batches and pairs (list_reusable_change_results,      *)
(* overlay_from_records, _apply_results).                                  *)
(***************************************************************************)
THEOREM ResultsAreGenuine == Spec => []ResultsWereGiven
<1>1. Shaped /\ MatchInv /\ BatchesInv /\ LedgerInv /\ GivenInv /\ [Next]_vars => GivenInv'
  BY AnswersStep, CandidatesStep, ChangesStep DEF GivenInv
<1> QED
  BY <1>1, LedgerIsRight, GivenInit, GivenHolds, PTL DEF Spec

-----------------------------------------------------------------------------
(* Changes are only added, but where matching is replaced or parsed away.  *)
LEMMA ChangesGrow ==
  ASSUME [Next]_vars, ~ReplaceSectionMatches, ~Reparse
  PROVE  DOMAIN changes \subseteq DOMAIN changes'
<1>1. CASE StoreLocal \/ CommitBatch \/ CommitPartial
  BY <1>1 DEF StoreLocal, CommitBatch, CommitPartial, WithChanges
<1>2. CASE UNCHANGED changes
  BY <1>2
<1> QED
  BY <1>1, <1>2 DEF Next, vars, Begin, LoadSections, ReuseMatching, AlignSection, MarkMatched,
     PrepareCandidates, SyncPlan, StartBatch, Classify, AnswerMisfit, Complete, LoseSession,
     RecordFailure, FailComparison, Crash, Drift

LEMMA CoverInit == Init => CoverInv
  BY IdleShaped DEF Init, CoverInv, Prepared, Settled, Loaded, Planned

(* An attempt past its last batch, with no parse in between, has stored a  *)
(* change for each pair of what it matched.                                *)
LEMMA CompleteCovers ==
  ASSUME Shaped, MatchInv, BatchesInv, GivenInv, CoverInv,
         attempt.pc = "next", attempt.at \notin DOMAIN attempt.rows, attempt.seen.parse = parse
  PROVE  DOMAIN changes = PairsOf[attempt.seen]
<1>1. /\ \A p \in PairsOf[attempt.seen] : [pair |-> p, live |-> TRUE] \in ToSet(attempt.items)
      /\ \A item \in LocalItems : item.pair \in DOMAIN changes
      /\ \A item \in ToSet(attempt.items) \ Local :
           \E i \in DOMAIN attempt.rows : item \in ToSet(attempt.rows[i].items)
      /\ \A i \in DOMAIN attempt.rows : i < attempt.at =>
           \A item \in ToSet(attempt.rows[i].items) : item.pair \in DOMAIN changes
  BY DEF CoverInv, Prepared, Settled, Loaded, Planned
<1>2. \A i \in DOMAIN attempt.rows : i < attempt.at
  <2>1. attempt.at \in Nat \ {0} /\ \E n \in Nat : DOMAIN attempt.rows = 1..n
    BY DEF Shaped, BatchesInv, Executing, Planned
  <2> QED
    BY <2>1
<1>3. ASSUME NEW p \in PairsOf[attempt.seen] PROVE p \in DOMAIN changes
  <2> DEFINE item == [pair |-> p, live |-> TRUE]
  <2>1. item \in ToSet(attempt.items) /\ item.pair = p
    BY <1>1, <1>3
  <2> HIDE DEF item
  <2>2. CASE item \in Local
    BY <1>1, <2>1, <2>2 DEF LocalItems
  <2>3. CASE item \notin Local
    BY <1>1, <1>2, <2>1, <2>3
  <2> QED
    BY <2>2, <2>3
<1>4. DOMAIN changes \subseteq aligned /\ aligned \subseteq PairsOf[attempt.seen]
  BY DEF GivenInv, ChangesHold, MatchInv, AttemptMatches, Settled, Loaded
<1> QED
  BY <1>3, <1>4

LEMMA CoverStep ==
  Shaped /\ MatchInv /\ BatchesInv /\ LedgerInv /\ GivenInv /\ CoverInv /\ [Next]_vars => CoverInv'
<1> SUFFICES ASSUME Shaped, MatchInv, BatchesInv, LedgerInv, GivenInv, CoverInv, [Next]_vars
             PROVE  CoverInv'
  OBVIOUS
<1>1. DOMAIN attempt = Fields /\ comparison = [status |-> comparison.status, marker |-> comparison.marker]
  BY DEF Shaped
<1>2. comparison.status = "completed" => attempt.pc = "idle"
  BY DEF CoverInv
<1>3. ASSUME attempt'.pc \notin Prepared, comparison'.status # "completed" PROVE CoverInv'
  BY <1>3 DEF CoverInv, Prepared, Settled, Loaded, Planned
<1>4. CASE Begin \/ Crash
  <2>1. /\ attempt'.pc \in {"started", "idle"} /\ UNCHANGED <<comparison, changes, parse>>
        /\ attempt'.pc = "started" => comparison.status # "completed"
    BY <1>4, IdleShaped DEF Begin, Crash, Fields, matches, inputs
  <2> QED
    BY <2>1 DEF CoverInv, Prepared, Settled, Loaded, Planned
<1>5. CASE LoadSections \/ ReuseMatching \/ ReplaceSectionMatches \/ AlignSection \/ MarkMatched
  <2>1. /\ attempt'.pc \in {"loaded", "matched", "aligning"} /\ attempt.pc # "idle"
        /\ \/ comparison'.status \in {"matching_sections", "aligning_passages"}
           \/ comparison'.status = comparison.status
    <3>1. CASE LoadSections
      BY <1>1, <3>1 DEF LoadSections, Fields
    <3>2. CASE ReuseMatching
      BY <1>1, <3>2 DEF ReuseMatching, Fields, matches
    <3>3. CASE ReplaceSectionMatches
      BY <1>1, <3>3 DEF ReplaceSectionMatches, Fields
    <3>4. CASE AlignSection
      BY <1>1, <3>4 DEF AlignSection, AtSection, Fields
    <3>5. CASE MarkMatched
      BY <1>1, <3>5 DEF MarkMatched, Fields
    <3> QED
      BY <1>5, <3>1, <3>2, <3>3, <3>4, <3>5
  <2> QED
    BY <1>2, <1>3, <2>1 DEF Prepared, Settled, Loaded
<1>6. CASE PrepareCandidates
  <2>1. /\ attempt.pc = "matched" /\ attempt'.pc = "prepared" /\ parse' = parse
        /\ attempt'.seen = attempt.seen /\ attempt'.items = Candidates
        /\ comparison'.status = "detecting_changes"
    BY <1>1, <1>6 DEF PrepareCandidates, Fields, inputs
  <2>2. /\ attempt.seen \in Prints /\ attempt.pairs \subseteq PairsOf[attempt.seen]
        /\ attempt.seen.parse = parse => attempt.pairs = PairsOf[attempt.seen]
    BY <2>1 DEF MatchInv, AttemptMatches, Settled, Loaded
  <2>3. ToSet(Candidates) = {[pair |-> p, live |-> p \in LivePairs[parse]] : p \in attempt.pairs}
    BY <2>2, CandidatesAre
  <2>4. ASSUME attempt.seen.parse = parse, NEW p \in PairsOf[attempt.seen]
        PROVE  [pair |-> p, live |-> TRUE] \in ToSet(Candidates)
    <3>1. p \in attempt.pairs /\ p \in LivePairs[parse]
      BY <2>2, <2>4, LiveAre
    <3>2. (p \in LivePairs[parse]) = TRUE
      BY <3>1
    <3>3. [pair |-> p, live |-> p \in LivePairs[parse]] = [pair |-> p, live |-> TRUE]
      BY <3>2
    <3> QED
      BY <2>3, <3>1, <3>3
  <2> QED
    BY <2>1, <2>4 DEF CoverInv, Planned
<1>7. CASE StoreLocal
  <2>1. /\ attempt.pc = "prepared" /\ attempt'.pc = "stored" /\ UNCHANGED <<parse, comparison>>
        /\ attempt'.seen = attempt.seen /\ attempt'.items = attempt.items
        /\ DOMAIN changes' = DOMAIN changes \cup {item.pair : item \in LocalItems}
    BY <1>1, <1>7 DEF StoreLocal, WithChanges, Fields, matches, inputs
  <2>2. LocalItems' = LocalItems
    BY <2>1 DEF LocalItems
  <2>3. \A item \in LocalItems : item.pair \in DOMAIN changes'
    BY <2>1
  <2> QED
    BY <1>2, <2>1, <2>2, <2>3 DEF CoverInv, Prepared, Settled, Loaded, Planned
<1>8. CASE SyncPlan
  <2> DEFINE plan == PlanBatches(Those(attempt.items, Items \ Local))
  <2>1. /\ DOMAIN attempt'.rows = DOMAIN plan
        /\ \A i \in DOMAIN plan : attempt'.rows[i].items = plan[i]
        /\ attempt.pc = "stored" /\ attempt'.pc = "next"
        /\ attempt'.items = attempt.items /\ attempt'.at = attempt.at
        /\ attempt'.seen = attempt.seen /\ UNCHANGED <<parse, comparison, changes>>
    BY <1>8, RowsAfterSync DEF matches, inputs
  <2>2. attempt.items \in Seq(Items) /\ attempt.at = 1
    BY <2>1 DEF BatchesInv, Prepared, Settled, Loaded
  <2>3. /\ UNION {ToSet(plan[i]) : i \in DOMAIN plan} = ToSet(attempt.items) \ Local
        /\ \E n \in Nat : DOMAIN plan = 1..n
    BY <2>2, PlannedAre
  <2> HIDE DEF plan
  <2>4. \A i \in DOMAIN attempt'.rows : ~ (i < attempt'.at)
    BY <2>1, <2>2, <2>3
  <2>5. \A item \in ToSet(attempt'.items) \ Local :
          \E i \in DOMAIN attempt'.rows : item \in ToSet(attempt'.rows[i].items)
    BY <2>1, <2>3
  <2>6. LocalItems' = LocalItems
    BY <2>1 DEF LocalItems
  <2> QED
    BY <1>2, <2>1, <2>4, <2>5, <2>6 DEF CoverInv, Prepared, Settled, Loaded, Planned
<1>9. CASE StartBatch \/ Classify \/ AnswerMisfit \/ CommitBatch \/ CommitPartial \/ RecordFailure
           \/ LoseSession
  <2>1. /\ attempt'.items = attempt.items /\ attempt'.rows = attempt.rows
        /\ attempt'.seen = attempt.seen /\ UNCHANGED <<parse, comparison>>
        /\ \/ attempt.pc \in Executing /\ attempt'.pc \in InBatch /\ attempt'.at = attempt.at
           \/ attempt.pc = "whole" /\ attempt'.pc = "next" /\ attempt'.at = attempt.at + 1
           \/ attempt'.pc = "raising"
    BY <1>9, BatchSteps DEF inputs, matches
  <2>2. attempt.pc # "idle"
    BY <1>9 DEF StartBatch, AtBatch, Classify, AnswerMisfit, CommitBatch, CommitPartial, RecordFailure,
       LoseSession, Fault, Refused, AtSection
  <2>3. LocalItems' = LocalItems
    BY <2>1 DEF LocalItems
  <2>4. DOMAIN changes \subseteq DOMAIN changes'
    <3>1. ~ReplaceSectionMatches /\ ~Reparse
      <4>1. attempt'.pc # "aligning"
        BY <2>1 DEF InBatch
      <4>2. parse \in Nat
        BY ComparisonAssumption DEF Shaped, Parses
      <4> QED
        BY <1>1, <2>1, <4>1, <4>2 DEF ReplaceSectionMatches, Reparse, Fields
    <3> QED
      BY <3>1, ChangesGrow
  <2>5. CASE attempt.pc \in Planned /\ attempt'.pc \in Planned /\ attempt'.at = attempt.at
    BY <1>2, <2>1, <2>2, <2>3, <2>4, <2>5 DEF CoverInv, Prepared, Settled, Loaded, Planned
  <2>6. CASE CommitBatch
    <3>1. /\ attempt.pc = "whole" /\ attempt'.pc = "next" /\ attempt'.at = attempt.at + 1
          /\ DOMAIN changes' = DOMAIN changes \cup {item.pair : item \in DOMAIN attempt.records}
      BY <1>1, <2>6 DEF CommitBatch, WithChanges, Fields
    <3>2. /\ DOMAIN attempt.records = ToSet(attempt.rows[attempt.at].items)
          /\ attempt.at \in Nat /\ \E n \in Nat : DOMAIN attempt.rows = 1..n
      BY <3>1 DEF LedgerInv, BatchCovered, ThisBatch, BatchesInv, Executing, Planned, Shaped
    <3>3. \A item \in ToSet(attempt.rows[attempt.at].items) : item.pair \in DOMAIN changes'
      BY <3>1, <3>2
    <3>4. \A i \in DOMAIN attempt.rows : i < attempt.at + 1 => i < attempt.at \/ i = attempt.at
      BY <3>2
    <3>5. attempt.seen.parse = parse =>
            \A i \in DOMAIN attempt.rows : i < attempt.at + 1 =>
              \A item \in ToSet(attempt.rows[i].items) : item.pair \in DOMAIN changes'
      BY <2>4, <3>1, <3>3, <3>4 DEF CoverInv, Planned
    <3> QED
      BY <1>2, <2>1, <2>2, <2>3, <2>4, <3>1, <3>5 DEF CoverInv, Prepared, Settled, Loaded, Planned
  <2>7. CASE attempt'.pc \in {"failing", "raising"}
    BY <1>2, <1>3, <2>1, <2>2, <2>7 DEF Prepared, Settled, Loaded
  <2>8. \/ attempt.pc \in Planned /\ attempt'.pc \in Planned /\ attempt'.at = attempt.at
        \/ CommitBatch \/ attempt'.pc \in {"failing", "raising"}
    BY <1>1, <1>9, <2>1 DEF StartBatch, AtBatch, Classify, AnswerMisfit, CommitPartial, RecordFailure,
       LoseSession, Fields, Executing, Planned, InBatch
  <2> QED
    BY <2>5, <2>6, <2>7, <2>8
<1>10. CASE Complete
  <2>1. /\ attempt.pc = "next" /\ attempt.at \notin DOMAIN attempt.rows /\ attempt' = Idle
        /\ comparison' = [status |-> "completed", marker |-> Marker]
        /\ UNCHANGED <<parse, changes>>
    BY <1>10 DEF Complete, inputs
  <2>2. comparison'.marker.print = attempt.seen
    BY <2>1 DEF Marker
  <2>3. attempt.seen \in Prints /\ attempt.seen # None
    BY <2>1, ComparisonAssumption DEF MatchInv, AttemptMatches, Loaded
  <2>4. attempt.seen.parse = parse => DOMAIN changes = PairsOf[attempt.seen]
    BY <2>1, CompleteCovers
  <2> QED
    BY <2>1, <2>2, <2>3, <2>4, IdleShaped DEF CoverInv, Prepared, Settled, Loaded, Planned
<1>11. CASE FailComparison
  <2>1. /\ attempt.pc = "raising" /\ attempt' = Idle
        /\ comparison'.status = "failed" \/ comparison'.status = comparison.status
    BY <1>1, <1>11 DEF FailComparison
  <2> QED
    BY <1>2, <1>3, <2>1, IdleShaped DEF Prepared, Settled, Loaded
<1>12. CASE Reparse
  <2>1. UNCHANGED <<comparison, attempt>> /\ parse' = parse + 1
    BY <1>12 DEF Reparse
  <2>2. Parses \subseteq Nat /\ parse \in Parses /\ \A print \in Prints : print.parse \in Parses
    BY ComparisonAssumption DEF Parses, Prints, Shaped
  <2>3. attempt.pc \in Prepared => attempt.seen.parse # parse'
    <3>1. attempt.pc \in Prepared => attempt.seen \in Prints /\ attempt.seen.parse <= parse
      BY DEF MatchInv, AttemptMatches, Prepared, Settled
    <3>2. \A p \in Parses : p <= parse => p # parse'
      BY <2>1, <2>2
    <3> QED
      BY <2>2, <3>1, <3>2
  <2>4. comparison.marker.print # None => comparison.marker.print.parse # parse'
    BY <2>1, <2>2 DEF MatchInv, MarkerHolds
  <2> QED
    BY <2>1, <2>3, <2>4 DEF CoverInv, Prepared, Settled, Loaded, Planned
<1>13. CASE Drift \/ UNCHANGED vars
  <2>1. UNCHANGED <<parse, comparison, attempt, changes>>
    BY <1>13 DEF Drift, vars, matches
  <2> QED
    BY <2>1 DEF CoverInv, LocalItems
<1> QED
  BY <1>4, <1>5, <1>6, <1>7, <1>8, <1>9, <1>10, <1>11, <1>12, <1>13 DEF Next

LEMMA CoverHolds == GivenInv /\ CoverInv => CompletedIsWhole
  BY DEF GivenInv, ChangesHold, CoverInv, CompletedIsWhole

(***************************************************************************)
(* A comparison completed for the filings as they are has exactly one      *)
(* change for each pair of their passages, settled as the pair requires,   *)
(* after any failures, crashes, parses and changes of settings before      *)
(* (process_comparison).                                                   *)
(***************************************************************************)
THEOREM CompletedComparisonsAreWhole == Spec => []CompletedIsWhole
<1>1. Shaped /\ MatchInv /\ BatchesInv /\ LedgerInv /\ GivenInv /\ [Next]_vars => GivenInv'
  BY AnswersStep, CandidatesStep, ChangesStep DEF GivenInv
<1> QED
  BY <1>1, LedgerIsRight, GivenInit, CoverInit, CoverStep, CoverHolds, PTL DEF Spec

=============================================================================
