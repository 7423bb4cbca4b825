-------------------------- MODULE AlgorithmsProofs --------------------------
(***************************************************************************)
(* Proofs about the pure algorithms, for inputs of any length: the planner *)
(* of batches, for any items and limits; the matching of sections and the  *)
(* alignment of passages, whatever their texts score; the labels of        *)
(* changes, the review policy and the report, the progress shown, the      *)
(* fusion of two searches and the chunks searched, and the claims and the  *)
(* findings read from a text.                                              *)
(*                                                                         *)
(* The first part proves what the recursive functions compute.  Induction  *)
(* takes the form the provers can use: a set of naturals that holds 0, and *)
(* i + 1 with each i, holds them all.                                      *)
(***************************************************************************)
EXTENDS Algorithms, FiniteSetTheorems, SequenceTheorems, WellFoundedInduction, TLAPS

LEMMA LeastNatural ==
  ASSUME NEW S, S \subseteq Nat, S # {}
  PROVE  \E n \in S : \A m \in S : n <= m
<1> DEFINE Less == OpToRel(<, Nat)
<1>1. IsWellFoundedOn(Less, Nat)
  BY NatLessThanWellFounded
<1>2. ASSUME NEW x \in Nat, NEW y \in Nat, x < y PROVE <<x, y>> \in Less
  BY <1>2 DEF OpToRel
<1> HIDE DEF Less
<1>3. PICK n \in S : \A m \in S : ~ (<<m, n>> \in Less)
  BY <1>1, WFMin
<1>4. ASSUME NEW m \in S PROVE n <= m
  <2>1. m \in Nat /\ n \in Nat /\ ~ (<<m, n>> \in Less)
    BY <1>3
  <2>2. ~ (m < n)
    BY <2>1, <1>2
  <2> QED
    BY <2>1, <2>2
<1> QED
  BY <1>3, <1>4

LEMMA UpTo ==
  ASSUME NEW n \in Nat, NEW S, 0 \in S, \A i \in 0..n - 1 : i \in S => i + 1 \in S
  PROVE  0..n \subseteq S
<1> SUFFICES ASSUME (0..n) \ S # {} PROVE FALSE
  OBVIOUS
<1>1. PICK k \in (0..n) \ S : \A m \in (0..n) \ S : k <= m
  <2>1. (0..n) \ S \subseteq Nat
    OBVIOUS
  <2> QED
    BY <2>1, LeastNatural
<1>2. k # 0 /\ k - 1 \in 0..n - 1
  BY <1>1
<1>3. k - 1 \in S
  BY <1>1, <1>2
<1>4. (k - 1) + 1 \in S
  BY <1>2, <1>3
<1> QED
  BY <1>1, <1>4

(* A function that a recursion over a sequence's places defines exists.    *)
Steps(n, T) == [T \X (1..n) -> T]
Follows(f, n, T, e, step) ==
  /\ f \in [0..n -> T] /\ f[0] = e
  /\ \A i \in 1..n : f[i] = step[<<f[i - 1], i>>]

LEMMA FoldExists ==
  ASSUME NEW n \in Nat, NEW T, NEW e \in T, NEW step \in Steps(n, T)
  PROVE  \E f : Follows(f, n, T, e, step)
<1> USE DEF Steps, Follows
<1> DEFINE Goes(m, f) == f[0] = e /\ \A i \in 1..m : f[i] = step[<<f[i - 1], i>>]
           S == {m \in 0..n : \E f \in [0..m -> T] : Goes(m, f)}
<1>1. 0 \in S
  <2> DEFINE f == [i \in 0..0 |-> e]
  <2>1. f \in [0..0 -> T] /\ Goes(0, f)
    OBVIOUS
  <2>2. 0 \in 0..n
    OBVIOUS
  <2> HIDE DEF f
  <2> QED
    BY <2>1, <2>2
<1>2. ASSUME NEW i \in 0..n - 1, i \in S PROVE i + 1 \in S
  <2>1. PICK f \in [0..i -> T] : Goes(i, f)
    BY <1>2
  <2> DEFINE g == [k \in 0..i + 1 |-> IF k = i + 1 THEN step[<<f[i], i + 1>>] ELSE f[k]]
  <2>2. i + 1 \in 1..n /\ f[i] \in T /\ i \in 0..i
    OBVIOUS
  <2>3. step[<<f[i], i + 1>>] \in T
    BY <2>2
  <2>4. g \in [0..i + 1 -> T]
    BY <2>3
  <2>5. g[0] = e
    BY <2>1
  <2>6. ASSUME NEW k \in 1..i + 1 PROVE g[k] = step[<<g[k - 1], k>>]
    <3>1. CASE k = i + 1
      <4>1. i \in 0..i + 1 /\ i # i + 1 /\ k - 1 = i
        BY <3>1
      <4>2. g[k] = step[<<f[i], i + 1>>] /\ g[k - 1] = f[i]
        BY <3>1, <4>1
      <4> QED
        BY <3>1, <4>2
    <3>2. CASE k # i + 1
      <4>1. k \in 1..i /\ k - 1 \in 0..i /\ k - 1 # i + 1
        BY <3>2
      <4>2. g[k] = f[k] /\ g[k - 1] = f[k - 1]
        BY <4>1
      <4> QED
        BY <2>1, <4>1, <4>2
    <3> QED
      BY <3>1, <3>2
  <2>7. Goes(i + 1, g)
    BY <2>5, <2>6
  <2>8. i + 1 \in 0..n
    OBVIOUS
  <2> HIDE DEF g
  <2> QED
    BY <2>4, <2>7, <2>8
<1>3. n \in S
  <2> HIDE DEF S
  <2> QED
    BY <1>1, <1>2, UpTo
<1> QED
  BY <1>3

(* The elements of a longer sequence.                                      *)
LEMMA ToSetAppend ==
  ASSUME NEW A, NEW s \in Seq(A), NEW x \in A
  PROVE  Append(s, x) \in Seq(A) /\ ToSet(Append(s, x)) = ToSet(s) \cup {x}
<1>1. /\ Append(s, x) \in Seq(A) /\ DOMAIN Append(s, x) = 1..Len(s) + 1
      /\ \A i \in 1..Len(s) : Append(s, x)[i] = s[i]
      /\ Append(s, x)[Len(s) + 1] = x
  BY AppendProperties
<1>2. DOMAIN s = 1..Len(s) /\ Len(s) \in Nat
  OBVIOUS
<1>3. DOMAIN Append(s, x) = DOMAIN s \cup {Len(s) + 1}
  BY <1>1, <1>2
<1> HIDE DEF ToSet
<1>4. \A y : y \in ToSet(Append(s, x)) <=> y \in ToSet(s) \cup {x}
  BY <1>1, <1>2, <1>3 DEF ToSet
<1> QED
  BY <1>1, <1>4

LEMMA ToSetConcat ==
  ASSUME NEW A, NEW s \in Seq(A), NEW t \in Seq(A)
  PROVE  s \o t \in Seq(A) /\ ToSet(s \o t) = ToSet(s) \cup ToSet(t)
<1>1. /\ s \o t \in Seq(A) /\ DOMAIN (s \o t) = 1..Len(s) + Len(t)
      /\ \A i \in 1..Len(s) + Len(t) :
           (s \o t)[i] = IF i <= Len(s) THEN s[i] ELSE t[i - Len(s)]
  BY ConcatProperties
<1>2. /\ DOMAIN s = 1..Len(s) /\ Len(s) \in Nat
      /\ DOMAIN t = 1..Len(t) /\ Len(t) \in Nat
  OBVIOUS
<1>3. ASSUME NEW i \in DOMAIN s PROVE s[i] \in ToSet(s \o t)
  BY <1>1, <1>2 DEF ToSet
<1>4. ASSUME NEW i \in DOMAIN t PROVE t[i] \in ToSet(s \o t)
  <2>1. i + Len(s) \in 1..Len(s) + Len(t) /\ ~ (i + Len(s) <= Len(s))
    BY <1>2
  <2>2. (s \o t)[i + Len(s)] = t[(i + Len(s)) - Len(s)] /\ (i + Len(s)) - Len(s) = i
    BY <1>1, <1>2, <2>1
  <2> QED
    BY <1>1, <2>1, <2>2 DEF ToSet
<1>5. ASSUME NEW i \in 1..Len(s) + Len(t) PROVE (s \o t)[i] \in ToSet(s) \cup ToSet(t)
  <2>1. CASE i <= Len(s)
    BY <1>1, <1>2, <2>1 DEF ToSet
  <2>2. CASE ~ (i <= Len(s))
    <3>1. i - Len(s) \in DOMAIN t
      BY <1>2, <2>2
    <3> QED
      BY <1>1, <2>2, <3>1 DEF ToSet
  <2> QED
    BY <2>1, <2>2
<1>6. /\ \A y \in ToSet(s \o t) : y \in ToSet(s) \cup ToSet(t)
      /\ \A y \in ToSet(s) : y \in ToSet(s \o t)
      /\ \A y \in ToSet(t) : y \in ToSet(s \o t)
  BY <1>1, <1>3, <1>4, <1>5 DEF ToSet
<1> HIDE DEF ToSet
<1> QED
  BY <1>1, <1>6

LEMMA FlattenDef ==
  ASSUME NEW A, NEW seqs \in Seq(Seq(A)), seqs # <<>>
  PROVE  \E f : /\ FlattenSeq(seqs) = f[Len(seqs)]
               /\ \A i \in 1..Len(seqs) :
                    f[i] = IF i = 1 THEN seqs[i] ELSE f[i - 1] \o seqs[i]
<1> DEFINE n == Len(seqs)
           step == [x \in Seq(A) \X (1..n) |-> x[1] \o seqs[x[2]]]
           Flat(f) == f = [i \in 1..n |-> IF i = 1 THEN seqs[i] ELSE f[i - 1] \o seqs[i]]
           flat == CHOOSE f : Flat(f)
<1>1. n \in Nat \ {0} /\ <<>> \in Seq(A) /\ (\A i \in 1..n : seqs[i] \in Seq(A))
  OBVIOUS
<1>2. FlattenSeq(seqs) = flat[n]
  BY <1>1 DEF FlattenSeq
<1> HIDE DEF n
<1>3. step \in Steps(n, Seq(A))
  BY <1>1, ToSetConcat DEF Steps
<1>4. \A s \in Seq(A), i \in 1..n : step[<<s, i>>] = s \o seqs[i]
  OBVIOUS
<1> HIDE DEF step
<1>5. PICK f : Follows(f, n, Seq(A), <<>>, step)
  BY <1>1, <1>3, FoldExists
<1>6. \A i \in 1..n : i - 1 \in 0..n /\ f[i] = f[i - 1] \o seqs[i]
  <2>1. \A i \in 1..n : i - 1 \in 0..n
    BY <1>1
  <2> QED
    BY <2>1, <1>4, <1>5 DEF Follows
<1> DEFINE g == [i \in 1..n |-> f[i]]
<1>7. ASSUME NEW i \in 1..n
      PROVE  g[i] = IF i = 1 THEN seqs[i] ELSE g[i - 1] \o seqs[i]
  <2>1. CASE i = 1
    <3>1. f[i] = <<>> \o seqs[i]
      <4>1. i - 1 = 0 /\ f[0] = <<>>
        BY <1>5, <2>1 DEF Follows
      <4> QED
        BY <1>6, <4>1
    <3> QED
      BY <1>1, <2>1, <3>1, ConcatEmptySeq
  <2>2. CASE i # 1
    <3>1. i - 1 \in 1..n
      BY <1>1, <2>2
    <3> QED
      BY <1>6, <2>2, <3>1
  <2> QED
    BY <2>1, <2>2
<1>8. Flat(g)
  BY <1>7, SMTT(30)
<1>9. Flat(flat)
  BY <1>8, ZenonT(30)
<1> HIDE DEF flat
<1>10. \A i \in 1..n : flat[i] = IF i = 1 THEN seqs[i] ELSE flat[i - 1] \o seqs[i]
  BY <1>9
<1> QED
  BY <1>2, <1>10 DEF n

LEMMA FlattenIs ==
  ASSUME NEW A, NEW seqs \in Seq(Seq(A))
  PROVE  /\ FlattenSeq(seqs) \in Seq(A)
         /\ ToSet(FlattenSeq(seqs)) = UNION {ToSet(seqs[i]) : i \in DOMAIN seqs}
<1> DEFINE n == Len(seqs)
<1>1. n \in Nat /\ <<>> \in Seq(A) /\ (\A i \in 1..n : seqs[i] \in Seq(A)) /\ DOMAIN seqs = 1..n
  OBVIOUS
<1>2. CASE n = 0
  <2>1. seqs = <<>> /\ DOMAIN seqs = {} /\ FlattenSeq(seqs) = seqs
    BY <1>2 DEF FlattenSeq
  <2>2. <<>> \in Seq(A) /\ ToSet(<<>>) = {}
    BY DEF ToSet
  <2>3. {ToSet(seqs[i]) : i \in DOMAIN seqs} = {}
    BY <2>1
  <2> QED
    BY <2>1, <2>2, <2>3
<1>3. CASE n # 0
  <2>1. PICK flat : /\ FlattenSeq(seqs) = flat[n]
                    /\ \A i \in 1..n :
                         flat[i] = IF i = 1 THEN seqs[i] ELSE flat[i - 1] \o seqs[i]
    <3>1. seqs # <<>>
      BY <1>3
    <3> QED
      BY <3>1, FlattenDef
  <2> HIDE DEF n
  <2> DEFINE S == {i \in 0..n : i > 0 => /\ flat[i] \in Seq(A)
                                         /\ ToSet(flat[i]) = UNION {ToSet(seqs[k]) : k \in 1..i}}
  <2>10. 0 \in S
    BY <1>1
  <2>11. ASSUME NEW i \in 0..n - 1, i \in S PROVE i + 1 \in S
    <3>1. i + 1 \in 1..n /\ (i + 1) - 1 = i /\ seqs[i + 1] \in Seq(A)
      BY <1>1
    <3>2. UNION {ToSet(seqs[k]) : k \in 1..i + 1}
            = (UNION {ToSet(seqs[k]) : k \in 1..i}) \cup ToSet(seqs[i + 1])
      <4>1. 1..i + 1 = (1..i) \cup {i + 1}
        BY <3>1
      <4> HIDE DEF ToSet
      <4> QED
        BY <4>1
    <3>3. CASE i = 0
      <4>1. flat[i + 1] = seqs[i + 1] /\ 1..i = {}
        BY <2>1, <3>1, <3>3
      <4>2. flat[i + 1] \in Seq(A) /\ ToSet(flat[i + 1]) = UNION {ToSet(seqs[k]) : k \in 1..i + 1}
        BY <3>1, <3>2, <4>1
      <4> QED
        BY <3>1, <4>2
    <3>4. CASE i # 0
      <4>1. flat[i + 1] = flat[i] \o seqs[i + 1]
        <5>1. i + 1 # 1
          BY <1>1, <3>4
        <5>2. flat[i + 1] = flat[(i + 1) - 1] \o seqs[i + 1]
          BY <2>1, <3>1, <5>1
        <5> QED
          BY <3>1, <5>2
      <4>2. flat[i] \in Seq(A) /\ ToSet(flat[i]) = UNION {ToSet(seqs[k]) : k \in 1..i}
        BY <2>11, <3>4, <3>1
      <4>3. /\ flat[i + 1] \in Seq(A)
            /\ ToSet(flat[i + 1]) = ToSet(flat[i]) \cup ToSet(seqs[i + 1])
        BY <3>1, <4>1, <4>2, ToSetConcat
      <4>4. flat[i + 1] \in Seq(A) /\ ToSet(flat[i + 1]) = UNION {ToSet(seqs[k]) : k \in 1..i + 1}
        BY <3>2, <4>2, <4>3
      <4> QED
        BY <3>1, <4>4
    <3> QED
      BY <3>3, <3>4
  <2>12. n \in S
    <3>1. 0..n \subseteq S
      <4> HIDE DEF S
      <4> QED
        BY <1>1, <2>10, <2>11, UpTo
    <3>2. n \in 0..n
      BY <1>1
    <3> QED
      BY <3>1, <3>2
  <2> QED
    BY <1>1, <1>3, <2>1, <2>12
<1> QED
  BY <1>2, <1>3

LEMMA FlattenAppend ==
  ASSUME NEW A, NEW seqs \in Seq(Seq(A)), NEW s \in Seq(A)
  PROVE  FlattenSeq(Append(seqs, s)) = FlattenSeq(seqs) \o s
<1> DEFINE n == Len(seqs)
           more == Append(seqs, s)
<1>1. /\ n \in Nat /\ more \in Seq(Seq(A)) /\ Len(more) = n + 1 /\ more # <<>>
      /\ \A i \in 1..n : more[i] = seqs[i]
      /\ more[n + 1] = s
  BY AppendProperties
<1>2. PICK g : /\ FlattenSeq(more) = g[n + 1]
               /\ \A i \in 1..n + 1 : g[i] = IF i = 1 THEN more[i] ELSE g[i - 1] \o more[i]
  <2> HIDE DEF more
  <2>1. PICK g : /\ FlattenSeq(more) = g[Len(more)]
                 /\ \A i \in 1..Len(more) :
                      g[i] = IF i = 1 THEN more[i] ELSE g[i - 1] \o more[i]
    BY <1>1, FlattenDef
  <2> QED
    BY <1>1, <2>1
<1> HIDE DEF more
<1>3. CASE seqs = <<>>
  <2>1. n = 0 /\ FlattenSeq(seqs) = <<>>
    BY <1>3 DEF FlattenSeq
  <2>2. g[1] = s
    BY <1>1, <1>2, <2>1
  <2> QED
    BY <1>2, <2>1, <2>2, ConcatEmptySeq DEF more
<1>4. CASE seqs # <<>>
  <2>1. PICK f : /\ FlattenSeq(seqs) = f[n]
                 /\ \A i \in 1..n : f[i] = IF i = 1 THEN seqs[i] ELSE f[i - 1] \o seqs[i]
    BY <1>4, FlattenDef
  <2>2. n # 0
    BY <1>4
  <2> HIDE DEF n
  <2> DEFINE S == {i \in 0..n : i > 0 => g[i] = f[i]}
  <2>3. 0 \in S
    BY <1>1
  <2>4. ASSUME NEW i \in 0..n - 1, i \in S PROVE i + 1 \in S
    <3>1. i + 1 \in 1..n /\ i + 1 \in 1..n + 1 /\ (i + 1) - 1 = i /\ more[i + 1] = seqs[i + 1]
      BY <1>1
    <3>2. CASE i = 0
      BY <1>2, <2>1, <3>1, <3>2
    <3>3. CASE i # 0
      <4>1. i + 1 # 1 /\ g[i] = f[i]
        BY <1>1, <2>4, <3>3
      <4>2. /\ g[i + 1] = g[(i + 1) - 1] \o more[i + 1]
            /\ f[i + 1] = f[(i + 1) - 1] \o seqs[i + 1]
        BY <1>2, <2>1, <3>1, <4>1
      <4>3. g[i + 1] = g[i] \o seqs[i + 1] /\ f[i + 1] = f[i] \o seqs[i + 1]
        BY <3>1, <4>2
      <4>4. g[i + 1] = f[i + 1]
        BY <4>1, <4>3
      <4> QED
        BY <3>1, <4>4
    <3> QED
      BY <3>2, <3>3
  <2>5. 0..n \subseteq S
    <3> HIDE DEF S
    <3> QED
      BY <1>1, <2>3, <2>4, UpTo
  <2>6. g[n] = f[n]
    <3>1. n \in 0..n /\ n > 0
      BY <1>1, <2>2
    <3> QED
      BY <2>5, <3>1
  <2>7. g[n + 1] = g[n] \o s
    <3>1. n + 1 \in 1..n + 1 /\ n + 1 # 1 /\ (n + 1) - 1 = n
      BY <1>1, <2>2
    <3>2. g[n + 1] = g[(n + 1) - 1] \o more[n + 1]
      BY <1>2, <3>1
    <3> QED
      BY <1>1, <3>1, <3>2
  <2> QED
    BY <1>2, <2>1, <2>6, <2>7 DEF more
<1> QED
  BY <1>3, <1>4

-----------------------------------------------------------------------------
(* The planner of batches.                                                 *)

LEMMA CostIsNat ==
  ASSUME NEW item \in Items
  PROVE  Cost(item) \in Nat
  BY BatchingAssumption DEF Cost

LEMMA BudgetIsNat == EffectiveTokenBudget \in Nat
<1>1. InputTokenBudget \in Nat /\ 100 - SafetyMargin \in Nat
  BY BatchingAssumption
<1>2. \A a, b \in Nat : a * b \in Nat
  OBVIOUS
<1>3. \A c \in Nat : c \div 100 \in Nat
  OBVIOUS
<1> QED
  BY <1>1, <1>2, <1>3 DEF EffectiveTokenBudget

(* The running totals of a request's tokens.                               *)
Totals(f, batch) ==
  /\ f[0] = FixedOverhead
  /\ \A i \in 1..Len(batch) : f[i - 1] \in Nat /\ f[i] = f[i - 1] + Cost(batch[i])

LEMMA TokensIs ==
  ASSUME NEW batch \in Seq(Items)
  PROVE  \E f : Totals(f, batch) /\ RequestTokens(batch) = f[Len(batch)]
                /\ f[Len(batch)] \in Nat
<1> DEFINE n == Len(batch)
           step == [x \in Nat \X (1..n) |-> x[1] + Cost(batch[x[2]])]
           Sums(f) == f = [i \in 0..n |-> IF i = 0 THEN FixedOverhead
                                                   ELSE f[i - 1] + Cost(batch[i])]
           total == CHOOSE f : Sums(f)
<1>1. n \in Nat /\ FixedOverhead \in Nat /\ \A i \in 1..n : Cost(batch[i]) \in Nat
  BY BatchingAssumption, CostIsNat
<1>2. RequestTokens(batch) = total[n]
  BY DEF RequestTokens
<1> HIDE DEF n
<1>3. step \in Steps(n, Nat)
  BY <1>1 DEF Steps
<1>4. \A k \in Nat, i \in 1..n : step[<<k, i>>] = k + Cost(batch[i])
  OBVIOUS
<1> HIDE DEF step
<1>5. PICK f : Follows(f, n, Nat, FixedOverhead, step)
  BY <1>1, <1>3, FoldExists
<1>6. \A i \in 1..n : i - 1 \in 0..n
  BY <1>1
<1>7. /\ \A i \in 0..n : f[i] \in Nat
      /\ f[0] = FixedOverhead
      /\ \A i \in 1..n : f[i] = f[i - 1] + Cost(batch[i])
      /\ f = [i \in 0..n |-> f[i]]
  BY <1>4, <1>5, <1>6 DEF Follows
<1>8. Sums(f)
  <2>1. \A i \in 0..n : f[i] = IF i = 0 THEN FixedOverhead ELSE f[i - 1] + Cost(batch[i])
    <3>1. \A i \in 0..n : i # 0 => i \in 1..n
      BY <1>1
    <3> QED
      BY <1>7, <3>1
  <2> QED
    BY <1>7, <2>1
<1>9. Sums(total)
  BY <1>8
<1> HIDE DEF total
<1>10. total[0] = FixedOverhead /\ \A i \in 1..n : total[i] = total[i - 1] + Cost(batch[i])
  BY <1>1, <1>9
<1> DEFINE S == {i \in 0..n : total[i] = f[i]}
<1>11. 0 \in S
  BY <1>1, <1>7, <1>10
<1>12. ASSUME NEW i \in 0..n - 1, i \in S PROVE i + 1 \in S
  <2>1. i + 1 \in 1..n /\ (i + 1) - 1 = i
    BY <1>1
  <2>2. f[i + 1] = f[i] + Cost(batch[i + 1]) /\ total[i + 1] = total[i] + Cost(batch[i + 1])
    <3>1. /\ f[i + 1] = f[(i + 1) - 1] + Cost(batch[i + 1])
          /\ total[i + 1] = total[(i + 1) - 1] + Cost(batch[i + 1])
      BY <1>7, <1>10, <2>1
    <3> QED
      BY <2>1, <3>1
  <2> QED
    BY <1>12, <2>1, <2>2
<1>13. 0..n \subseteq S
  <2> HIDE DEF S
  <2> QED
    BY <1>1, <1>11, <1>12, UpTo
<1>14. n \in 0..n
  BY <1>1
<1> QED
  BY <1>2, <1>6, <1>7, <1>13, <1>14 DEF Totals, n

LEMMA TokensOfAppend ==
  ASSUME NEW batch \in Seq(Items), NEW item \in Items
  PROVE  /\ RequestTokens(<<>>) = FixedOverhead
         /\ RequestTokens(batch) \in Nat
         /\ RequestTokens(Append(batch, item)) = RequestTokens(batch) + Cost(item)
<1>1. RequestTokens(<<>>) = FixedOverhead
  <2>1. PICK f : Totals(f, <<>>) /\ RequestTokens(<<>>) = f[Len(<<>>)]
    <3>1. <<>> \in Seq(Items)
      OBVIOUS
    <3> QED
      BY <3>1, TokensIs
  <2> QED
    BY <2>1 DEF Totals
<1> DEFINE n == Len(batch)
           more == Append(batch, item)
<1>2. /\ n \in Nat /\ more \in Seq(Items) /\ Len(more) = n + 1
      /\ \A i \in 1..n : more[i] = batch[i]
      /\ more[n + 1] = item
  BY AppendProperties
<1>3. PICK f : Totals(f, batch) /\ RequestTokens(batch) = f[n] /\ f[n] \in Nat
  BY TokensIs
<1>4. PICK g : Totals(g, more) /\ RequestTokens(more) = g[n + 1]
  BY <1>2, TokensIs
<1> HIDE DEF n, more
<1> DEFINE S == {i \in 0..n : g[i] = f[i]}
<1>5. 0 \in S
  BY <1>2, <1>3, <1>4 DEF Totals
<1>6. ASSUME NEW i \in 0..n - 1, i \in S PROVE i + 1 \in S
  <2>1. i + 1 \in 1..n /\ i + 1 \in 1..n + 1 /\ (i + 1) - 1 = i /\ more[i + 1] = batch[i + 1]
    BY <1>2
  <2>2. /\ f[i + 1] = f[(i + 1) - 1] + Cost(batch[i + 1])
        /\ g[i + 1] = g[(i + 1) - 1] + Cost(more[i + 1])
    BY <1>2, <1>3, <1>4, <2>1 DEF Totals, n
  <2> QED
    BY <1>6, <2>1, <2>2
<1>7. 0..n \subseteq S
  <2> HIDE DEF S
  <2> QED
    BY <1>2, <1>5, <1>6, UpTo
<1>8. g[n] = f[n]
  <2>1. n \in 0..n
    BY <1>2
  <2> QED
    BY <1>7, <2>1
<1>9. g[n + 1] = g[n] + Cost(item)
  <2>1. n + 1 \in 1..n + 1 /\ (n + 1) - 1 = n
    BY <1>2
  <2>2. g[n + 1] = g[(n + 1) - 1] + Cost(more[n + 1])
    BY <1>2, <1>4, <2>1 DEF Totals
  <2> QED
    BY <1>2, <2>1, <2>2
<1> QED
  BY <1>1, <1>3, <1>4, <1>8, <1>9 DEF more

(* The packings of the first i items, for each i.                          *)
Packings == [groups: Seq(Seq(Items)), current: Seq(Items), tokens: Nat]
Packed(f, items) ==
  /\ f[0] = NewPacking
  /\ \A i \in 0..Len(items) : f[i] \in Packings
  /\ \A i \in 1..Len(items) : f[i] = Place(f[i - 1], items[i])

LEMMA PlaceTypes ==
  ASSUME NEW p \in Packings, NEW item \in Items
  PROVE  Place(p, item) \in Packings
<1>1. /\ p.groups \in Seq(Seq(Items)) /\ p.current \in Seq(Items) /\ p.tokens \in Nat
      /\ p = [groups |-> p.groups, current |-> p.current, tokens |-> p.tokens]
  BY DEF Packings
<1>2. /\ Append(p.groups, p.current) \in Seq(Seq(Items))
      /\ Append(p.current, item) \in Seq(Items) /\ <<item>> \in Seq(Items)
  BY <1>1
<1>3. FixedOverhead + Cost(item) \in Nat /\ p.tokens + Cost(item) \in Nat
  BY <1>1, CostIsNat, BatchingAssumption
<1>4. CASE Full(p, item)
  BY <1>2, <1>3, <1>4 DEF Place, Packings
<1>5. CASE ~Full(p, item)
  <2>1. Place(p, item) = [groups |-> p.groups, current |-> Append(p.current, item),
                          tokens |-> p.tokens + Cost(item)]
    BY <1>1, <1>5 DEF Place
  <2> QED
    BY <1>1, <1>2, <1>3, <2>1 DEF Packings
<1> QED
  BY <1>4, <1>5

LEMMA PackedExists ==
  ASSUME NEW items \in Seq(Items)
  PROVE  \E f : Packed(f, items) /\ PlanBatches(items) = Closed(f[Len(items)])
<1> DEFINE n == Len(items)
           step == [x \in Packings \X (1..n) |-> Place(x[1], items[x[2]])]
           Packs(f) == f = [i \in 0..n |-> IF i = 0 THEN NewPacking
                                                    ELSE Place(f[i - 1], items[i])]
           packed == CHOOSE f : Packs(f)
<1>1. n \in Nat /\ NewPacking \in Packings /\ \A i \in 1..n : items[i] \in Items
  BY BatchingAssumption DEF NewPacking, Packings
<1>2. PlanBatches(items) = Closed(packed[n])
  BY DEF PlanBatches
<1> HIDE DEF n
<1>3. step \in Steps(n, Packings)
  BY <1>1, PlaceTypes DEF Steps
<1>4. \A p \in Packings, i \in 1..n : step[<<p, i>>] = Place(p, items[i])
  OBVIOUS
<1> HIDE DEF step
<1>5. PICK f : Follows(f, n, Packings, NewPacking, step)
  BY <1>1, <1>3, FoldExists
<1>6. \A i \in 1..n : i - 1 \in 0..n
  BY <1>1
<1>7. /\ \A i \in 0..n : f[i] \in Packings
      /\ f[0] = NewPacking
      /\ \A i \in 1..n : f[i] = Place(f[i - 1], items[i])
      /\ f = [i \in 0..n |-> f[i]]
  BY <1>4, <1>5, <1>6 DEF Follows
<1>8. Packs(f)
  <2>1. \A i \in 0..n : f[i] = IF i = 0 THEN NewPacking ELSE Place(f[i - 1], items[i])
    <3>1. \A i \in 0..n : i # 0 => i \in 1..n
      BY <1>1
    <3> QED
      BY <1>7, <3>1
  <2> QED
    BY <1>7, <2>1
<1>9. Packs(packed)
  BY <1>8
<1> HIDE DEF packed
<1>10. packed[0] = NewPacking /\ \A i \in 1..n : packed[i] = Place(packed[i - 1], items[i])
  BY <1>1, <1>9
<1> DEFINE S == {i \in 0..n : packed[i] = f[i]}
<1>11. 0 \in S
  BY <1>1, <1>7, <1>10
<1>12. ASSUME NEW i \in 0..n - 1, i \in S PROVE i + 1 \in S
  <2>1. i + 1 \in 1..n /\ (i + 1) - 1 = i
    BY <1>1
  <2>2. /\ f[i + 1] = Place(f[(i + 1) - 1], items[i + 1])
        /\ packed[i + 1] = Place(packed[(i + 1) - 1], items[i + 1])
    BY <1>7, <1>10, <2>1
  <2> QED
    BY <1>12, <2>1, <2>2
<1>13. 0..n \subseteq S
  <2> HIDE DEF S
  <2> QED
    BY <1>1, <1>11, <1>12, UpTo
<1>14. n \in 0..n
  BY <1>1
<1> QED
  BY <1>2, <1>7, <1>13, <1>14 DEF Packed, n

Gathered(p) == FlattenSeq(p.groups) \o p.current
Good(p) ==
  /\ \A i \in DOMAIN p.groups : Allowed(p.groups[i])
  /\ p.current # <<>> => Allowed(p.current)
  /\ p.tokens = RequestTokens(p.current)

LEMMA PlaceKeeps ==
  ASSUME NEW p \in Packings, Good(p), NEW item \in Items
  PROVE  Good(Place(p, item)) /\ Gathered(Place(p, item)) = Gathered(p) \o <<item>>
<1> DEFINE q == Place(p, item)
<1>1. /\ p.groups \in Seq(Seq(Items)) /\ p.current \in Seq(Items) /\ p.tokens \in Nat
      /\ <<item>> \in Seq(Items)
  BY DEF Packings
<1>2. FlattenSeq(p.groups) \in Seq(Items)
  BY <1>1, FlattenIs
<1>3. /\ Cost(item) \in Nat /\ EffectiveTokenBudget \in Nat /\ FixedOverhead \in Nat
      /\ MaxItems \in Nat \ {0}
  BY CostIsNat, BudgetIsNat, BatchingAssumption
<1>4. CASE Full(p, item)
  <2>1. q.groups = Append(p.groups, p.current) /\ q.current = <<item>>
        /\ q.tokens = FixedOverhead + Cost(item)
    BY <1>4 DEF Place
  <2>2. p.current # <<>> /\ Allowed(p.current)
    BY <1>4 DEF Full, Good
  <2>3. ASSUME NEW i \in DOMAIN q.groups PROVE Allowed(q.groups[i])
    <3>1. /\ DOMAIN q.groups = 1..Len(p.groups) + 1
          /\ DOMAIN p.groups = 1..Len(p.groups) /\ Len(p.groups) \in Nat
          /\ \A k \in 1..Len(p.groups) : q.groups[k] = p.groups[k]
          /\ q.groups[Len(p.groups) + 1] = p.current
      BY <1>1, <2>1, AppendProperties
    <3>2. i = Len(p.groups) + 1 \/ i \in 1..Len(p.groups)
      BY <3>1
    <3> QED
      BY <2>2, <3>1, <3>2 DEF Good
  <2>4. <<item>> = Append(<<>>, item) /\ <<>> \in Seq(Items) /\ Len(<<item>>) = 1
    OBVIOUS
  <2>5. RequestTokens(<<item>>) = FixedOverhead + Cost(item)
    BY <2>4, TokensOfAppend
  <2>6. Allowed(<<item>>)
    BY <1>3, <2>4 DEF Allowed
  <2>7. Good(q)
    BY <2>1, <2>3, <2>5, <2>6 DEF Good
  <2>8. Gathered(q) = (FlattenSeq(p.groups) \o p.current) \o <<item>>
    BY <1>1, <2>1, FlattenAppend DEF Gathered
  <2> QED
    BY <2>7, <2>8 DEF Gathered
<1>5. CASE ~Full(p, item)
  <2>1. q.groups = p.groups /\ q.current = Append(p.current, item)
        /\ q.tokens = p.tokens + Cost(item)
    BY <1>1, <1>5 DEF Place, Packings
  <2>2. p.tokens = RequestTokens(p.current)
    BY DEF Good
  <2>3. RequestTokens(q.current) = q.tokens /\ RequestTokens(<<>>) = FixedOverhead
    BY <1>1, <2>1, <2>2, TokensOfAppend
  <2>4. q.current # <<>> /\ Len(q.current) = Len(p.current) + 1 /\ Len(p.current) \in Nat
    BY <1>1, <2>1, SMTT(30)
  <2>5. Allowed(q.current)
    <3>1. CASE p.current = <<>>
      BY <1>3, <2>4, <3>1 DEF Allowed
    <3>2. CASE p.current # <<>>
      <4>1. ~ (Len(p.current) >= MaxItems) /\ ~ (p.tokens + Cost(item) > EffectiveTokenBudget)
        BY <1>5, <3>2 DEF Full
      <4>2. Len(q.current) <= MaxItems /\ RequestTokens(q.current) <= EffectiveTokenBudget
        BY <1>1, <1>3, <2>1, <2>3, <2>4, <4>1
      <4> QED
        BY <2>4, <4>2 DEF Allowed
    <3> QED
      BY <3>1, <3>2
  <2>6. Good(q)
    BY <2>1, <2>3, <2>5 DEF Good
  <2>7. q.current = p.current \o <<item>>
    BY <1>1, <2>1, AppendIsConcat
  <2>8. Gathered(q) = FlattenSeq(p.groups) \o (p.current \o <<item>>)
    BY <2>1, <2>7 DEF Gathered
  <2>9. (FlattenSeq(p.groups) \o p.current) \o <<item>>
          = FlattenSeq(p.groups) \o (p.current \o <<item>>)
    <3>1. \A s, t, u \in Seq(Items) : (s \o t) \o u = s \o (t \o u)
      BY ConcatAssociative
    <3> QED
      BY <1>1, <1>2, <3>1
  <2> QED
    BY <2>6, <2>8, <2>9 DEF Gathered
<1> QED
  BY <1>4, <1>5

LEMMA PackedIsSound ==
  ASSUME NEW items \in Seq(Items), NEW f, Packed(f, items)
  PROVE  \A i \in 0..Len(items) : Good(f[i]) /\ Gathered(f[i]) = SubSeq(items, 1, i)
<1> DEFINE n == Len(items)
           S == {i \in 0..n : Good(f[i]) /\ Gathered(f[i]) = SubSeq(items, 1, i)}
<1>1. n \in Nat /\ \A i \in 1..n : items[i] \in Items
  OBVIOUS
<1>2. 0 \in S
  <2>1. /\ f[0].groups = <<>> /\ f[0].current = <<>> /\ f[0].tokens = FixedOverhead
    BY DEF Packed, NewPacking
  <2>2. RequestTokens(<<>>) = FixedOverhead
    <3>1. PICK t : Totals(t, <<>>) /\ RequestTokens(<<>>) = t[Len(<<>>)]
      <4>1. <<>> \in Seq(Items)
        OBVIOUS
      <4> QED
        BY <4>1, TokensIs
    <3> QED
      BY <3>1 DEF Totals
  <2>3. Good(f[0])
    BY <2>1, <2>2 DEF Good
  <2>4. FlattenSeq(<<>>) = <<>> /\ <<>> \o <<>> = <<>>
    BY DEF FlattenSeq
  <2>5. SubSeq(items, 1, 0) = <<>>
    BY SubSeqEmpty
  <2>6. 0 \in 0..n
    BY <1>1
  <2>7. Gathered(f[0]) = FlattenSeq(<<>>) \o <<>>
    BY <2>1 DEF Gathered
  <2> QED
    BY <2>3, <2>4, <2>5, <2>6, <2>7
<1>3. ASSUME NEW i \in 0..n - 1, i \in S PROVE i + 1 \in S
  <2>1. i + 1 \in 1..n /\ i \in 0..n /\ i + 1 \in 0..n /\ (i + 1) - 1 = i /\ 1 \in 1..Len(items)
    BY <1>1
  <2>2. f[i + 1] = Place(f[i], items[i + 1])
    <3>1. f[i + 1] = Place(f[(i + 1) - 1], items[i + 1])
      BY <2>1 DEF Packed
    <3> QED
      BY <2>1, <3>1
  <2>3. f[i] \in Packings /\ Good(f[i]) /\ Gathered(f[i]) = SubSeq(items, 1, i)
    BY <1>3, <2>1 DEF Packed
  <2>4. /\ Good(f[i + 1])
        /\ Gathered(f[i + 1]) = SubSeq(items, 1, i) \o <<items[i + 1]>>
    BY <1>1, <2>1, <2>2, <2>3, PlaceKeeps
  <2>5. SubSeq(items, 1, i + 1) = SubSeq(items, 1, (i + 1) - 1) \o <<items[i + 1]>>
    BY <2>1, SubSeqRecursiveSecond
  <2> QED
    BY <2>1, <2>4, <2>5
<1>4. 0..n \subseteq S
  <2> HIDE DEF S, n
  <2> QED
    BY <1>1, <1>2, <1>3, UpTo
<1> QED
  BY <1>4

LEMMA ClosedIs ==
  ASSUME NEW p \in Packings, Good(p)
  PROVE  /\ Closed(p) \in Seq(Seq(Items))
         /\ FlattenSeq(Closed(p)) = Gathered(p)
         /\ \A b \in DOMAIN Closed(p) : Allowed(Closed(p)[b])
<1>1. p.groups \in Seq(Seq(Items)) /\ p.current \in Seq(Items)
  BY DEF Packings
<1>2. FlattenSeq(p.groups) \in Seq(Items)
  BY <1>1, FlattenIs
<1>3. CASE p.current = <<>>
  <2>1. Gathered(p) = FlattenSeq(p.groups)
    BY <1>2, <1>3, ConcatEmptySeq DEF Gathered
  <2> QED
    BY <1>1, <1>3, <2>1 DEF Closed, Good
<1>4. CASE p.current # <<>>
  <2>1. Closed(p) = Append(p.groups, p.current)
    BY <1>4 DEF Closed
  <2>2. /\ Closed(p) \in Seq(Seq(Items))
        /\ DOMAIN Closed(p) = 1..Len(p.groups) + 1
        /\ DOMAIN p.groups = 1..Len(p.groups) /\ Len(p.groups) \in Nat
        /\ \A k \in 1..Len(p.groups) : Closed(p)[k] = p.groups[k]
        /\ Closed(p)[Len(p.groups) + 1] = p.current
    BY <1>1, <2>1, AppendProperties
  <2>3. ASSUME NEW b \in DOMAIN Closed(p) PROVE Allowed(Closed(p)[b])
    <3>1. b = Len(p.groups) + 1 \/ b \in 1..Len(p.groups)
      BY <2>2
    <3> QED
      BY <1>4, <2>2, <3>1 DEF Good
  <2>4. FlattenSeq(Closed(p)) = Gathered(p)
    BY <1>1, <2>1, FlattenAppend DEF Gathered
  <2> QED
    BY <2>2, <2>3, <2>4
<1> QED
  BY <1>3, <1>4

(***************************************************************************)
(* For any items, estimates and limits, the plan of a stage holds every    *)
(* item once and in order, in requests within the limits, but for a single *)
(* item too large for any (plan_batches).                                  *)
(***************************************************************************)
THEOREM PlansHoldEveryItem ==
  \A items \in Seq(Items) : HoldsInOrder(PlanBatches(items), items)
<1> TAKE items \in Seq(Items)
<1>1. PICK f : Packed(f, items) /\ PlanBatches(items) = Closed(f[Len(items)])
  BY PackedExists
<1>2. Len(items) \in 0..Len(items)
  OBVIOUS
<1>3. /\ f[Len(items)] \in Packings /\ Good(f[Len(items)])
      /\ Gathered(f[Len(items)]) = SubSeq(items, 1, Len(items))
  BY <1>1, <1>2, PackedIsSound DEF Packed
<1>4. SubSeq(items, 1, Len(items)) = items
  BY SubSeqFull
<1>5. /\ FlattenSeq(PlanBatches(items)) = items
      /\ \A b \in DOMAIN PlanBatches(items) : Allowed(PlanBatches(items)[b])
  BY <1>1, <1>3, <1>4, ClosedIs
<1> QED
  BY <1>5 DEF HoldsInOrder, ToSet

(* The items of a plan's batches are those planned.                        *)
(* What is closed stays first.                                             *)
LEMMA ClosedStarts ==
  ASSUME NEW p \in Packings
  PROVE  /\ Len(p.groups) \in Nat
         /\ Len(Closed(p)) \in Len(p.groups)..Len(p.groups) + 1
         /\ \A b \in 1..Len(p.groups) : Closed(p)[b] = p.groups[b]
<1>1. p.groups \in Seq(Seq(Items)) /\ p.current \in Seq(Items)
  BY DEF Packings
<1>2. CASE p.current = <<>>
  BY <1>1, <1>2 DEF Closed
<1>3. CASE p.current # <<>>
  BY <1>1, <1>3, AppendProperties DEF Closed
<1> QED
  BY <1>2, <1>3

LEMMA PlaceStarts ==
  ASSUME NEW p \in Packings, NEW item \in Items
  PROVE  /\ Len(Place(p, item).groups) >= Len(p.groups)
         /\ \A b \in 1..Len(p.groups) : Place(p, item).groups[b] = p.groups[b]
<1>1. p.groups \in Seq(Seq(Items)) /\ p.current \in Seq(Items)
  BY DEF Packings
<1>2. CASE Full(p, item)
  BY <1>1, <1>2, AppendProperties DEF Place
<1>3. CASE ~Full(p, item)
  <2>1. Place(p, item).groups = p.groups
    BY <1>3 DEF Place, Packings
  <2> QED
    BY <1>1, <2>1
<1> QED
  BY <1>2, <1>3

(***************************************************************************)
(* For any items and limits, an item added at the end leaves every batch   *)
(* but the last at its index: a stage that resumes finds there what it had *)
(* completed (plan_batches, sync_plan).                                    *)
(***************************************************************************)
THEOREM PlansKeepTheirBatches ==
  \A items \in Seq(Items), item \in Items :
    KeepsBatches(PlanBatches(items), PlanBatches(Append(items, item)))
<1> TAKE items \in Seq(Items), item \in Items
<1> DEFINE n == Len(items)
           more == Append(items, item)
<1>1. /\ n \in Nat /\ more \in Seq(Items) /\ Len(more) = n + 1
      /\ \A i \in 1..n : more[i] = items[i]
      /\ more[n + 1] = item
  BY AppendProperties
<1>2. PICK f : Packed(f, items) /\ PlanBatches(items) = Closed(f[n])
  BY PackedExists
<1>3. PICK g : Packed(g, more) /\ PlanBatches(more) = Closed(g[n + 1])
  <2> HIDE DEF n, more
  <2>1. PICK g : Packed(g, more) /\ PlanBatches(more) = Closed(g[Len(more)])
    BY <1>1, PackedExists
  <2> QED
    BY <1>1, <2>1
<1> HIDE DEF more
<1> DEFINE S == {i \in 0..n : g[i] = f[i]}
<1>4. 0 \in S
  BY <1>1, <1>2, <1>3 DEF Packed
<1>5. ASSUME NEW i \in 0..n - 1, i \in S PROVE i + 1 \in S
  <2>1. i + 1 \in 1..n /\ i + 1 \in 1..n + 1 /\ (i + 1) - 1 = i /\ more[i + 1] = items[i + 1]
    BY <1>1
  <2>2. /\ f[i + 1] = Place(f[(i + 1) - 1], items[i + 1])
        /\ g[i + 1] = Place(g[(i + 1) - 1], more[i + 1])
    BY <1>1, <1>2, <1>3, <2>1 DEF Packed
  <2>3. g[i + 1] = f[i + 1]
    BY <1>5, <2>1, <2>2
  <2> QED
    BY <2>1, <2>3
<1>6. 0..n \subseteq S
  <2> HIDE DEF S, n
  <2> QED
    BY <1>1, <1>4, <1>5, UpTo
<1>7. g[n] = f[n] /\ f[n] \in Packings
  <2>1. n \in 0..n
    BY <1>1
  <2> QED
    BY <1>2, <1>6, <2>1 DEF Packed
<1>8. g[n + 1] = Place(f[n], item)
  <2>1. n + 1 \in 1..n + 1 /\ (n + 1) - 1 = n
    BY <1>1
  <2>2. g[n + 1] = Place(g[(n + 1) - 1], more[n + 1])
    BY <1>1, <1>3, <2>1 DEF Packed
  <2> QED
    BY <1>1, <1>7, <2>1, <2>2
<1> DEFINE p == f[n]
           q == Place(p, item)
<1>9. q \in Packings
  BY <1>7, PlaceTypes
<1>10. ASSUME NEW b \in 1..Len(Closed(p)) - 1 PROVE Closed(q)[b] = Closed(p)[b]
  <2>1. b \in 1..Len(p.groups) /\ Closed(p)[b] = p.groups[b]
    BY <1>7, <1>10, ClosedStarts
  <2>2. b \in 1..Len(q.groups) /\ q.groups[b] = p.groups[b]
    BY <1>7, <1>9, <2>1, PlaceStarts, ClosedStarts
  <2>3. Closed(q)[b] = q.groups[b]
    BY <1>9, <2>2, ClosedStarts
  <2> QED
    BY <2>1, <2>2, <2>3
<1> QED
  BY <1>2, <1>3, <1>8, <1>10 DEF KeepsBatches, more

(* What a run of the items costs, by what the items before it cost.        *)
LEMMA RunTokens ==
  ASSUME NEW items \in Seq(Items), NEW a \in 0..Len(items), NEW b \in a..Len(items)
  PROVE  /\ SubSeq(items, a + 1, b) \in Seq(Items)
         /\ Len(SubSeq(items, a + 1, b)) = b - a
         /\ RequestTokens(SubSeq(items, a + 1, b)) \in Nat
         /\ RequestTokens(SubSeq(items, 1, a)) \in Nat
         /\ RequestTokens(SubSeq(items, a + 1, b)) >= FixedOverhead
         /\ RequestTokens(SubSeq(items, 1, b)) + FixedOverhead
              = RequestTokens(SubSeq(items, 1, a)) + RequestTokens(SubSeq(items, a + 1, b))
<1> DEFINE n == Len(items)
           Run(c, d) == SubSeq(items, c + 1, d)
           T(c, d) == RequestTokens(Run(c, d))
           S == {k \in 0..n - a : T(a, a + k) >= FixedOverhead
                                   /\ T(0, a + k) + FixedOverhead = T(0, a) + T(a, a + k)}
<1>1. n \in Nat /\ FixedOverhead \in Nat /\ a \in Nat /\ a <= n
  BY BatchingAssumption
<1>2. ASSUME NEW c \in 0..n, NEW d \in c..n PROVE Run(c, d) \in Seq(Items) /\ Len(Run(c, d)) = d - c
  <2>1. \A i \in c + 1..d : items[i] \in Items
    BY <1>1
  <2> QED
    BY <1>1, <2>1, SubSeqProperties
<1>3. ASSUME NEW c \in 0..n, NEW d \in c..n PROVE T(c, d) \in Nat
  <2> DEFINE run == Run(c, d)
  <2>1. run \in Seq(Items)
    BY <1>2
  <2>2. \A batch \in Seq(Items) : RequestTokens(batch) \in Nat
    BY TokensIs
  <2> HIDE DEF run
  <2>3. RequestTokens(run) \in Nat
    BY <2>1, <2>2
  <2> QED
    BY <2>3 DEF run
<1>4. ASSUME NEW c \in 0..n, NEW d \in c..n, d < n
      PROVE  /\ Cost(items[d + 1]) \in Nat
             /\ T(c, d + 1) = T(c, d) + Cost(items[d + 1])
  <2>1. c + 1 \in 1..n /\ d + 1 \in c + 1..n /\ (d + 1) - 1 = d /\ items[d + 1] \in Items
    BY <1>1, <1>4
  <2>2. Run(c, d + 1) = Run(c, d) \o <<items[d + 1]>>
    <3>1. SubSeq(items, c + 1, d + 1) = SubSeq(items, c + 1, (d + 1) - 1) \o <<items[d + 1]>>
      BY <2>1, SubSeqRecursiveSecond
    <3> QED
      BY <2>1, <3>1
  <2>3. Run(c, d + 1) = Append(Run(c, d), items[d + 1])
    BY <1>2, <2>1, <2>2, AppendIsConcat
  <2> QED
    BY <1>2, <2>1, <2>3, TokensOfAppend, CostIsNat
<1>5. Run(0, a) = SubSeq(items, 1, a) /\ Run(0, b) = SubSeq(items, 1, b)
  OBVIOUS
<1>6. T(a, a) = FixedOverhead
  <2>1. Run(a, a) = <<>>
    BY <1>1, SubSeqEmpty
  <2>2. <<>> \in Seq(Items)
    OBVIOUS
  <2>3. RequestTokens(<<>>) = FixedOverhead
    <3>1. PICK t : Totals(t, <<>>) /\ RequestTokens(<<>>) = t[Len(<<>>)]
      BY <2>2, TokensIs
    <3> QED
      BY <3>1 DEF Totals
  <2> QED
    BY <2>1, <2>3
<1> HIDE DEF T
<1>7. 0 \in S
  <2>1. a + 0 = a /\ a \in 0..n /\ a \in a..n /\ 0 \in 0..n - a /\ a \in 0..n /\ 0 \in 0..n
    BY <1>1
  <2>2. T(0, a) \in Nat
    BY <1>1, <1>3, <2>1
  <2> QED
    BY <1>1, <1>6, <2>1, <2>2
<1>8. ASSUME NEW k \in 0..(n - a) - 1, k \in S PROVE k + 1 \in S
  <2> DEFINE d == a + k
  <2>1. /\ d \in a..n /\ d \in 0..n /\ d < n /\ a \in 0..n /\ 0 \in 0..n /\ k + 1 \in 0..n - a
        /\ a + (k + 1) = d + 1
    BY <1>1
  <2>2. T(0, d + 1) = T(0, d) + Cost(items[d + 1]) /\ Cost(items[d + 1]) \in Nat
        /\ T(a, d + 1) = T(a, d) + Cost(items[d + 1])
    BY <1>4, <2>1
  <2>3. T(0, d) \in Nat /\ T(a, d) \in Nat /\ T(0, a) \in Nat
    BY <1>1, <1>3, <2>1
  <2>4. T(a, d) >= FixedOverhead /\ T(0, d) + FixedOverhead = T(0, a) + T(a, d)
    BY <1>8
  <2>5. T(a, d + 1) >= FixedOverhead /\ T(0, d + 1) + FixedOverhead = T(0, a) + T(a, d + 1)
    <3>1. \A x, y, z, c, o \in Nat : y >= o /\ x + o = z + y
            => y + c >= o /\ (x + c) + o = z + (y + c)
      OBVIOUS
    <3> HIDE DEF d
    <3> QED
      BY <1>1, <2>2, <2>3, <2>4, <3>1, SMTT(30)
  <2> QED
    BY <2>1, <2>5
<1>9. 0..n - a \subseteq S
  <2>1. n - a \in Nat
    BY <1>1
  <2> HIDE DEF S
  <2> QED
    BY <2>1, <1>7, <1>8, UpTo
<1>10. b - a \in 0..n - a /\ a + (b - a) = b /\ a \in 0..n /\ 0 \in 0..n /\ b \in 0..n
  BY <1>1
<1>11. T(a, b) >= FixedOverhead /\ T(0, b) + FixedOverhead = T(0, a) + T(a, b)
  BY <1>9, <1>10
<1>12. T(0, a) \in Nat /\ T(a, b) \in Nat
  BY <1>1, <1>3, <1>10
<1> QED
  BY <1>2, <1>5, <1>10, <1>11, <1>12 DEF T

(* A run within another costs no more.                                     *)
LEMMA WithinCosts ==
  ASSUME NEW items \in Seq(Items), NEW a \in 0..Len(items), NEW b \in a..Len(items),
         NEW c \in a..b, NEW d \in c..b
  PROVE  RequestTokens(SubSeq(items, c + 1, d)) <= RequestTokens(SubSeq(items, a + 1, b))
<1> DEFINE T(x, y) == RequestTokens(SubSeq(items, x + 1, y))
<1>1. /\ Len(items) \in Nat /\ FixedOverhead \in Nat
      /\ c \in 0..Len(items) /\ d \in c..Len(items) /\ c \in a..Len(items)
      /\ d \in 0..Len(items) /\ b \in d..Len(items) /\ 0 \in 0..Len(items)
  BY BatchingAssumption
<1>2. /\ T(a, b) \in Nat /\ T(0, a) \in Nat /\ T(0, b) + FixedOverhead = T(0, a) + T(a, b)
  BY RunTokens
<1>3. /\ T(a, c) \in Nat /\ T(a, c) >= FixedOverhead
      /\ T(0, c) + FixedOverhead = T(0, a) + T(a, c) /\ T(0, c) \in Nat
  BY <1>1, RunTokens
<1>4. /\ T(c, d) \in Nat /\ T(0, d) + FixedOverhead = T(0, c) + T(c, d) /\ T(0, d) \in Nat
  BY <1>1, RunTokens
<1>5. /\ T(d, b) \in Nat /\ T(d, b) >= FixedOverhead /\ T(0, b) \in Nat
      /\ T(0, b) + FixedOverhead = T(0, d) + T(d, b)
  BY <1>1, RunTokens
<1> HIDE DEF T
<1>6. T(c, d) <= T(a, b)
  <2>1. \A o, x, y, z \in Nat : y + o = x + z /\ z >= o => x <= y
    OBVIOUS
  <2>2. T(0, a) <= T(0, c) /\ T(0, d) <= T(0, b)
    BY <1>1, <1>2, <1>3, <1>4, <1>5, <2>1
  <2>3. \A o, x, y, z \in Nat : y + o = x + z => z = (y + o) - x
    OBVIOUS
  <2>4. T(a, b) = (T(0, b) + FixedOverhead) - T(0, a)
    BY <1>1, <1>2, <1>5, <2>3
  <2>5. T(c, d) = (T(0, d) + FixedOverhead) - T(0, c)
    BY <1>1, <1>3, <1>4, <2>3
  <2>6. \A x, y, o \in Nat : x <= y => x + o \in Nat /\ y + o \in Nat /\ x + o <= y + o
    OBVIOUS
  <2>7. T(0, d) + FixedOverhead \in Nat /\ T(0, b) + FixedOverhead \in Nat
        /\ T(0, d) + FixedOverhead <= T(0, b) + FixedOverhead
    BY <1>1, <1>4, <1>5, <2>2, <2>6
  <2>8. \A x, y, z, u \in Nat : x <= y /\ z <= u => x - u <= y - z
    OBVIOUS
  <2> QED
    BY <1>2, <1>3, <2>2, <2>4, <2>5, <2>7, <2>8
<1> QED
  BY <1>6 DEF T

(* The batch that is open after i items holds the last of them.            *)
OpenIs(p, items, i) ==
  /\ Len(p.current) \in 0..i /\ (i > 0 => p.current # <<>>)
  /\ p.current = SubSeq(items, i - Len(p.current) + 1, i)

LEMMA OpenBatch ==
  ASSUME NEW items \in Seq(Items), NEW f, Packed(f, items)
  PROVE  \A i \in 0..Len(items) : OpenIs(f[i], items, i)
<1> DEFINE n == Len(items)
           S == {i \in 0..n : OpenIs(f[i], items, i)}
<1>1. n \in Nat /\ \A i \in 1..n : items[i] \in Items
  OBVIOUS
<1>2. 0 \in S
  <2>1. f[0].current = <<>> /\ 0 \in 0..n
    BY <1>1 DEF Packed, NewPacking
  <2>2. SubSeq(items, 1, 0) = <<>>
    BY SubSeqEmpty
  <2>3. Len(<<>>) = 0 /\ 0 - 0 + 1 = 1 /\ ~ (0 > 0)
    OBVIOUS
  <2>4. OpenIs(f[0], items, 0)
    <3>1. Len(f[0].current) = 0 /\ 0 \in 0..0 /\ 0 - 0 + 1 = 1 /\ ~ (0 > 0)
      BY <2>1, <2>3
    <3> QED
      BY <2>1, <2>2, <3>1 DEF OpenIs
  <2> QED
    BY <2>1, <2>4
<1>3. ASSUME NEW i \in 0..n - 1, i \in S PROVE i + 1 \in S
  <2>1. i + 1 \in 1..n /\ i \in 0..n /\ i + 1 \in 0..n /\ (i + 1) - 1 = i /\ items[i + 1] \in Items
    BY <1>1
  <2> DEFINE p == f[i]
             item == items[i + 1]
             q == f[i + 1]
  <2>2. p \in Packings /\ q = Place(p, item)
    <3>1. f[i + 1] = Place(f[(i + 1) - 1], items[i + 1])
      BY <2>1 DEF Packed
    <3> QED
      BY <2>1, <3>1 DEF Packed
  <2>3. OpenIs(p, items, i)
    BY <1>3
  <2>4. p.current \in Seq(Items)
    BY <2>2 DEF Packings
  <2>5. CASE Full(p, item)
    <3>1. q.current = <<item>> /\ Len(<<item>>) = 1 /\ (i + 1) - 1 + 1 = i + 1
      BY <2>1, <2>2, <2>5 DEF Place
    <3>2. SubSeq(items, i + 1, i + 1) = <<item>>
      <4>1. SubSeq(items, i + 1, i + 1) = SubSeq(items, i + 1, (i + 1) - 1) \o <<items[i + 1]>>
        BY <2>1, SubSeqRecursiveSecond
      <4>2. SubSeq(items, i + 1, (i + 1) - 1) = <<>>
        BY <2>1, SubSeqEmpty
      <4>3. <<>> \o <<items[i + 1]>> = <<items[i + 1]>>
        OBVIOUS
      <4> QED
        BY <4>1, <4>2, <4>3
    <3>3. Len(q.current) = 1 /\ 1 \in 0..i + 1 /\ q.current # <<>>
      BY <2>1, <3>1
    <3> HIDE DEF q, item
    <3>4. OpenIs(q, items, i + 1)
      BY <3>1, <3>2, <3>3 DEF OpenIs, item
    <3> QED
      BY <2>1, <3>4 DEF q
  <2>6. CASE ~Full(p, item)
    <3>1. q.current = Append(p.current, item)
      BY <2>2, <2>6 DEF Place, Packings
    <3> DEFINE s == i - Len(p.current)
    <3>2. s \in 0..i /\ Len(p.current) \in Nat /\ Len(q.current) = Len(p.current) + 1
      BY <2>1, <2>3, <2>4, <3>1 DEF OpenIs
    <3>3. (i + 1) - Len(q.current) = s /\ Len(q.current) \in 0..i + 1 /\ q.current # <<>>
      BY <2>1, <2>3, <2>4, <3>1, <3>2 DEF OpenIs
    <3>4. SubSeq(items, s + 1, i + 1) = SubSeq(items, s + 1, (i + 1) - 1) \o <<items[i + 1]>>
      <4> HIDE DEF s
      <4>1. s + 1 \in 1..n /\ i + 1 \in s + 1..n
        BY <1>1, <2>1, <3>2
      <4> QED
        BY <4>1, SubSeqRecursiveSecond
    <3>5. p.current = SubSeq(items, s + 1, i)
      BY <2>3 DEF OpenIs
    <3>6. q.current = p.current \o <<item>>
      BY <2>1, <2>4, <3>1, AppendIsConcat
    <3>7. q.current = SubSeq(items, s + 1, i + 1)
      BY <2>1, <3>4, <3>5, <3>6
    <3> HIDE DEF s, q
    <3>8. OpenIs(q, items, i + 1)
      BY <3>3, <3>7 DEF OpenIs
    <3> QED
      BY <2>1, <3>8 DEF q
  <2> QED
    BY <2>5, <2>6
<1>4. 0..n \subseteq S
  <2> HIDE DEF S, n
  <2> QED
    BY <1>1, <1>2, <1>3, UpTo
<1> QED
  BY <1>4

(* Items that no cut separates are in one request of the cut with the next. *)
LEMMA UncutFits ==
  ASSUME NEW items \in Seq(Items), NEW ends \in Cuts(Len(items)), AllAllowed(ends, items),
         NEW s \in Nat, NEW i \in Nat, s < i, i < Len(items), ends \cap (s + 1..i) = {}
  PROVE  /\ (i + 1) - s <= MaxItems
         /\ RequestTokens(SubSeq(items, s + 1, i + 1)) <= EffectiveTokenBudget
<1> DEFINE n == Len(items)
<1>1. n \in Nat /\ ends \subseteq 1..n /\ n \in ends
  BY DEF Cuts
<1>2. PICK last \in {e \in ends : e > i} : \A e \in {x \in ends : x > i} : last <= e
  <2>1. \A e \in ends : e \in Nat
    BY <1>1
  <2>2. n \in {e \in ends : e > i} /\ {e \in ends : e > i} \subseteq Nat
    <3>1. n > i
      BY <1>1
    <3> QED
      BY <1>1, <2>1, <3>1
  <2> QED
    BY <2>2, LeastNatural
<1>3. PICK first \in {0} \cup ends : first <= i /\ \A e \in ends : e <= i => e <= first
  <2> DEFINE D == {i - e : e \in {x \in {0} \cup ends : x <= i}}
  <2>1. D \subseteq Nat /\ D # {}
    <3>1. \A e \in {0} \cup ends : e \in Nat
      BY <1>1
    <3>2. \A e \in Nat : e <= i => i - e \in Nat
      OBVIOUS
    <3>3. 0 <= i /\ 0 \in {x \in {0} \cup ends : x <= i}
      OBVIOUS
    <3> QED
      BY <3>1, <3>2, <3>3
  <2>2. PICK d \in D : \A m \in D : d <= m
    <3> HIDE DEF D
    <3> QED
      BY <2>1, LeastNatural
  <2>3. PICK first \in {x \in {0} \cup ends : x <= i} : d = i - first
    BY <2>2
  <2>4. ASSUME NEW e \in ends, e <= i PROVE e <= first
    <3>1. i - e \in D
      BY <2>4
    <3>2. i - first <= i - e
      BY <2>2, <2>3, <3>1
    <3> QED
      BY <1>1, <2>3, <3>2
  <2> QED
    BY <2>3, <2>4
<1>4. first \in Nat /\ last \in Nat /\ first <= s /\ i + 1 <= last /\ last <= n /\ first < last
  <2>1. first \in Nat /\ last \in Nat /\ i + 1 <= last /\ last <= n
    BY <1>1, <1>2, <1>3
  <2>2. first = 0 \/ first \in ends
    BY <1>3
  <2>3. first <= s
    BY <1>3, <2>1, <2>2
  <2> QED
    BY <2>1, <2>3
<1>5. ends \cap (first + 1..last - 1) = {}
  <2> SUFFICES ASSUME NEW x \in ends, x \in first + 1..last - 1 PROVE FALSE
    OBVIOUS
  <2>1. x \in Nat /\ first < x /\ x < last
    BY <1>1, <1>4
  <2>2. CASE x <= i
    BY <1>3, <1>4, <2>1, <2>2
  <2>3. CASE x > i
    BY <1>2, <1>4, <2>1, <2>3
  <2> QED
    BY <2>1, <2>2, <2>3
<1>6. Allowed(SubSeq(items, first + 1, last))
  BY <1>2, <1>3, <1>4, <1>5 DEF AllAllowed
<1>7. first \in 0..n /\ last \in first..n /\ s \in first..last /\ i + 1 \in s..last
  BY <1>1, <1>4
<1>8. Len(SubSeq(items, first + 1, last)) = last - first
  BY <1>7, RunTokens
<1>9. RequestTokens(SubSeq(items, first + 1, last)) \in Nat
  BY <1>7, RunTokens
<1>10. last - first <= MaxItems /\ RequestTokens(SubSeq(items, first + 1, last)) <= EffectiveTokenBudget
  <2>1. last - first # 1
    BY <1>4
  <2> QED
    BY <1>6, <1>8, <2>1 DEF Allowed
<1>11. (i + 1) - s <= MaxItems
  BY <1>4, <1>10, BatchingAssumption
<1>12. RequestTokens(SubSeq(items, s + 1, i + 1)) <= RequestTokens(SubSeq(items, first + 1, last))
  BY <1>7, WithinCosts
<1>13. RequestTokens(SubSeq(items, s + 1, i + 1)) \in Nat
  <2>1. s \in 0..n /\ i + 1 \in s..n
    BY <1>1, <1>4
  <2> QED
    BY <2>1, RunTokens
<1> QED
  BY <1>9, <1>10, <1>11, <1>12, <1>13, BudgetIsNat

(* How many of the cut's requests have ended, after i items.               *)
Ended(ends, i) == Cardinality(ends \cap (1..i))

LEMMA EndedCounts ==
  ASSUME NEW n \in Nat, NEW ends, ends \subseteq 1..n
  PROVE  /\ Ended(ends, 0) = 0
         /\ Ended(ends, n) = Cardinality(ends)
         /\ \A i \in 0..n :
              /\ Ended(ends, i) \in Nat
              /\ i + 1 \in ends => Ended(ends, i + 1) = Ended(ends, i) + 1
              /\ i + 1 \notin ends => Ended(ends, i + 1) = Ended(ends, i)
<1>1. ASSUME NEW i \in 0..n PROVE IsFiniteSet(ends \cap (1..i)) /\ Ended(ends, i) \in Nat
  <2>1. IsFiniteSet(1..i)
    BY FS_Interval
  <2>2. IsFiniteSet(ends \cap (1..i))
    BY <2>1, FS_Subset
  <2> QED
    BY <2>2, FS_CardinalityType DEF Ended
<1>2. ends \cap (1..0) = {} /\ ends \cap (1..n) = ends
  <2>1. 1..0 = {}
    OBVIOUS
  <2> QED
    BY <2>1
<1>3. ASSUME NEW i \in 0..n
      PROVE  /\ i + 1 \in ends => Ended(ends, i + 1) = Ended(ends, i) + 1
             /\ i + 1 \notin ends => Ended(ends, i + 1) = Ended(ends, i)
  <2>1. CASE i + 1 \in ends
    <3>1. ends \cap (1..i + 1) = (ends \cap (1..i)) \cup {i + 1} /\ i + 1 \notin ends \cap (1..i)
      BY <2>1
    <3> QED
      BY <1>1, <2>1, <3>1, FS_AddElement DEF Ended
  <2>2. CASE i + 1 \notin ends
    <3>1. ends \cap (1..i + 1) = ends \cap (1..i)
      BY <2>2
    <3> QED
      BY <1>1, <2>2, <3>1 DEF Ended
  <2> QED
    BY <2>1, <2>2
<1> QED
  BY <1>1, <1>2, <1>3, FS_EmptySet DEF Ended

(***************************************************************************)
(* For any items and limits, no way to cut the items into consecutive      *)
(* allowed requests needs fewer of them than the plan: packing each        *)
(* request as far as it goes is never a mistake (plan_batches).            *)
(***************************************************************************)
THEOREM PlansAreShortest ==
  \A items \in Seq(Items) : FewestBatches(PlanBatches(items), items)
<1> TAKE items \in Seq(Items)
<1> DEFINE n == Len(items)
<1> SUFFICES ASSUME NEW ends \in Cuts(n), AllAllowed(ends, items)
             PROVE  Len(PlanBatches(items)) <= Cardinality(ends)
  BY DEF FewestBatches
<1>1. n \in Nat /\ ends \subseteq 1..n /\ n \in ends /\ n > 0
      /\ \A i \in 1..n : items[i] \in Items
  BY DEF Cuts
<1>2. PICK f : Packed(f, items) /\ PlanBatches(items) = Closed(f[n])
  BY PackedExists
<1>3. /\ Ended(ends, 0) = 0 /\ Ended(ends, n) = Cardinality(ends)
      /\ \A i \in 0..n :
           /\ Ended(ends, i) \in Nat
           /\ i + 1 \in ends => Ended(ends, i + 1) = Ended(ends, i) + 1
           /\ i + 1 \notin ends => Ended(ends, i + 1) = Ended(ends, i)
  <2> HIDE DEF n
  <2> QED
    BY <1>1, EndedCounts
<1>4. ASSUME NEW i \in 0..n
      PROVE  /\ f[i] \in Packings /\ Len(f[i].groups) \in Nat
             /\ Good(f[i]) /\ OpenIs(f[i], items, i)
             /\ i - Len(f[i].current) \in 0..i
  <2>1. f[i] \in Packings /\ Good(f[i]) /\ OpenIs(f[i], items, i)
    BY <1>2, PackedIsSound, OpenBatch DEF Packed
  <2>2. Len(f[i].groups) \in Nat
    BY <2>1 DEF Packings
  <2>3. i - Len(f[i].current) \in 0..i
    BY <2>1 DEF OpenIs
  <2> QED
    BY <2>1, <2>2, <2>3
(* With as many batches closed as the cut has, the open one is ahead.      *)
<1> DEFINE Ahead(i) ==
             /\ Len(f[i].groups) <= Ended(ends, i)
             /\ Len(f[i].groups) = Ended(ends, i)
                  => ends \cap (i - Len(f[i].current) + 1..i) = {}
           S == {i \in 0..n : Ahead(i)}
<1>5. 0 \in S
  <2>1. f[0].groups = <<>> /\ f[0].current = <<>> /\ Len(<<>>) = 0 /\ 0 \in 0..n
    BY <1>1, <1>2 DEF Packed, NewPacking
  <2>2. ends \cap (0 - 0 + 1..0) = {}
    BY <1>1
  <2> QED
    BY <1>3, <2>1, <2>2
<1>6. ASSUME NEW i \in 0..n - 1, i \in S PROVE i + 1 \in S
  <2> DEFINE p == f[i]
             q == f[i + 1]
             item == items[i + 1]
             g == Len(p.groups)
             s == i - Len(p.current)
             e == Ended(ends, i)
  <2>1. i \in 0..n /\ i + 1 \in 0..n /\ i + 1 \in 1..n /\ (i + 1) - 1 = i /\ item \in Items
    BY <1>1
  <2>2. q = Place(p, item)
    <3>1. f[i + 1] = Place(f[(i + 1) - 1], items[i + 1])
      BY <1>2, <2>1 DEF Packed
    <3> QED
      BY <2>1, <3>1
  <2>3. /\ p \in Packings /\ g \in Nat /\ Good(p) /\ OpenIs(p, items, i) /\ s \in 0..i
        /\ p.groups \in Seq(Seq(Items)) /\ p.current \in Seq(Items)
    BY <1>4, <2>1 DEF Packings
  <2>4. e \in Nat /\ (i + 1 \in ends => Ended(ends, i + 1) = e + 1)
        /\ (i + 1 \notin ends => Ended(ends, i + 1) = e)
    BY <1>3, <2>1
  <2>5. g <= e /\ (g = e => ends \cap (s + 1..i) = {})
    BY <1>6
  <2>6. CASE Full(p, item)
    <3>1. Len(q.groups) = g + 1 /\ q.current = <<item>> /\ Len(q.current) = 1
      BY <2>2, <2>3, <2>6 DEF Place
    <3>2. g # e
      <4> SUFFICES ASSUME g = e PROVE FALSE
        OBVIOUS
      <4>1. p.current # <<>> /\ Len(p.current) \in Nat /\ Len(p.current) = i - s
        BY <2>1, <2>3, <2>6 DEF Full
      <4>2. s < i
        BY <2>1, <2>3, <4>1
      <4>3. /\ (i + 1) - s <= MaxItems
            /\ RequestTokens(SubSeq(items, s + 1, i + 1)) <= EffectiveTokenBudget
        <5> HIDE DEF s
        <5>1. s \in Nat /\ i \in Nat /\ i < Len(items)
          BY <1>1, <2>1, <2>3
        <5> QED
          BY <2>5, <4>2, <5>1, UncutFits
      <4>4. RequestTokens(SubSeq(items, s + 1, i + 1)) = p.tokens + Cost(item)
        <5>1. p.current = SubSeq(items, s + 1, i) /\ p.tokens = RequestTokens(p.current)
          BY <2>3 DEF OpenIs, Good
        <5>2. SubSeq(items, s + 1, i + 1) = SubSeq(items, s + 1, (i + 1) - 1) \o <<items[i + 1]>>
          <6> HIDE DEF s
          <6>1. s + 1 \in 1..n /\ i + 1 \in s + 1..n
            BY <1>1, <2>1, <2>3
          <6> QED
            BY <6>1, SubSeqRecursiveSecond
        <5>3. SubSeq(items, s + 1, i + 1) = Append(p.current, item)
          BY <2>1, <2>3, <5>1, <5>2, AppendIsConcat
        <5> QED
          BY <2>1, <2>3, <5>1, <5>3, TokensOfAppend
      <4>5. ~ (Len(p.current) >= MaxItems)
        <5> HIDE DEF s
        <5> QED
          BY <2>1, <2>3, <4>1, <4>3, BatchingAssumption
      <4>6. p.tokens + Cost(item) \in Nat
        BY <2>1, <2>3, CostIsNat DEF Packings
      <4>7. ~ (p.tokens + Cost(item) > EffectiveTokenBudget)
        BY <4>3, <4>4, <4>6, BudgetIsNat
      <4> QED
        BY <2>6, <4>5, <4>7 DEF Full
    <3> HIDE DEF g, e, q
    <3>3. /\ Len(q.groups) <= Ended(ends, i + 1)
          /\ Len(q.groups) = Ended(ends, i + 1) => i + 1 \notin ends
      BY <2>3, <2>4, <2>5, <3>1, <3>2
    <3>4. (i + 1) - Len(q.current) + 1..i + 1 = {i + 1}
      BY <2>1, <3>1
    <3> QED
      BY <2>1, <3>3, <3>4 DEF q
  <2>7. CASE ~Full(p, item)
    <3>1. Len(q.groups) = g /\ q.current = Append(p.current, item)
      BY <2>2, <2>3, <2>7 DEF Place, Packings
    <3>2. (i + 1) - Len(q.current) = s
      <4>1. Len(q.current) = Len(p.current) + 1 /\ Len(p.current) \in Nat
        BY <2>1, <2>3, <3>1
      <4>2. \A k \in Nat : (i + 1) - (k + 1) = i - k
        BY <2>1
      <4> QED
        BY <4>1, <4>2
    <3> HIDE DEF g, e, q, s
    <3>3. g <= Ended(ends, i + 1)
      BY <2>3, <2>4, <2>5
    <3>4. ASSUME g = Ended(ends, i + 1) PROVE ends \cap (s + 1..i + 1) = {}
      <4>1. g = e /\ i + 1 \notin ends
        BY <2>3, <2>4, <2>5, <3>4
      <4>2. s + 1..i + 1 = (s + 1..i) \cup {i + 1}
        BY <2>1, <2>3
      <4> QED
        BY <2>5, <4>1, <4>2
    <3> QED
      BY <2>1, <3>1, <3>2, <3>3, <3>4 DEF q
  <2> QED
    BY <2>6, <2>7
<1>7. n \in S
  <2>1. 0..n \subseteq S
    <3> HIDE DEF S, n
    <3> QED
      BY <1>1, <1>5, <1>6, UpTo
  <2>2. n \in 0..n
    BY <1>1
  <2> HIDE DEF S, n
  <2> QED
    BY <2>1, <2>2
<1>8. n \in 0..n
  BY <1>1
<1>9. f[n].current # <<>> /\ n - Len(f[n].current) \in 0..n - 1
  <2>1. f[n].current \in Seq(Items) /\ OpenIs(f[n], items, n)
    BY <1>4, <1>8 DEF Packings
  <2> QED
    BY <1>1, <2>1 DEF OpenIs
<1>10. Len(f[n].groups) # Ended(ends, n)
  <2>1. n \in n - Len(f[n].current) + 1..n
    BY <1>1, <1>9
  <2> QED
    BY <1>1, <1>7, <2>1
<1>11. Len(Closed(f[n])) = Len(f[n].groups) + 1
  <2>1. f[n].groups \in Seq(Seq(Items)) /\ f[n].current \in Seq(Items)
    BY <1>4, <1>8 DEF Packings
  <2> QED
    BY <1>9, <2>1 DEF Closed
<1>12. /\ Len(f[n].groups) \in Nat /\ Ended(ends, n) \in Nat /\ Ended(ends, n) = Cardinality(ends)
       /\ Len(f[n].groups) <= Ended(ends, n)
  BY <1>3, <1>4, <1>7, <1>8
<1> QED
  BY <1>2, <1>10, <1>11, <1>12

-----------------------------------------------------------------------------
(* The alignment of passages.                                              *)

PassageScores(current, previous) ==
  {0, One} \cup {PassageScore(current, previous, x[1], x[2]) :
                     x \in (1..Len(current)) \X (1..Len(previous))}
Entries(current, previous) ==
  [current : 0..Len(current), previous : 0..Len(previous),
   type : {"matched", "removed", "added"}, combined : PassageScores(current, previous),
   confidence : PassageScores(current, previous)]
Walks(current, previous) ==
  [row : 0..Len(previous), col : 0..Len(current), matches : Seq(Entries(current, previous))]

(* The walk has matched what is behind it, in order.                       *)
Behind(walk, current, previous) ==
  LET made == walk.matches IN
  /\ \A k \in DOMAIN made :
       /\ made[k].current = 0 \/ walk.col < made[k].current
       /\ made[k].previous = 0 \/ walk.row < made[k].previous
       /\ made[k].type = "matched" => made[k].combined >= PassageMinScore
       /\ \A l \in 1..k - 1 :
            /\ 0 < made[k].current => made[l].current < made[k].current
            /\ 0 < made[k].previous => made[l].previous < made[k].previous
  /\ \A i \in walk.col + 1..Len(current) : \E k \in DOMAIN made : made[k].current = i
  /\ \A j \in walk.row + 1..Len(previous) : \E k \in DOMAIN made : made[k].previous = j

LEMMA Prepended ==
  ASSUME NEW S, NEW e \in S, NEW s \in Seq(S)
  PROVE  /\ <<e>> \o s \in Seq(S)
         /\ DOMAIN (<<e>> \o s) = 1..Len(s) + 1
         /\ DOMAIN s = 1..Len(s) /\ Len(s) \in Nat
         /\ (<<e>> \o s)[1] = e
         /\ \A k \in 2..Len(s) + 1 : (<<e>> \o s)[k] = s[k - 1]
<1>1. <<e>> \in Seq(S) /\ Len(<<e>>) = 1
  OBVIOUS
<1>2. /\ <<e>> \o s \in Seq(S) /\ Len(<<e>> \o s) = 1 + Len(s)
      /\ \A k \in 1..1 + Len(s) : (<<e>> \o s)[k] = IF k <= 1 THEN <<e>>[k] ELSE s[k - 1]
  BY <1>1, ConcatProperties
<1> QED
  BY <1>1, <1>2

(* One step matches the cell's passages, or leaves one of them alone.      *)
LEMMA WalksBehind ==
  ASSUME NEW current, NEW previous, Len(current) \in Nat, Len(previous) \in Nat,
         NEW w \in Walks(current, previous), Behind(w, current, previous),
         NEW e \in Entries(current, previous), NEW r \in 0..w.row, NEW c \in 0..w.col,
         e.current = (IF c = w.col THEN 0 ELSE w.col), w.col - c \in 0..1,
         e.previous = (IF r = w.row THEN 0 ELSE w.row), w.row - r \in 0..1,
         e.type = "matched" => e.combined >= PassageMinScore
  PROVE  LET v == [row |-> r, col |-> c, matches |-> <<e>> \o w.matches]
         IN  v \in Walks(current, previous) /\ Behind(v, current, previous)
<1> DEFINE v == [row |-> r, col |-> c, matches |-> <<e>> \o w.matches]
           s == w.matches
           t == <<e>> \o w.matches
           E == Entries(current, previous)
<1>1. /\ w.row \in Nat /\ w.col \in Nat /\ w.row <= Len(previous) /\ w.col <= Len(current)
      /\ s \in Seq(E) /\ r \in Nat /\ c \in Nat
  BY DEF Walks
<1>2. /\ t \in Seq(E) /\ DOMAIN t = 1..Len(s) + 1 /\ DOMAIN s = 1..Len(s) /\ Len(s) \in Nat
      /\ t[1] = e /\ \A k \in 2..Len(s) + 1 : t[k] = s[k - 1]
  BY <1>1, Prepended
<1>3. v \in Walks(current, previous)
  BY <1>1, <1>2 DEF Walks
<1>4. ASSUME NEW k \in DOMAIN s PROVE s[k].current \in Nat /\ s[k].previous \in Nat
  <2>1. s[k] \in E
    <3> HIDE DEF E
    <3> QED
      BY <1>1
  <2>2. s[k].current \in 0..Len(current) /\ s[k].previous \in 0..Len(previous)
    BY <2>1 DEF Entries
  <2> QED
    BY <2>2
<1>5. e.current \in 0..w.col /\ e.previous \in 0..w.row
  BY <1>1
<1>6. /\ e.current = 0 \/ c < e.current
      /\ e.previous = 0 \/ r < e.previous
  BY <1>1
<1> HIDE DEF s, t, E
<1>7. ASSUME NEW k \in DOMAIN t
      PROVE  /\ t[k].current = 0 \/ c < t[k].current
             /\ t[k].previous = 0 \/ r < t[k].previous
             /\ t[k].type = "matched" => t[k].combined >= PassageMinScore
             /\ \A l \in 1..k - 1 : /\ 0 < t[k].current => t[l].current < t[k].current
                                    /\ 0 < t[k].previous => t[l].previous < t[k].previous
  <2>1. CASE k = 1
    BY <1>2, <1>6, <2>1
  <2>2. CASE k # 1
    <3>1. k \in 2..Len(s) + 1 /\ k - 1 \in DOMAIN s /\ t[k] = s[k - 1]
      BY <1>2, <1>7, <2>2
    <3>2. /\ s[k - 1].current = 0 \/ w.col < s[k - 1].current
          /\ s[k - 1].previous = 0 \/ w.row < s[k - 1].previous
          /\ s[k - 1].type = "matched" => s[k - 1].combined >= PassageMinScore
          /\ \A l \in 1..(k - 1) - 1 :
               /\ 0 < s[k - 1].current => s[l].current < s[k - 1].current
               /\ 0 < s[k - 1].previous => s[l].previous < s[k - 1].previous
      BY <3>1 DEF Behind, s
    <3>3. s[k - 1].current \in Nat /\ s[k - 1].previous \in Nat
      BY <1>4, <3>1
    <3>4. ASSUME NEW l \in 1..k - 1
          PROVE  /\ 0 < t[k].current => t[l].current < t[k].current
                 /\ 0 < t[k].previous => t[l].previous < t[k].previous
      <4>1. CASE l = 1
        BY <1>1, <1>2, <1>5, <3>1, <3>2, <3>3, <4>1, SMTT(30)
      <4>2. CASE l # 1
        <5>1. l \in 2..Len(s) + 1 /\ l - 1 \in 1..(k - 1) - 1 /\ t[l] = s[l - 1]
          BY <1>2, <3>1, <3>4, <4>2, SMTT(30)
        <5> QED
          BY <3>1, <3>2, <5>1
      <4> QED
        BY <4>1, <4>2
    <3> QED
      BY <1>1, <3>1, <3>2, <3>3, <3>4, SMTT(30)
  <2> QED
    BY <2>1, <2>2
<1>8. ASSUME NEW k \in DOMAIN s PROVE k + 1 \in DOMAIN t /\ t[k + 1] = s[k]
  BY <1>2
<1>9. ASSUME NEW i \in c + 1..Len(current) PROVE \E k \in DOMAIN t : t[k].current = i
  <2>1. CASE i = w.col
    <3>1. e.current = i /\ 1 \in DOMAIN t
      BY <1>1, <1>2, <1>9, <2>1
    <3> QED
      BY <1>2, <3>1
  <2>2. CASE i # w.col
    <3>1. i \in w.col + 1..Len(current)
      BY <1>1, <1>9, <2>2
    <3>2. PICK k \in DOMAIN s : s[k].current = i
      BY <3>1 DEF Behind, s
    <3> QED
      BY <1>8, <3>2
  <2> QED
    BY <2>1, <2>2
<1>10. ASSUME NEW j \in r + 1..Len(previous) PROVE \E k \in DOMAIN t : t[k].previous = j
  <2>1. CASE j = w.row
    <3>1. e.previous = j /\ 1 \in DOMAIN t
      BY <1>1, <1>2, <1>10, <2>1
    <3> QED
      BY <1>2, <3>1
  <2>2. CASE j # w.row
    <3>1. j \in w.row + 1..Len(previous)
      BY <1>1, <1>10, <2>2
    <3>2. PICK k \in DOMAIN s : s[k].previous = j
      BY <3>1 DEF Behind, s
    <3> QED
      BY <1>8, <3>2
  <2> QED
    BY <2>1, <2>2
<1>11. v.row = r /\ v.col = c /\ v.matches = t
  BY DEF t
<1>12. Behind(v, current, previous)
  <2> HIDE DEF v
  <2> QED
    BY <1>7, <1>9, <1>10, <1>11 DEF Behind
<1> QED
  BY <1>3, <1>12

LEMMA StepsBack ==
  ASSUME NEW current, NEW previous, Len(current) \in Nat, Len(previous) \in Nat, NEW dp,
         NEW w \in Walks(current, previous)
  PROVE  LET v == StepBack(current, previous, dp, w)
         IN  /\ v \in Walks(current, previous)
             /\ Behind(w, current, previous) => Behind(v, current, previous)
             /\ w.row + w.col > 0 => v.row + v.col < w.row + w.col
             /\ w.row + w.col = 0 => v = w
<1> DEFINE row == w.row
           col == w.col
           score == IF row = 0 \/ col = 0 THEN 0 ELSE PassageScore(current, previous, col, row)
           move == Move(dp, score, row, col)
           v == StepBack(current, previous, dp, w)
           next(e, r, c) == [row |-> r, col |-> c, matches |-> <<e>> \o w.matches]
           E == Entries(current, previous)
<1>1. row \in 0..Len(previous) /\ col \in 0..Len(current) /\ w.matches \in Seq(E)
  BY DEF Walks
<1>2. /\ score \in PassageScores(current, previous)
      /\ 0 \in PassageScores(current, previous) /\ One \in PassageScores(current, previous)
  <2>1. CASE row = 0 \/ col = 0
    BY <2>1 DEF PassageScores
  <2>2. CASE ~ (row = 0 \/ col = 0)
    <3>1. <<col, row>> \in (1..Len(current)) \X (1..Len(previous))
      BY <1>1, <2>2
    <3> QED
      BY <2>2, <3>1 DEF PassageScores
  <2> QED
    BY <2>1, <2>2 DEF PassageScores
<1>3. /\ move \in {"matched", "removed", "added"}
      /\ move = "matched" => row # 0 /\ col # 0 /\ score >= PassageMinScore
      /\ move = "removed" => row # 0
      /\ row # 0 \/ col # 0 => (move = "added" => col # 0)
  BY DEF Move
<1>4. v = IF row = 0 /\ col = 0 THEN w
          ELSE IF move = "matched"
          THEN [row |-> row - 1, col |-> col - 1,
                matches |-> <<MatchedPair(col, row, score)>> \o w.matches]
          ELSE IF move = "removed"
          THEN [row |-> row - 1, col |-> col,
                matches |-> <<Unmatched(0, row, "removed")>> \o w.matches]
          ELSE [row |-> row, col |-> col - 1,
                matches |-> <<Unmatched(col, 0, "added")>> \o w.matches]
  BY DEF StepBack
<1> HIDE DEF row, col, score, move, v
<1>5. CASE row = 0 /\ col = 0
  BY <1>1, <1>4, <1>5 DEF v, row, col
<1>6. ASSUME NEW e \in E, NEW r \in 0..row, NEW c \in 0..col, r < row \/ c < col,
             v = next(e, r, c),
             e.current = (IF c = col THEN 0 ELSE col), col - c \in 0..1,
             e.previous = (IF r = row THEN 0 ELSE row), row - r \in 0..1,
             e.type = "matched" => e.combined >= PassageMinScore
      PROVE  /\ v \in Walks(current, previous)
             /\ Behind(w, current, previous) => Behind(v, current, previous)
             /\ row + col > 0 => v.row + v.col < row + col
             /\ row + col # 0
  <2>1. v \in Walks(current, previous)
    <3>1. <<e>> \o w.matches \in Seq(E)
      BY <1>1, Prepended
    <3>2. r \in 0..Len(previous) /\ c \in 0..Len(current)
      BY <1>1, <1>6
    <3> QED
      BY <1>6, <3>1, <3>2 DEF Walks
  <2>2. Behind(w, current, previous) => Behind(v, current, previous)
    BY <1>6, WalksBehind DEF row, col
  <2>3. v.row = r /\ v.col = c
    BY <1>6
  <2>4. r + c < row + col /\ row + col # 0
    BY <1>1, <1>6
  <2> QED
    BY <2>1, <2>2, <2>3, <2>4
<1>7. CASE (row # 0 \/ col # 0) /\ move = "matched"
  <2> DEFINE e == MatchedPair(col, row, score)
  <2>1. e \in E /\ e.current = col /\ e.previous = row /\ e.combined = score
    BY <1>1, <1>2 DEF MatchedPair, Entries
  <2>2. /\ row - 1 \in 0..row /\ col - 1 \in 0..col /\ row - 1 < row /\ row - 1 # row /\ col - 1 # col
        /\ row - (row - 1) = 1 /\ col - (col - 1) = 1
    BY <1>1, <1>3, <1>7
  <2>3. v = next(e, row - 1, col - 1)
    BY <1>4, <1>7
  <2>4. e.type = "matched" => e.combined >= PassageMinScore
    BY <1>3, <1>7, <2>1
  <2>5. /\ e.current = (IF col - 1 = col THEN 0 ELSE col)
        /\ e.previous = (IF row - 1 = row THEN 0 ELSE row)
    BY <2>1, <2>2
  <2> HIDE DEF e, E, next
  <2>6. /\ v \in Walks(current, previous)
        /\ Behind(w, current, previous) => Behind(v, current, previous)
        /\ row + col > 0 => v.row + v.col < row + col
        /\ row + col # 0
    BY <1>1, <1>6, <2>1, <2>2, <2>3, <2>4, <2>5
  <2> QED
    BY <2>6 DEF row, col, v
<1>8. CASE (row # 0 \/ col # 0) /\ move = "removed"
  <2> DEFINE e == Unmatched(0, row, "removed")
  <2>1. e \in E /\ e.current = 0 /\ e.previous = row /\ e.type # "matched"
    BY <1>1, <1>2 DEF Unmatched, Entries
  <2>2. /\ row - 1 \in 0..row /\ col \in 0..col /\ row - 1 < row /\ row - 1 # row
        /\ row - (row - 1) = 1 /\ col - col = 0
    BY <1>1, <1>3, <1>8
  <2>3. v = next(e, row - 1, col)
    BY <1>4, <1>8
  <2>5. /\ e.current = (IF col = col THEN 0 ELSE col)
        /\ e.previous = (IF row - 1 = row THEN 0 ELSE row)
    BY <2>1, <2>2
  <2> HIDE DEF e, E, next
  <2>6. /\ v \in Walks(current, previous)
        /\ Behind(w, current, previous) => Behind(v, current, previous)
        /\ row + col > 0 => v.row + v.col < row + col
        /\ row + col # 0
    BY <1>1, <1>6, <2>1, <2>2, <2>3, <2>5
  <2> QED
    BY <2>6 DEF row, col, v
<1>9. CASE (row # 0 \/ col # 0) /\ move = "added"
  <2> DEFINE e == Unmatched(col, 0, "added")
  <2>1. e \in E /\ e.current = col /\ e.previous = 0 /\ e.type # "matched"
    BY <1>1, <1>2 DEF Unmatched, Entries
  <2>2. /\ col - 1 \in 0..col /\ row \in 0..row /\ col - 1 < col /\ col - 1 # col
        /\ col - (col - 1) = 1 /\ row - row = 0
    BY <1>1, <1>3, <1>9
  <2>3. v = next(e, row, col - 1)
    BY <1>4, <1>9
  <2>5. /\ e.current = (IF col - 1 = col THEN 0 ELSE col)
        /\ e.previous = (IF row = row THEN 0 ELSE row)
    BY <2>1, <2>2
  <2> HIDE DEF e, E, next
  <2>6. /\ v \in Walks(current, previous)
        /\ Behind(w, current, previous) => Behind(v, current, previous)
        /\ row + col > 0 => v.row + v.col < row + col
        /\ row + col # 0
    BY <1>1, <1>6, <2>1, <2>2, <2>3, <2>5
  <2> QED
    BY <2>6 DEF row, col, v
<1> QED
  BY <1>3, <1>5, <1>7, <1>8, <1>9 DEF row, col, v

(* Every element of 1..n that is in the list is there once.                *)
LEMMA OnlyOne ==
  ASSUME NEW S, NEW x \in S, \A y \in S : y = x
  PROVE  Cardinality(S) = 1
<1>1. S = {x}
  OBVIOUS
<1> QED
  BY <1>1, FS_Singleton

(* The walk back from the last cell of a table of any values.             *)
WalkStart(current, previous) ==
  [row |-> Len(previous), col |-> Len(current), matches |-> <<>>]
WalksBack(walk, current, previous) ==
  /\ walk[0] = WalkStart(current, previous)
  /\ \A k \in 1..Len(previous) + Len(current) :
       walk[k] = StepBack(current, previous, Values(current, previous), walk[k - 1])

LEMMA WalkExists ==
  ASSUME NEW T, NEW current \in Seq(T), NEW previous \in Seq(T)
  PROVE  \E walk : /\ WalksBack(walk, current, previous)
                   /\ AlignPassages(current, previous)
                        = walk[Len(previous) + Len(current)].matches
<1> DEFINE n == Len(previous) + Len(current)
           W == Walks(current, previous)
           dp == Values(current, previous)
           start == WalkStart(current, previous)
           back(w) == StepBack(current, previous, dp, w)
           step == [x \in W \X (1..n) |-> back(x[1])]
           Walked(f) == f = [k \in 0..n |-> IF k = 0 THEN start ELSE back(f[k - 1])]
           walk == CHOOSE f : Walked(f)
<1>1. /\ Len(current) \in Nat /\ Len(previous) \in Nat /\ n \in Nat
      /\ DOMAIN current = 1..Len(current) /\ DOMAIN previous = 1..Len(previous)
  OBVIOUS
<1>2. AlignPassages(current, previous) = walk[n].matches
  BY DEF AlignPassages, WalkStart
<1> HIDE DEF dp
<1>3. start \in W /\ Behind(start, current, previous)
  <2>1. <<>> \in Seq(Entries(current, previous)) /\ DOMAIN <<>> = {}
    OBVIOUS
  <2>2. start \in W
    BY <1>1, <2>1 DEF Walks, WalkStart
  <2>3. start.row = Len(previous) /\ start.col = Len(current) /\ start.matches = <<>>
    BY DEF WalkStart
  <2> HIDE DEF start
  <2>4. /\ start.col + 1..Len(current) = {} /\ start.row + 1..Len(previous) = {}
    BY <1>1, <2>3
  <2> QED
    BY <2>1, <2>2, <2>3, <2>4 DEF Behind
<1>4. ASSUME NEW w \in W
      PROVE  /\ back(w) \in W
             /\ Behind(w, current, previous) => Behind(back(w), current, previous)
             /\ w.row + w.col > 0 => back(w).row + back(w).col < w.row + w.col
             /\ w.row + w.col = 0 => back(w) = w
  BY <1>1, StepsBack
<1> HIDE DEF back
<1>5. step \in Steps(n, W)
  BY <1>4 DEF Steps
<1>6. \A w \in W, k \in 1..n : step[<<w, k>>] = back(w)
  OBVIOUS
<1> HIDE DEF step, start, n, W
<1>7. PICK f : Follows(f, n, W, start, step)
  BY <1>1, <1>3, <1>5, FoldExists
<1>8. \A k \in 1..n : k - 1 \in 0..n /\ f[k] = back(f[k - 1])
  <2>1. \A k \in 1..n : k - 1 \in 0..n
    BY <1>1
  <2> QED
    BY <2>1, <1>6, <1>7 DEF Follows
<1>9. Walked(f)
  BY <1>1, <1>7, <1>8 DEF Follows
<1>10. Walked(walk)
  BY <1>9
<1> HIDE DEF walk
<1>11. walk[0] = start /\ \A k \in 1..n : walk[k] = back(walk[k - 1])
  BY <1>1, <1>10
<1> QED
  BY <1>2, <1>11 DEF WalksBack, back, start, n, dp

(* passage_alignment_service.align: whatever the vectors, the words and    *)
(* the reranker say of the texts, and whatever the weights, each passage   *)
(* of both sections is in the result exactly once, passages that go        *)
(* together score what the settings ask, and no two pairs of them cross.   *)
THEOREM PassagesAreAligned ==
  ASSUME NEW T, NEW current \in Seq(T), NEW previous \in Seq(T)
  PROVE  PassagesFit(AlignPassages(current, previous), current, previous)
<1> DEFINE n == Len(previous) + Len(current)
           W == Walks(current, previous)
           dp == Values(current, previous)
           start == WalkStart(current, previous)
           back(w) == StepBack(current, previous, dp, w)
<1>1. /\ Len(current) \in Nat /\ Len(previous) \in Nat /\ n \in Nat
      /\ DOMAIN current = 1..Len(current) /\ DOMAIN previous = 1..Len(previous)
  OBVIOUS
<1>2. PICK walk : /\ WalksBack(walk, current, previous)
                  /\ AlignPassages(current, previous) = walk[n].matches
  BY WalkExists
<1> HIDE DEF dp
<1>3. start \in W /\ Behind(start, current, previous)
  <2>1. <<>> \in Seq(Entries(current, previous)) /\ DOMAIN <<>> = {}
    OBVIOUS
  <2>2. start \in W
    BY <1>1, <2>1 DEF Walks, WalkStart
  <2>3. start.row = Len(previous) /\ start.col = Len(current) /\ start.matches = <<>>
    BY DEF WalkStart
  <2> HIDE DEF start
  <2>4. /\ start.col + 1..Len(current) = {} /\ start.row + 1..Len(previous) = {}
    BY <1>1, <2>3
  <2> QED
    BY <2>1, <2>2, <2>3, <2>4 DEF Behind
<1>4. ASSUME NEW w \in W
      PROVE  /\ back(w) \in W
             /\ Behind(w, current, previous) => Behind(back(w), current, previous)
             /\ w.row + w.col > 0 => back(w).row + back(w).col < w.row + w.col
             /\ w.row + w.col = 0 => back(w) = w
  BY <1>1, StepsBack
<1>11. walk[0] = start /\ \A k \in 1..n : walk[k] = back(walk[k - 1])
  BY <1>2 DEF WalksBack, dp
<1> HIDE DEF back, start, n, W
<1> DEFINE S == {k \in 0..n : /\ walk[k] \in W /\ Behind(walk[k], current, previous)
                             /\ walk[k].row + walk[k].col <= n - k}
<1>12. 0 \in S
  <2>1. start.row + start.col = n
    BY <1>1 DEF start, n, WalkStart
  <2> QED
    BY <1>1, <1>3, <1>11, <2>1
<1>13. ASSUME NEW k \in 0..n - 1, k \in S PROVE k + 1 \in S
  <2>1. k + 1 \in 1..n /\ (k + 1) - 1 = k /\ k + 1 \in 0..n
    BY <1>1
  <2>2. walk[k + 1] = back(walk[k])
    BY <1>11, <2>1
  <2>3. /\ walk[k] \in W /\ Behind(walk[k], current, previous)
        /\ walk[k].row + walk[k].col <= n - k
    BY <1>13
  <2>4. walk[k + 1] \in W /\ Behind(walk[k + 1], current, previous)
    BY <1>4, <2>2, <2>3
  <2>5. /\ walk[k].row + walk[k].col > 0
             => walk[k + 1].row + walk[k + 1].col < walk[k].row + walk[k].col
        /\ walk[k].row + walk[k].col = 0 => walk[k + 1] = walk[k]
    BY <1>4, <2>2, <2>3
  <2>6. /\ walk[k].row \in Nat /\ walk[k].col \in Nat
        /\ walk[k + 1].row \in Nat /\ walk[k + 1].col \in Nat
    BY <1>1, <2>3, <2>4 DEF W, Walks
  <2>7. walk[k + 1].row + walk[k + 1].col <= n - (k + 1)
    <3>1. \A x, y, steps, done \in Nat :
            x <= steps - done /\ done < steps /\ (x > 0 => y < x) /\ (x = 0 => y = x)
              => y <= steps - (done + 1)
      OBVIOUS
    <3>2. walk[k].row + walk[k].col \in Nat /\ walk[k + 1].row + walk[k + 1].col \in Nat
      <4>1. \A x, y \in Nat : x + y \in Nat
        OBVIOUS
      <4> QED
        BY <2>6, <4>1
    <3>3. k \in Nat /\ k < n
      BY <1>1, <2>1
    <3> QED
      BY <1>1, <2>3, <2>5, <3>1, <3>2, <3>3
  <2> QED
    BY <2>1, <2>4, <2>7
<1>14. n \in S
  <2>1. 0..n \subseteq S
    <3> HIDE DEF S
    <3> QED
      BY <1>1, <1>12, <1>13, UpTo
  <2> QED
    BY <1>1, <2>1
<1> DEFINE last == walk[n]
           m == last.matches
<1>15. last \in W /\ Behind(last, current, previous) /\ last.row = 0 /\ last.col = 0
  <2>1. walk[n] \in W /\ Behind(walk[n], current, previous) /\ walk[n].row + walk[n].col <= n - n
    BY <1>14
  <2>2. walk[n].row \in Nat /\ walk[n].col \in Nat
    BY <1>1, <2>1 DEF W, Walks
  <2> QED
    BY <1>1, <2>1, <2>2
<1>16. m \in Seq(Entries(current, previous)) /\ DOMAIN m = 1..Len(m) /\ Len(m) \in Nat
  BY <1>15 DEF W, Walks
<1> HIDE DEF last
<1>17. /\ \A k \in DOMAIN m :
            /\ m[k].type = "matched" => m[k].combined >= PassageMinScore
            /\ \A l \in 1..k - 1 :
                 /\ 0 < m[k].current => m[l].current < m[k].current
                 /\ 0 < m[k].previous => m[l].previous < m[k].previous
       /\ \A i \in 1..Len(current) : \E k \in DOMAIN m : m[k].current = i
       /\ \A j \in 1..Len(previous) : \E k \in DOMAIN m : m[k].previous = j
  BY <1>15 DEF Behind
<1> HIDE DEF m
<1>18. \A k, l \in DOMAIN m : k = l \/ k \in 1..l - 1 \/ l \in 1..k - 1
  BY <1>16
<1>19. ASSUME NEW i \in DOMAIN current
       PROVE  Cardinality({k \in DOMAIN m : m[k].current = i}) = 1
  <2>1. PICK k \in DOMAIN m : m[k].current = i
    BY <1>1, <1>17
  <2>2. 0 < i /\ ~ (i < i)
    BY <1>1
  <2>3. \A l \in DOMAIN m : m[l].current = i => l = k
    BY <1>17, <1>18, <2>1, <2>2
  <2> QED
    BY <2>1, <2>3, OnlyOne
<1>20. ASSUME NEW j \in DOMAIN previous
       PROVE  Cardinality({k \in DOMAIN m : m[k].previous = j}) = 1
  <2>1. PICK k \in DOMAIN m : m[k].previous = j
    BY <1>1, <1>17
  <2>2. 0 < j /\ ~ (j < j)
    BY <1>1
  <2>3. \A l \in DOMAIN m : m[l].previous = j => l = k
    BY <1>17, <1>18, <2>1, <2>2
  <2> QED
    BY <2>1, <2>3, OnlyOne
<1> QED
  BY <1>2, <1>17, <1>19, <1>20 DEF PassagesFit, CoversBoth, m, last

(* The matching of sections: what the recursion keeps, with the current    *)
(* filing's sections up to i placed and the previous one's up to j.        *)
SectionEntries(current, previous) ==
  [current : 0..Len(current), previous : 0..Len(previous),
   type : {"exact_structural", "hybrid", "semantic", "unmatched_current", "unmatched_previous"},
   combined : Shares, confidence : Shares]

SettledUpTo(s, i, j, current, previous) ==
  /\ s \in Seq(SectionEntries(current, previous))
  /\ \A k, l \in DOMAIN s : /\ s[k].current = s[l].current /\ s[k].current # 0 => k = l
                            /\ s[k].previous = s[l].previous /\ s[k].previous # 0 => k = l
  /\ \A a \in 1..i : \E k \in DOMAIN s : s[k].current = a
  /\ \A b \in 1..j : \E k \in DOMAIN s : s[k].previous = b
  /\ \A k \in DOMAIN s : s[k].current <= i /\ (j = 0 => s[k].current # 0)
  /\ \A k \in DOMAIN s :
       s[k].current # 0 /\ s[k].previous = 0
         => \A b \in 1..Len(previous) :
              (\A l \in DOMAIN s : s[l].current = 0 \/ s[l].previous # b)
                => SectionScore(current, previous, s[k].current, b) < SectionMinScore

LEMMA OneIsWhole == One \in Nat \ {0}
  BY DEF One

LEMMA ClampIsShare ==
  ASSUME NEW x \in Int
  PROVE  Clamp(x \div One) \in Shares
<1>1. x \div One \in Int
  BY OneIsWhole
<1>2. \A y \in Int : Clamp(y) \in Shares
  BY OneIsWhole DEF Clamp, Shares
<1> QED
  BY <1>1, <1>2

LEMMA PlaceIsWhole ==
  ASSUME NEW k \in Nat, NEW total \in Nat
  PROVE  (One * (k - 1)) \div (IF total > 1 THEN total - 1 ELSE 1) \in Int
<1> DEFINE by == IF total > 1 THEN total - 1 ELSE 1
<1>1. by \in Nat \ {0} /\ One * (k - 1) \in Int
  BY OneIsWhole
<1>2. \A x \in Int, y \in Nat \ {0} : x \div y \in Int
  OBVIOUS
<1> HIDE DEF by
<1>3. (One * (k - 1)) \div by \in Int
  BY <1>1, <1>2
<1> QED
  BY <1>3 DEF by

LEMMA PositionIsWhole ==
  ASSUME NEW i \in Nat, NEW m \in Nat, NEW j \in Nat, NEW n \in Nat
  PROVE  PositionSimilarity(i, m, j, n) \in Int
<1> DEFINE place(k, total) == (One * (k - 1)) \div (IF total > 1 THEN total - 1 ELSE 1)
<1>1. place(i, m) \in Int /\ place(j, n) \in Int
  BY PlaceIsWhole
<1>2. PositionSimilarity(i, m, j, n) = One - Apart(place(i, m), place(j, n))
  BY DEF PositionSimilarity
<1> HIDE DEF place
<1> QED
  BY <1>1, <1>2, OneIsWhole DEF Apart

LEMMA SectionScoreIsShare ==
  ASSUME NEW current, NEW previous, Len(current) \in Nat, Len(previous) \in Nat,
         NEW i \in Nat, NEW j \in Nat,
         current[i].text \in Wordings, current[i].title \in Wordings,
         previous[j].text \in Wordings, previous[j].title \in Wordings
  PROVE  SectionScore(current, previous, i, j) \in Shares
<1> DEFINE texts == Likeness[<<current[i].text, previous[j].text>>]
           titles == Likeness[<<current[i].title, previous[j].title>>]
           w == SectionWeights
           alike == StructuralSimilarity(current[i], previous[j])
           place == PositionSimilarity(i, Len(current), j, Len(previous))
<1>1. SectionScore(current, previous, i, j)
        = Clamp((w.structural * alike + w.heading * titles.lexical + w.dense * texts.dense
                 + w.lexical * texts.lexical + w.reranker * titles.reranker
                 + w.position * place) \div One)
  BY DEF SectionScore
<1>2. /\ w.structural \in Int /\ w.heading \in Int /\ w.dense \in Int
      /\ w.lexical \in Int /\ w.reranker \in Int /\ w.position \in Int
  BY WeightAssumption, OneIsWhole DEF Shares
<1>3. /\ texts \in [dense : Shares, lexical : Shares, reranker : Shares]
      /\ titles \in [dense : Shares, lexical : Shares, reranker : Shares]
  <2>1. Likeness \in [Wordings \X Wordings -> [dense : Shares, lexical : Shares, reranker : Shares]]
    BY AlignmentAssumption
  <2>2. /\ <<current[i].text, previous[j].text>> \in Wordings \X Wordings
        /\ <<current[i].title, previous[j].title>> \in Wordings \X Wordings
    OBVIOUS
  <2>3. \A pair \in Wordings \X Wordings :
          Likeness[pair] \in [dense : Shares, lexical : Shares, reranker : Shares]
    BY <2>1
  <2> QED
    BY <2>2, <2>3
<1>4. texts.dense \in Int /\ texts.lexical \in Int /\ titles.lexical \in Int /\ titles.reranker \in Int
  <2>1. /\ texts.dense \in Shares /\ texts.lexical \in Shares
        /\ titles.lexical \in Shares /\ titles.reranker \in Shares
    BY <1>3
  <2>2. Shares \subseteq Int
    BY OneIsWhole DEF Shares
  <2> QED
    BY <2>1, <2>2
<1>5. place \in Int /\ alike \in Int
  BY PositionIsWhole, OneIsWhole DEF StructuralSimilarity
<1> HIDE DEF texts, titles, w, alike, place
<1>6. \A x, y \in Int : x * y \in Int
  OBVIOUS
<1>7. /\ w.structural * alike \in Int /\ w.heading * titles.lexical \in Int
      /\ w.dense * texts.dense \in Int /\ w.lexical * texts.lexical \in Int
      /\ w.reranker * titles.reranker \in Int /\ w.position * place \in Int
  BY <1>2, <1>4, <1>5, <1>6
<1>8. \A x, y \in Int : x + y \in Int
  OBVIOUS
<1>9. w.structural * alike + w.heading * titles.lexical + w.dense * texts.dense
        + w.lexical * texts.lexical + w.reranker * titles.reranker + w.position * place \in Int
  BY <1>7, <1>8
<1> QED
  BY <1>1, <1>9, ClampIsShare

LEMMA BestIs ==
  ASSUME NEW current, NEW previous, NEW i, NEW S, S \subseteq Nat, S # {},
         \A j \in S : SectionScore(current, previous, i, j) \in Shares
  PROVE  /\ Best(current, previous, i, S) \in S
         /\ \A j \in S : SectionScore(current, previous, i, j)
                           <= SectionScore(current, previous, i, Best(current, previous, i, S))
<1> DEFINE score(j) == SectionScore(current, previous, i, j)
           Is(j) == \A k \in S : score(k) < score(j) \/ (score(k) = score(j) /\ j <= k)
           lacks == {One - score(j) : j \in S}
<1>1. Best(current, previous, i, S) = CHOOSE j \in S : Is(j)
  BY DEF Best
<1>2. \A j \in S : score(j) \in 0..One
  BY DEF Shares
<1> HIDE DEF score
<1>3. lacks \subseteq Nat /\ lacks # {}
  <2>1. \A share \in 0..One : One - share \in Nat
    BY OneIsWhole
  <2> QED
    BY <1>2, <2>1
<1>4. PICK least \in lacks : \A lack \in lacks : least <= lack
  <2> HIDE DEF lacks
  <2> QED
    BY <1>3, LeastNatural
<1>5. PICK top \in S : \A k \in S : score(k) <= score(top)
  <2>1. PICK top \in S : least = One - score(top)
    BY <1>4
  <2>2. ASSUME NEW k \in S PROVE score(k) <= score(top)
    <3>1. One - score(top) <= One - score(k)
      BY <1>4, <2>1
    <3> QED
      BY <1>2, <3>1, OneIsWhole
  <2> QED
    BY <2>2
<1> DEFINE B == {j \in S : score(j) = score(top)}
<1>6. PICK first \in B : \A k \in B : first <= k
  <2>1. B \subseteq Nat /\ B # {}
    BY <1>5
  <2> HIDE DEF B
  <2> QED
    BY <2>1, LeastNatural
<1>7. Is(first)
  <2>1. ASSUME NEW k \in S PROVE score(k) < score(first) \/ (score(k) = score(first) /\ first <= k)
    BY <1>2, <1>5, <1>6, OneIsWhole
  <2> QED
    BY <2>1
<1>8. Best(current, previous, i, S) \in S /\ Is(Best(current, previous, i, S))
  <2> HIDE DEF Is
  <2> QED
    BY <1>1, <1>6, <1>7
<1>9. ASSUME NEW j \in S PROVE score(j) <= score(Best(current, previous, i, S))
  <2> DEFINE b == Best(current, previous, i, S)
  <2>1. b \in S /\ (score(j) < score(b) \/ score(j) = score(b))
    BY <1>8
  <2> HIDE DEF b, Is
  <2>2. score(j) \in 0..One /\ score(b) \in 0..One
    BY <1>2, <2>1
  <2>3. score(j) <= score(b)
    BY <2>1, <2>2, OneIsWhole
  <2> QED
    BY <2>3 DEF b
<1> QED
  BY <1>8, <1>9 DEF score

LEMMA Appended ==
  ASSUME NEW S, NEW s \in Seq(S), NEW e \in S
  PROVE  /\ Append(s, e) \in Seq(S) /\ DOMAIN s = 1..Len(s) /\ Len(s) \in Nat
         /\ DOMAIN Append(s, e) = DOMAIN s \cup {Len(s) + 1} /\ Len(s) + 1 \notin DOMAIN s
         /\ \A k \in DOMAIN s : Append(s, e)[k] = s[k]
         /\ Append(s, e)[Len(s) + 1] = e
  BY AppendProperties

LEMMA AddsCurrent ==
  ASSUME NEW current, NEW previous, Len(current) \in Nat, Len(previous) \in Nat,
         NEW s, NEW i \in 0..Len(current) - 1, SettledUpTo(s, i, 0, current, previous),
         NEW e \in SectionEntries(current, previous), e.current = i + 1,
         \A k \in DOMAIN s : e.previous = 0 \/ s[k].previous # e.previous,
         e.previous = 0
           => \A b \in 1..Len(previous) :
                (\A l \in DOMAIN s : s[l].previous # b)
                  => SectionScore(current, previous, i + 1, b) < SectionMinScore
  PROVE  SettledUpTo(Append(s, e), i + 1, 0, current, previous)
<1> DEFINE E == SectionEntries(current, previous)
           t == Append(s, e)
           new == Len(s) + 1
           Far(a, b) == SectionScore(current, previous, a, b) < SectionMinScore
<1>1. s \in Seq(E) /\ e \in E
  BY DEF SettledUpTo
<1>2. /\ t \in Seq(E) /\ DOMAIN t = DOMAIN s \cup {new} /\ new \notin DOMAIN s
      /\ \A k \in DOMAIN s : t[k] = s[k]
      /\ t[new] = e
  <2> HIDE DEF E
  <2> QED
    BY <1>1, Appended
<1>3. ASSUME NEW k \in DOMAIN s
      PROVE  s[k].current \in 0..i /\ s[k].current # 0 /\ s[k].previous \in Nat
  <2>1. s[k] \in E
    <3> HIDE DEF E
    <3> QED
      BY <1>1
  <2>2. s[k].current \in Nat /\ s[k].previous \in Nat
    BY <2>1 DEF SectionEntries
  <2>3. s[k].current <= i /\ s[k].current # 0
    BY DEF SettledUpTo
  <2> QED
    BY <2>2, <2>3
<1>4. e.current # 0 /\ \A k \in DOMAIN s : s[k].current # e.current
  BY <1>3
<1>5. /\ \A k, l \in DOMAIN s : /\ s[k].current = s[l].current /\ s[k].current # 0 => k = l
                                /\ s[k].previous = s[l].previous /\ s[k].previous # 0 => k = l
      /\ \A a \in 1..i : \E k \in DOMAIN s : s[k].current = a
      /\ \A k \in DOMAIN s :
           s[k].current # 0 /\ s[k].previous = 0
             => \A b \in 1..Len(previous) :
                  (\A l \in DOMAIN s : s[l].current = 0 \/ s[l].previous # b)
                    => Far(s[k].current, b)
  BY DEF SettledUpTo
<1>6. e.previous = 0 => \A b \in 1..Len(previous) :
                          (\A l \in DOMAIN s : s[l].previous # b) => Far(i + 1, b)
  OBVIOUS
<1> HIDE DEF t, new, E, Far
<1>7. \A k, l \in DOMAIN t : /\ t[k].current = t[l].current /\ t[k].current # 0 => k = l
                             /\ t[k].previous = t[l].previous /\ t[k].previous # 0 => k = l
  <2> TAKE k, l \in DOMAIN t
  <2>1. CASE k \in DOMAIN s /\ l \in DOMAIN s
    BY <1>2, <1>5, <2>1
  <2>2. CASE k \in DOMAIN s /\ l = new
    BY <1>2, <1>4, <2>2
  <2>3. CASE k = new /\ l \in DOMAIN s
    BY <1>2, <1>4, <2>3
  <2> QED
    BY <1>2, <2>1, <2>2, <2>3
<1>8. \A a \in 1..i + 1 : \E k \in DOMAIN t : t[k].current = a
  <2> TAKE a \in 1..i + 1
  <2>1. CASE a = i + 1
    BY <1>2, <2>1
  <2>2. CASE a # i + 1
    <3>1. a \in 1..i
      BY <2>2
    <3> QED
      BY <1>2, <1>5, <3>1
  <2> QED
    BY <2>1, <2>2
<1>9. \A k \in DOMAIN t : t[k].current <= i + 1 /\ t[k].current # 0
  <2> TAKE k \in DOMAIN t
  <2>1. CASE k \in DOMAIN s
    BY <1>2, <1>3, <2>1
  <2>2. CASE k = new
    BY <1>2, <2>2
  <2> QED
    BY <1>2, <2>1, <2>2
<1>10. ASSUME NEW k \in DOMAIN t, t[k].current # 0, t[k].previous = 0,
              NEW b \in 1..Len(previous),
              \A l \in DOMAIN t : t[l].current = 0 \/ t[l].previous # b
       PROVE  Far(t[k].current, b)
  <2>1. \A l \in DOMAIN s : s[l].previous # b
    BY <1>2, <1>3, <1>10
  <2>2. CASE k \in DOMAIN s
    BY <1>2, <1>5, <1>10, <2>1, <2>2
  <2>3. CASE k = new
    BY <1>2, <1>6, <1>10, <2>1, <2>3
  <2> QED
    BY <1>2, <1>10, <2>2, <2>3
<1>11. \A b \in 1..0 : \E k \in DOMAIN t : t[k].previous = b
  OBVIOUS
<1> QED
  BY <1>2, <1>7, <1>8, <1>9, <1>10, <1>11 DEF SettledUpTo, t, E, Far

LEMMA AddsPrevious ==
  ASSUME NEW current, NEW previous, Len(current) \in Nat, Len(previous) \in Nat,
         NEW s, NEW i \in Nat, NEW j \in 0..Len(previous) - 1,
         SettledUpTo(s, i, j, current, previous),
         NEW e \in SectionEntries(current, previous), e.current = 0, e.previous = j + 1,
         \A k \in DOMAIN s : s[k].previous # j + 1
  PROVE  SettledUpTo(Append(s, e), i, j + 1, current, previous)
<1> DEFINE E == SectionEntries(current, previous)
           t == Append(s, e)
           new == Len(s) + 1
           Far(a, b) == SectionScore(current, previous, a, b) < SectionMinScore
<1>1. s \in Seq(E) /\ e \in E
  BY DEF SettledUpTo
<1>2. /\ t \in Seq(E) /\ DOMAIN t = DOMAIN s \cup {new} /\ new \notin DOMAIN s
      /\ \A k \in DOMAIN s : t[k] = s[k]
      /\ t[new] = e
  <2> HIDE DEF E
  <2> QED
    BY <1>1, Appended
<1>3. /\ \A k, l \in DOMAIN s : /\ s[k].current = s[l].current /\ s[k].current # 0 => k = l
                                /\ s[k].previous = s[l].previous /\ s[k].previous # 0 => k = l
      /\ \A a \in 1..i : \E k \in DOMAIN s : s[k].current = a
      /\ \A b \in 1..j : \E k \in DOMAIN s : s[k].previous = b
      /\ \A k \in DOMAIN s : s[k].current <= i
      /\ \A k \in DOMAIN s :
           s[k].current # 0 /\ s[k].previous = 0
             => \A b \in 1..Len(previous) :
                  (\A l \in DOMAIN s : s[l].current = 0 \/ s[l].previous # b)
                    => Far(s[k].current, b)
  BY DEF SettledUpTo
<1> HIDE DEF t, new, E, Far
<1>7. \A k, l \in DOMAIN t : /\ t[k].current = t[l].current /\ t[k].current # 0 => k = l
                             /\ t[k].previous = t[l].previous /\ t[k].previous # 0 => k = l
  <2> TAKE k, l \in DOMAIN t
  <2>1. CASE k \in DOMAIN s /\ l \in DOMAIN s
    BY <1>2, <1>3, <2>1
  <2>2. CASE k \in DOMAIN s /\ l = new
    BY <1>2, <2>2
  <2>3. CASE k = new /\ l \in DOMAIN s
    BY <1>2, <2>3
  <2> QED
    BY <1>2, <2>1, <2>2, <2>3
<1>8. \A a \in 1..i : \E k \in DOMAIN t : t[k].current = a
  BY <1>2, <1>3
<1>9. \A b \in 1..j + 1 : \E k \in DOMAIN t : t[k].previous = b
  <2> TAKE b \in 1..j + 1
  <2>1. CASE b = j + 1
    BY <1>2, <2>1
  <2>2. CASE b # j + 1
    <3>1. b \in 1..j
      BY <2>2
    <3> QED
      BY <1>2, <1>3, <3>1
  <2> QED
    BY <2>1, <2>2
<1>10. \A k \in DOMAIN t : t[k].current <= i /\ (j + 1 = 0 => t[k].current # 0)
  <2> TAKE k \in DOMAIN t
  <2>1. CASE k \in DOMAIN s
    BY <1>2, <1>3, <2>1
  <2>2. CASE k = new
    BY <1>2, <2>2
  <2> QED
    BY <1>2, <2>1, <2>2
<1>11. ASSUME NEW k \in DOMAIN t, t[k].current # 0, t[k].previous = 0,
              NEW b \in 1..Len(previous),
              \A l \in DOMAIN t : t[l].current = 0 \/ t[l].previous # b
       PROVE  Far(t[k].current, b)
  <2>1. \A l \in DOMAIN s : s[l].current = 0 \/ s[l].previous # b
    BY <1>2, <1>11
  <2>2. k \in DOMAIN s
    BY <1>2, <1>11
  <2> QED
    BY <1>2, <1>3, <1>11, <2>1, <2>2
<1> QED
  BY <1>2, <1>7, <1>8, <1>9, <1>10, <1>11 DEF SettledUpTo, t, E, Far

Worded(sections) ==
  \A i \in 1..Len(sections) : sections[i].text \in Wordings /\ sections[i].title \in Wordings

(* The i-th section continues the matches s with e: a previous section     *)
(* nobody took, or none, when each one left scores too little.             *)
Continues(current, previous, s, i, e) ==
  /\ MatchOne(current, previous, s, i) = Append(s, e)
  /\ e.current = i
  /\ \A k \in DOMAIN s : e.previous = 0 \/ s[k].previous # e.previous
  /\ e.previous = 0
       => \A b \in 1..Len(previous) :
            (\A l \in DOMAIN s : s[l].previous # b)
              => SectionScore(current, previous, i, b) < SectionMinScore

LEMMA MatchOneIs ==
  ASSUME NEW current, NEW previous, Len(current) \in Nat, Len(previous) \in Nat,
         DOMAIN previous = 1..Len(previous), Worded(current), Worded(previous),
         NEW s \in Seq(SectionEntries(current, previous)), NEW i \in 0..Len(current) - 1
  PROVE  \E e \in SectionEntries(current, previous) : Continues(current, previous, s, i + 1, e)
<1> DEFINE E == SectionEntries(current, previous)
           free == DOMAIN previous \ {m.previous : m \in ToSet(s)}
           j == Best(current, previous, i + 1, free)
           score == SectionScore(current, previous, i + 1, j)
           alone == Unmatched(i + 1, 0, "unmatched_current")
           type == MatchType(StructuralSimilarity(current[i + 1], previous[j]), score)
           pair == [current |-> i + 1, previous |-> j, combined |-> score, confidence |-> score,
                    type |-> type]
<1>1. MatchOne(current, previous, s, i + 1)
        = IF free = {} \/ score < SectionMinScore THEN Append(s, alone) ELSE Append(s, pair)
  BY DEF MatchOne
<1>2. free = {b \in 1..Len(previous) : \A k \in DOMAIN s : s[k].previous # b}
  BY DEF ToSet
<1>3. i + 1 \in 1..Len(current) /\ i + 1 \in Nat
  OBVIOUS
<1>4. ASSUME NEW b \in 1..Len(previous)
      PROVE  SectionScore(current, previous, i + 1, b) \in Shares
  <2>1. /\ current[i + 1].text \in Wordings /\ current[i + 1].title \in Wordings
        /\ previous[b].text \in Wordings /\ previous[b].title \in Wordings
    BY <1>3, <1>4 DEF Worded
  <2>2. b \in Nat
    OBVIOUS
  <2> QED
    BY <1>3, <2>1, <2>2, SectionScoreIsShare
<1>5. 0 \in Shares /\ One \in Shares /\ \A x \in Shares : x \in Int
  BY OneIsWhole DEF Shares
<1>6. SectionMinScore \in Shares
  BY AlignmentAssumption
<1> HIDE DEF free
<1>7. free # {} => /\ j \in free
                   /\ \A b \in free : SectionScore(current, previous, i + 1, b) <= score
  <2>1. free \subseteq Nat /\ \A b \in free : SectionScore(current, previous, i + 1, b) \in Shares
    BY <1>2, <1>4
  <2> QED
    BY <2>1, BestIs
<1> HIDE DEF j, score
<1>8. CASE free = {} \/ score < SectionMinScore
  <2>1. alone \in E /\ alone.current = i + 1 /\ alone.previous = 0
    BY <1>3, <1>5 DEF Unmatched, SectionEntries
  <2>2. ASSUME NEW b \in 1..Len(previous), \A l \in DOMAIN s : s[l].previous # b
        PROVE  SectionScore(current, previous, i + 1, b) < SectionMinScore
    <3>1. b \in free
      BY <1>2, <2>2
    <3>2. SectionScore(current, previous, i + 1, b) <= score /\ score < SectionMinScore
      BY <1>7, <1>8, <3>1
    <3>3. score \in Int /\ SectionScore(current, previous, i + 1, b) \in Int /\ SectionMinScore \in Int
      BY <1>2, <1>4, <1>5, <1>6, <1>7, <3>1 DEF score
    <3> QED
      BY <3>2, <3>3
  <2>3. MatchOne(current, previous, s, i + 1) = Append(s, alone)
    BY <1>1, <1>8
  <2> HIDE DEF alone
  <2> QED
    BY <2>1, <2>2, <2>3 DEF Continues
<1>9. CASE ~ (free = {} \/ score < SectionMinScore)
  <2>1. j \in 1..Len(previous) /\ \A k \in DOMAIN s : s[k].previous # j
    BY <1>2, <1>7, <1>9
  <2>2. score \in Shares
    BY <1>4, <2>1 DEF score
  <2>3. type \in {"exact_structural", "hybrid", "semantic"}
    BY DEF MatchType
  <2> HIDE DEF type
  <2>4. pair \in E /\ pair.current = i + 1 /\ pair.previous = j /\ j # 0
    BY <1>3, <2>1, <2>2, <2>3 DEF SectionEntries
  <2>5. MatchOne(current, previous, s, i + 1) = Append(s, pair)
    BY <1>1, <1>9
  <2> HIDE DEF pair
  <2> QED
    BY <2>1, <2>4, <2>5 DEF Continues
<1> QED
  BY <1>8, <1>9

(* The j-th previous section is left over as e: no match in s names it.    *)
LeavesAlone(s, j, e) ==
  /\ LeaveOver(s, j) = Append(s, e)
  /\ e.current = 0 /\ e.previous = j
  /\ \A k \in DOMAIN s : s[k].previous # j

LEMMA LeaveOverIs ==
  ASSUME NEW current, NEW previous, Len(current) \in Nat, Len(previous) \in Nat,
         NEW s \in Seq(SectionEntries(current, previous)), NEW j \in 0..Len(previous) - 1
  PROVE  \/ /\ LeaveOver(s, j + 1) = s
            /\ \E k \in DOMAIN s : s[k].previous = j + 1
         \/ \E e \in SectionEntries(current, previous) : LeavesAlone(s, j + 1, e)
<1> DEFINE over == Unmatched(0, j + 1, "unmatched_previous")
<1>1. LeaveOver(s, j + 1) = IF \E m \in ToSet(s) : m.previous = j + 1 THEN s ELSE Append(s, over)
  BY DEF LeaveOver
<1>2. (\E m \in ToSet(s) : m.previous = j + 1) <=> \E k \in DOMAIN s : s[k].previous = j + 1
  BY DEF ToSet
<1>3. over \in SectionEntries(current, previous) /\ over.current = 0 /\ over.previous = j + 1
  <2>1. j + 1 \in 1..Len(previous)
    OBVIOUS
  <2>2. 0 \in Shares /\ One \in Shares
    BY OneIsWhole DEF Shares
  <2> QED
    BY <2>1, <2>2 DEF Unmatched, SectionEntries
<1> HIDE DEF over
<1> QED
  BY <1>1, <1>2, <1>3 DEF LeavesAlone

LEMMA LeavesOver ==
  ASSUME NEW current, NEW previous, Len(current) \in Nat, Len(previous) \in Nat,
         NEW s, NEW i \in Nat, NEW j \in 0..Len(previous) - 1,
         SettledUpTo(s, i, j, current, previous)
  PROVE  SettledUpTo(LeaveOver(s, j + 1), i, j + 1, current, previous)
<1>1. s \in Seq(SectionEntries(current, previous))
  BY DEF SettledUpTo
<1>2. CASE LeaveOver(s, j + 1) = s /\ \E k \in DOMAIN s : s[k].previous = j + 1
  <2>1. j + 1 # 0 /\ \A b \in 1..j + 1 : b \in 1..j \/ b = j + 1
    OBVIOUS
  <2>2. SettledUpTo(s, i, j + 1, current, previous)
    BY <1>2, <2>1 DEF SettledUpTo
  <2> QED
    BY <1>2, <2>2
<1>3. ASSUME NEW e \in SectionEntries(current, previous), LeavesAlone(s, j + 1, e)
      PROVE  SettledUpTo(LeaveOver(s, j + 1), i, j + 1, current, previous)
  BY <1>3, AddsPrevious DEF LeavesAlone
<1> QED
  BY <1>1, <1>2, <1>3, LeaveOverIs

(* Where no list is left to settle, the matches are those promised.        *)
LEMMA SettledFits ==
  ASSUME NEW current, NEW previous, Len(current) \in Nat, Len(previous) \in Nat,
         DOMAIN current = 1..Len(current), DOMAIN previous = 1..Len(previous),
         NEW s, SettledUpTo(s, Len(current), Len(previous), current, previous)
  PROVE  SectionsFit(s, current, previous)
<1>1. /\ \A k, l \in DOMAIN s : /\ s[k].current = s[l].current /\ s[k].current # 0 => k = l
                                /\ s[k].previous = s[l].previous /\ s[k].previous # 0 => k = l
      /\ \A a \in 1..Len(current) : \E k \in DOMAIN s : s[k].current = a
      /\ \A b \in 1..Len(previous) : \E k \in DOMAIN s : s[k].previous = b
      /\ \A k \in DOMAIN s :
           s[k].current # 0 /\ s[k].previous = 0
             => \A b \in 1..Len(previous) :
                  (\A l \in DOMAIN s : s[l].current = 0 \/ s[l].previous # b)
                    => SectionScore(current, previous, s[k].current, b) < SectionMinScore
  BY DEF SettledUpTo
<1>2. ASSUME NEW a \in DOMAIN current
      PROVE  Cardinality({k \in DOMAIN s : s[k].current = a}) = 1
  <2>1. PICK k \in DOMAIN s : s[k].current = a
    BY <1>1
  <2>2. a # 0
    OBVIOUS
  <2>3. \A l \in DOMAIN s : s[l].current = a => l = k
    BY <1>1, <2>1, <2>2
  <2> QED
    BY <2>1, <2>3, OnlyOne
<1>3. ASSUME NEW b \in DOMAIN previous
      PROVE  Cardinality({k \in DOMAIN s : s[k].previous = b}) = 1
  <2>1. PICK k \in DOMAIN s : s[k].previous = b
    BY <1>1
  <2>2. b # 0
    OBVIOUS
  <2>3. \A l \in DOMAIN s : s[l].previous = b => l = k
    BY <1>1, <2>1, <2>2
  <2> QED
    BY <2>1, <2>3, OnlyOne
<1>4. ASSUME NEW m \in ToSet(s), NEW n \in ToSet(s),
             m.current # 0, m.previous = 0, n.current = 0, n.previous # 0
      PROVE  SectionScore(current, previous, m.current, n.previous) < SectionMinScore
  <2>1. PICK k \in DOMAIN s, l \in DOMAIN s : m = s[k] /\ n = s[l]
    BY DEF ToSet
  <2>2. n.previous \in 1..Len(previous)
    <3>1. n \in SectionEntries(current, previous)
      BY <2>1 DEF SettledUpTo
    <3> QED
      BY <1>4, <3>1 DEF SectionEntries
  <2>3. \A o \in DOMAIN s : s[o].current = 0 \/ s[o].previous # n.previous
    BY <1>1, <1>4, <2>1
  <2> QED
    BY <1>1, <1>4, <2>1, <2>2, <2>3
<1> QED
  BY <1>2, <1>3, <1>4 DEF SectionsFit, CoversBoth

(* section_matching_service.match: for any sections of texts the scores    *)
(* are known of, whatever they are, each section of both filings is in     *)
(* exactly one match, and of those left alone no current one would have    *)
(* scored what the settings ask with a previous one.                       *)
THEOREM SectionsAreMatched ==
  ASSUME NEW T, NEW current \in Seq(T), NEW previous \in Seq(T),
         Worded(current), Worded(previous)
  PROVE  SectionsFit(MatchSections(current, previous), current, previous)
<1> DEFINE m == Len(current)
           n == Len(previous)
           Lists == Seq(SectionEntries(current, previous))
           one(s, i) == MatchOne(current, previous, s, i)
           Takes(f) == f = [i \in 0..m |-> IF i = 0 THEN <<>> ELSE one(f[i - 1], i)]
           taken == CHOOSE f : Takes(f)
           Leaves(f) == f = [j \in 0..n |-> IF j = 0 THEN taken[m] ELSE LeaveOver(f[j - 1], j)]
           all == CHOOSE f : Leaves(f)
           takes == [x \in Lists \X (1..m) |-> one(x[1], x[2])]
           leaves == [x \in Lists \X (1..n) |-> LeaveOver(x[1], x[2])]
<1>1. /\ m \in Nat /\ n \in Nat
      /\ DOMAIN current = 1..m /\ DOMAIN previous = 1..n
  OBVIOUS
<1>2. MatchSections(current, previous) = all[n]
  BY DEF MatchSections
<1>3. <<>> \in Lists /\ DOMAIN <<>> = {}
  OBVIOUS
<1>4. ASSUME NEW s \in Lists, NEW i \in 1..m PROVE one(s, i) \in Lists
  <2>1. PICK k \in 0..Len(current) - 1 : k + 1 = i
    <3>1. i - 1 \in 0..Len(current) - 1 /\ (i - 1) + 1 = i
      BY <1>1
    <3> QED
      BY <3>1
  <2>2. \E e \in SectionEntries(current, previous) : Continues(current, previous, s, k + 1, e)
    <3>1. s \in Seq(SectionEntries(current, previous)) /\ k \in 0..Len(current) - 1
      BY <1>4, <2>1
    <3>2. /\ Len(current) \in Nat /\ Len(previous) \in Nat /\ DOMAIN previous = 1..Len(previous)
      BY <1>1
    <3> HIDE DEF Lists, m, n, one, Takes, taken, Leaves, all, takes, leaves
    <3> QED
      BY <3>1, <3>2, MatchOneIs
  <2>3. PICK e \in SectionEntries(current, previous) : Continues(current, previous, s, i, e)
    BY <2>1, <2>2
  <2>4. one(s, i) = Append(s, e)
    BY <2>3 DEF Continues
  <2> QED
    BY <2>4, Appended
<1>5. ASSUME NEW s \in Lists, NEW j \in 1..n PROVE LeaveOver(s, j) \in Lists
  <2>1. j - 1 \in 0..Len(previous) - 1 /\ (j - 1) + 1 = j
    BY <1>1
  <2>2. \/ LeaveOver(s, (j - 1) + 1) = s
        \/ \E e \in SectionEntries(current, previous) : LeavesAlone(s, (j - 1) + 1, e)
    <3>1. s \in Seq(SectionEntries(current, previous)) /\ Len(current) \in Nat /\ Len(previous) \in Nat
      BY <1>1, <1>5
    <3> HIDE DEF m, n, Lists, one, Takes, taken, Leaves, all, takes, leaves
    <3> QED
      BY <2>1, <3>1, LeaveOverIs
  <2>3. CASE LeaveOver(s, j) = s
    BY <2>3
  <2>4. ASSUME NEW e \in SectionEntries(current, previous), LeavesAlone(s, j, e)
        PROVE  LeaveOver(s, j) \in Lists
    <3>1. Append(s, e) \in Seq(SectionEntries(current, previous))
      BY Appended
    <3> QED
      BY <2>4, <3>1 DEF LeavesAlone
  <2> QED
    BY <2>1, <2>2, <2>3, <2>4
<1> DEFINE Placed == {i \in 0..m : taken[i] \in Lists /\ SettledUpTo(taken[i], i, 0, current, previous)}
           Left == {j \in 0..n : SettledUpTo(all[j], m, j, current, previous)}
<1>6. Takes(taken)
  <2>1. takes \in Steps(m, Lists)
    BY <1>4 DEF Steps
  <2>2. \A s \in Lists, i \in 1..m : takes[<<s, i>>] = one(s, i)
    OBVIOUS
  <2> HIDE DEF takes, m, Lists, one
  <2>3. PICK f : Follows(f, m, Lists, <<>>, takes)
    BY <1>1, <1>3, <2>1, FoldExists
  <2>4. \A i \in 1..m : i - 1 \in 0..m /\ f[i] = one(f[i - 1], i)
    <3>1. \A i \in 1..m : i - 1 \in 0..m
      BY <1>1
    <3> QED
      BY <3>1, <2>2, <2>3 DEF Follows
  <2>5. Takes(f)
    BY <1>1, <2>3, <2>4 DEF Follows
  <2> QED
    BY <2>5
<1> HIDE DEF taken
<1>7. taken[0] = <<>> /\ \A i \in 1..m : taken[i] = one(taken[i - 1], i)
  <2> HIDE DEF m, one
  <2> QED
    BY <1>1, <1>6
<1>8. m \in Placed
  <2> HIDE DEF m
  <2>1. 0 \in Placed
    <3>1. SettledUpTo(<<>>, 0, 0, current, previous)
      BY <1>3 DEF SettledUpTo
    <3>2. 0 \in 0..m
      BY <1>1
    <3> HIDE DEF Lists
    <3> QED
      BY <1>3, <1>7, <3>1, <3>2
  <2>2. ASSUME NEW i \in 0..m - 1, i \in Placed PROVE i + 1 \in Placed
    <3>1. i + 1 \in 1..m /\ (i + 1) - 1 = i /\ i + 1 \in 0..m /\ i \in 0..Len(current) - 1
      BY <1>1 DEF m
    <3>2. taken[i + 1] = one(taken[i], i + 1)
      BY <1>7, <3>1
    <3>3. taken[i] \in Lists /\ SettledUpTo(taken[i], i, 0, current, previous)
      BY <2>2
    <3>4. SettledUpTo(one(taken[i], i + 1), i + 1, 0, current, previous)
      <4>1. /\ taken[i] \in Seq(SectionEntries(current, previous)) /\ i \in 0..Len(current) - 1
            /\ Len(current) \in Nat /\ Len(previous) \in Nat
            /\ DOMAIN previous = 1..Len(previous)
        BY <1>1, <3>1, <3>3
      <4>2. \E e \in SectionEntries(current, previous) :
              Continues(current, previous, taken[i], i + 1, e)
        <5> HIDE DEF taken
        <5> QED
          BY <4>1, MatchOneIs
      <4>3. PICK e \in SectionEntries(current, previous) :
              Continues(current, previous, taken[i], i + 1, e)
        BY <4>2
      <4>4. SettledUpTo(Append(taken[i], e), i + 1, 0, current, previous)
        BY <1>1, <3>1, <3>3, <4>3, AddsCurrent DEF m, Continues
      <4>5. one(taken[i], i + 1) = Append(taken[i], e)
        BY <4>3 DEF Continues
      <4> QED
        BY <4>4, <4>5
    <3>5. one(taken[i], i + 1) \in Lists
      BY <1>4, <3>1, <3>3
    <3> HIDE DEF one, Lists
    <3> QED
      BY <3>1, <3>2, <3>4, <3>5
  <2> HIDE DEF Standing
  <2>3. 0..m \subseteq Placed
    BY <1>1, <2>1, <2>2, UpTo
  <2> QED
    BY <1>1, <2>3
<1>9. taken[m] \in Lists /\ SettledUpTo(taken[m], m, 0, current, previous)
  BY <1>8
<1>10. Leaves(all)
  <2>1. leaves \in Steps(n, Lists)
    BY <1>5 DEF Steps
  <2>2. \A s \in Lists, j \in 1..n : leaves[<<s, j>>] = LeaveOver(s, j)
    OBVIOUS
  <2> HIDE DEF leaves, n, m, Lists
  <2>3. PICK f : Follows(f, n, Lists, taken[m], leaves)
    BY <1>1, <1>9, <2>1, FoldExists
  <2>4. \A j \in 1..n : j - 1 \in 0..n /\ f[j] = LeaveOver(f[j - 1], j)
    <3>1. \A j \in 1..n : j - 1 \in 0..n
      BY <1>1
    <3> QED
      BY <3>1, <2>2, <2>3 DEF Follows
  <2>5. Leaves(f)
    BY <1>1, <2>3, <2>4 DEF Follows
  <2> QED
    BY <2>5
<1> HIDE DEF all
<1>11. all[0] = taken[m] /\ \A j \in 1..n : all[j] = LeaveOver(all[j - 1], j)
  <2> HIDE DEF m, n
  <2> QED
    BY <1>1, <1>10
<1>12. n \in Left
  <2> HIDE DEF n, m
  <2>1. 0 \in Left
    BY <1>1, <1>9, <1>11
  <2>2. ASSUME NEW j \in 0..n - 1, j \in Left PROVE j + 1 \in Left
    <3>1. j + 1 \in 1..n /\ (j + 1) - 1 = j /\ j + 1 \in 0..n /\ j \in 0..Len(previous) - 1
      BY <1>1 DEF n
    <3>2. all[j + 1] = LeaveOver(all[j], j + 1)
      BY <1>11, <3>1
    <3>3. SettledUpTo(LeaveOver(all[j], j + 1), m, j + 1, current, previous)
      BY <1>1, <2>2, <3>1, LeavesOver DEF m, n
    <3> QED
      BY <3>1, <3>2, <3>3
  <2> HIDE DEF Left
  <2>3. 0..n \subseteq Left
    BY <1>1, <2>1, <2>2, UpTo
  <2> QED
    BY <1>1, <2>3
<1>13. SettledUpTo(all[n], m, n, current, previous)
  BY <1>12
<1> QED
  BY <1>1, <1>2, <1>13, SettledFits

(* Whatever the moves into a cell are worth, the largest is taken.         *)
Largest(x, a, b, c) == x \in {a, b, c} /\ a <= x /\ b <= x /\ c <= x

LEMMA MaxIsLargest ==
  ASSUME NEW a \in Int, NEW b \in Int, NEW c \in Int
  PROVE  Largest(Max({a, b, c}), a, b, c)
<1> DEFINE S == {a, b, c}
<1>1. \E x \in S : \A y \in S : x >= y
  OBVIOUS
<1>2. Max(S) \in S /\ \A y \in S : Max(S) >= y
  <2> HIDE DEF S
  <2> QED
    BY <1>1 DEF Max
<1> QED
  BY <1>2 DEF Largest

LEMMA PassageScoreIsShare ==
  ASSUME NEW current \in Seq(Wordings), NEW previous \in Seq(Wordings),
         NEW i \in 1..Len(current), NEW j \in 1..Len(previous)
  PROVE  PassageScore(current, previous, i, j) \in Shares
<1> DEFINE texts == Likeness[<<current[i], previous[j]>>]
           w == PassageWeights
           place == PositionSimilarity(i, Len(current), j, Len(previous))
<1>1. PassageScore(current, previous, i, j)
        = Clamp((w.dense * texts.dense + w.lexical * texts.lexical + w.reranker * texts.reranker
                 + w.position * place) \div One)
  BY DEF PassageScore
<1>2. Shares \subseteq Int
  BY OneIsWhole DEF Shares
<1>3. w.dense \in Int /\ w.lexical \in Int /\ w.reranker \in Int /\ w.position \in Int
  BY <1>2, WeightAssumption
<1>4. texts \in [dense : Shares, lexical : Shares, reranker : Shares]
  <2>1. <<current[i], previous[j]>> \in Wordings \X Wordings
    OBVIOUS
  <2> QED
    BY <2>1, AlignmentAssumption
<1>5. texts.dense \in Int /\ texts.lexical \in Int /\ texts.reranker \in Int
  BY <1>2, <1>4
<1>6. place \in Int
  BY PositionIsWhole
<1> HIDE DEF texts, w, place
<1>7. \A x, y \in Int : x * y \in Int
  OBVIOUS
<1>8. /\ w.dense * texts.dense \in Int /\ w.lexical * texts.lexical \in Int
      /\ w.reranker * texts.reranker \in Int /\ w.position * place \in Int
  BY <1>3, <1>5, <1>6, <1>7
<1>9. \A x, y, z, t \in Int : x + y + z + t \in Int
  OBVIOUS
<1> QED
  BY <1>1, <1>8, <1>9, ClampIsShare

(* A row of the table of best values, from the row above it.               *)
RowIs(line, current, previous, above, row) ==
  /\ line \in [0..Len(current) -> Int]
  /\ line[0] = row * Gap
  /\ \A col \in 1..Len(current) :
       IF row = 0 THEN line[col] = col * Gap
       ELSE Largest(line[col], above[col - 1] + PairValue(PassageScore(current, previous, col, row)),
                    above[col] + Gap, line[col - 1] + Gap)

LEMMA RowExists ==
  ASSUME NEW current \in Seq(Wordings), NEW previous \in Seq(Wordings),
         NEW row \in 0..Len(previous), NEW above,
         row # 0 => above \in [0..Len(current) -> Int]
  PROVE  RowIs(Row(current, previous, above, row), current, previous, above, row)
<1> DEFINE n == Len(current)
           pair(col) == above[col - 1] + PairValue(PassageScore(current, previous, col, row))
           best(x, col) == Max({pair(col), above[col] + Gap, x + Gap})
           cell(x, col) == IF row = 0 \/ col = 0 THEN (row + col) * Gap ELSE best(x, col)
           step == [x \in Int \X (1..n) |-> cell(x[1], x[2])]
           Cells(f) == f = [col \in 0..n |-> IF row = 0 \/ col = 0 THEN (row + col) * Gap
                                             ELSE best(f[col - 1], col)]
           cells == CHOOSE f : Cells(f)
<1>1. n \in Nat /\ row \in Nat /\ Gap \in Int /\ Misfit \in Int /\ Shares \subseteq Int
  BY OneIsWhole DEF Gap, Misfit, Shares
<1>2. Row(current, previous, above, row) = cells
  BY DEF Row
<1>3. ASSUME NEW col \in 1..n, row # 0
      PROVE  pair(col) \in Int /\ above[col] + Gap \in Int
  <2>1. above[col - 1] \in Int /\ above[col] \in Int
    BY <1>1, <1>3, SMTT(30)
  <2>2. PassageScore(current, previous, col, row) \in Int
    BY <1>1, <1>3, PassageScoreIsShare, SMTT(30)
  <2>3. PairValue(PassageScore(current, previous, col, row)) \in Int
    BY <1>1, <2>2 DEF PairValue
  <2> QED
    BY <1>1, <2>1, <2>3
<1> HIDE DEF pair
<1>4. ASSUME NEW col \in 1..n, NEW x \in Int, row # 0
      PROVE  Largest(best(x, col), pair(col), above[col] + Gap, x + Gap) /\ best(x, col) \in Int
  <2>1. pair(col) \in Int /\ above[col] + Gap \in Int /\ x + Gap \in Int
    BY <1>1, <1>3, <1>4
  <2>2. Largest(best(x, col), pair(col), above[col] + Gap, x + Gap)
    BY <2>1, MaxIsLargest
  <2> QED
    BY <2>1, <2>2 DEF Largest
<1> HIDE DEF best
<1>5. ASSUME NEW col \in 0..n, NEW x \in Int, col = 0 \/ row = 0 \/ col \in 1..n
      PROVE  cell(x, col) \in Int
  <2>1. (row + col) * Gap \in Int
    BY <1>1
  <2>2. row # 0 /\ col # 0 => col \in 1..n
    BY <1>1
  <2> QED
    BY <1>4, <2>1, <2>2
<1>6. step \in Steps(n, Int)
  BY <1>1, <1>5 DEF Steps
<1>7. \A x \in Int, col \in 1..n : step[<<x, col>>] = cell(x, col)
  OBVIOUS
<1>8. row * Gap \in Int
  BY <1>1
<1> HIDE DEF step
<1>9. PICK f : Follows(f, n, Int, row * Gap, step)
  BY <1>1, <1>6, <1>8, FoldExists
<1>10. /\ f \in [0..n -> Int] /\ f[0] = row * Gap
       /\ \A col \in 1..n : f[col] = cell(f[col - 1], col)
  <2>1. \A col \in 1..n : col - 1 \in 0..n
    BY <1>1
  <2> QED
    BY <1>7, <1>9, <2>1 DEF Follows
<1>11. Cells(f)
  <2>1. f[0] = (row + 0) * Gap
    BY <1>1, <1>10
  <2>2. \A col \in 0..n : col # 0 => col \in 1..n
    BY <1>1
  <2>3. \A col \in 0..n :
          f[col] = IF row = 0 \/ col = 0 THEN (row + col) * Gap ELSE best(f[col - 1], col)
    BY <1>10, <2>1, <2>2
  <2> QED
    BY <1>10, <2>3
<1>12. Cells(cells)
  BY <1>11
<1> HIDE DEF cells
<1> DEFINE S == {col \in 0..n : cells[col] \in Int}
<1>13. cells[0] = row * Gap /\ \A col \in 1..n : cells[col] = cell(cells[col - 1], col)
  <2>1. 0 \in 0..n /\ (row + 0) * Gap = row * Gap /\ \A col \in 1..n : col \in 0..n
    BY <1>1
  <2> QED
    BY <1>12, <2>1
<1>14. 0 \in S
  BY <1>1, <1>8, <1>13
<1>15. ASSUME NEW col \in 0..n - 1, col \in S PROVE col + 1 \in S
  <2>1. col + 1 \in 1..n /\ (col + 1) - 1 = col /\ col + 1 \in 0..n
    BY <1>1
  <2>2. cell(cells[col], col + 1) \in Int
    BY <1>5, <1>15, <2>1
  <2>3. cells[col + 1] = cell(cells[(col + 1) - 1], col + 1)
    BY <1>13, <2>1
  <2> HIDE DEF cell
  <2>4. cells[col + 1] \in Int
    BY <2>1, <2>2, <2>3
  <2> QED
    BY <2>1, <2>4
<1>16. 0..n \subseteq S
  <2> HIDE DEF S
  <2> QED
    BY <1>1, <1>14, <1>15, UpTo
<1>17. cells \in [0..n -> Int]
  BY <1>12, <1>16
<1>18. ASSUME NEW col \in 1..n
       PROVE  IF row = 0 THEN cells[col] = col * Gap
              ELSE Largest(cells[col], pair(col), above[col] + Gap, cells[col - 1] + Gap)
  <2>1. col - 1 \in 0..n /\ col # 0
    BY <1>1
  <2>2. cells[col] = cell(cells[col - 1], col) /\ cells[col - 1] \in Int
    BY <1>13, <1>17, <2>1
  <2>3. CASE row = 0
    <3>1. (row + col) * Gap = col * Gap
      BY <1>1, <2>3
    <3> QED
      BY <2>2, <2>3, <3>1
  <2>4. CASE row # 0
    <3>1. cells[col] = best(cells[col - 1], col)
      BY <2>1, <2>2, <2>4
    <3> QED
      BY <1>4, <2>2, <2>4, <3>1
  <2> QED
    BY <2>3, <2>4
<1>19. RowIs(cells, current, previous, above, row)
  BY <1>13, <1>17, <1>18 DEF RowIs, pair
<1> QED
  BY <1>2, <1>19

(* The table, row after row.                                               *)
LEMMA ValuesAre ==
  ASSUME NEW current \in Seq(Wordings), NEW previous \in Seq(Wordings)
  PROVE  LET dp == Values(current, previous)
         IN  /\ dp \in [0..Len(previous) -> [0..Len(current) -> Int]]
             /\ RowIs(dp[0], current, previous, <<>>, 0)
             /\ \A row \in 1..Len(previous) :
                  RowIs(dp[row], current, previous, dp[row - 1], row)
<1> DEFINE n == Len(previous)
           L == [0..Len(current) -> Int]
           line(above, row) == Row(current, previous, above, row)
           step == [x \in L \X (1..n) |-> line(x[1], x[2])]
           Table(f) == f = [row \in 0..n |-> line(IF row = 0 THEN <<>> ELSE f[row - 1], row)]
           dp == CHOOSE f : Table(f)
<1>1. n \in Nat /\ 0 \in 0..n
  OBVIOUS
<1>2. Values(current, previous) = dp
  BY DEF Values
<1>3. RowIs(line(<<>>, 0), current, previous, <<>>, 0)
  BY <1>1, RowExists
<1>4. ASSUME NEW row \in 1..n, NEW above \in L
      PROVE  RowIs(line(above, row), current, previous, above, row)
  BY <1>1, RowExists
<1> HIDE DEF line
<1>5. line(<<>>, 0) \in L /\ \A row \in 1..n, above \in L : line(above, row) \in L
  BY <1>3, <1>4 DEF RowIs
<1>6. step \in Steps(n, L)
  BY <1>5 DEF Steps
<1>7. \A above \in L, row \in 1..n : step[<<above, row>>] = line(above, row)
  OBVIOUS
<1> HIDE DEF step, L
<1>8. PICK f : Follows(f, n, L, line(<<>>, 0), step)
  BY <1>1, <1>5, <1>6, FoldExists
<1>9. /\ f \in [0..n -> L] /\ f[0] = line(<<>>, 0)
      /\ \A row \in 1..n : row - 1 \in 0..n /\ f[row] = line(f[row - 1], row)
  <2>1. \A row \in 1..n : row - 1 \in 0..n
    BY <1>1
  <2> QED
    BY <1>7, <1>8, <2>1 DEF Follows
<1>10. Table(f)
  <2>1. \A row \in 0..n : row = 0 \/ row \in 1..n
    BY <1>1
  <2>2. \A row \in 0..n : f[row] = line(IF row = 0 THEN <<>> ELSE f[row - 1], row)
    BY <1>1, <1>9, <2>1
  <2> QED
    BY <1>9, <2>2
<1>11. Table(dp)
  BY <1>10
<1> HIDE DEF dp
<1>12. /\ DOMAIN dp = 0..n /\ dp = [row \in 0..n |-> dp[row]]
       /\ dp[0] = line(<<>>, 0)
       /\ \A row \in 1..n : dp[row] = line(dp[row - 1], row)
  <2>1. \A row \in 1..n : row \in 0..n /\ row # 0
    BY <1>1
  <2> QED
    BY <1>1, <1>11, <2>1
<1> DEFINE S == {row \in 0..n : dp[row] \in L}
<1>13. 0 \in S
  BY <1>1, <1>5, <1>12
<1>14. ASSUME NEW row \in 0..n - 1, row \in S PROVE row + 1 \in S
  <2>1. row + 1 \in 1..n /\ (row + 1) - 1 = row /\ row + 1 \in 0..n
    BY <1>1
  <2>2. line(dp[row], row + 1) \in L
    BY <1>5, <1>14, <2>1
  <2>3. dp[row + 1] = line(dp[(row + 1) - 1], row + 1)
    BY <1>12, <2>1
  <2> QED
    BY <2>1, <2>2, <2>3
<1>15. 0..n \subseteq S
  <2> HIDE DEF S
  <2> QED
    BY <1>1, <1>13, <1>14, UpTo
<1>16. dp \in [0..n -> L]
  BY <1>12, <1>15
<1>17. ASSUME NEW row \in 1..n
       PROVE  RowIs(dp[row], current, previous, dp[row - 1], row)
  <2>1. row - 1 \in 0..n
    BY <1>1
  <2>2. dp[row - 1] \in L
    BY <1>16, <2>1
  <2> QED
    BY <1>4, <1>12, <2>2
<1> QED
  BY <1>2, <1>3, <1>12, <1>16, <1>17 DEF L

(* A text compared with itself scores all there is.                        *)
WhollyAlike == \A text \in Wordings : Likeness[<<text, text>>]
                 = [dense |-> One, lexical |-> One, reranker |-> One]

LEMMA ScoreOfItself ==
  ASSUME WhollyAlike, NEW current \in Seq(Wordings), NEW i \in 1..Len(current)
  PROVE  PassageScore(current, current, i, i) = One
<1> DEFINE texts == Likeness[<<current[i], current[i]>>]
           w == PassageWeights
           place == PositionSimilarity(i, Len(current), i, Len(current))
           at(k, total) == (One * (k - 1)) \div (IF total > 1 THEN total - 1 ELSE 1)
<1>1. PassageScore(current, current, i, i)
        = Clamp((w.dense * texts.dense + w.lexical * texts.lexical + w.reranker * texts.reranker
                 + w.position * place) \div One)
  BY DEF PassageScore
<1>2. texts.dense = One /\ texts.lexical = One /\ texts.reranker = One
  BY DEF WhollyAlike
<1>3. place = One
  <2>1. place = One - Apart(at(i, Len(current)), at(i, Len(current)))
    BY DEF PositionSimilarity
  <2>2. at(i, Len(current)) \in Int
    <3>1. i \in Nat /\ Len(current) \in Nat
      OBVIOUS
    <3> QED
      BY <3>1, PlaceIsWhole
  <2> HIDE DEF at
  <2>3. Apart(at(i, Len(current)), at(i, Len(current))) = 0
    BY <2>2 DEF Apart
  <2> QED
    BY <2>1, <2>3, OneIsWhole
<1>4. /\ w.dense \in Int /\ w.lexical \in Int /\ w.reranker \in Int /\ w.position \in Int
      /\ w.dense + w.lexical + w.reranker + w.position = One
  BY WeightAssumption, OneIsWhole DEF Shares
<1> HIDE DEF texts, w, place
<1>5. w.dense * One + w.lexical * One + w.reranker * One + w.position * One = One * One
  <2>1. \A x, y, z, t \in Int :
          x + y + z + t = One => x * One + y * One + z * One + t * One = One * One
    BY DEF One
  <2> QED
    BY <1>4, <2>1
<1>6. Clamp((One * One) \div One) = One
  BY DEF One, Clamp
<1> QED
  BY <1>1, <1>2, <1>3, <1>5, <1>6

(* No alignment of the first passages is worth more than one each.         *)
LEMMA ValuesAreBounded ==
  ASSUME NEW current \in Seq(Wordings), NEW previous \in Seq(Wordings),
         NEW row \in 0..Len(previous)
  PROVE  \A col \in 0..Len(current) : Values(current, previous)[row][col] <= One * row
<1> DEFINE n == Len(previous)
           m == Len(current)
           dp == Values(current, previous)
           S == {r \in 0..n : \A col \in 0..m : dp[r][col] <= One * r}
<1>1. n \in Nat /\ m \in Nat
  OBVIOUS
<1>2. /\ dp \in [0..n -> [0..m -> Int]]
      /\ RowIs(dp[0], current, previous, <<>>, 0)
      /\ \A r \in 1..n : RowIs(dp[r], current, previous, dp[r - 1], r)
  BY ValuesAre
<1> HIDE DEF dp
<1>3. 0 \in S
  <2>1. dp[0][0] = 0 * Gap /\ \A col \in 1..m : dp[0][col] = col * Gap
    BY <1>1, <1>2 DEF RowIs
  <2>2. \A col \in 0..m : col = 0 \/ col \in 1..m
    BY <1>1
  <2>3. 0 * Gap <= One * 0 /\ \A col \in 1..m : col * Gap <= One * 0
    BY <1>1 DEF Gap, One
  <2> QED
    BY <1>1, <2>1, <2>2, <2>3
<1>4. ASSUME NEW r \in 0..n - 1, r \in S PROVE r + 1 \in S
  <2>1. r + 1 \in 1..n /\ (r + 1) - 1 = r /\ r + 1 \in 0..n /\ r \in Nat /\ r \in 0..n
    BY <1>1
  <2>2. RowIs(dp[r + 1], current, previous, dp[r], r + 1)
    <3>1. RowIs(dp[r + 1], current, previous, dp[(r + 1) - 1], r + 1)
      BY <1>2, <2>1
    <3> QED
      BY <2>1, <3>1
  <2> DEFINE line == dp[r + 1]
             above == dp[r]
             pair(col) == PairValue(PassageScore(current, previous, col, r + 1))
             U == {col \in 0..m : line[col] <= One * (r + 1)}
  <2>3. /\ line \in [0..m -> Int] /\ above \in [0..m -> Int]
        /\ line[0] = (r + 1) * Gap
        /\ \A col \in 1..m : Largest(line[col], above[col - 1] + pair(col), above[col] + Gap,
                                     line[col - 1] + Gap)
        /\ \A col \in 0..m : above[col] <= One * r
    <3>1. r + 1 # 0
      BY <2>1
    <3>2. line \in [0..m -> Int] /\ above \in [0..m -> Int]
      BY <1>2, <2>1
    <3>3. \A col \in 0..m : above[col] <= One * r
      BY <1>4
    <3> QED
      BY <2>2, <3>1, <3>2, <3>3 DEF RowIs
  <2>4. ASSUME NEW col \in 1..m PROVE pair(col) \in Int /\ pair(col) <= One
    <3>1. PassageScore(current, previous, col, r + 1) \in Shares
      BY <2>1, PassageScoreIsShare
    <3>2. /\ PassageScore(current, previous, col, r + 1) \in Int
          /\ PassageScore(current, previous, col, r + 1) <= One
          /\ Misfit \in Int /\ Misfit <= One
      BY <3>1, OneIsWhole DEF Shares, Misfit
    <3> QED
      BY <3>2 DEF PairValue
  <2> HIDE DEF line, above, pair
  <2>5. 0 \in U
    <3>1. (r + 1) * Gap <= One * (r + 1)
      BY <2>1 DEF Gap, One
    <3> QED
      BY <1>1, <2>3, <3>1
  <2>6. ASSUME NEW col \in 0..m - 1, col \in U PROVE col + 1 \in U
    <3>1. col + 1 \in 1..m /\ (col + 1) - 1 = col /\ col + 1 \in 0..m /\ col \in 0..m
      BY <1>1
    <3>2. line[col + 1] \in {above[col] + pair(col + 1), above[col + 1] + Gap, line[col] + Gap}
      <4>1. Largest(line[col + 1], above[(col + 1) - 1] + pair(col + 1), above[col + 1] + Gap,
                    line[(col + 1) - 1] + Gap)
        BY <2>3, <3>1
      <4> QED
        BY <3>1, <4>1 DEF Largest
    <3>3. /\ above[col] \in Int /\ above[col] <= One * r
          /\ above[col + 1] \in Int /\ above[col + 1] <= One * r
          /\ line[col] \in Int /\ line[col] <= One * (r + 1)
          /\ pair(col + 1) \in Int /\ pair(col + 1) <= One
      BY <2>3, <2>4, <2>6, <3>1
    <3>4. \A x, y, z, p \in Int :
            x <= 10000 * r /\ y <= 10000 * r /\ z <= 10000 * (r + 1) /\ p <= 10000
              => /\ x + p <= 10000 * (r + 1) /\ y - 800 <= 10000 * (r + 1)
                 /\ z - 800 <= 10000 * (r + 1)
      BY <2>1
    <3>5. /\ above[col] + pair(col + 1) <= One * (r + 1)
          /\ above[col + 1] + Gap <= One * (r + 1) /\ line[col] + Gap <= One * (r + 1)
      BY <3>3, <3>4, SMTT(30) DEF One, Gap
    <3> QED
      BY <3>1, <3>2, <3>5
  <2>7. 0..m \subseteq U
    <3> HIDE DEF U
    <3> QED
      BY <1>1, <2>5, <2>6, UpTo
  <2>8. \A col \in 0..m : line[col] <= One * (r + 1)
    BY <2>7
  <2> QED
    BY <2>1, <2>8 DEF line
<1>5. 0..n \subseteq S
  <2> HIDE DEF S
  <2> QED
    BY <1>1, <1>3, <1>4, UpTo
<1> QED
  BY <1>5 DEF dp

(* Each passage matched with itself is the best value there is.            *)
LEMMA DiagonalIsBest ==
  ASSUME WhollyAlike, NEW current \in Seq(Wordings), NEW i \in 1..Len(current)
  PROVE  Values(current, current)[i][i]
           = MatchValue(Values(current, current), One, i, i)
<1> DEFINE n == Len(current)
           dp == Values(current, current)
           S == {k \in 0..n : dp[k][k] = One * k}
<1>1. n \in Nat
  OBVIOUS
<1>2. /\ dp \in [0..n -> [0..n -> Int]]
      /\ RowIs(dp[0], current, current, <<>>, 0)
      /\ \A k \in 1..n : RowIs(dp[k], current, current, dp[k - 1], k)
  BY ValuesAre
<1>3. \A k \in 0..n : dp[k][k] <= One * k
  BY <1>1, ValuesAreBounded
<1> HIDE DEF dp
<1>4. PairValue(One) = One
  <2>1. One \in Int /\ PassageMinScore \in Int /\ PassageMinScore <= One
    BY OneIsWhole, AlignmentAssumption DEF Shares
  <2> QED
    BY <2>1 DEF PairValue
<1>5. ASSUME NEW k \in 1..n
      PROVE  dp[k - 1][k - 1] \in Int /\ dp[k][k] \in Int /\ dp[k - 1][k - 1] + One <= dp[k][k]
  <2>1. k - 1 \in 0..n /\ k \in 0..n /\ k # 0
    BY <1>1
  <2>2. PassageScore(current, current, k, k) = One
    BY ScoreOfItself
  <2>3. RowIs(dp[k], current, current, dp[k - 1], k)
    BY <1>2
  <2>4. dp[k - 1][k - 1] + PairValue(PassageScore(current, current, k, k)) <= dp[k][k]
    BY <2>1, <2>3 DEF RowIs, Largest
  <2>5. dp[k - 1] \in [0..n -> Int] /\ dp[k] \in [0..n -> Int]
    BY <1>2, <2>1
  <2> QED
    BY <1>4, <2>1, <2>2, <2>4, <2>5
<1>6. 0 \in S
  <2>1. dp[0][0] = 0 * Gap
    BY <1>2 DEF RowIs
  <2> QED
    BY <1>1, <2>1 DEF Gap, One
<1>7. ASSUME NEW k \in 0..n - 1, k \in S PROVE k + 1 \in S
  <2>1. k + 1 \in 1..n /\ (k + 1) - 1 = k /\ k + 1 \in 0..n /\ k \in Nat
    BY <1>1
  <2>2. dp[k][k] = One * k
    BY <1>7
  <2>3. dp[k + 1][k + 1] \in Int /\ dp[k][k] + One <= dp[k + 1][k + 1]
    <3>1. /\ dp[k + 1][k + 1] \in Int
          /\ dp[(k + 1) - 1][(k + 1) - 1] + One <= dp[k + 1][k + 1]
      BY <1>5, <2>1
    <3> QED
      BY <2>1, <3>1
  <2>4. dp[k + 1][k + 1] <= One * (k + 1)
    BY <1>3, <2>1
  <2>5. dp[k + 1][k + 1] = One * (k + 1)
    BY <2>1, <2>2, <2>3, <2>4 DEF One
  <2> QED
    BY <2>1, <2>5
<1>8. 0..n \subseteq S
  <2> HIDE DEF S
  <2> QED
    BY <1>1, <1>6, <1>7, UpTo
<1>9. dp[i][i] = One * i /\ dp[i - 1][i - 1] = One * (i - 1)
  <2>1. i \in 0..n /\ i - 1 \in 0..n
    BY <1>1
  <2> QED
    BY <1>8, <2>1
<1>10. dp[i][i] = dp[i - 1][i - 1] + One
  BY <1>9 DEF One
<1> QED
  BY <1>4, <1>10 DEF MatchValue, dp

(* A section compared with itself is matched passage by passage.           *)
LEMMA SameIsMatched ==
  ASSUME WhollyAlike, NEW current \in Seq(Wordings)
  PROVE  LET matches == AlignPassages(current, current)
         IN  \A k \in DOMAIN matches : matches[k].type = "matched"
<1> DEFINE m == Len(current)
           n == Len(current) + Len(current)
           W == Walks(current, current)
           dp == Values(current, current)
           AllMatched(w) == \A k \in DOMAIN w.matches : w.matches[k].type = "matched"
<1>1. m \in Nat /\ n \in Nat
  OBVIOUS
<1>2. PICK walk : /\ WalksBack(walk, current, current)
                  /\ AlignPassages(current, current) = walk[n].matches
  BY WalkExists
<1>3. /\ walk[0] = WalkStart(current, current)
      /\ \A k \in 1..n : walk[k] = StepBack(current, current, dp, walk[k - 1])
  BY <1>2 DEF WalksBack
<1>4. WalkStart(current, current) \in W
  <2>1. <<>> \in Seq(Entries(current, current)) /\ m \in 0..m
    BY <1>1
  <2> QED
    BY <2>1 DEF Walks, WalkStart
<1>5. ASSUME NEW w \in W, w.row = w.col, AllMatched(w)
      PROVE  LET v == StepBack(current, current, dp, w)
             IN  v \in W /\ v.row = v.col /\ AllMatched(v)
  <2> DEFINE v == StepBack(current, current, dp, w)
             r == w.row
  <2>1. v \in W
    BY <1>1, StepsBack
  <2>2. r \in 0..m /\ w.col = r /\ w.matches \in Seq(Entries(current, current))
    BY <1>5 DEF Walks
  <2>3. CASE r = 0
    BY <1>5, <2>1, <2>2, <2>3 DEF StepBack
  <2>4. CASE r # 0
    <3> DEFINE e == MatchedPair(r, r, One)
    <3>1. r \in 1..m
      BY <1>1, <2>2, <2>4
    <3>2. PassageScore(current, current, r, r) = One
      BY <3>1, ScoreOfItself
    <3>3. dp[r][r] = MatchValue(dp, One, r, r)
      BY <3>1, DiagonalIsBest
    <3>4. One >= PassageMinScore
      BY OneIsWhole, AlignmentAssumption DEF Shares
    <3> HIDE DEF dp
    <3>5. Move(dp, One, r, r) = "matched"
      BY <2>4, <3>3, <3>4 DEF Move
    <3>6. v = [row |-> r - 1, col |-> r - 1, matches |-> <<e>> \o w.matches]
      BY <2>2, <2>4, <3>2, <3>5 DEF StepBack
    <3>7. e \in Entries(current, current) /\ e.type = "matched"
      <4>1. One \in PassageScores(current, current)
        BY DEF PassageScores
      <4> QED
        BY <1>1, <3>1, <4>1 DEF MatchedPair, Entries
    <3> HIDE DEF e
    <3>8. /\ DOMAIN (<<e>> \o w.matches) = 1..Len(w.matches) + 1
          /\ DOMAIN w.matches = 1..Len(w.matches) /\ Len(w.matches) \in Nat
          /\ (<<e>> \o w.matches)[1] = e
          /\ \A k \in 2..Len(w.matches) + 1 : (<<e>> \o w.matches)[k] = w.matches[k - 1]
      BY <2>2, <3>7, Prepended
    <3>9. \A k \in DOMAIN (<<e>> \o w.matches) : (<<e>> \o w.matches)[k].type = "matched"
      <4>1. \A k \in 1..Len(w.matches) + 1 : k = 1 \/ k \in 2..Len(w.matches) + 1
        BY <3>8
      <4>2. \A k \in 2..Len(w.matches) + 1 : k - 1 \in 1..Len(w.matches)
        BY <3>8
      <4> QED
        BY <1>5, <3>7, <3>8, <4>1, <4>2, SMTT(30)
    <3> QED
      BY <2>1, <3>6, <3>9
  <2> QED
    BY <2>3, <2>4
<1> HIDE DEF dp, W, AllMatched
<1> DEFINE S == {k \in 0..n : walk[k] \in W /\ walk[k].row = walk[k].col /\ AllMatched(walk[k])}
<1>6. 0 \in S
  BY <1>1, <1>3, <1>4 DEF WalkStart, AllMatched
<1>7. ASSUME NEW k \in 0..n - 1, k \in S PROVE k + 1 \in S
  <2>1. k + 1 \in 1..n /\ (k + 1) - 1 = k /\ k + 1 \in 0..n
    BY <1>1
  <2>2. walk[k + 1] = StepBack(current, current, dp, walk[(k + 1) - 1])
    BY <1>3, <2>1
  <2> QED
    BY <1>5, <1>7, <2>1, <2>2
<1>8. 0..n \subseteq S
  <2> HIDE DEF S
  <2> QED
    BY <1>1, <1>6, <1>7, UpTo
<1>9. AllMatched(walk[n])
  <2>1. n \in 0..n
    BY <1>1
  <2> QED
    BY <1>8, <2>1
<1> QED
  BY <1>2, <1>9 DEF AllMatched

-----------------------------------------------------------------------------
(* The inputs a behaviour writes are of its task's alphabet.               *)
InputsFit ==
  /\ task \in DOMAIN Alphabet
  /\ left \in Seq(Alphabet[task].left) /\ right \in Seq(Alphabet[task].right)
  /\ Len(left) <= Bound[task].left

THEOREM InputsAreOfTheirTask == Spec => []InputsFit
<1>1. Init => InputsFit
  BY BoundAssumption DEF Init, InputsFit
<1>2. InputsFit /\ [Next]_vars => InputsFit'
  <2> SUFFICES ASSUME InputsFit, [Next]_vars PROVE InputsFit'
    OBVIOUS
  <2>1. ASSUME NEW element \in Alphabet[task].left, WriteLeft(element) PROVE InputsFit'
    <3>1. /\ left \in Seq(Alphabet[task].left) /\ Len(left) \in Nat
          /\ Bound[task].left \in Nat /\ Len(left) < Bound[task].left
      BY <2>1, BoundAssumption DEF WriteLeft, InputsFit
    <3>2. left' \in Seq(Alphabet[task].left) /\ Len(left') = Len(left) + 1
      BY <2>1, <3>1, AppendProperties DEF WriteLeft
    <3>3. Len(left') <= Bound[task].left
      BY <3>1, <3>2
    <3> QED
      BY <2>1, <3>2, <3>3 DEF WriteLeft, InputsFit
  <2>2. ASSUME NEW element \in Alphabet[task].right, WriteRight(element) PROVE InputsFit'
    BY <2>2, AppendProperties DEF WriteRight, InputsFit
  <2>3. CASE UNCHANGED vars
    BY <2>3 DEF vars, InputsFit
  <2> QED
    BY <2>1, <2>2, <2>3 DEF Next
<1> QED
  BY <1>1, <1>2, PTL DEF Spec

(***************************************************************************)
(* For any items, estimates and limits, what is planned as the items come  *)
(* is sound: all of them, once and in order, in allowed requests, as few   *)
(* as can be, and a longer plan keeps all batches of a shorter one but its *)
(* last (plan_batches, sync_plan).                                         *)
(***************************************************************************)
THEOREM PlansAreSound == Spec => []PlanIsSound
<1>1. InputsFit => PlanIsSound
  <2> SUFFICES ASSUME InputsFit, task = "plan" PROVE PlanIsSound
    BY DEF PlanIsSound
  <2> DEFINE n == Len(left)
             shorter == SubSeq(left, 1, n - 1)
  <2>1. left \in Seq(Items) /\ n \in Nat
    <3>1. left \in Seq(Alphabet["plan"].left) /\ Alphabet["plan"].left \subseteq Items
      BY AlphabetAssumption DEF InputsFit
    <3>2. DOMAIN left = 1..Len(left) /\ Len(left) \in Nat /\ \A i \in DOMAIN left : left[i] \in Items
      BY <3>1
    <3> QED
      BY <3>1, <3>2
  <2>2. HoldsInOrder(PlanBatches(left), left) /\ FewestBatches(PlanBatches(left), left)
    BY <2>1, PlansHoldEveryItem, PlansAreShortest
  <2>3. ASSUME left # <<>> PROVE KeepsBatches(PlanBatches(shorter), PlanBatches(left))
    <3>1. n \in 1..n /\ n - 1 \in Nat /\ left[n] \in Items
      BY <2>1, <2>3, EmptySeq, SMTT(30)
    <3>2. shorter \in Seq(Items) /\ Len(shorter) = n - 1
          /\ \A i \in 1..n - 1 : shorter[i] = left[i]
      <4>1. \A i \in 1..n - 1 : left[i] \in Items
        BY <2>1
      <4>2. /\ shorter \in Seq(Items)
            /\ Len(shorter) = IF 1 <= n - 1 THEN (n - 1) - 1 + 1 ELSE 0
            /\ \A i \in 1..(n - 1) - 1 + 1 : shorter[i] = left[1 + i - 1]
        BY <3>1, <4>1, SubSeqProperties
      <4>3. /\ (n - 1) - 1 + 1 = n - 1 /\ (IF 1 <= n - 1 THEN (n - 1) - 1 + 1 ELSE 0) = n - 1
            /\ \A i \in 1..n - 1 : 1 + i - 1 = i
        BY <3>1
      <4> HIDE DEF shorter
      <4> QED
        BY <4>2, <4>3
    <3>3. Append(shorter, left[n]) = left
      <4> DEFINE more == Append(shorter, left[n])
      <4>1. /\ more \in Seq(Items) /\ Len(more) = n
            /\ \A i \in 1..n - 1 : more[i] = shorter[i]
            /\ more[n] = left[n]
        BY <3>1, <3>2, AppendProperties
      <4> HIDE DEF more, shorter
      <4>2. \A i \in 1..n : more[i] = left[i]
        <5>1. \A i \in 1..n : i \in 1..n - 1 \/ i = n
          BY <2>1
        <5> QED
          BY <3>2, <4>1, <5>1
      <4>3. more = left
        BY <2>1, <4>1, <4>2, SeqEqual
      <4> QED
        BY <4>3 DEF more
    <3> HIDE DEF shorter
    <3>4. KeepsBatches(PlanBatches(shorter), PlanBatches(Append(shorter, left[n])))
      BY <3>1, <3>2, PlansKeepTheirBatches
    <3> QED
      BY <3>3, <3>4
  <2> QED
    BY <2>2, <2>3 DEF PlanIsSound
<1> QED
  BY <1>1, InputsAreOfTheirTask, PTL

(***************************************************************************)
(* Whatever texts score, as long as each is wholly like itself, whatever   *)
(* the weights and thresholds: sections and passages are matched soundly,  *)
(* and a section that did not change passage by passage                    *)
(* (match_sections, align_passages).                                       *)
(***************************************************************************)
THEOREM AlignmentsAreSound ==
  ASSUME WhollyAlike
  PROVE  Spec => []AlignmentIsSound
<1>1. InputsFit => AlignmentIsSound
  <2> SUFFICES ASSUME InputsFit PROVE AlignmentIsSound
    OBVIOUS
  <2>1. ASSUME task = "sections" PROVE SectionsFit(MatchSections(left, right), left, right)
    <3> DEFINE T == Alphabet["sections"].left \cup Alphabet["sections"].right
    <3>1. left \in Seq(Alphabet["sections"].left) /\ right \in Seq(Alphabet["sections"].right)
      BY <2>1 DEF InputsFit
    <3>2. left \in Seq(T) /\ right \in Seq(T)
      BY <3>1
    <3>3. /\ \A i \in 1..Len(left) : left[i] \in T
          /\ \A i \in 1..Len(right) : right[i] \in T
      BY <3>2
    <3>4. Worded(left) /\ Worded(right)
      BY <3>3, AlphabetAssumption DEF Worded
    <3> HIDE DEF T
    <3> QED
      BY <3>2, <3>4, SectionsAreMatched
  <2>2. ASSUME task = "passages" PROVE PassagesAligned
    <3>1. left \in Seq(Wordings) /\ right \in Seq(Wordings)
      <4>1. /\ left \in Seq(Alphabet["passages"].left) /\ right \in Seq(Alphabet["passages"].right)
            /\ Alphabet["passages"].left \subseteq Wordings
            /\ Alphabet["passages"].right \subseteq Wordings
        BY <2>2, AlphabetAssumption DEF InputsFit
      <4> QED
        BY <4>1
    <3>2. PassagesFit(AlignPassages(left, right), left, right)
      BY <3>1, PassagesAreAligned
    <3>3. left = right => \A k \in DOMAIN AlignPassages(left, right) :
                            AlignPassages(left, right)[k].type = "matched"
      BY <3>1, SameIsMatched
    <3> QED
      BY <3>2, <3>3 DEF PassagesAligned
  <2> QED
    BY <2>1, <2>2 DEF AlignmentIsSound
<1> QED
  BY <1>1, InputsAreOfTheirTask, PTL

-----------------------------------------------------------------------------
(* The change of a pair of passages.                                       *)

LEMMA ToSetIsFinite ==
  ASSUME NEW s, NEW n \in Nat, DOMAIN s = 1..n
  PROVE  IsFiniteSet(ToSet(s))
<1> DEFINE f == [i \in 1..n |-> s[i]]
<1>1. f \in Surjection(1..n, ToSet(s))
  <2>1. \A i \in 1..n : s[i] \in ToSet(s)
    BY DEF ToSet
  <2>2. f \in [1..n -> ToSet(s)]
    BY <2>1
  <2>3. \A x \in ToSet(s) : \E i \in 1..n : f[i] = x
    BY DEF ToSet
  <2> HIDE DEF f
  <2> QED
    BY <2>2, <2>3 DEF Surjection
<1>2. IsFiniteSet(1..n)
  BY FS_Interval
<1> QED
  BY <1>1, <1>2, FS_Surjection

(* What was added one way was removed the other.                           *)
LEMMA SignalsMirror ==
  ASSUME NEW previous, NEW current
  PROVE  LET there == Signals(previous, current)  back == Signals(current, previous)
         IN  /\ there.normalizedEqual <=> back.normalizedEqual
             /\ Strengthens(there) => Weakens(back)
<1> DEFINE there == Signals(previous, current)
           back == Signals(current, previous)
<1>1. /\ there.normalizedEqual = (Normalized(previous) = Normalized(current))
      /\ back.normalizedEqual = (Normalized(current) = Normalized(previous))
  BY DEF Signals
<1>2. /\ there.uncertainty.removed = back.uncertainty.added
      /\ there.commitment.added = back.commitment.removed
      /\ there.negation.removed = back.negation.added
      /\ there.risk.removed = back.risk.added
  BY DEF Signals
<1> HIDE DEF there, back
<1>3. there.normalizedEqual <=> back.normalizedEqual
  BY <1>1
<1>4. Strengthens(there) => Weakens(back)
  BY <1>2 DEF Strengthens, Weakens
<1> QED
  BY <1>3, <1>4 DEF there, back

LEMMA WholeIsNat == Whole \in Nat \ {0}
  BY DEF Whole

LEMMA LexicalIsShare ==
  ASSUME NEW previous, NEW current, NEW m \in Nat, NEW n \in Nat,
         DOMAIN WordsOf(previous) = 1..m, DOMAIN WordsOf(current) = 1..n
  PROVE  LexicalSimilarity(previous, current) \in 0..Whole
<1> DEFINE before == ToSet(Normalized(previous))
           now == ToSet(Normalized(current))
           all == Cardinality(before \cup now)
           both == Cardinality(before \cap now)
<1>1. IsFiniteSet(before) /\ IsFiniteSet(now)
  <2>1. DOMAIN Normalized(previous) = 1..m /\ DOMAIN Normalized(current) = 1..n
    BY DEF Normalized
  <2> QED
    BY <2>1, ToSetIsFinite
<1> HIDE DEF before, now
<1>2. LexicalSimilarity(previous, current)
        = IF before \cup now = {} THEN Whole ELSE (Whole * both) \div all
  BY DEF LexicalSimilarity, before, now
<1>3. CASE before \cup now = {}
  BY <1>2, <1>3, WholeIsNat
<1>4. CASE before \cup now # {}
  <2>1. IsFiniteSet(before \cup now)
    BY <1>1, FS_Union
  <2>2. all \in Nat /\ all # 0
    BY <1>4, <2>1, FS_CardinalityType, FS_EmptySet
  <2>3. both \in Nat /\ both <= all
    <3>1. before \cap now \in SUBSET (before \cup now)
      OBVIOUS
    <3>2. IsFiniteSet(before \cap now) /\ both <= all
      BY <2>1, <3>1, FS_Subset
    <3> QED
      BY <3>2, FS_CardinalityType
  <2> HIDE DEF all, both
  <2>4. \A a \in Nat, b \in Nat \ {0} : a \div b \in Nat /\ b * (a \div b) <= a
    OBVIOUS
  <2> DEFINE q == (Whole * both) \div all
  <2>5. q \in Nat /\ all * q <= Whole * both
    <3>1. Whole * both \in Nat
      BY <2>3 DEF Whole
    <3> QED
      BY <2>2, <2>4, <3>1
  <2> HIDE DEF q
  <2>6. q <= Whole
    <3>1. all * q <= 10000 * all
      BY <2>2, <2>3, <2>5 DEF Whole
    <3>2. q <= 10000
      BY <2>2, <2>5, <3>1
    <3> QED
      BY <3>2 DEF Whole
  <2>7. q \in 0..Whole
    BY <2>5, <2>6, WholeIsNat
  <2> QED
    BY <1>2, <1>4, <2>7 DEF q
<1> QED
  BY <1>3, <1>4

(* A weight times a share is at most the weight times one.                 *)
LEMMA WeightTimesShare ==
  ASSUME NEW x \in Nat, NEW y \in 0..Whole
  PROVE  x * y \in Nat /\ x * y <= 10000 * x
<1>1. y \in Nat /\ Whole - y \in Nat
  BY WholeIsNat
<1>2. x * y \in Nat /\ x * (Whole - y) \in Nat
  BY <1>1
<1>3. x * (Whole - y) = x * Whole - x * y
  BY <1>1, WholeIsNat
<1> QED
  BY <1>1, <1>2, <1>3 DEF Whole

(* A weighted sum of shares is a share, when the weights sum to one.       *)
Weighted(w, p, q, r, s, t) ==
  (w.novelty * p + w.risk * q + w.uncertainty * r + w.section * s + w.numeric * t) \div Whole
LEMMA WeightedShares ==
  ASSUME NEW p \in 0..Whole, NEW q \in 0..Whole, NEW r \in 0..Whole, NEW s \in 0..Whole,
         NEW t \in 0..Whole
  PROVE  Weighted(MaterialityWeights, p, q, r, s, t) \in 0..Whole
<1> DEFINE a == MaterialityWeights.novelty
           b == MaterialityWeights.risk
           c == MaterialityWeights.uncertainty
           d == MaterialityWeights.section
           e == MaterialityWeights.numeric
           sum == a * p + b * q + c * r + d * s + e * t
<1>1. a \in Nat /\ b \in Nat /\ c \in Nat /\ d \in Nat /\ e \in Nat /\ a + b + c + d + e = Whole
  BY MaterialityAssumption
<1>2. Weighted(MaterialityWeights, p, q, r, s, t) = sum \div Whole
  BY DEF Weighted
<1> HIDE DEF a, b, c, d, e
<1>3. sum \in Nat /\ sum <= 10000 * (a + b + c + d + e)
  <2> DEFINE v1 == a * p
             v2 == b * q
             v3 == c * r
             v4 == d * s
             v5 == e * t
  <2>1. /\ v1 \in Nat /\ v1 <= 10000 * a /\ v2 \in Nat /\ v2 <= 10000 * b
        /\ v3 \in Nat /\ v3 <= 10000 * c /\ v4 \in Nat /\ v4 <= 10000 * d
    BY <1>1, WeightTimesShare
  <2>2. v5 \in Nat /\ v5 <= 10000 * e
    BY <1>1, WeightTimesShare
  <2>3. sum = v1 + v2 + v3 + v4 + v5
    BY SMTT(30)
  <2> HIDE DEF v1, v2, v3, v4, v5, sum
  <2> QED
    BY <1>1, <2>1, <2>2, <2>3
<1> HIDE DEF sum
<1>4. sum <= Whole * Whole
  BY <1>1, <1>3, SMTT(30) DEF Whole
<1>5. \A x \in Nat : x <= 100000000 => x \div 10000 \in Nat /\ x \div 10000 <= 10000
  OBVIOUS
<1>6. sum \div Whole \in Nat /\ sum \div Whole <= Whole
  BY <1>3, <1>4, <1>5 DEF Whole
<1>7. sum \div Whole \in 0..Whole
  BY <1>6, WholeIsNat
<1> QED
  BY <1>2, <1>7

LEMMA MaterialityIsShare ==
  ASSUME NEW label, NEW risk \in {"liquidity", "revenue_guidance", "litigation", "other"},
         NEW previous, NEW current, NEW section, NEW m \in Nat, NEW n \in Nat,
         DOMAIN WordsOf(previous) = 1..m, DOMAIN WordsOf(current) = 1..n
  PROVE  Materiality(label, risk, previous, current, section) \in 0..Whole
<1> DEFINE signals == Signals(previous, current)
           novelty == Novelty(label, previous, current)
           weight == RiskWeight[risk]
           doubt == Doubt(signals)
           prominence == Prominence(section)
           numeric == IF signals.numericChanged THEN Whole ELSE 0
<1>2. /\ 0 \in 0..Whole /\ 2500 \in 0..Whole /\ 3500 \in 0..Whole /\ 5000 \in 0..Whole
      /\ 7500 \in 0..Whole /\ 8000 \in 0..Whole /\ 8500 \in 0..Whole /\ Whole \in 0..Whole
  <2>1. \A x, y \in Nat : x <= y => x \in 0..y
    OBVIOUS
  <2>2. /\ 2500 <= Whole /\ 3500 <= Whole /\ 5000 <= Whole /\ 7500 <= Whole
        /\ 8000 <= Whole /\ 8500 <= Whole /\ 0 <= Whole /\ Whole <= Whole
    BY DEF Whole
  <2> QED
    BY <2>1, <2>2, WholeIsNat
<1>3. novelty \in 0..Whole
  <2>1. LexicalSimilarity(previous, current) \in 0..Whole
    BY LexicalIsShare
  <2>2. Whole - LexicalSimilarity(previous, current) \in 0..Whole
    BY <2>1, WholeIsNat
  <2> QED
    BY <1>2, <2>2 DEF Novelty
<1>4. weight \in 0..Whole
  BY <1>2 DEF RiskWeight
<1>5. doubt \in 0..Whole /\ prominence \in 0..Whole /\ numeric \in 0..Whole
  BY <1>2 DEF Doubt, Prominence
<1>6. Materiality(label, risk, previous, current, section)
        = Weighted(MaterialityWeights, novelty, weight, doubt, prominence, numeric)
  BY DEF Materiality, Weighted
<1> HIDE DEF signals, novelty, weight, doubt, prominence, numeric
<1> QED
  BY <1>3, <1>4, <1>5, <1>6, WeightedShares

LEMMA AbsenceShows ==
  ASSUME NEW words, NEW side \in Sides(words)
  PROVE  WordsOf(side) = words
  BY DEF Sides, WordsOf, Absent

(***************************************************************************)
(* For any two passages, one of them possibly absent, any vocabulary and   *)
(* any weights that sum to one: the change found has evidence on the sides *)
(* its label needs, equal texts are not a material change, materiality is  *)
(* a share, and the change read the other way is the opposite              *)
(* (classify, validate_evidence, build_materiality_components).            *)
(***************************************************************************)
THEOREM LabelsFit == Spec => []LabelsFitTheirPair
<1>1. InputsFit => LabelsFitTheirPair
  <2> SUFFICES ASSUME InputsFit,
                      NEW previous \in Sides(left), NEW current \in Sides(right),
                      NEW section \in Sections, previous # Absent \/ current # Absent
               PROVE  LET change == DetectChange(previous, current, section)
                          back == DetectChange(current, previous, section)
                      IN  /\ change.label \in Labels
                          /\ ValidEvidence(change.label, previous, current)
                          /\ change.materiality \in 0..Whole
                          /\ previous = current => change.label = "no_material_change"
                          /\ change.label = "added" <=> back.label = "removed"
                          /\ change.label = "strengthened" => back.label = "weakened"
    BY DEF LabelsFitTheirPair
  <2> DEFINE change == DetectChange(previous, current, section)
             back == DetectChange(current, previous, section)
             equal == Signals(previous, current).normalizedEqual
  <2>1. /\ DOMAIN WordsOf(previous) = 1..Len(left) /\ Len(left) \in Nat
        /\ DOMAIN WordsOf(current) = 1..Len(right) /\ Len(right) \in Nat
    <3>1. WordsOf(previous) = left /\ WordsOf(current) = right
      BY AbsenceShows
    <3> QED
      BY <3>1 DEF InputsFit
  <2>2. change.materiality \in 0..Whole
    <3>1. ASSUME NEW side
          PROVE  ClassifyRisk(side, section)
                   \in {"liquidity", "revenue_guidance", "litigation", "other"}
      BY DEF ClassifyRisk
    <3>2. ASSUME NEW label,
                 NEW risk \in {"liquidity", "revenue_guidance", "litigation", "other"}
          PROVE  Materiality(label, risk, previous, current, section) \in 0..Whole
      BY <2>1, MaterialityIsShare
    <3> QED
      BY <3>1, <3>2 DEF DetectChange, DeterministicNoChange, BuildChange, Change
  <2>3. /\ equal <=> Signals(current, previous).normalizedEqual
        /\ Strengthens(Signals(previous, current)) => Weakens(Signals(current, previous))
    BY SignalsMirror
  <2>4. change.label = IF SettledLocally(previous, current) THEN "no_material_change"
                       ELSE LabelOf(previous, current)
    BY DEF DetectChange, DeterministicNoChange, BuildChange, Change
  <2>5. back.label = IF SettledLocally(current, previous) THEN "no_material_change"
                     ELSE LabelOf(current, previous)
    BY DEF DetectChange, DeterministicNoChange, BuildChange, Change
  <2>6. previous = current => equal
    BY DEF Signals
  <2> HIDE DEF change, back, equal
  <2>7. CASE previous = Absent
    <3>1. /\ ~ SettledLocally(previous, current) /\ ~ SettledLocally(current, previous)
          /\ LabelOf(previous, current) = "added" /\ LabelOf(current, previous) = "removed"
      BY <2>7 DEF SettledLocally, LabelOf
    <3>2. change.label = "added" /\ back.label = "removed"
      BY <2>4, <2>5, <3>1
    <3> QED
      BY <2>2, <2>7, <3>2 DEF change, back, Labels, ValidEvidence
  <2>8. CASE previous # Absent /\ current = Absent
    <3>1. /\ ~ SettledLocally(previous, current) /\ ~ SettledLocally(current, previous)
          /\ LabelOf(previous, current) = "removed" /\ LabelOf(current, previous) = "added"
      BY <2>8 DEF SettledLocally, LabelOf
    <3>2. change.label = "removed" /\ back.label = "added"
      BY <2>4, <2>5, <3>1
    <3> QED
      BY <2>2, <2>8, <3>2 DEF change, back, Labels, ValidEvidence
  <2>9. CASE previous # Absent /\ current # Absent /\ equal
    <3>1. SettledLocally(previous, current) /\ SettledLocally(current, previous)
      BY <2>3, <2>9 DEF SettledLocally, equal
    <3>2. change.label = "no_material_change" /\ back.label = "no_material_change"
      BY <2>4, <2>5, <3>1
    <3> QED
      BY <2>2, <2>9, <3>2 DEF change, back, Labels, ValidEvidence
  <2>10. CASE previous # Absent /\ current # Absent /\ ~ equal
    <3>1. ~ SettledLocally(previous, current) /\ ~ SettledLocally(current, previous)
      BY <2>3, <2>10 DEF SettledLocally, equal
    <3>2. /\ LabelOf(previous, current)
               = IF Weakens(Signals(previous, current)) THEN "weakened"
                 ELSE IF Strengthens(Signals(previous, current)) THEN "strengthened"
                 ELSE "no_material_change"
          /\ LabelOf(current, previous)
               = IF Weakens(Signals(current, previous)) THEN "weakened"
                 ELSE IF Strengthens(Signals(current, previous)) THEN "strengthened"
                 ELSE "no_material_change"
      BY <2>3, <2>10 DEF LabelOf, equal
    <3>3. /\ change.label \in {"weakened", "strengthened", "no_material_change"}
          /\ back.label \in {"weakened", "strengthened", "no_material_change"}
          /\ change.label = "strengthened" => back.label = "weakened"
      BY <2>3, <2>4, <2>5, <3>1, <3>2
    <3> QED
      BY <2>2, <2>6, <2>10, <3>3 DEF change, back, Labels, ValidEvidence
  <2> QED
    BY <2>7, <2>8, <2>9, <2>10
<1> QED
  BY <1>1, InputsAreOfTheirTask, PTL

-----------------------------------------------------------------------------
(* Rankings.                                                               *)

(* No two have one place, no place is without one, and the higher of two   *)
(* has the smaller place.                                                  *)
LEMMA PlacesAreAll ==
  ASSUME NEW S, S \subseteq Nat, IsFiniteSet(S), NEW scores \in [S -> Int]
  PROVE  /\ Cardinality(S) \in Nat
         /\ Standing(scores) \in Bijection(S, 1..Cardinality(S))
         /\ \A i, j \in S : scores[j] > scores[i] \/ (scores[j] = scores[i] /\ j < i)
                              => Standing(scores)[j] < Standing(scores)[i]
<1> DEFINE above(i) == Above(scores, i)
           p == Standing(scores)
           n == Cardinality(S)
<1>1. \A i \in S : above(i) = {j \in S : \/ scores[j] > scores[i]
                                         \/ (scores[j] = scores[i] /\ j < i)}
  BY DEF Above
<1>2. n \in Nat
  BY FS_CardinalityType
<1>3. ASSUME NEW i \in S
      PROVE  /\ above(i) \in SUBSET S /\ IsFiniteSet(above(i))
             /\ Cardinality(above(i)) \in 0..n - 1
  <2>1. above(i) \in SUBSET S /\ i \notin above(i)
    <3>1. scores[i] \in Int
      OBVIOUS
    <3> QED
      BY <1>1, <3>1
  <2>2. IsFiniteSet(above(i)) /\ Cardinality(above(i)) <= n
    BY <1>2, <2>1, FS_Subset
  <2>3. Cardinality(above(i)) # n
    BY <1>2, <2>1, FS_Subset
  <2>4. Cardinality(above(i)) \in Nat
    BY <2>2, FS_CardinalityType
  <2> HIDE DEF above, n
  <2> QED
    BY <1>2, <2>1, <2>2, <2>3, <2>4
<1>4. ASSUME NEW i \in S, NEW j \in S, j \in above(i)
      PROVE  Cardinality(above(j)) < Cardinality(above(i))
  <2>1. above(j) \in SUBSET above(i)
    <3>1. scores[i] \in Int /\ scores[j] \in Int /\ \A k \in S : scores[k] \in Int
      OBVIOUS
    <3>2. \/ scores[j] > scores[i]
          \/ scores[j] = scores[i] /\ j < i
      BY <1>1, <1>4
    <3>3. ASSUME NEW k \in above(j) PROVE k \in above(i)
      <4>1. k \in S /\ (scores[k] > scores[j] \/ (scores[k] = scores[j] /\ k < j))
        BY <1>1
      <4>2. k \in Nat /\ i \in Nat /\ j \in Nat
        BY <4>1
      <4>3. scores[k] > scores[i] \/ (scores[k] = scores[i] /\ k < i)
        BY <3>1, <3>2, <4>1, <4>2
      <4> QED
        BY <1>1, <4>1, <4>3
    <3> QED
      BY <3>3
  <2>2. j \notin above(j)
    <3>1. scores[j] \in Int
      OBVIOUS
    <3> QED
      BY <1>1, <3>1
  <2>3. Cardinality(above(j)) <= Cardinality(above(i))
        /\ Cardinality(above(j)) # Cardinality(above(i))
    BY <1>3, <1>4, <2>1, <2>2, FS_Subset
  <2>4. Cardinality(above(j)) \in Nat /\ Cardinality(above(i)) \in Nat
    BY <1>3, <1>2
  <2> HIDE DEF above
  <2> QED
    BY <2>3, <2>4
<1>5. p \in [S -> 1..n] /\ \A i \in S : p[i] = 1 + Cardinality(above(i))
  <2>1. \A i \in S : 1 + Cardinality(above(i)) \in 1..n
    <3> HIDE DEF above, n
    <3> QED
      BY <1>2, <1>3
  <2> QED
    BY <2>1 DEF Standing
<1>6. ASSUME NEW i \in S, NEW j \in S, p[i] = p[j] PROVE i = j
  <2>1. 1 + Cardinality(above(i)) = 1 + Cardinality(above(j))
    BY <1>5, <1>6
  <2>2. Cardinality(above(i)) \in Nat /\ Cardinality(above(j)) \in Nat
    BY <1>2, <1>3
  <2>3. j \notin above(i) /\ i \notin above(j)
    <3> HIDE DEF above
    <3> QED
      BY <1>4, <2>1, <2>2
  <2>4. scores[i] \in Int /\ scores[j] \in Int /\ i \in Nat /\ j \in Nat
    OBVIOUS
  <2> QED
    BY <1>1, <2>3, <2>4
<1>7. ASSUME NEW i \in S, NEW j \in S,
             scores[j] > scores[i] \/ (scores[j] = scores[i] /\ j < i)
      PROVE  p[j] < p[i]
  <2>1. j \in above(i)
    BY <1>1, <1>7
  <2>2. Cardinality(above(i)) \in Nat /\ Cardinality(above(j)) \in Nat
    BY <1>2, <1>3
  <2> HIDE DEF above, p
  <2> QED
    BY <1>4, <1>5, <2>1, <2>2
<1> HIDE DEF p
<1>8. p \in Injection(S, 1..n)
  BY <1>5, <1>6 DEF Injection, IsInjective
<1>9. p \in Surjection(S, 1..n)
  <2>1. IsFiniteSet(1..n) /\ Cardinality(1..n) = n
    BY <1>2, FS_Interval
  <2> QED
    BY <1>8, <2>1, FS_Injection
<1> QED
  BY <1>2, <1>7, <1>8, <1>9 DEF Bijection, p

At(scores, k) == CHOOSE i \in DOMAIN scores : Standing(scores)[i] = k

(* Each has a place of its own, and each place one of them.                *)
LEMMA PlacesMatch ==
  ASSUME NEW S, S \subseteq Nat, IsFiniteSet(S), NEW scores \in [S -> Int]
  PROVE  /\ Cardinality(S) \in Nat
         /\ \A k \in 1..Cardinality(S) : At(scores, k) \in S /\ Standing(scores)[At(scores, k)] = k
         /\ \A i \in S : /\ Standing(scores)[i] \in 1..Cardinality(S)
                         /\ At(scores, Standing(scores)[i]) = i
<1> DEFINE p == Standing(scores)
<1>1. /\ p \in [S -> 1..Cardinality(S)] /\ Cardinality(S) \in Nat
      /\ \A i, j \in S : p[i] = p[j] => i = j
      /\ \A k \in 1..Cardinality(S) : \E i \in S : p[i] = k
  BY PlacesAreAll DEF Bijection, Injection, Surjection, IsInjective
<1>2. DOMAIN scores = S
  OBVIOUS
<1> HIDE DEF p
<1>3. \A k : At(scores, k) = CHOOSE i \in S : p[i] = k
  BY <1>2 DEF At, p
<1>4. ASSUME NEW k \in 1..Cardinality(S) PROVE At(scores, k) \in S /\ p[At(scores, k)] = k
  BY <1>1, <1>3
<1>5. ASSUME NEW i \in S PROVE p[i] \in 1..Cardinality(S) /\ At(scores, p[i]) = i
  BY <1>1, <1>3
<1> QED
  BY <1>1, <1>4, <1>5 DEF p

LEMMA RankedKeeps ==
  ASSUME NEW n \in Nat, NEW s, DOMAIN s = 1..n, NEW scores \in [1..n -> Int]
  PROVE  DOMAIN RankedBy(s, scores) = 1..n /\ ToSet(RankedBy(s, scores)) = ToSet(s)
<1> DEFINE p == Standing(scores)
           r == RankedBy(s, scores)
<1>1. IsFiniteSet(1..n) /\ Cardinality(1..n) = n /\ 1..n \subseteq Nat /\ DOMAIN scores = 1..n
  BY FS_Interval
<1>2. /\ \A k \in 1..n : At(scores, k) \in 1..n
      /\ \A i \in 1..n : p[i] \in 1..n /\ At(scores, p[i]) = i
  BY <1>1, PlacesMatch
<1>3. r = [k \in 1..n |-> s[At(scores, k)]]
  BY <1>1 DEF RankedBy, At
<1> HIDE DEF p, r
<1>4. ASSUME NEW k \in 1..n PROVE \E i \in 1..n : r[k] = s[i]
  BY <1>2, <1>3
<1>5. ASSUME NEW i \in 1..n PROVE \E k \in 1..n : r[k] = s[i]
  BY <1>2, <1>3
<1>6. DOMAIN r = 1..n
  BY <1>3
<1>7. ToSet(r) = {r[k] : k \in 1..n} /\ ToSet(s) = {s[i] : i \in 1..n}
  BY <1>6 DEF ToSet
<1>8. ASSUME NEW x \in ToSet(r) PROVE x \in ToSet(s)
  <2>1. PICK k \in 1..n : x = r[k]
    BY <1>7, <1>8
  <2> QED
    BY <1>4, <1>7, <2>1
<1>9. ASSUME NEW x \in ToSet(s) PROVE x \in ToSet(r)
  <2>1. PICK i \in 1..n : x = s[i]
    BY <1>7, <1>9
  <2> QED
    BY <1>5, <1>7, <2>1
<1>10. ToSet(r) = ToSet(s)
  BY <1>8, <1>9
<1> QED
  BY <1>6, <1>10 DEF r

(***************************************************************************)
(* A listing has findings of those stored, and has all of them when they   *)
(* fit its limit (list_findings).                                          *)
(***************************************************************************)
LEMMA ListingKeeps ==
  ASSUME NEW n \in Nat, NEW stored, DOMAIN stored = 1..n,
         \A i \in 1..n : stored[i].confidence \in Int
  PROVE  /\ ToSet(ListFindings(stored)) \subseteq ToSet(stored)
         /\ n <= FindingLimit => ToSet(ListFindings(stored)) = ToSet(stored)
         /\ ToSet(ListFindings(stored)) = {} => ListFindings(stored) = <<>>
<1> DEFINE scores == [i \in 1..n |-> stored[i].confidence]
           r == Ranked(stored, LAMBDA f : f.confidence)
           m == IF FindingLimit < n THEN FindingLimit ELSE n
<1>1. scores \in [1..n -> Int]
  OBVIOUS
<1>2. r = RankedBy(stored, scores)
  BY DEF Ranked, RankedAmong
<1> HIDE DEF scores, r
<1>3. DOMAIN r = 1..n /\ ToSet(r) = ToSet(stored)
  BY <1>1, <1>2, RankedKeeps
<1>4. r \in Seq(ToSet(stored)) /\ Len(r) = n
  <2>1. \A k \in 1..n : r[k] \in ToSet(stored)
    BY <1>3 DEF ToSet
  <2>2. r \in [1..n -> ToSet(stored)]
    BY <1>2, <1>3, <2>1 DEF RankedBy
  <2> QED
    BY <2>2
<1>5. m \in 0..n /\ (n <= FindingLimit => m = n)
  BY ReviewAssumption
<1> HIDE DEF m
<1>6. ListFindings(stored) = SubSeq(r, 1, m)
  BY <1>4 DEF ListFindings, Top, r, m
<1>7. SubSeq(r, 1, m) = [k \in 1..m |-> r[k]] /\ DOMAIN [k \in 1..m |-> r[k]] = 1..m
  BY <1>4, <1>5
<1>8. ToSet(ListFindings(stored)) = {r[k] : k \in 1..m}
  BY <1>6, <1>7 DEF ToSet
<1>9. ToSet(stored) = {r[k] : k \in 1..n}
  BY <1>3 DEF ToSet
<1>10. ToSet(ListFindings(stored)) = {} => m = 0
  <2>1. m # 0 => 1 \in 1..m
    BY <1>5
  <2>2. m # 0 => r[1] \in {r[k] : k \in 1..m}
    BY <2>1
  <2> QED
    BY <1>8, <2>2
<1>11. m = 0 => SubSeq(r, 1, m) = <<>>
  BY <1>4
<1> QED
  BY <1>5, <1>6, <1>8, <1>9, <1>10, <1>11

-----------------------------------------------------------------------------
(* The report.                                                             *)

LEMMA SwappedKeeps ==
  ASSUME NEW n \in Nat, NEW s, DOMAIN s = 1..n, Len(s) = n
  PROVE  DOMAIN Swapped(s) = 1..n /\ ToSet(Swapped(s)) = ToSet(s)
<1> DEFINE r == Swapped(s)
<1>1. r = [k \in 1..n |-> s[n + 1 - k]]
  BY DEF Swapped
<1> HIDE DEF r
<1>2. DOMAIN r = 1..n
  BY <1>1
<1>3. \A k \in 1..n : n + 1 - k \in 1..n /\ n + 1 - (n + 1 - k) = k
  OBVIOUS
<1>4. ASSUME NEW x \in ToSet(r) PROVE x \in ToSet(s)
  <2>1. PICK k \in 1..n : x = s[n + 1 - k]
    BY <1>1, <1>2, <1>4 DEF ToSet
  <2> QED
    BY <1>3, <2>1 DEF ToSet
<1>5. ASSUME NEW x \in ToSet(s) PROVE x \in ToSet(r)
  <2>1. PICK k \in 1..n : x = s[k]
    BY <1>5 DEF ToSet
  <2>2. n + 1 - k \in 1..n /\ r[n + 1 - k] = x
    BY <1>1, <1>3, <2>1
  <2> QED
    BY <1>2, <2>2 DEF ToSet
<1> QED
  BY <1>2, <1>4, <1>5 DEF r

LEMMA HighIsAsked ==
  ASSUME NEW severity \in {"high", "critical"}, severity = "critical" \/ MinSeverity # "critical"
  PROVE  SeverityOrder[severity] >= SeverityOrder[MinSeverity]
<1>1. MinSeverity \in {"low", "medium", "high", "critical"}
  BY ReviewAssumption DEF SeverityOrder
<1> QED
  BY <1>1 DEF SeverityOrder

(* Who is asked for some findings is asked for more of them.               *)
LEMMA MoreAreAsked ==
  ASSUME NEW few, NEW many, few # <<>> => many # <<>>, ToSet(few) \subseteq ToSet(many),
         ReviewPolicy(few)
  PROVE  ReviewPolicy(many)
<1>1. CASE RequireReviewForAll /\ few # <<>>
  BY <1>1 DEF ReviewPolicy
<1>2. CASE ~ (RequireReviewForAll /\ few # <<>>)
  <2>1. PICK f \in ToSet(few) : \/ f.type = "numerical_claim_contradiction"
                                \/ SeverityOrder[f.severity] >= SeverityOrder[MinSeverity]
                                \/ f.confidence < LowConfidence
    BY <1>2 DEF ReviewPolicy
  <2>2. f \in ToSet(many)
    OBVIOUS
  <2> QED
    BY <2>1, <2>2 DEF ReviewPolicy
<1> QED
  BY <1>1, <1>2

(* What is stored of the findings written.                                 *)
LEMMA KnownFindings ==
  ASSUME NEW s \in Seq(Alphabet["report"].left)
  PROVE  /\ DOMAIN Known(s) = 1..Len(s) /\ Len(Known(s)) = Len(s) /\ Len(s) \in Nat
         /\ \A i \in 1..Len(s) : Known(s)[i].confidence \in Int
<1>1. DOMAIN Known(s) = 1..Len(s) /\ Len(s) \in Nat
  BY DEF Known
<1>2. ASSUME NEW i \in 1..Len(s) PROVE Known(s)[i].confidence \in Int
  <2>1. s[i] \in Alphabet["report"].left
    OBVIOUS
  <2>2. \A f \in Alphabet["report"].left : "confidence" \in DOMAIN f /\ f.confidence \in 0..Whole
    BY AlphabetAssumption
  <2>3. "confidence" \in DOMAIN s[i] /\ s[i].confidence \in Int
    BY <2>1, <2>2, WholeIsNat
  <2>4. Known(s)[i] = [s[i] EXCEPT !.id = i]
    BY DEF Known
  <2>5. Known(s)[i].confidence = s[i].confidence
    BY <2>3, <2>4
  <2> QED
    BY <2>3, <2>5
<1>3. Len(Known(s)) = Len(s)
  BY <1>1 DEF Known
<1> QED
  BY <1>1, <1>2, <1>3

(* What is stored of the verdicts and changes written.                     *)
LEMMA KnownElements ==
  ASSUME NEW s \in Seq(Alphabet["report"].right), NEW k \in 1..Len(s)
  PROVE  /\ Known(s)[k] \in ToSet(Known(s))
         /\ Known(s)[k].kind = s[k].kind
         /\ \/ s[k].kind = "verdict" /\ Known(s)[k].status = s[k].status
            \/ /\ s[k].kind = "change" /\ Known(s)[k].label = s[k].label
               /\ s[k].label \in Labels \cup {"requires_review"}
<1>1. DOMAIN Known(s) = 1..Len(s) /\ Known(s)[k] = [s[k] EXCEPT !.id = k]
  BY DEF Known
<1>2. s[k] \in Alphabet["report"].right
  OBVIOUS
<1>3. \/ {"id", "kind", "status"} \subseteq DOMAIN s[k] /\ s[k].kind = "verdict"
      \/ /\ {"id", "kind", "label"} \subseteq DOMAIN s[k] /\ s[k].kind = "change"
         /\ s[k].label \in Labels \cup {"requires_review"}
  BY <1>2, AlphabetAssumption
<1>4. CASE {"id", "kind", "status"} \subseteq DOMAIN s[k] /\ s[k].kind = "verdict"
  BY <1>1, <1>4 DEF ToSet
<1>5. CASE /\ {"id", "kind", "label"} \subseteq DOMAIN s[k] /\ s[k].kind = "change"
           /\ s[k].label \in Labels \cup {"requires_review"}
  BY <1>1, <1>5 DEF ToSet
<1> QED
  BY <1>3, <1>4, <1>5

(* Of some findings, those a listing has and the review policy.            *)
LEMMA ReviewIsCovered ==
  ASSUME NEW s \in Seq(Alphabet["report"].left), NEW verdicts, NEW changes, NEW claimReview
  PROVE  ReviewCovers(Known(s), GenerateReport(Known(s), verdicts, changes,
                                               ReviewPolicy(ListFindings(Known(s))), claimReview))
<1> DEFINE stored == Known(s)
           n == Len(s)
           listed == ListFindings(stored)
           asked == ReviewPolicy(listed)
           report == GenerateReport(stored, verdicts, changes, asked, claimReview)
<1>1. /\ DOMAIN stored = 1..n /\ Len(stored) = n /\ n \in Nat
      /\ \A i \in 1..n : stored[i].confidence \in Int
  BY KnownFindings
<1>2. report.highPriority = HighPriority(listed)
  BY DEF GenerateReport
<1> HIDE DEF stored, report
<1>3. /\ ToSet(listed) \subseteq ToSet(stored)
      /\ n <= FindingLimit => ToSet(listed) = ToSet(stored)
      /\ ToSet(listed) = {} => listed = <<>>
  BY <1>1, ListingKeeps
<1> HIDE DEF listed
<1>4. report.highPriority \subseteq NamedForReview(listed)
  BY <1>2 DEF HighPriority, NamedForReview, ReviewPriority
<1>5. ASSUME ~ asked
      PROVE  /\ \A f \in report.highPriority : f.severity # "critical"
             /\ MinSeverity # "critical" => report.highPriority = {}
             /\ \A f \in ToSet(listed) : f.confidence >= LowConfidence
  <2>1. \A f \in ToSet(listed) : /\ ~ (SeverityOrder[f.severity] >= SeverityOrder[MinSeverity])
                                 /\ ~ (f.confidence < LowConfidence)
    BY <1>5 DEF ReviewPolicy
  <2>2. \A f \in ToSet(listed) : /\ f.severity # "critical"
                                 /\ MinSeverity # "critical" => f.severity # "high"
    BY <2>1, HighIsAsked
  <2>3. \A f \in ToSet(listed) : f.confidence \in Int
    BY <1>1, <1>3 DEF ToSet
  <2>4. LowConfidence \in Int
    BY ReviewAssumption
  <2> QED
    BY <1>2, <2>1, <2>2, <2>3, <2>4 DEF HighPriority
<1>6. ASSUME Len(stored) < FindingLimit, NEW more \in Alphabet["report"].left, asked
      PROVE  ReviewPolicy(ListFindings(Append(stored, more)))
  <2> DEFINE A == ToSet(stored) \cup {more}
             longer == Append(stored, more)
             list == ListFindings(longer)
  <2>1. stored \in Seq(A) /\ more \in A
    <3>1. stored \in [1..n -> A]
      <4>1. \A i \in 1..n : stored[i] \in A
        BY <1>1 DEF ToSet
      <4>2. stored = [i \in 1..n |-> stored[i]]
        BY <1>1 DEF stored, Known
      <4> HIDE DEF A
      <4> QED
        BY <4>1, <4>2
    <3> QED
      BY <1>1, <3>1
  <2>2. /\ DOMAIN longer = 1..n + 1 /\ ToSet(longer) = ToSet(stored) \cup {more}
        /\ \A i \in 1..n : longer[i] = stored[i]
        /\ longer[n + 1] = more
    <3>1. ToSet(longer) = ToSet(stored) \cup {more}
      BY <2>1, ToSetAppend
    <3> HIDE DEF A
    <3>2. /\ DOMAIN longer = DOMAIN stored \cup {Len(stored) + 1}
          /\ \A k \in DOMAIN stored : longer[k] = stored[k]
          /\ longer[Len(stored) + 1] = more
      BY <2>1, Appended
    <3> HIDE DEF longer
    <3>3. 1..n + 1 = (1..n) \cup {n + 1}
      BY <1>1
    <3> QED
      BY <1>1, <3>1, <3>2, <3>3
  <2> HIDE DEF A, longer
  <2>3. \A f \in Alphabet["report"].left : f.confidence \in 0..Whole
    BY AlphabetAssumption
  <2>4. more.confidence \in Int
    BY <2>3, WholeIsNat
  <2>5. \A i \in 1..n + 1 : longer[i].confidence \in Int
    <3>1. \A i \in 1..n + 1 : i \in 1..n \/ i = n + 1
      BY <1>1
    <3> QED
      BY <1>1, <2>2, <2>4, <3>1
  <2>6. n + 1 \in Nat /\ n + 1 <= FindingLimit /\ n <= FindingLimit
    BY <1>1, <1>6, ReviewAssumption
  <2>7. ToSet(list) = ToSet(longer)
    BY <2>2, <2>5, <2>6, ListingKeeps
  <2> HIDE DEF list
  <2>8. ToSet(listed) \subseteq ToSet(list) /\ more \in ToSet(list)
    BY <1>3, <2>2, <2>7
  <2>9. list # <<>>
    <3>1. ToSet(<<>>) = {}
      BY DEF ToSet
    <3> QED
      BY <2>8, <3>1
  <2>10. ReviewPolicy(list)
    BY <1>6, <2>8, <2>9, MoreAreAsked
  <2> QED
    BY <2>10 DEF list, longer
<1>7. report.highPriority \subseteq NamedForReview(ListFindings(stored))
      /\ (~ ReviewPolicy(ListFindings(stored)) =>
            /\ \A f \in report.highPriority : f.severity # "critical"
            /\ MinSeverity # "critical" => report.highPriority = {}
            /\ \A f \in ToSet(ListFindings(stored)) : f.confidence >= LowConfidence)
  BY <1>4, <1>5 DEF listed
<1>8. Len(stored) < FindingLimit =>
        \A more \in Alphabet["report"].left :
          ReviewPolicy(ListFindings(stored)) => ReviewPolicy(ListFindings(Append(stored, more)))
  BY <1>6 DEF listed
<1>9. ReviewCovers(stored, report)
  BY <1>7, <1>8 DEF ReviewCovers
<1> QED
  BY <1>9 DEF stored, report, listed

(***************************************************************************)
(* For any findings, limits and thresholds: a report made without a review *)
(* has nothing critical, nothing below the publication threshold, and      *)
(* nothing of high priority unless reviews are asked for critical findings *)
(* alone; what it presents as of high priority was named to the analyst    *)
(* and has evidence in the manifest, a report without limits has every     *)
(* verdict settled and change classified, and the order of the findings    *)
(* decides nothing (_review_policy, generate_report).                      *)
(***************************************************************************)
THEOREM ReportsHideNothing == Spec => []ReportHidesNothing
<1>1. InputsFit => ReportHidesNothing
  <2> SUFFICES ASSUME InputsFit, task = "report", NEW claimReview \in 0..1
               PROVE  LET stored == Known(left)
                          listed == ListFindings(stored)
                          verdicts == OfKind("verdict")
                          asked == ReviewPolicy(listed)
                          report == GenerateReport(stored, verdicts, OfKind("change"), asked, claimReview)
                          other == GenerateReport(Swapped(stored), verdicts, OfKind("change"), asked, claimReview)
                      IN  /\ ReviewCovers(stored, report)
                          /\ BlockingEvidence(listed, verdicts) = {} =>
                               \A f \in report.highPriority : <<f.id, "primary">> \in report.manifest.evidence
                          /\ report.limitations = {} =>
                               /\ ~asked /\ claimReview = 0
                               /\ \A k \in DOMAIN right :
                                    \/ right[k].kind = "verdict"
                                       /\ right[k].status \in {"verified", "approximately_verified", "contradicted"}
                                    \/ right[k].kind = "change" /\ right[k].label \in Labels
                          /\ Len(stored) <= FindingLimit =>
                               /\ other.summary = report.summary
                               /\ other.limitations = report.limitations
                               /\ other.manifest = report.manifest
    BY DEF ReportHidesNothing
  <2> DEFINE stored == Known(left)
             n == Len(left)
             listed == ListFindings(stored)
             verdicts == OfKind("verdict")
             changes == OfKind("change")
             asked == ReviewPolicy(listed)
             report == GenerateReport(stored, verdicts, changes, asked, claimReview)
             swapped == Swapped(stored)
             other == GenerateReport(swapped, verdicts, changes, asked, claimReview)
  <2>1. left \in Seq(Alphabet["report"].left) /\ right \in Seq(Alphabet["report"].right)
    BY DEF InputsFit
  <2>2. ReviewCovers(stored, report)
    BY <2>1, ReviewIsCovered
  <2>3. /\ DOMAIN stored = 1..n /\ Len(stored) = n /\ n \in Nat
        /\ \A i \in 1..n : stored[i].confidence \in Int
    BY <2>1, KnownFindings
  <2>4. /\ report.highPriority = HighPriority(listed)
        /\ report.limitations = Limitations(verdicts, listed, asked)
                                  \cup DataQualityNotes(changes, claimReview)
        /\ report.summary = SummarizeFindings(stored)
        /\ report.manifest = EvidenceManifest(stored, verdicts, changes)
    BY DEF GenerateReport
  <2>5. /\ other.limitations = Limitations(verdicts, ListFindings(swapped), asked)
                                 \cup DataQualityNotes(changes, claimReview)
        /\ other.summary = SummarizeFindings(swapped)
        /\ other.manifest = EvidenceManifest(swapped, verdicts, changes)
    BY DEF GenerateReport
  <2> HIDE DEF stored, report, other, swapped, asked
  <2>6. ToSet(listed) \subseteq ToSet(stored) /\ (n <= FindingLimit => ToSet(listed) = ToSet(stored))
    BY <2>3, ListingKeeps
  <2> HIDE DEF listed, verdicts, changes
  <2>7. ASSUME BlockingEvidence(listed, verdicts) = {}, NEW f \in report.highPriority
        PROVE  <<f.id, "primary">> \in report.manifest.evidence
    <3>1. f \in ToSet(listed) /\ f \in ToSet(stored)
      BY <2>4, <2>6 DEF HighPriority
    <3>2. "primary" \in f.evidence
      BY <2>7, <3>1 DEF BlockingEvidence
    <3>3. report.manifest.evidence = UNION {{g.id} \X g.evidence : g \in ToSet(stored)}
      BY <2>4 DEF EvidenceManifest
    <3>4. <<f.id, "primary">> \in {f.id} \X f.evidence
      BY <3>2
    <3> QED
      BY <3>1, <3>3, <3>4
  <2>8. ASSUME report.limitations = {}
        PROVE  /\ ~ asked /\ claimReview = 0
               /\ \A k \in DOMAIN right :
                    \/ right[k].kind = "verdict"
                       /\ right[k].status \in {"verified", "approximately_verified", "contradicted"}
                    \/ right[k].kind = "change" /\ right[k].label \in Labels
    <3>1. Limitations(verdicts, listed, asked) = {} /\ DataQualityNotes(changes, claimReview) = {}
      BY <2>4, <2>8
    <3>2. ~ asked
      BY <3>1 DEF Limitations
    <3>3. claimReview = 0
      <4>1. ~ (claimReview > 0)
        BY <3>1 DEF DataQualityNotes
      <4> QED
        BY <4>1
    <3>4. \A v \in verdicts : v.status \in {"verified", "approximately_verified", "contradicted"}
      BY <3>1 DEF Limitations
    <3>5. \A c \in changes : c.label # "requires_review"
      BY <3>1 DEF DataQualityNotes
    <3>6. ASSUME NEW k \in DOMAIN right
          PROVE  \/ right[k].kind = "verdict"
                    /\ right[k].status \in {"verified", "approximately_verified", "contradicted"}
                 \/ right[k].kind = "change" /\ right[k].label \in Labels
      <4>1. k \in 1..Len(right)
        BY <2>1
      <4>2. /\ Known(right)[k] \in ToSet(Known(right))
            /\ Known(right)[k].kind = right[k].kind
            /\ \/ right[k].kind = "verdict" /\ Known(right)[k].status = right[k].status
               \/ /\ right[k].kind = "change" /\ Known(right)[k].label = right[k].label
                  /\ right[k].label \in Labels \cup {"requires_review"}
        BY <2>1, <4>1, KnownElements
      <4>3. CASE right[k].kind = "verdict" /\ Known(right)[k].status = right[k].status
        <5>1. Known(right)[k] \in verdicts
          BY <4>2, <4>3 DEF verdicts, OfKind
        <5> QED
          BY <3>4, <4>3, <5>1
      <4>4. CASE /\ right[k].kind = "change" /\ Known(right)[k].label = right[k].label
                 /\ right[k].label \in Labels \cup {"requires_review"}
        <5>1. Known(right)[k] \in changes
          BY <4>2, <4>4 DEF changes, OfKind
        <5> QED
          BY <3>5, <4>4, <5>1
      <4> QED
        BY <4>2, <4>3, <4>4
    <3> QED
      BY <3>2, <3>3, <3>6
  <2>9. ASSUME Len(stored) <= FindingLimit
        PROVE  /\ other.summary = report.summary /\ other.limitations = report.limitations
               /\ other.manifest = report.manifest
    <3>1. DOMAIN swapped = 1..n /\ ToSet(swapped) = ToSet(stored)
      BY <2>3, SwappedKeeps DEF swapped
    <3>2. \A i \in 1..n : swapped[i].confidence \in Int
      <4>1. ASSUME NEW i \in 1..n PROVE swapped[i].confidence \in Int
        <5>1. swapped[i] \in ToSet(stored)
          BY <3>1 DEF ToSet
        <5> QED
          BY <2>3, <5>1 DEF ToSet
      <4> QED
        BY <4>1
    <3>3. ToSet(ListFindings(swapped)) = ToSet(listed)
      BY <2>3, <2>6, <2>9, <3>1, <3>2, ListingKeeps
    <3>4. SummarizeFindings(swapped) = SummarizeFindings(stored)
      BY <3>3 DEF SummarizeFindings, listed
    <3>5. EvidenceManifest(swapped, verdicts, changes) = EvidenceManifest(stored, verdicts, changes)
      BY <3>1, <3>3 DEF EvidenceManifest, listed
    <3>6. Limitations(verdicts, ListFindings(swapped), asked) = Limitations(verdicts, listed, asked)
      BY <3>3 DEF Limitations
    <3> QED
      BY <2>4, <2>5, <3>4, <3>5, <3>6
  <2> QED
    BY <2>2, <2>7, <2>8, <2>9 DEF stored, listed, verdicts, changes, asked, report, swapped, other
<1> QED
  BY <1>1, InputsAreOfTheirTask, PTL

-----------------------------------------------------------------------------
(* The ledgers of a run.                                                   *)

LEMMA SumOfNothing == SumOf(<<>>) = 0
<1> DEFINE g == [k \in {0} |-> 0]
           F(f) == f = [k \in 0..Len(<<>>) |-> IF k = 0 THEN 0 ELSE f[k - 1] + <<>>[k]]
<1>1. 0..Len(<<>>) = {0}
  BY EmptySeq
<1>2. F(g)
  BY <1>1
<1>3. F(CHOOSE f : F(f))
  BY <1>2
<1>4. (CHOOSE f : F(f))[Len(<<>>)] = 0
  <2>1. Len(<<>>) = 0
    BY EmptySeq
  <2> QED
    BY <1>3, <2>1
<1> QED
  BY <1>4 DEF SumOf

LEMMA NoBatchesAreReviewed == ~ (NoBatches.review > 0)
<1>1. [k \in DOMAIN <<>> |-> <<>>[k].review] = <<>>
  OBVIOUS
<1>2. NeedingReview(<<>>) = 0
  BY <1>1, SumOfNothing DEF NeedingReview
<1>3. NoBatches.review = 0
  BY <1>2 DEF NoBatches, Aggregate
<1> QED
  BY <1>3

(* A ledger has what Aggregate reads of it, and no more rows than it has.  *)
LEMMA CountsAreBounded ==
  ASSUME NEW n \in Nat, NEW rows, DOMAIN rows = 1..n, NEW status
  PROVE  /\ CountOf(rows, status) \in 0..n
         /\ (CountOf(rows, status) = 0 <=> \A k \in 1..n : rows[k].status # status)
         /\ (CountOf(rows, status) = n <=> \A k \in 1..n : rows[k].status = status)
<1> DEFINE of == {k \in 1..n : rows[k].status = status}
<1>1. CountOf(rows, status) = Cardinality(of)
  BY DEF CountOf
<1>2. IsFiniteSet(1..n) /\ Cardinality(1..n) = n
  BY FS_Interval
<1>3. of \in SUBSET (1..n)
  OBVIOUS
<1>4. IsFiniteSet(of) /\ Cardinality(of) <= n /\ (n = Cardinality(of) => of = 1..n)
  BY <1>2, <1>3, FS_Subset
<1>5. Cardinality(of) \in Nat /\ (Cardinality(of) = 0 <=> of = {})
  BY <1>4, FS_CardinalityType, FS_EmptySet
<1>6. of = 1..n => Cardinality(of) = n
  BY <1>2
<1>7. of = {} <=> \A k \in 1..n : rows[k].status # status
  OBVIOUS
<1>8. of = 1..n <=> \A k \in 1..n : rows[k].status = status
  OBVIOUS
<1> HIDE DEF of
<1> QED
  BY <1>1, <1>4, <1>5, <1>6, <1>7, <1>8

LEMMA MinIsLeast ==
  ASSUME NEW S, S \subseteq Nat, S # {}
  PROVE  Min(S) \in S /\ \A m \in S : Min(S) <= m
<1>1. \E n \in S : \A m \in S : n <= m
  BY LeastNatural
<1> QED
  BY <1>1 DEF Min

(* Among some rows there are those no other is later than.                 *)
LEMMA LatestExists ==
  ASSUME NEW n \in Nat, NEW at \in [1..n -> Nat], NEW S, S \subseteq 1..n, S # {}
  PROVE  \E k \in S : \A j \in S : at[j] <= at[k]
<1> DEFINE Latest(k, i) == /\ k \in S /\ k <= i
                           /\ \A j \in S : j <= i => at[j] <= at[k]
           M == {i \in 0..n : (\E j \in S : j <= i) => \E k \in S : Latest(k, i)}
<1>1. 0 \in M
  OBVIOUS
<1>2. ASSUME NEW i \in 0..n - 1, i \in M PROVE i + 1 \in M
  <2>1. i + 1 \in 0..n /\ i \in Nat /\ \A j \in S : j <= i + 1 <=> j <= i \/ j = i + 1
    OBVIOUS
  <2>2. CASE i + 1 \notin S
    <3>1. \A j \in S : j <= i + 1 <=> j <= i
      BY <2>1, <2>2
    <3>2. \A k \in S : Latest(k, i) <=> Latest(k, i + 1)
      BY <3>1
    <3> HIDE DEF Latest
    <3> QED
      BY <1>2, <2>1, <3>1, <3>2
  <2>3. CASE i + 1 \in S
    <3>1. i + 1 \in S /\ at[i + 1] \in Nat /\ \A j \in S : at[j] \in Nat
      BY <2>3
    <3>2. CASE \A j \in S : j <= i => at[j] <= at[i + 1]
      <4>1. Latest(i + 1, i + 1)
        BY <2>1, <3>1, <3>2
      <4> QED
        BY <2>1, <3>1, <4>1
    <3>3. CASE ~ \A j \in S : j <= i => at[j] <= at[i + 1]
      <4>1. PICK l \in S : l <= i /\ ~ (at[l] <= at[i + 1])
        BY <3>3
      <4>2. PICK k \in S : Latest(k, i)
        BY <1>2, <4>1
      <4>3. at[i + 1] <= at[k]
        BY <3>1, <4>1, <4>2
      <4>4. Latest(k, i + 1)
        BY <2>1, <3>1, <4>2, <4>3
      <4> QED
        BY <2>1, <4>4
    <3> QED
      BY <3>2, <3>3
  <2> QED
    BY <2>2, <2>3
<1>3. 0..n \subseteq M
  <2> HIDE DEF M
  <2> QED
    BY <1>1, <1>2, UpTo
<1>4. n \in M /\ \A j \in S : j <= n
  <2>1. n \in 0..n /\ \A j \in S : j <= n
    OBVIOUS
  <2> HIDE DEF M
  <2> QED
    BY <1>3, <2>1
<1>5. PICK k \in S : Latest(k, n)
  BY <1>4
<1> QED
  BY <1>4, <1>5

(* The rows a behaviour writes for a stage.                                *)
IsLedger(rows) ==
  /\ Len(rows) \in Nat /\ DOMAIN rows = 1..Len(rows)
  /\ rows # <<>> <=> Len(rows) # 0
  /\ \A k \in DOMAIN rows : /\ {"status", "review", "error", "at"} \subseteq DOMAIN rows[k]
                             /\ rows[k].at \in Nat

LEMMA LedgersFit ==
  ASSUME InputsFit, task = "progress"
  PROVE  IsLedger(left) /\ IsLedger(right)
<1>1. left \in Seq(Alphabet["progress"].left) /\ right \in Seq(Alphabet["progress"].right)
  BY DEF InputsFit
<1>2. \A row \in Alphabet["progress"].left \cup Alphabet["progress"].right :
        {"status", "review", "error", "at"} \subseteq DOMAIN row /\ row.at \in Nat
  BY AlphabetAssumption
<1>3. \A k \in 1..Len(left) : left[k] \in Alphabet["progress"].left
  BY <1>1
<1>4. \A k \in 1..Len(right) : right[k] \in Alphabet["progress"].right
  BY <1>1
<1>5. /\ Len(left) \in Nat /\ DOMAIN left = 1..Len(left)
      /\ Len(right) \in Nat /\ DOMAIN right = 1..Len(right)
  BY <1>1
<1>6. (left # <<>> <=> Len(left) # 0) /\ (right # <<>> <=> Len(right) # 0)
  BY <1>1, EmptySeq
<1> QED
  BY <1>2, <1>3, <1>4, <1>5, <1>6 DEF IsLedger

(* What a row done again says is not read.                                 *)
LEMMA ClearedIsTheSame ==
  ASSUME NEW rows, IsLedger(rows)
  PROVE  Aggregate(Cleared(rows)) = Aggregate(rows)
<1> DEFINE c == Cleared(rows)
           n == Len(rows)
<1>1. n \in Nat /\ DOMAIN rows = 1..n
  BY DEF IsLedger
<1>2. /\ c = [k \in 1..n |-> IF rows[k].status = "failed" THEN rows[k]
                              ELSE [rows[k] EXCEPT !.error = "none", !.at = 0]]
      /\ DOMAIN c = 1..n
  BY <1>1 DEF Cleared
<1>3. Len(c) = n /\ (c # <<>> <=> n # 0)
  <2>1. c \in [1..n -> ToSet(c)]
    <3>1. \A k \in 1..n : c[k] \in ToSet(c)
      BY <1>2 DEF ToSet
    <3> HIDE DEF c
    <3> QED
      BY <1>2, <3>1
  <2> HIDE DEF c
  <2>2. c \in Seq(ToSet(c)) /\ Len(c) = n
    BY <1>1, <2>1
  <2> QED
    BY <2>2, EmptySeq, SMTT(30)
<1> HIDE DEF c
<1>4. ASSUME NEW k \in 1..n
      PROVE  /\ c[k].status = rows[k].status /\ c[k].review = rows[k].review
             /\ c[k].status = "failed" => c[k] = rows[k]
  <2>1. {"status", "review", "error", "at"} \subseteq DOMAIN rows[k]
    BY <1>1 DEF IsLedger
  <2>2. CASE rows[k].status = "failed"
    BY <1>2, <2>2
  <2>3. CASE rows[k].status # "failed"
    <3>1. c[k] = [rows[k] EXCEPT !.error = "none", !.at = 0]
      BY <1>2, <2>3
    <3>2. c[k].status = rows[k].status /\ c[k].review = rows[k].review
      BY <2>1, <3>1
    <3> QED
      BY <2>3, <3>2
  <2> QED
    BY <2>2, <2>3
<1>5. ASSUME NEW status PROVE CountOf(c, status) = CountOf(rows, status)
  <2>1. {k \in 1..n : c[k].status = status} = {k \in 1..n : rows[k].status = status}
    BY <1>4
  <2> QED
    BY <1>1, <1>2, <2>1 DEF CountOf
<1>6. NeedingReview(c) = NeedingReview(rows)
  <2>1. [k \in 1..n |-> c[k].review] = [k \in 1..n |-> rows[k].review]
    BY <1>4
  <2> QED
    BY <1>1, <1>2, <2>1 DEF NeedingReview
<1>7. LatestError(c) = LatestError(rows)
  <2> DEFINE failing == {k \in 1..n : rows[k].status = "failed" /\ rows[k].error # "none"}
             failing2 == {k \in 1..n : c[k].status = "failed" /\ c[k].error # "none"}
             latest == {k \in failing : \A j \in failing : rows[j].at <= rows[k].at}
             latest2 == {k \in failing : \A j \in failing : c[j].at <= c[k].at}
  <2>1. failing = failing2
    BY <1>4
  <2>2. \A k \in failing : k \in 1..n /\ c[k] = rows[k]
    BY <1>4
  <2>3. LatestError(rows) = ErrorAmong(rows, failing) /\ LatestError(c) = ErrorAmong(c, failing)
    BY <1>1, <1>2, <2>1 DEF LatestError
  <2> HIDE DEF failing
  <2>4. latest = latest2
    BY <2>2
  <2>5. ErrorAmong(rows, failing) = IF failing = {} THEN "none" ELSE rows[Min(latest)].error
    BY DEF ErrorAmong
  <2>6. ErrorAmong(c, failing) = IF failing = {} THEN "none" ELSE c[Min(latest)].error
    BY <2>4 DEF ErrorAmong
  <2>7. failing # {} => rows[Min(latest)].error = c[Min(latest)].error
    <3> DEFINE at == [k \in 1..n |-> rows[k].at]
    <3>1. at \in [1..n -> Nat]
      BY <1>1 DEF IsLedger
    <3>2. failing \subseteq 1..n
      BY <2>2
    <3>3. \A k \in failing : at[k] = rows[k].at
      BY <3>2
    <3> HIDE DEF at
    <3>4. failing # {} => \E k \in failing : \A j \in failing : at[j] <= at[k]
      BY <1>1, <3>1, <3>2, LatestExists
    <3>5. ASSUME failing # {} PROVE latest # {} /\ latest \subseteq Nat
      <4>1. PICK k \in failing : \A j \in failing : at[j] <= at[k]
        BY <3>4, <3>5
      <4>2. k \in latest
        BY <3>3, <4>1
      <4>3. latest \subseteq Nat
        BY <3>2
      <4> QED
        BY <4>2, <4>3
    <3>6. failing # {} => Min(latest) \in latest
      BY <3>5, MinIsLeast
    <3>7. \A k \in latest : c[k] = rows[k]
      BY <2>2
    <3> QED
      BY <3>6, <3>7
  <2> QED
    BY <2>3, <2>5, <2>6, <2>7
<1>8. c # <<>> <=> rows # <<>>
  BY <1>3 DEF IsLedger
<1> QED
  BY <1>3, <1>5, <1>6, <1>7, <1>8 DEF Aggregate, c

(* Whole-number division.                                                  *)
LEMMA DivAtLeast ==
  ASSUME NEW a \in Nat, NEW b \in Nat, b # 0, NEW q \in Nat, q * b <= a
  PROVE  q <= a \div b
<1> DEFINE r == a \div b
<1>1. r \in Nat /\ a < b * r + b
  OBVIOUS
<1> HIDE DEF r
<1>2. ASSUME r < q PROVE FALSE
  <2>1. q - r - 1 \in Nat
    BY <1>1, <1>2
  <2>2. (q - r - 1) * b \in Nat
    BY <2>1
  <2>3. (q - r - 1) * b = q * b - r * b - b
    BY <1>1
  <2>4. r * b = b * r /\ r * b \in Nat /\ q * b \in Nat
    BY <1>1
  <2> QED
    BY <1>1, <2>2, <2>3, <2>4
<1>3. q <= r
  BY <1>1, <1>2
<1> QED
  BY <1>3 DEF r

LEMMA DivAtMost ==
  ASSUME NEW a \in Nat, NEW b \in Nat, b # 0
  PROVE  a \div b \in Nat /\ (a \div b) * b <= a
<1>1. a \div b \in Nat /\ b * (a \div b) <= a
  OBVIOUS
<1>2. \A x \in Nat : x * b = b * x
  OBVIOUS
<1> QED
  BY <1>1, <1>2

(* The share of nodes done, and of the parts of the next.                  *)
PartShare(done, completed, total) ==
  (100 * (done * total + completed)) \div (NodeCount * total)

LEMMA PartShareIs ==
  ASSUME NEW d \in Nat, NEW c \in Nat, NEW t \in Nat, t # 0
  PROVE  /\ PartShare(d, c, t) \in Nat
         /\ (PartShare(d, c, t) * 12) * t <= 100 * (d * t + c)
         /\ \A q \in Nat : (q * 12) * t <= 100 * (d * t + c) => q <= PartShare(d, c, t)
<1> DEFINE a == 100 * (d * t + c)
           b == 12 * t
<1>1. a \in Nat /\ b \in Nat /\ b # 0
  <2>1. d * t \in Nat
    OBVIOUS
  <2> QED
    BY <2>1
<1>2. PartShare(d, c, t) = a \div b
  BY DEF PartShare, NodeCount
<1>3. \A q \in Nat : q * b = (q * 12) * t
  OBVIOUS
<1> HIDE DEF a, b
<1>4. PartShare(d, c, t) \in Nat /\ PartShare(d, c, t) * b <= a
  BY <1>1, <1>2, DivAtMost
<1>5. \A q \in Nat : q * b <= a => q <= PartShare(d, c, t)
  BY <1>1, <1>2, DivAtLeast
<1>6. /\ PartShare(d, c, t) \in Nat
      /\ (PartShare(d, c, t) * 12) * t <= a
      /\ \A q \in Nat : (q * 12) * t <= a => q <= PartShare(d, c, t)
  BY <1>3, <1>4, <1>5
<1> QED
  BY <1>6 DEF a

(* More parts are more, any part more than none, and no parts more than a  *)
(* node.                                                                   *)
LEMMA PartsAddUp ==
  ASSUME NEW d \in Nat, NEW c \in Nat, NEW t \in Nat, t # 0
  PROVE  /\ \A e \in Nat : c <= e => PartShare(d, c, t) <= PartShare(d, e, t)
         /\ PartShare(d, 0, 1) <= PartShare(d, c, t)
         /\ c <= t => PartShare(d, c, t) <= PartShare(d + 1, 0, 1)
<1>1. ASSUME NEW e \in Nat, c <= e PROVE PartShare(d, c, t) <= PartShare(d, e, t)
  <2> DEFINE x == d * t
             q == PartShare(d, c, t)
  <2>1. x \in Nat
    OBVIOUS
  <2>2. q \in Nat /\ (q * 12) * t <= 100 * (x + c)
    BY PartShareIs
  <2>3. \A p \in Nat : (p * 12) * t <= 100 * (x + e) => p <= PartShare(d, e, t)
    BY PartShareIs
  <2> HIDE DEF x, q
  <2>4. (q * 12) * t \in Nat
    BY <2>2
  <2>5. (q * 12) * t <= 100 * (x + e)
    BY <1>1, <2>1, <2>2, <2>4
  <2> QED
    BY <2>2, <2>3, <2>5 DEF q
<1>2. PartShare(d, 0, 1) <= PartShare(d, c, t)
  <2> DEFINE q == PartShare(d, 0, 1)
  <2>1. q \in Nat /\ q * 12 <= 100 * d
    <3>1. q \in Nat /\ (q * 12) * 1 <= 100 * (d * 1 + 0)
      BY PartShareIs
    <3> HIDE DEF q
    <3> QED
      BY <3>1
  <2>2. \A p \in Nat : (p * 12) * t <= 100 * (d * t + c) => p <= PartShare(d, c, t)
    BY PartShareIs
  <2> HIDE DEF q
  <2>3. (q * 12) * t <= (100 * d) * t
    <3>1. 100 * d - q * 12 \in Nat
      BY <2>1
    <3>2. (100 * d - q * 12) * t \in Nat
      BY <3>1
    <3>3. (100 * d - q * 12) * t = (100 * d) * t - (q * 12) * t
      BY <2>1
    <3>4. (100 * d) * t \in Nat /\ (q * 12) * t \in Nat
      BY <2>1
    <3> QED
      BY <3>2, <3>3, <3>4
  <2>4. (100 * d) * t <= 100 * (d * t + c)
    <3> DEFINE x == d * t
    <3>1. x \in Nat /\ (100 * d) * t = 100 * x
      OBVIOUS
    <3> HIDE DEF x
    <3>2. 100 * x <= 100 * (x + c)
      BY <3>1
    <3> QED
      BY <3>1, <3>2 DEF x
  <2>5. (q * 12) * t <= 100 * (d * t + c)
    <3>1. (q * 12) * t \in Nat /\ (100 * d) * t \in Nat /\ 100 * (d * t + c) \in Nat
      BY <2>1
    <3> QED
      BY <2>3, <2>4, <3>1
  <2> QED
    BY <2>1, <2>2, <2>5 DEF q
<1>3. ASSUME c <= t PROVE PartShare(d, c, t) <= PartShare(d + 1, 0, 1)
  <2> DEFINE q == PartShare(d, c, t)
  <2>1. q \in Nat /\ (q * 12) * t <= 100 * (d * t + c)
    BY PartShareIs
  <2>2. \A p \in Nat : p * 12 <= 100 * (d + 1) => p <= PartShare(d + 1, 0, 1)
    <3>1. \A p \in Nat : (p * 12) * 1 <= 100 * ((d + 1) * 1 + 0) => p <= PartShare(d + 1, 0, 1)
      BY PartShareIs
    <3> QED
      BY <3>1
  <2> HIDE DEF q
  <2>3. (q * 12) * t <= (100 * (d + 1)) * t
    <3> DEFINE x == d * t
    <3>1. x \in Nat /\ (100 * (d + 1)) * t = 100 * (x + t)
      OBVIOUS
    <3>2. (q * 12) * t \in Nat
      BY <2>1
    <3> HIDE DEF x
    <3>3. (q * 12) * t <= 100 * (x + c)
      BY <2>1 DEF x
    <3> QED
      BY <1>3, <3>1, <3>2, <3>3
  <2>4. q * 12 <= 100 * (d + 1)
    <3>1. SUFFICES ASSUME 100 * (d + 1) < q * 12 PROVE FALSE
      BY <2>1
    <3>2. q * 12 - 100 * (d + 1) - 1 \in Nat
      BY <2>1, <3>1
    <3>3. (q * 12 - 100 * (d + 1) - 1) * t \in Nat
      BY <3>2
    <3>4. (q * 12 - 100 * (d + 1) - 1) * t = (q * 12) * t - (100 * (d + 1)) * t - t
      BY <2>1
    <3>5. (q * 12) * t \in Nat /\ (100 * (d + 1)) * t \in Nat
      BY <2>1
    <3> QED
      BY <2>3, <3>3, <3>4, <3>5
  <2> QED
    BY <2>1, <2>2, <2>4 DEF q
<1> QED
  BY <1>1, <1>2, <1>3

(* A batched stage is in flight.                                           *)
InFlight(run, node, progress) ==
  StageStatus(run, node, progress) = "processing" /\ progress.total > 0

ShareShown(run, comparison, claims) ==
  IF InFlight(run, 4, comparison)
  THEN PartShare(Cardinality(run.nodes), comparison.completed, comparison.total)
  ELSE IF InFlight(run, 5, claims)
  THEN PartShare(Cardinality(run.nodes), claims.completed, claims.total)
  ELSE PartShare(Cardinality(run.nodes), 0, 1)

Ceiling(run) == IF run.status \in StoppedStatuses THEN 99 ELSE 95
PercentCapped(run, share) ==
  IF run.status \in FinishedStatuses THEN 100 ELSE IF share < Ceiling(run) THEN share ELSE Ceiling(run)

LEMMA StagesAre ==
  ASSUME NEW run, NEW comparison, NEW claims
  PROVE  LET stages == BuildStageProgress(run, comparison, claims) IN
         /\ DOMAIN stages = 1..6
         /\ stages[1] = StageEntry(run, 1, comparison)
         /\ stages[2] = StageEntry(run, 2, claims)
         /\ \A s \in 3..6 : stages[s] = StageEntry(run, s, NoBatches)
<1>1. DOMAIN StageNodes = 1..6
  BY DEF StageNodes
<1>2. 1 \in 1..6 /\ 2 \in 1..6 /\ \A s \in 3..6 : s \in 1..6 /\ s # 1 /\ s # 2
  OBVIOUS
<1>3. BuildStageProgress(run, comparison, claims)
        = [s \in 1..6 |-> StageEntry(run, s, IF s = 1 THEN comparison ELSE IF s = 2 THEN claims
                                             ELSE NoBatches)]
  BY <1>1 DEF BuildStageProgress
<1> QED
  BY <1>2, <1>3

LEMMA StageEntryIs ==
  ASSUME NEW run, NEW s, NEW progress
  PROVE  LET entry == StageEntry(run, s, progress) IN
         /\ entry.status = StageStatus(run, StageNodes[s], progress)
         /\ entry.completed = progress.completed /\ entry.total = progress.total
  BY DEF StageEntry

LEMMA PercentIs ==
  ASSUME NEW run, NEW comparison, NEW claims
  PROVE  ProgressPercent(run, BuildStageProgress(run, comparison, claims))
           = PercentCapped(run, ShareShown(run, comparison, claims))
<1> DEFINE stages == BuildStageProgress(run, comparison, claims)
           inFlight == {s \in 1..6 : Batched(s) /\ stages[s].status = "processing"
                                     /\ stages[s].total > 0}
           first == InFlight(run, 4, comparison)
           second == InFlight(run, 5, claims)
           stage == CurrentStage(stages)
<1>1. /\ DOMAIN stages = 1..6
      /\ stages[1] = StageEntry(run, 1, comparison)
      /\ stages[2] = StageEntry(run, 2, claims)
  BY StagesAre
<1>2. /\ stages[1].status = StageStatus(run, 4, comparison)
      /\ stages[1].completed = comparison.completed /\ stages[1].total = comparison.total
      /\ stages[2].status = StageStatus(run, 5, claims)
      /\ stages[2].completed = claims.completed /\ stages[2].total = claims.total
  <2>1. StageNodes[1] = 4 /\ StageNodes[2] = 5
    BY DEF StageNodes
  <2> QED
    BY <1>1, <2>1, StageEntryIs
<1> HIDE DEF stages
<1>3. (1 \in inFlight <=> first) /\ (2 \in inFlight <=> second) /\ inFlight \subseteq {1, 2}
  BY <1>2 DEF Batched, InFlight
<1>4. stage = IF inFlight = {} THEN [completed |-> 0, total |-> 1] ELSE stages[Min(inFlight)]
  BY <1>1 DEF CurrentStage
<1> HIDE DEF inFlight, first, second, stage
<1>5. CASE first
  <2>1. inFlight # {} /\ Min(inFlight) = 1
    <3>1. inFlight = {1} \/ inFlight = {1, 2}
      BY <1>3, <1>5
    <3>2. Min({1}) = 1 /\ Min({1, 2}) = 1
      BY DEF Min
    <3> QED
      BY <3>1, <3>2
  <2>2. stage.completed = comparison.completed /\ stage.total = comparison.total
    BY <1>2, <1>4, <2>1
  <2> QED
    BY <1>5, <2>2 DEF ProgressPercent, PercentCapped, ShareShown, PartShare, Ceiling, first, stage, stages
<1>6. CASE ~ first /\ second
  <2>1. inFlight # {} /\ Min(inFlight) = 2
    <3>1. inFlight = {2}
      BY <1>3, <1>6
    <3>2. Min({2}) = 2
      BY DEF Min
    <3> QED
      BY <3>1, <3>2
  <2>2. stage.completed = claims.completed /\ stage.total = claims.total
    BY <1>2, <1>4, <2>1
  <2> QED
    BY <1>6, <2>2
       DEF ProgressPercent, PercentCapped, ShareShown, PartShare, Ceiling, first, second, stage, stages
<1>7. CASE ~ first /\ ~ second
  <2>1. inFlight = {}
    BY <1>3, <1>7
  <2>2. stage.completed = 0 /\ stage.total = 1
    BY <1>4, <2>1
  <2> QED
    BY <1>7, <2>2
       DEF ProgressPercent, PercentCapped, ShareShown, PartShare, Ceiling, first, second, stage, stages
<1> QED
  BY <1>5, <1>6, <1>7

LEMMA PercentKeepsOrder ==
  ASSUME NEW run, NEW x \in Nat, NEW y \in Nat, x <= y
  PROVE  /\ PercentCapped(run, x) \in 0..100 /\ PercentCapped(run, x) <= PercentCapped(run, y)
         /\ PercentCapped(run, x) = 100 <=> run.status \in FinishedStatuses
<1>1. Ceiling(run) \in {95, 99}
  BY DEF Ceiling
<1> QED
  BY <1>1 DEF PercentCapped

(* What Aggregate says of a ledger.                                        *)
LEMMA AggregateIs ==
  ASSUME NEW rows, IsLedger(rows)
  PROVE  LET progress == Aggregate(rows) IN
         /\ progress.total = Len(rows) /\ progress.total \in Nat
         /\ progress.completed \in Nat /\ progress.completed <= progress.total
         /\ progress.completed = progress.total =>
              \A k \in DOMAIN rows : rows[k].status = "completed"
         /\ NoneFailed(rows) => progress.failed = 0
<1>1. Len(rows) \in Nat /\ DOMAIN rows = 1..Len(rows)
  BY DEF IsLedger
<1>2. /\ CountOf(rows, "completed") \in 0..Len(rows)
      /\ (CountOf(rows, "completed") = Len(rows) <=>
            \A k \in 1..Len(rows) : rows[k].status = "completed")
      /\ (CountOf(rows, "failed") = 0 <=> \A k \in 1..Len(rows) : rows[k].status # "failed")
  BY <1>1, CountsAreBounded
<1> QED
  BY <1>1, <1>2 DEF Aggregate, NoneFailed

(* A part done adds to what is completed and takes nothing else away.      *)
LEMMA DoneAdds ==
  ASSUME NEW rows, IsLedger(rows), NoneFailed(rows), NEW k \in DOMAIN rows
  PROVE  LET before == Aggregate(rows)  after == Aggregate(Done(rows, k)) IN
         /\ after.total = before.total /\ before.total \in Nat /\ before.total # 0
         /\ after.review = before.review /\ after.failed = 0 /\ before.failed = 0
         /\ before.completed \in Nat /\ after.completed \in Nat
         /\ before.completed <= after.completed /\ after.completed > 0
<1> DEFINE d == Done(rows, k)
           n == Len(rows)
<1>1. /\ n \in Nat /\ DOMAIN rows = 1..n
      /\ \A i \in 1..n : {"status", "review"} \subseteq DOMAIN rows[i]
  BY DEF IsLedger
<1>2. /\ DOMAIN d = 1..n /\ d[k] = [rows[k] EXCEPT !.status = "completed"]
      /\ \A i \in 1..n : i # k => d[i] = rows[i]
  BY <1>1 DEF Done
<1>3. Len(d) = n
  BY <1>1, <1>2
<1>4. /\ \A i \in 1..n : d[i].review = rows[i].review
      /\ \A i \in 1..n : d[i].status = IF i = k THEN "completed" ELSE rows[i].status
  <2>1. d[k].review = rows[k].review /\ d[k].status = "completed"
    BY <1>1, <1>2
  <2> HIDE DEF d
  <2> QED
    BY <1>2, <2>1
<1> HIDE DEF d
<1>5. /\ CountOf(rows, "completed") \in 0..n /\ CountOf(d, "completed") \in 0..n
      /\ (CountOf(rows, "failed") = 0 <=> \A i \in 1..n : rows[i].status # "failed")
      /\ (CountOf(d, "failed") = 0 <=> \A i \in 1..n : d[i].status # "failed")
      /\ (CountOf(d, "completed") = 0 <=> \A i \in 1..n : d[i].status # "completed")
  BY <1>1, <1>2, CountsAreBounded
<1>6. CountOf(rows, "failed") = 0 /\ CountOf(d, "failed") = 0
  BY <1>1, <1>4, <1>5 DEF NoneFailed
<1>7. CountOf(d, "completed") # 0
  BY <1>1, <1>4, <1>5
<1>8. CountOf(rows, "completed") <= CountOf(d, "completed")
  <2> DEFINE before == {i \in 1..n : rows[i].status = "completed"}
             after == {i \in 1..n : d[i].status = "completed"}
  <2>1. before \in SUBSET after
    BY <1>4
  <2>2. IsFiniteSet(after)
    <3>1. IsFiniteSet(1..n) /\ after \in SUBSET (1..n)
      BY <1>1, FS_Interval
    <3> QED
      BY <3>1, FS_Subset
  <2>3. Cardinality(before) <= Cardinality(after)
    BY <2>1, <2>2, FS_Subset
  <2> QED
    BY <1>1, <1>2, <2>3 DEF CountOf
<1>9. NeedingReview(d) = NeedingReview(rows)
  <2>1. [i \in 1..n |-> d[i].review] = [i \in 1..n |-> rows[i].review]
    BY <1>4
  <2> QED
    BY <1>1, <1>2, <2>1 DEF NeedingReview
<1>10. n # 0
  BY <1>1
<1>11. /\ CountOf(rows, "completed") \in Nat /\ CountOf(d, "completed") \in Nat
       /\ CountOf(d, "completed") > 0
  BY <1>1, <1>5, <1>7
<1> QED
  BY <1>1, <1>3, <1>6, <1>8, <1>9, <1>10, <1>11 DEF Aggregate, d

LEMMA PartShareFits ==
  ASSUME NEW d \in Nat, NEW c \in Nat, NEW t \in Nat, t # 0
  PROVE  /\ PartShare(d, c, t) \in Nat /\ PartShare(d, 0, 1) <= PartShare(d, c, t)
         /\ c <= t => PartShare(d, c, t) <= PartShare(d + 1, 0, 1)
  BY PartShareIs, PartsAddUp

LEMMA ShareIsNat ==
  ASSUME NEW run, Cardinality(run.nodes) \in Nat, NEW comparison, NEW claims,
         comparison.completed \in Nat, comparison.total \in Nat,
         claims.completed \in Nat, claims.total \in Nat
  PROVE  /\ ShareShown(run, comparison, claims) \in Nat
         /\ (comparison.completed <= comparison.total /\ claims.completed <= claims.total =>
               ShareShown(run, comparison, claims) <= PartShare(Cardinality(run.nodes) + 1, 0, 1))
         /\ PartShare(Cardinality(run.nodes), 0, 1) <= ShareShown(run, comparison, claims)
<1> DEFINE d == Cardinality(run.nodes)
<1> HIDE DEF d
<1>1. d \in Nat
  BY DEF d
<1>2. CASE InFlight(run, 4, comparison)
  <2>1. comparison.total # 0
    BY <1>2 DEF InFlight
  <2>2. ShareShown(run, comparison, claims) = PartShare(d, comparison.completed, comparison.total)
    BY <1>2 DEF ShareShown, d
  <2> DEFINE c == comparison.completed
             n == comparison.total
  <2>3. c \in Nat /\ n \in Nat /\ n # 0
    BY <2>1
  <2> HIDE DEF c, n
  <2>4. /\ PartShare(d, c, n) \in Nat /\ PartShare(d, 0, 1) <= PartShare(d, c, n)
        /\ c <= n => PartShare(d, c, n) <= PartShare(d + 1, 0, 1)
    BY <1>1, <2>3, PartShareFits
  <2> QED
    BY <2>2, <2>4 DEF c, n, d
<1>3. CASE ~ InFlight(run, 4, comparison) /\ InFlight(run, 5, claims)
  <2>1. claims.total # 0
    BY <1>3 DEF InFlight
  <2>2. ShareShown(run, comparison, claims) = PartShare(d, claims.completed, claims.total)
    BY <1>3 DEF ShareShown, d
  <2> DEFINE c == claims.completed
             n == claims.total
  <2>3. c \in Nat /\ n \in Nat /\ n # 0
    BY <2>1
  <2> HIDE DEF c, n
  <2>4. /\ PartShare(d, c, n) \in Nat /\ PartShare(d, 0, 1) <= PartShare(d, c, n)
        /\ c <= n => PartShare(d, c, n) <= PartShare(d + 1, 0, 1)
    BY <1>1, <2>3, PartShareFits
  <2> QED
    BY <2>2, <2>4 DEF c, n, d
<1>4. CASE ~ InFlight(run, 4, comparison) /\ ~ InFlight(run, 5, claims)
  <2>1. ShareShown(run, comparison, claims) = PartShare(d, 0, 1)
    BY <1>4 DEF ShareShown, d
  <2>2. PartShare(d, 0, 1) \in Nat /\ PartShare(d, 0, 1) <= PartShare(d + 1, 0, 1)
    <3>1. 0 \in Nat /\ 1 \in Nat /\ 1 # 0 /\ 0 <= 1
      OBVIOUS
    <3> QED
      BY <1>1, <3>1, PartShareFits
  <2> QED
    BY <2>1, <2>2 DEF d
<1> QED
  BY <1>2, <1>3, <1>4

(* The stages of a run that has reached them do not overlap.               *)
LEMMA OneInFlight ==
  ASSUME NEW run, Reached(run), IsLedger(left), IsLedger(right)
  PROVE  /\ InFlight(run, 5, Aggregate(right)) => 4 \in run.nodes
         /\ 4 \in run.nodes => \A progress : ~ InFlight(run, 4, progress)
<1>1. ASSUME InFlight(run, 5, Aggregate(right)) PROVE 4 \in run.nodes
  <2>1. Aggregate(right).total = Len(right) /\ Len(right) \in Nat
    BY AggregateIs
  <2>2. right # <<>>
    BY <1>1, <2>1 DEF InFlight, IsLedger
  <2> QED
    BY <2>2 DEF Reached
<1>2. ASSUME 4 \in run.nodes, NEW progress PROVE ~ InFlight(run, 4, progress)
  BY <1>2 DEF InFlight, StageStatus
<1> QED
  BY <1>1, <1>2

LEMMA LeftDoneAdds ==
  ASSUME NEW run, Cardinality(run.nodes) \in Nat, Reached(run), IsLedger(left), IsLedger(right),
         NoneFailed(left), NEW k \in DOMAIN left
  PROVE  /\ ShareShown(run, Aggregate(Done(left, k)), Aggregate(right)) \in Nat
         /\ ShareShown(run, Aggregate(left), Aggregate(right))
              <= ShareShown(run, Aggregate(Done(left, k)), Aggregate(right))
<1> DEFINE a == Aggregate(left)
           b == Aggregate(Done(left, k))
           c == Aggregate(right)
           d == Cardinality(run.nodes)
<1>1. /\ b.total = a.total /\ a.total \in Nat /\ a.total # 0
      /\ b.review = a.review /\ b.failed = 0 /\ a.failed = 0
      /\ a.completed \in Nat /\ b.completed \in Nat
      /\ a.completed <= b.completed /\ b.completed > 0
  BY DoneAdds
<1>2. c.total \in Nat /\ c.completed \in Nat
  BY AggregateIs
<1>3. /\ InFlight(run, 5, c) => 4 \in run.nodes
      /\ 4 \in run.nodes => ~ InFlight(run, 4, a) /\ ~ InFlight(run, 4, b)
  BY OneInFlight
<1> HIDE DEF a, b, c, d
<1>4. InFlight(run, 4, a) => InFlight(run, 4, b)
  BY <1>1 DEF InFlight, StageStatus
<1>5. d \in Nat
  BY DEF d
<1>6. ShareShown(run, b, c) \in Nat
  BY <1>1, <1>2, ShareIsNat
<1>7. CASE InFlight(run, 4, a)
  <2>1. /\ ShareShown(run, a, c) = PartShare(d, a.completed, a.total)
        /\ ShareShown(run, b, c) = PartShare(d, b.completed, a.total)
    BY <1>1, <1>4, <1>7 DEF ShareShown, d
  <2>2. PartShare(d, a.completed, a.total) <= PartShare(d, b.completed, a.total)
    BY <1>1, <1>5, PartsAddUp
  <2> QED
    BY <1>6, <2>1, <2>2 DEF a, b, c
<1>8. CASE ~ InFlight(run, 4, a) /\ InFlight(run, 4, b)
  <2>1. /\ ShareShown(run, a, c) = PartShare(d, 0, 1)
        /\ ShareShown(run, b, c) = PartShare(d, b.completed, a.total)
    BY <1>1, <1>3, <1>8 DEF ShareShown, d
  <2>2. PartShare(d, 0, 1) <= PartShare(d, b.completed, a.total)
    BY <1>1, <1>5, PartsAddUp
  <2> QED
    BY <1>6, <2>1, <2>2 DEF a, b, c
<1>9. CASE ~ InFlight(run, 4, a) /\ ~ InFlight(run, 4, b)
  <2>1. ShareShown(run, a, c) = ShareShown(run, b, c)
    BY <1>9 DEF ShareShown
  <2> QED
    BY <1>6, <2>1 DEF a, b, c
<1> QED
  BY <1>7, <1>8, <1>9

LEMMA RightDoneAdds ==
  ASSUME NEW run, Cardinality(run.nodes) \in Nat, Reached(run), IsLedger(left), IsLedger(right),
         NoneFailed(right), NEW k \in DOMAIN right
  PROVE  /\ ShareShown(run, Aggregate(left), Aggregate(Done(right, k))) \in Nat
         /\ ShareShown(run, Aggregate(left), Aggregate(right))
              <= ShareShown(run, Aggregate(left), Aggregate(Done(right, k)))
<1> DEFINE a == Aggregate(right)
           b == Aggregate(Done(right, k))
           c == Aggregate(left)
           d == Cardinality(run.nodes)
<1>1. /\ b.total = a.total /\ a.total \in Nat /\ a.total # 0
      /\ b.review = a.review /\ b.failed = 0 /\ a.failed = 0
      /\ a.completed \in Nat /\ b.completed \in Nat
      /\ a.completed <= b.completed /\ b.completed > 0
  BY DoneAdds
<1>2. c.total \in Nat /\ c.completed \in Nat
  BY AggregateIs
<1>3. ~ InFlight(run, 4, c)
  <2>1. right # <<>>
    BY DEF IsLedger
  <2>2. 4 \in run.nodes
    BY <2>1 DEF Reached
  <2> QED
    BY <2>2, OneInFlight
<1> HIDE DEF a, b, c, d
<1>4. InFlight(run, 5, a) => InFlight(run, 5, b)
  BY <1>1 DEF InFlight, StageStatus
<1>5. d \in Nat
  BY DEF d
<1>6. ShareShown(run, c, b) \in Nat
  BY <1>1, <1>2, ShareIsNat
<1>7. CASE InFlight(run, 5, a)
  <2>1. /\ ShareShown(run, c, a) = PartShare(d, a.completed, a.total)
        /\ ShareShown(run, c, b) = PartShare(d, b.completed, a.total)
    BY <1>1, <1>3, <1>4, <1>7 DEF ShareShown, d
  <2>2. PartShare(d, a.completed, a.total) <= PartShare(d, b.completed, a.total)
    BY <1>1, <1>5, PartsAddUp
  <2> QED
    BY <1>6, <2>1, <2>2 DEF a, b, c
<1>8. CASE ~ InFlight(run, 5, a)
  <2>1. ShareShown(run, c, a) = PartShare(d, 0, 1)
    BY <1>3, <1>8 DEF ShareShown, d
  <2>2. PartShare(d, 0, 1) <= ShareShown(run, c, b)
    BY <1>1, <1>2, <1>5, ShareIsNat DEF d
  <2> QED
    BY <1>6, <2>1, <2>2 DEF a, b, c
<1> QED
  BY <1>7, <1>8

(* A node done is worth at least every part of a stage.                    *)
LEMMA NodeDoneAdds ==
  ASSUME NEW run \in RunsShown, NEW next, IsLedger(left), IsLedger(right)
  PROVE  LET more == [run EXCEPT !.nodes = @ \cup {next}] IN
         /\ more.status = run.status
         /\ ShareShown(more, Aggregate(left), Aggregate(right)) \in Nat
         /\ ShareShown(run, Aggregate(left), Aggregate(right))
              <= ShareShown(more, Aggregate(left), Aggregate(right))
<1> DEFINE more == [run EXCEPT !.nodes = @ \cup {next}]
           a == Aggregate(left)
           c == Aggregate(right)
           d == Cardinality(run.nodes)
<1>1. /\ {"nodes", "current", "status", "failureNode"} \subseteq DOMAIN run
      /\ run.nodes \subseteq 1..NodeCount
  BY RunsShownAssumption
<1>2. /\ more.nodes = run.nodes \cup {next} /\ more.current = run.current
      /\ more.status = run.status /\ more.failureNode = run.failureNode
  BY <1>1
<1> HIDE DEF more
<1>3. IsFiniteSet(run.nodes) /\ d \in Nat
  <2>1. IsFiniteSet(1..NodeCount)
    <3>1. 1 \in Int /\ NodeCount \in Int
      BY DEF NodeCount
    <3> QED
      BY <3>1, FS_Interval
  <2>2. IsFiniteSet(run.nodes)
    BY <1>1, <2>1, FS_Subset
  <2> QED
    BY <2>2, FS_CardinalityType
<1>4. /\ a.total \in Nat /\ a.completed \in Nat /\ a.completed <= a.total
      /\ c.total \in Nat /\ c.completed \in Nat /\ c.completed <= c.total
  BY AggregateIs
<1> HIDE DEF a, c
<1>5. CASE next \in run.nodes
  <2>1. more.nodes = run.nodes
    BY <1>2, <1>5
  <2>2. \A node, progress : StageStatus(more, node, progress) = StageStatus(run, node, progress)
    BY <1>2, <2>1 DEF StageStatus
  <2>3. \A node, progress : InFlight(more, node, progress) = InFlight(run, node, progress)
    BY <2>2 DEF InFlight
  <2>4. ShareShown(more, a, c) = ShareShown(run, a, c)
    BY <2>1, <2>3 DEF ShareShown
  <2>5. ShareShown(run, a, c) \in Nat
    BY <1>3, <1>4, ShareIsNat
  <2> QED
    BY <1>2, <2>4, <2>5 DEF more, a, c
<1>6. CASE next \notin run.nodes
  <2>1. Cardinality(more.nodes) = d + 1
    BY <1>2, <1>3, <1>6, FS_AddElement
  <2> HIDE DEF d
  <2>2. Cardinality(more.nodes) \in Nat
    BY <1>3, <2>1
  <2>3. ShareShown(more, a, c) \in Nat /\ PartShare(d + 1, 0, 1) <= ShareShown(more, a, c)
    BY <1>4, <2>1, <2>2, ShareIsNat
  <2>4. ShareShown(run, a, c) \in Nat /\ ShareShown(run, a, c) <= PartShare(d + 1, 0, 1)
    BY <1>3, <1>4, ShareIsNat DEF d
  <2>5. PartShare(d + 1, 0, 1) \in Nat
    <3>1. d + 1 \in Nat
      BY <1>3
    <3> QED
      BY <3>1, PartShareIs, SMTT(30)
  <2> QED
    BY <1>2, <2>3, <2>4, <2>5 DEF more, a, c
<1> QED
  BY <1>5, <1>6

LEMMA NoneFailedOfBoth ==
  ASSUME InputsFit
  PROVE  NoneFailed(left \o right) <=> NoneFailed(left) /\ NoneFailed(right)
<1> DEFINE S == Alphabet[task].left \cup Alphabet[task].right
           n == Len(left)
           m == Len(right)
           both == left \o right
<1>1. left \in Seq(S) /\ right \in Seq(S)
  BY DEF InputsFit
<1> HIDE DEF S
<1>2. /\ n \in Nat /\ m \in Nat /\ DOMAIN left = 1..n /\ DOMAIN right = 1..m
      /\ DOMAIN both = 1..n + m
      /\ \A i \in 1..n + m : both[i] = IF i <= n THEN left[i] ELSE right[i - n]
  BY <1>1
<1> HIDE DEF both
<1>3. ASSUME NoneFailed(both) PROVE NoneFailed(left) /\ NoneFailed(right)
  <2>1. \A i \in 1..n : i \in 1..n + m /\ i <= n
    BY <1>2
  <2>2. \A i \in 1..m : n + i \in 1..n + m /\ ~ (n + i <= n) /\ (n + i) - n = i
    BY <1>2
  <2>3. \A i \in 1..n : both[i] = left[i]
    BY <1>2, <2>1
  <2>4. \A i \in 1..m : both[n + i] = right[i]
    BY <1>2, <2>2
  <2> QED
    BY <1>2, <1>3, <2>1, <2>2, <2>3, <2>4, SMTT(30) DEF NoneFailed
<1>4. ASSUME NoneFailed(left), NoneFailed(right) PROVE NoneFailed(both)
  <2>1. \A i \in 1..n + m : i <= n => i \in 1..n
    BY <1>2
  <2>2. \A i \in 1..n + m : ~ (i <= n) => i - n \in 1..m
    BY <1>2
  <2> QED
    BY <1>2, <1>4, <2>1, <2>2 DEF NoneFailed
<1> QED
  BY <1>3, <1>4 DEF both

LEMMA PercentNeverFallsFor ==
  ASSUME InputsFit, IsLedger(left), IsLedger(right), NEW run \in RunsShown, Reached(run)
  PROVE  PercentNeverFalls(run)
<1> DEFINE percent(r, comparison, claims) == Shown(r, comparison, claims).percent
           a == Aggregate(left)
           c == Aggregate(right)
           next == Cardinality(run.nodes) + 1
<1>1. ASSUME NEW r, NEW comparison, NEW claims
      PROVE  percent(r, comparison, claims)
               = PercentCapped(r, ShareShown(r, Aggregate(comparison), Aggregate(claims)))
  BY PercentIs DEF Shown, RunResponse
<1> HIDE DEF percent
<1>2. Cardinality(run.nodes) \in Nat
  <2>1. run.nodes \subseteq 1..NodeCount
    BY RunsShownAssumption
  <2>2. 1 \in Int /\ NodeCount \in Int
    BY DEF NodeCount
  <2>3. IsFiniteSet(run.nodes)
    BY <2>1, <2>2, FS_Interval, FS_Subset
  <2> QED
    BY <2>3, FS_CardinalityType
<1>3. ShareShown(run, a, c) \in Nat
  BY <1>2, AggregateIs, ShareIsNat
<1>4. /\ percent(run, left, right) \in 0..100
      /\ percent(run, left, right) = 100 <=> run.status \in FinishedStatuses
  <2>1. ShareShown(run, a, c) <= ShareShown(run, a, c)
    BY <1>3
  <2> HIDE DEF a, c
  <2>2. /\ PercentCapped(run, ShareShown(run, a, c)) \in 0..100
        /\ PercentCapped(run, ShareShown(run, a, c)) = 100 <=> run.status \in FinishedStatuses
    BY <1>3, <2>1, PercentKeepsOrder
  <2> QED
    BY <1>1, <2>2 DEF a, c
<1>5. ASSUME NoneFailed(left \o right), NEW k \in DOMAIN left
      PROVE  percent(run, left, right) <= percent(run, Done(left, k), right)
  <2>1. NoneFailed(left)
    BY <1>5, NoneFailedOfBoth
  <2> DEFINE b == Aggregate(Done(left, k))
  <2>2. ShareShown(run, b, c) \in Nat /\ ShareShown(run, a, c) <= ShareShown(run, b, c)
    BY <1>2, <2>1, LeftDoneAdds
  <2> HIDE DEF a, b, c
  <2>3. PercentCapped(run, ShareShown(run, a, c)) <= PercentCapped(run, ShareShown(run, b, c))
    BY <1>3, <2>2, PercentKeepsOrder
  <2> QED
    BY <1>1, <2>3 DEF a, b, c
<1>6. ASSUME NoneFailed(left \o right), NEW k \in DOMAIN right
      PROVE  percent(run, left, right) <= percent(run, left, Done(right, k))
  <2>1. NoneFailed(right)
    BY <1>6, NoneFailedOfBoth
  <2> DEFINE b == Aggregate(Done(right, k))
  <2>2. ShareShown(run, a, b) \in Nat /\ ShareShown(run, a, c) <= ShareShown(run, a, b)
    BY <1>2, <2>1, RightDoneAdds
  <2> HIDE DEF a, b, c
  <2>3. PercentCapped(run, ShareShown(run, a, c)) <= PercentCapped(run, ShareShown(run, a, b))
    BY <1>3, <2>2, PercentKeepsOrder
  <2> QED
    BY <1>1, <2>3 DEF a, b, c
<1>7. percent(run, left, right) <= percent([run EXCEPT !.nodes = @ \cup {next}], left, right)
  <2> DEFINE more == [run EXCEPT !.nodes = @ \cup {next}]
  <2>1. /\ more.status = run.status /\ ShareShown(more, a, c) \in Nat
        /\ ShareShown(run, a, c) <= ShareShown(more, a, c)
    BY NodeDoneAdds
  <2> HIDE DEF more, a, c
  <2>2. PercentCapped(run, ShareShown(run, a, c)) <= PercentCapped(run, ShareShown(more, a, c))
    BY <1>3, <2>1, PercentKeepsOrder
  <2>3. PercentCapped(more, ShareShown(more, a, c)) = PercentCapped(run, ShareShown(more, a, c))
    BY <2>1 DEF PercentCapped, Ceiling
  <2> QED
    BY <1>1, <2>2, <2>3 DEF a, c, more
<1> QED
  BY <1>4, <1>5, <1>6, <1>7 DEF PercentNeverFalls, percent

(* The guard lets a run pass with nothing of its ledgers left to do.       *)
LEMMA PassedIsDone ==
  ASSUME NEW run, NEW comparison, NEW claims,
         EvaluateReadiness(run, comparison, claims) = {}
  PROVE  /\ {4, 5, 6, 7} \subseteq run.nodes /\ run.comparisonStatus = "completed"
         /\ comparison.recorded => comparison.completed = comparison.total
         /\ claims.recorded => claims.completed = claims.total
<1>1. 4 \in run.nodes /\ run.comparisonStatus = "completed"
  BY DEF EvaluateReadiness
<1>2. 5 \in run.nodes
  BY DEF EvaluateReadiness
<1>3. {6, 7, 8} \ (run.nodes \cap run.reported) = {}
  BY ZenonT(60) DEF EvaluateReadiness
<1>4. BatchBlockers("disclosure_classification", comparison, run.plannedComparison, FALSE) = {}
  BY <1>1 DEF EvaluateReadiness
<1>5. BatchBlockers("financial_claims", claims, run.plannedClaims, TRUE) = {}
  BY <1>2 DEF EvaluateReadiness
<1>6. comparison.recorded => comparison.completed = comparison.total
  BY <1>4 DEF BatchBlockers
<1>7. claims.recorded => claims.completed = claims.total
  BY <1>5 DEF BatchBlockers
<1> QED
  BY <1>1, <1>2, <1>3, <1>6, <1>7

LEMMA CompletedHaveNotFailed ==
  ASSUME NEW rows, IsLedger(rows),
         Aggregate(rows).recorded => Aggregate(rows).completed = Aggregate(rows).total
  PROVE  NoneFailed(rows)
<1>1. CASE rows = <<>>
  <2>1. DOMAIN rows = {}
    BY <1>1 DEF IsLedger
  <2> QED
    BY <2>1 DEF NoneFailed
<1>2. CASE rows # <<>>
  <2>1. Aggregate(rows).recorded
    BY <1>2 DEF Aggregate
  <2>2. \A k \in DOMAIN rows : rows[k].status = "completed"
    BY <2>1, AggregateIs
  <2> QED
    BY <2>2 DEF NoneFailed
<1> QED
  BY <1>1, <1>2

(***************************************************************************)
(* For any ledgers and any run that has reached its stages: the percentage *)
(* is a hundred for a finished run alone and never falls as parts and      *)
(* nodes are done; errors of parts that recovered do not decide a retry;   *)
(* and what the guard lets pass has no failed part and is shown with its   *)
(* early stages done, or requiring the review the report speaks of         *)
(* (_aggregate, evaluate_readiness, build_stage_progress).                 *)
(***************************************************************************)
THEOREM ProgressIsShownHonestly == Spec => []ProgressIsHonest
<1>1. InputsFit => ProgressIsHonest
  <2> SUFFICES ASSUME InputsFit, task = "progress", NEW run \in RunsShown, Reached(run)
               PROVE  LET comparison == Aggregate(left)
                          claims == Aggregate(right)
                          shown == Shown(run, left, right)
                          stages == shown.stages
                      IN  /\ PercentNeverFalls(run)
                          /\ RetryAccepted(run, shown, FALSE)
                               = RetryAccepted(run, Shown(run, Cleared(left), Cleared(right)), FALSE)
                          /\ /\ EvaluateReadiness(run, comparison, claims) = {}
                             /\ run.status = "failed" => run.failureNode \notin run.nodes
                             =>
                               /\ NoneFailed(left \o right)
                               /\ \A s \in 1..2 : stages[s].status \in {"completed", "requires_review"}
                               /\ \A s \in 3..4 : stages[s].status = "completed"
                               /\ stages[1].status = "requires_review"
                                    <=> "disclosure_classification" \in DataQuality(run, comparison, claims)
                               /\ stages[2].status = "requires_review"
                                    <=> "financial_claims" \in DataQuality(run, comparison, claims)
    BY DEF ProgressIsHonest
  <2> DEFINE comparison == Aggregate(left)
             claims == Aggregate(right)
             shown == Shown(run, left, right)
             stages == shown.stages
  <2>1. IsLedger(left) /\ IsLedger(right)
    BY LedgersFit
  <2>2. PercentNeverFalls(run)
    BY <2>1, PercentNeverFallsFor
  <2>3. RetryAccepted(run, shown, FALSE)
          = RetryAccepted(run, Shown(run, Cleared(left), Cleared(right)), FALSE)
    <3>1. Aggregate(Cleared(left)) = Aggregate(left) /\ Aggregate(Cleared(right)) = Aggregate(right)
      BY <2>1, ClearedIsTheSame
    <3>2. Shown(run, Cleared(left), Cleared(right)) = shown
      BY <3>1 DEF Shown
    <3> QED
      BY <3>2
  <2>4. stages = BuildStageProgress(run, comparison, claims)
    BY DEF Shown, RunResponse
  <2> HIDE DEF shown, stages
  <2>5. ASSUME EvaluateReadiness(run, comparison, claims) = {},
               run.status = "failed" => run.failureNode \notin run.nodes
        PROVE  /\ NoneFailed(left \o right)
               /\ \A s \in 1..2 : stages[s].status \in {"completed", "requires_review"}
               /\ \A s \in 3..4 : stages[s].status = "completed"
               /\ stages[1].status = "requires_review"
                    <=> "disclosure_classification" \in DataQuality(run, comparison, claims)
               /\ stages[2].status = "requires_review"
                    <=> "financial_claims" \in DataQuality(run, comparison, claims)
    <3>1. /\ {4, 5, 6, 7} \subseteq run.nodes /\ run.comparisonStatus = "completed"
          /\ comparison.recorded => comparison.completed = comparison.total
          /\ claims.recorded => claims.completed = claims.total
      BY <2>5, PassedIsDone
    <3>2. NoneFailed(left \o right)
      BY <2>1, <3>1, CompletedHaveNotFailed, NoneFailedOfBoth
    <3> HIDE DEF comparison, claims
    <3>3. /\ stages[1] = StageEntry(run, 1, comparison)
          /\ stages[2] = StageEntry(run, 2, claims)
          /\ stages[3] = StageEntry(run, 3, NoBatches)
          /\ stages[4] = StageEntry(run, 4, NoBatches)
      BY <2>4, StagesAre
    <3>4. /\ StageNodes[1] = 4 /\ StageNodes[2] = 5 /\ StageNodes[3] = 6 /\ StageNodes[4] = 7
      BY DEF StageNodes
    <3>5. ASSUME NEW node \in {4, 5, 6, 7}, NEW progress
          PROVE  StageStatus(run, node, progress)
                   = IF progress.review > 0 THEN "requires_review" ELSE "completed"
      BY <2>5, <3>1 DEF StageStatus
    <3>6. /\ stages[1].status = IF comparison.review > 0 THEN "requires_review" ELSE "completed"
          /\ stages[2].status = IF claims.review > 0 THEN "requires_review" ELSE "completed"
          /\ stages[3].status = IF NoBatches.review > 0 THEN "requires_review" ELSE "completed"
          /\ stages[4].status = IF NoBatches.review > 0 THEN "requires_review" ELSE "completed"
      BY <3>3, <3>4, <3>5, StageEntryIs
    <3>7. /\ "disclosure_classification" \in DataQuality(run, comparison, claims)
               <=> comparison.review > 0
          /\ "financial_claims" \in DataQuality(run, comparison, claims) <=> claims.review > 0
      BY <3>1 DEF DataQuality
    <3>8. /\ \A s \in 1..2 : stages[s].status \in {"completed", "requires_review"}
          /\ \A s \in 3..4 : stages[s].status = "completed"
      <4>1. (\A s \in 1..2 : s = 1 \/ s = 2) /\ (\A s \in 3..4 : s = 3 \/ s = 4)
        OBVIOUS
      <4> QED
        BY <3>6, <4>1, NoBatchesAreReviewed
    <3>9. /\ stages[1].status = "requires_review" <=> comparison.review > 0
          /\ stages[2].status = "requires_review" <=> claims.review > 0
      BY <3>6
    <3> QED
      BY <3>2, <3>7, <3>8, <3>9
  <2> QED
    BY <2>2, <2>3, <2>5 DEF shown, stages
<1> QED
  BY <1>1, InputsAreOfTheirTask, PTL

-----------------------------------------------------------------------------
(* Searches.  What a search finds are the chunks at some of the indices,   *)
(* each once: at[k] is the index of the k-th found.                        *)

FoundAt(found, at, m, chunks, n) ==
  /\ m \in Nat /\ at \in [1..m -> 1..n]
  /\ \A j, k \in 1..m : at[j] = at[k] => j = k
  /\ found = [k \in 1..m |-> chunks[at[k]]]

Numbering(chunks, n) == DOMAIN chunks = 1..n /\ \A i \in 1..n : chunks[i].id = i

Least(m, n) == IF m < n THEN m ELSE n

LEMMA FoundIs ==
  ASSUME NEW n \in Nat, NEW chunks, NEW found, NEW at, NEW m,
         FoundAt(found, at, m, chunks, n)
  PROVE  /\ found \in Seq(ToSet(found)) /\ Len(found) = m /\ DOMAIN found = 1..m /\ m \in Nat
         /\ \A k \in 1..m : found[k] = chunks[at[k]] /\ at[k] \in 1..n
         /\ ToSet(found) = {chunks[at[k]] : k \in 1..m}
<1>1. m \in Nat /\ at \in [1..m -> 1..n] /\ found = [k \in 1..m |-> chunks[at[k]]]
  BY DEF FoundAt
<1>2. DOMAIN found = 1..m /\ \A k \in 1..m : found[k] = chunks[at[k]]
  BY <1>1
<1>3. ToSet(found) = {found[k] : k \in 1..m}
  BY <1>2 DEF ToSet
<1>4. \A k \in 1..m : found[k] \in ToSet(found)
  BY <1>3
<1>5. found \in [1..m -> ToSet(found)]
  <2>1. found = [k \in 1..m |-> found[k]]
    BY <1>1, <1>2
  <2> QED
    BY <1>4, <2>1
<1>6. found \in Seq(ToSet(found)) /\ Len(found) = m
  BY <1>1, <1>2, <1>5
<1>7. {found[k] : k \in 1..m} = {chunks[at[k]] : k \in 1..m}
  BY <1>2
<1> QED
  BY <1>1, <1>2, <1>3, <1>6, <1>7

(* The rank of a chunk is where its index is.                              *)
LEMMA RankIs ==
  ASSUME NEW n \in Nat, NEW chunks, Numbering(chunks, n), NEW found, NEW at, NEW m,
         FoundAt(found, at, m, chunks, n), NEW i \in 1..n
  PROVE  /\ RankOf(found, chunks[i]) \in 0..m
         /\ RankOf(found, chunks[i]) # 0 => at[RankOf(found, chunks[i])] = i
         /\ \A k \in 1..m : at[k] = i => RankOf(found, chunks[i]) = k
<1>1. /\ DOMAIN found = 1..m /\ m \in Nat
      /\ \A k \in 1..m : found[k] = chunks[at[k]] /\ at[k] \in 1..n
  BY FoundIs
<1>2. \A k \in 1..m : found[k].id = at[k]
  BY <1>1 DEF Numbering
<1>3. chunks[i].id = i
  BY DEF Numbering
<1>4. \A j, k \in 1..m : at[j] = at[k] => j = k
  BY DEF FoundAt
<1>5. CASE \E k \in 1..m : at[k] = i
  <2>1. PICK k \in 1..m : at[k] = i
    BY <1>5
  <2>2. (CHOOSE l \in DOMAIN found : found[l].id = chunks[i].id) = k
    <3>1. k \in DOMAIN found /\ found[k].id = chunks[i].id
      BY <1>1, <1>2, <1>3, <2>1
    <3>2. \A l \in DOMAIN found : found[l].id = chunks[i].id => l = k
      BY <1>1, <1>2, <1>3, <1>4, <2>1
    <3> QED
      BY <3>1, <3>2
  <2>3. RankOf(found, chunks[i]) = k
    BY <1>1, <1>2, <1>3, <2>1, <2>2 DEF RankOf
  <2> QED
    BY <1>1, <1>4, <2>1, <2>3
<1>6. CASE ~ \E k \in 1..m : at[k] = i
  <2>1. RankOf(found, chunks[i]) = 0
    BY <1>1, <1>2, <1>3, <1>6 DEF RankOf
  <2> QED
    BY <1>1, <1>6, <2>1
<1> QED
  BY <1>5, <1>6

(* The first of what is found.                                             *)
LEMMA TopFinds ==
  ASSUME NEW n \in Nat, NEW chunks, NEW found, NEW at, NEW m,
         FoundAt(found, at, m, chunks, n), NEW limit \in Nat
  PROVE  FoundAt(Top(found, limit), [k \in 1..Least(limit, m) |-> at[k]], Least(limit, m), chunks, n)
<1> DEFINE l == Least(limit, m)
           first == [k \in 1..l |-> at[k]]
<1>1. /\ found \in Seq(ToSet(found)) /\ Len(found) = m /\ m \in Nat
      /\ \A k \in 1..m : found[k] = chunks[at[k]] /\ at[k] \in 1..n
  BY FoundIs
<1>2. l \in 0..m /\ l = (IF limit < m THEN limit ELSE m)
  BY <1>1 DEF Least
<1>3. Top(found, limit) = SubSeq(found, 1, l)
  BY <1>1, <1>2 DEF Top
<1> HIDE DEF l
<1>4. SubSeq(found, 1, l) = [k \in 1..l |-> found[k]]
  BY <1>1, <1>2
<1>5. \A k \in 1..l : k \in 1..m
  BY <1>1, <1>2
<1>6. [k \in 1..l |-> found[k]] = [k \in 1..l |-> chunks[first[k]]]
  BY <1>1, <1>5
<1>7. \A j, k \in 1..l : first[j] = first[k] => j = k
  BY <1>5 DEF FoundAt
<1>8. first \in [1..l -> 1..n] /\ l \in Nat
  BY <1>1, <1>2, <1>5
<1> HIDE DEF first
<1>9. FoundAt(Top(found, limit), first, l, chunks, n)
  BY <1>3, <1>4, <1>6, <1>7, <1>8 DEF FoundAt
<1> QED
  BY <1>9 DEF first, l

(* Some of the chunks, by their scores.                                    *)
(* The indices of what is ranked, in the order of their scores.            *)
Ordered(index, scores, S) == [k \in 1..Cardinality(S) |-> index[At(scores, k)]]

LEMMA RankedFinds ==
  ASSUME NEW n \in Nat, NEW chunks, NEW s, NEW S, S \subseteq Nat, IsFiniteSet(S),
         NEW index \in [S -> 1..n], \A i \in S : s[i] = chunks[index[i]],
         \A i, j \in S : index[i] = index[j] => i = j,
         NEW scores \in [S -> Int]
  PROVE  FoundAt(RankedBy(s, scores), Ordered(index, scores, S), Cardinality(S), chunks, n)
<1> DEFINE m == Cardinality(S)
           place == Standing(scores)
           at == [k \in 1..m |-> index[At(scores, k)]]
<1>1. /\ m \in Nat
      /\ \A k \in 1..m : At(scores, k) \in S /\ place[At(scores, k)] = k
  BY PlacesMatch
<1>2. RankedBy(s, scores) = [k \in 1..m |-> s[At(scores, k)]]
  BY DEF RankedBy, At
<1> HIDE DEF m, place
<1>3. at \in [1..m -> 1..n]
  BY <1>1
<1>4. ASSUME NEW j \in 1..m, NEW k \in 1..m, at[j] = at[k] PROVE j = k
  <2> DEFINE i == At(scores, j)
             l == At(scores, k)
  <2>1. i \in S /\ l \in S /\ place[i] = j /\ place[l] = k
    BY <1>1
  <2>2. index[i] = index[l]
    BY <1>4
  <2> HIDE DEF i, l
  <2> QED
    BY <2>1, <2>2
<1>5. ASSUME NEW k \in 1..m PROVE s[At(scores, k)] = chunks[at[k]]
  <2> DEFINE i == At(scores, k)
  <2>1. i \in S
    BY <1>1
  <2>2. at[k] = index[i]
    OBVIOUS
  <2> HIDE DEF i, at
  <2> QED
    BY <2>1, <2>2 DEF i
<1> HIDE DEF at
<1>6. FoundAt(RankedBy(s, scores), at, m, chunks, n)
  BY <1>1, <1>2, <1>3, <1>4, <1>5 DEF FoundAt
<1> QED
  BY <1>6 DEF at, m, Ordered

LEMMA TimesKeepsOrder ==
  ASSUME NEW q \in Nat, NEW a \in Nat, NEW b \in Nat, a <= b
  PROVE  q * a \in Nat /\ q * b \in Nat /\ q * a <= q * b
<1>1. b - a \in Nat
  OBVIOUS
<1>2. q * (b - a) \in Nat /\ q * a \in Nat /\ q * b \in Nat
  BY <1>1
<1>3. q * (b - a) = q * b - q * a
  BY <1>1
<1> QED
  BY <1>2, <1>3

(* What a rank counts for, which is no more for a rank further down.       *)
Worth(rank) == IF rank = 0 THEN 0 ELSE 10000000 \div (RankConstant + rank)

LEMMA WorthFalls ==
  ASSUME NEW i \in Nat, NEW j \in Nat, i # 0, j = 0 \/ i <= j
  PROVE  Worth(i) \in Nat /\ Worth(j) \in Nat /\ Worth(j) <= Worth(i)
<1> DEFINE N == 10000000
           a == RankConstant + i
           b == RankConstant + j
<1>1. a \in Nat /\ b \in Nat /\ a # 0 /\ (j # 0 => b # 0 /\ a <= b) /\ N \in Nat
  BY RetrievalAssumption
<1>2. Worth(i) = N \div a /\ Worth(j) = (IF j = 0 THEN 0 ELSE N \div b)
  BY DEF Worth
<1> HIDE DEF a, b, N
<1>3. N \div a \in Nat
  BY <1>1
<1>4. CASE j = 0
  BY <1>2, <1>3, <1>4
<1>5. CASE j # 0
  <2> DEFINE q == N \div b
  <2>1. q \in Nat /\ q * b <= N
    BY <1>1, <1>5, DivAtMost
  <2> HIDE DEF q
  <2>2. q * a \in Nat /\ q * b \in Nat /\ q * a <= q * b
    BY <1>1, <1>5, <2>1, TimesKeepsOrder
  <2>3. q * a <= N
    BY <1>1, <2>1, <2>2
  <2>4. q <= N \div a
    BY <1>1, <2>1, <2>3, DivAtLeast
  <2> QED
    BY <1>2, <1>3, <1>5, <2>1, <2>4 DEF q
<1> QED
  BY <1>4, <1>5

LEMMA WorthIsNat ==
  ASSUME NEW i \in Nat
  PROVE  Worth(i) \in Nat
<1>1. CASE i = 0
  BY <1>1 DEF Worth
<1>2. CASE i # 0
  BY <1>2, WorthFalls
<1> QED
  BY <1>1, <1>2

LEMMA FusionScoreIs ==
  ASSUME NEW dense, NEW lexical, NEW c
  PROVE  FusionScore(dense, lexical, c) = Worth(RankOf(dense, c)) + Worth(RankOf(lexical, c))
  BY DEF FusionScore, Share, Worth

(* The candidates of the fusion: what the two searches found, one after    *)
(* the other, but for those found already.                                 *)
Both(first, second, m, l) == [k \in 1..m + l |-> IF k <= m THEN first[k] ELSE second[k - m]]
FirstOf(both, n) == {k \in 1..n : \A j \in 1..k - 1 : both[j] # both[k]}

LEMMA FirstExists ==
  ASSUME NEW n \in Nat, NEW both, NEW k \in 1..n
  PROVE  \E i \in FirstOf(both, n) : both[i] = both[k] /\ i <= k
<1> DEFINE S == {j \in 1..n : both[j] = both[k]}
<1>1. S \subseteq Nat /\ S # {}
  OBVIOUS
<1>2. PICK i \in S : \A j \in S : i <= j
  BY <1>1, LeastNatural
<1>3. i \in 1..n /\ both[i] = both[k] /\ i <= k
  BY <1>2
<1>4. ASSUME NEW j \in 1..i - 1 PROVE both[j] # both[i]
  <2>1. j \in 1..n /\ ~ (i <= j)
    BY <1>3
  <2> QED
    BY <1>2, <1>3, <2>1
<1> QED
  BY <1>3, <1>4 DEF FirstOf

InBoth(dense, d, m, lexical, e, l, chunks, n) ==
  /\ m \in Nat /\ l \in Nat /\ Both(d, e, m, l) \in [1..m + l -> 1..n]
  /\ DOMAIN (dense \o lexical) = 1..m + l
  /\ \A k \in 1..m + l : (dense \o lexical)[k] = chunks[Both(d, e, m, l)[k]]
  /\ \A k \in 1..m : Both(d, e, m, l)[k] = d[k]
  /\ \A k \in 1..l : k + m \in 1..m + l /\ Both(d, e, m, l)[k + m] = e[k]

LEMMA BothFinds ==
  ASSUME NEW n \in Nat, NEW chunks, Numbering(chunks, n),
         NEW dense, NEW d, NEW m, FoundAt(dense, d, m, chunks, n),
         NEW lexical, NEW e, NEW l, FoundAt(lexical, e, l, chunks, n)
  PROVE  InBoth(dense, d, m, lexical, e, l, chunks, n)
<1> DEFINE both == Both(d, e, m, l)
           A == ToSet(dense) \cup ToSet(lexical)
<1>1. /\ m \in Nat /\ DOMAIN dense = 1..m /\ Len(dense) = m /\ dense \in Seq(ToSet(dense))
      /\ \A k \in 1..m : dense[k] = chunks[d[k]] /\ d[k] \in 1..n
  BY FoundIs
<1>2. /\ l \in Nat /\ DOMAIN lexical = 1..l /\ Len(lexical) = l /\ lexical \in Seq(ToSet(lexical))
      /\ \A k \in 1..l : lexical[k] = chunks[e[k]] /\ e[k] \in 1..n
  BY FoundIs
<1>3. dense \in Seq(A) /\ lexical \in Seq(A)
  <2> HIDE DEF A
  <2>1. ToSet(dense) \subseteq A /\ ToSet(lexical) \subseteq A
    BY DEF A
  <2> QED
    BY <1>1, <1>2, <2>1
<1> HIDE DEF A
<1>4. /\ DOMAIN (dense \o lexical) = 1..m + l
      /\ \A k \in 1..m + l :
           (dense \o lexical)[k] = IF k <= m THEN dense[k] ELSE lexical[k - m]
  <2>1. /\ DOMAIN (dense \o lexical) = 1..Len(dense) + Len(lexical)
        /\ \A k \in 1..Len(dense) + Len(lexical) :
             (dense \o lexical)[k] = IF k <= Len(dense) THEN dense[k] ELSE lexical[k - Len(dense)]
    BY <1>3, ConcatProperties
  <2>2. Len(dense) = m /\ Len(lexical) = l
    BY <1>1, <1>2
  <2> QED
    BY <2>1, <2>2
<1>5. \A k \in 1..m + l : both[k] = IF k <= m THEN d[k] ELSE e[k - m]
  BY DEF Both
<1>6. \A k \in 1..m + l : (k <= m => k \in 1..m) /\ (~ (k <= m) => k - m \in 1..l)
  BY <1>1, <1>2
<1>7. ASSUME NEW k \in 1..m + l
      PROVE  both[k] \in 1..n /\ (dense \o lexical)[k] = chunks[both[k]]
  <2> HIDE DEF both
  <2>1. CASE k <= m
    BY <1>1, <1>4, <1>5, <1>6, <2>1
  <2>2. CASE ~ (k <= m)
    BY <1>2, <1>4, <1>5, <1>6, <2>2
  <2> QED
    BY <2>1, <2>2
<1>8. both \in [1..m + l -> 1..n]
  BY <1>7 DEF Both
<1>9. \A k \in 1..m : k \in 1..m + l /\ k <= m
  BY <1>1, <1>2
<1>10. \A k \in 1..l : k + m \in 1..m + l /\ ~ (k + m <= m) /\ (k + m) - m = k
  BY <1>1, <1>2
<1> HIDE DEF both
<1>11. \A k \in 1..m : both[k] = d[k]
  BY <1>5, <1>9
<1>12. \A k \in 1..l : both[k + m] = e[k]
  BY <1>5, <1>10
<1> QED
  BY <1>1, <1>2, <1>4, <1>7, <1>8, <1>10, <1>11, <1>12 DEF both, InBoth

(* What the fusion ranks, by which scores.                                 *)
FusionScores(dense, lexical, S) ==
  [k \in S |-> FusionScore(dense, lexical, (dense \o lexical)[k])]

LEMMA FusionIs ==
  ASSUME NEW n \in Nat, NEW chunks, Numbering(chunks, n),
         NEW dense, NEW d, NEW m, FoundAt(dense, d, m, chunks, n),
         NEW lexical, NEW e, NEW l, FoundAt(lexical, e, l, chunks, n)
  PROVE  LET S == FirstOf(Both(d, e, m, l), m + l)
         IN  ReciprocalRankFusion(dense, lexical)
               = RankedBy(dense \o lexical, FusionScores(dense, lexical, S))
<1> DEFINE both == Both(d, e, m, l)
           S == FirstOf(both, m + l)
           results == dense \o lexical
           candidates == {k \in DOMAIN results : \A j \in 1..k - 1 : results[j].id # results[k].id}
<1>1. /\ m \in Nat /\ l \in Nat /\ both \in [1..m + l -> 1..n] /\ DOMAIN results = 1..m + l
      /\ \A k \in 1..m + l : results[k] = chunks[both[k]]
  <2>1. InBoth(dense, d, m, lexical, e, l, chunks, n)
    BY BothFinds
  <2> QED
    BY <2>1 DEF InBoth
<1> HIDE DEF both
<1>2. \A k \in 1..m + l : results[k].id = both[k]
  BY <1>1 DEF Numbering
<1>3. \A k \in 1..m + l : \A j \in 1..k - 1 : j \in 1..m + l
  BY <1>1
<1> HIDE DEF results
<1>4. candidates = S
  BY <1>1, <1>2, <1>3 DEF FirstOf
<1>5. ReciprocalRankFusion(dense, lexical)
        = RankedBy(results, [k \in candidates |-> FusionScore(dense, lexical, results[k])])
  BY DEF ReciprocalRankFusion, RankedAmong, results
<1> HIDE DEF candidates, S
<1>6. ReciprocalRankFusion(dense, lexical)
        = RankedBy(results, [k \in S |-> FusionScore(dense, lexical, results[k])])
  BY <1>4, <1>5
<1> QED
  BY <1>6 DEF FusionScores, S, both, results

(* As many candidates as there are chunks that one of the searches found.  *)
CandidatesAre(S, both, last, dense, lexical, chunks) ==
  /\ S \subseteq 1..last /\ S \subseteq Nat /\ IsFiniteSet(S)
  /\ \A i, j \in S : both[i] = both[j] => i = j
  /\ Cardinality(S) = Cardinality(ToSet(dense) \cup ToSet(lexical))
  /\ ToSet(dense) \cup ToSet(lexical) = {chunks[both[k]] : k \in 1..last}

LEMMA FirstAreAll ==
  ASSUME NEW n \in Nat, NEW chunks, Numbering(chunks, n),
         NEW dense, NEW d, NEW m, FoundAt(dense, d, m, chunks, n),
         NEW lexical, NEW e, NEW l, FoundAt(lexical, e, l, chunks, n)
  PROVE  CandidatesAre(FirstOf(Both(d, e, m, l), m + l), Both(d, e, m, l), m + l, dense, lexical, chunks)
<1> DEFINE both == Both(d, e, m, l)
           S == FirstOf(both, m + l)
           U == ToSet(dense) \cup ToSet(lexical)
           h == [k \in S |-> chunks[both[k]]]
<1>1. /\ m \in Nat /\ l \in Nat /\ both \in [1..m + l -> 1..n]
      /\ \A k \in 1..m : both[k] = d[k]
      /\ \A k \in 1..l : k + m \in 1..m + l /\ both[k + m] = e[k]
  <2>1. InBoth(dense, d, m, lexical, e, l, chunks, n)
    BY BothFinds
  <2> QED
    BY <2>1 DEF InBoth
<1>2. \A k \in 1..m + l : (k <= m => k \in 1..m) /\ (~ (k <= m) => k - m \in 1..l /\ (k - m) + m = k)
  BY <1>1
<1>3. ToSet(dense) = {chunks[d[k]] : k \in 1..m} /\ ToSet(lexical) = {chunks[e[k]] : k \in 1..l}
  <2>1. ToSet(dense) = {chunks[d[k]] : k \in 1..m}
    BY FoundIs
  <2>2. ToSet(lexical) = {chunks[e[k]] : k \in 1..l}
    BY FoundIs
  <2> QED
    BY <2>1, <2>2
<1> HIDE DEF both
<1>4. S \subseteq 1..m + l /\ S \subseteq Nat
  BY <1>1 DEF FirstOf
<1>5. IsFiniteSet(S)
  <2>1. IsFiniteSet(1..m + l)
    BY <1>1, FS_Interval
  <2> QED
    BY <1>4, <2>1, FS_Subset
<1>6. ASSUME NEW i \in S, NEW j \in S, both[i] = both[j] PROVE i = j
  <2>1. i \in Nat /\ j \in Nat /\ i \in 1..m + l /\ j \in 1..m + l
    BY <1>4
  <2>2. ~ (i < j)
    <3>1. i < j => i \in 1..j - 1
      BY <2>1
    <3> QED
      BY <1>6, <3>1 DEF FirstOf
  <2>3. ~ (j < i)
    <3>1. j < i => j \in 1..i - 1
      BY <2>1
    <3> QED
      BY <1>6, <3>1 DEF FirstOf
  <2> QED
    BY <2>1, <2>2, <2>3
<1>7. U = {chunks[both[k]] : k \in 1..m + l}
  <2> DEFINE V == {chunks[both[k]] : k \in 1..m + l}
  <2>1. ASSUME NEW x \in U PROVE x \in V
    <3>1. CASE x \in ToSet(dense)
      <4>1. PICK k \in 1..m : x = chunks[d[k]]
        BY <1>3, <3>1
      <4>2. k \in 1..m + l /\ both[k] = d[k]
        BY <1>1
      <4> QED
        BY <4>1, <4>2
    <3>2. CASE x \in ToSet(lexical)
      <4>1. PICK k \in 1..l : x = chunks[e[k]]
        BY <1>3, <3>2
      <4>2. k + m \in 1..m + l /\ both[k + m] = e[k]
        BY <1>1
      <4> QED
        BY <4>1, <4>2
    <3> QED
      BY <3>1, <3>2
  <2>2. ASSUME NEW x \in V PROVE x \in U
    <3>1. PICK k \in 1..m + l : x = chunks[both[k]]
      BY <2>2
    <3>2. CASE k <= m
      <4>1. k \in 1..m /\ both[k] = d[k]
        BY <1>1, <1>2, <3>2
      <4> QED
        BY <1>3, <3>1, <4>1
    <3>3. CASE ~ (k <= m)
      <4>1. k - m \in 1..l /\ both[k] = e[k - m]
        <5>1. k - m \in 1..l /\ (k - m) + m = k
          BY <1>2, <3>3
        <5>2. both[(k - m) + m] = e[k - m]
          BY <1>1, <5>1
        <5> QED
          BY <5>1, <5>2
      <4> QED
        BY <1>3, <3>1, <4>1
    <3> QED
      BY <3>2, <3>3
  <2> HIDE DEF U, V
  <2>3. U = V
    BY <2>1, <2>2
  <2> QED
    BY <2>3 DEF V
<1>8. ASSUME NEW k \in S PROVE h[k] \in U
  BY <1>4, <1>7
<1>9. ASSUME NEW i \in S, NEW j \in S, h[i] = h[j] PROVE i = j
  <2>1. chunks[both[i]].id = both[i] /\ chunks[both[j]].id = both[j]
    BY <1>1, <1>4 DEF Numbering
  <2>2. chunks[both[i]] = chunks[both[j]]
    BY <1>9
  <2> QED
    BY <1>6, <2>1, <2>2
<1>10. ASSUME NEW x \in U PROVE \E k \in S : h[k] = x
  <2>1. PICK k \in 1..m + l : x = chunks[both[k]]
    BY <1>7
  <2>2. PICK i \in S : both[i] = both[k]
    <3>1. m + l \in Nat
      BY <1>1
    <3> HIDE DEF S
    <3>2. \E i \in FirstOf(both, m + l) : both[i] = both[k] /\ i <= k
      BY <3>1, FirstExists
    <3> QED
      BY <3>2 DEF S
  <2> QED
    BY <2>1, <2>2
<1> HIDE DEF U, S
<1>11. h \in [S -> U]
  BY <1>8
<1> HIDE DEF h
<1>12. h \in Bijection(S, U)
  BY <1>9, <1>10, <1>11 DEF Bijection, Injection, Surjection, IsInjective
<1>13. Cardinality(S) = Cardinality(U)
  <2>1. ExistsBijection(S, U)
    BY <1>12 DEF ExistsBijection
  <2> QED
    BY <1>5, <2>1, FS_Bijection
<1> QED
  BY <1>4, <1>5, <1>6, <1>7, <1>13 DEF S, U, both, CandidatesAre

LEMMA ScoresFall ==
  ASSUME NEW a \in Nat, NEW b \in Nat, NEW c \in Nat, NEW d \in Nat,
         a # 0, b = 0 \/ a < b, d = 0 \/ (c # 0 /\ c <= d)
  PROVE  /\ Worth(a) + Worth(c) \in Nat /\ Worth(b) + Worth(d) \in Nat
         /\ Worth(b) + Worth(d) <= Worth(a) + Worth(c)
<1>1. Worth(a) \in Nat /\ Worth(b) \in Nat /\ Worth(b) <= Worth(a)
  BY WorthFalls
<1>2. Worth(c) \in Nat /\ Worth(d) \in Nat
  BY WorthIsNat
<1>3. Worth(d) <= Worth(c)
  <2>1. CASE d = 0
    BY <1>2, <2>1 DEF Worth
  <2>2. CASE c # 0 /\ c <= d
    BY <2>2, WorthFalls
  <2> QED
    BY <2>1, <2>2
<1> QED
  BY <1>1, <1>2, <1>3

(* A candidate of the fusion comes before another that one search ranks    *)
(* below it and the other does not rank above it.                          *)
LEMMA CandidatesFallInOrder ==
  ASSUME NEW n \in Nat, NEW chunks, Numbering(chunks, n),
         NEW dense, NEW d, NEW m, FoundAt(dense, d, m, chunks, n),
         NEW lexical, NEW e, NEW l, FoundAt(lexical, e, l, chunks, n),
         NEW i \in 1..n, NEW j \in 1..n,
         Prefers(dense, chunks[i], chunks[j]), ~ Prefers(lexical, chunks[j], chunks[i]),
         NEW b \in FirstOf(Both(d, e, m, l), m + l), Both(d, e, m, l)[b] = j
  PROVE  \E a \in FirstOf(Both(d, e, m, l), m + l) :
           /\ Both(d, e, m, l)[a] = i /\ a < b
           /\ FusionScore(dense, lexical, chunks[i]) \in Nat
           /\ FusionScore(dense, lexical, chunks[j]) \in Nat
           /\ FusionScore(dense, lexical, chunks[j]) <= FusionScore(dense, lexical, chunks[i])
<1> DEFINE di == RankOf(dense, chunks[i])
           dj == RankOf(dense, chunks[j])
           li == RankOf(lexical, chunks[i])
           lj == RankOf(lexical, chunks[j])
           both == Both(d, e, m, l)
<1>1. di \in 0..m /\ (di # 0 => d[di] = i)
  BY RankIs
<1>2. dj \in 0..m /\ \A k \in 1..m : d[k] = j => dj = k
  BY RankIs
<1>3. li \in 0..l
  BY RankIs
<1>4. lj \in 0..l
  BY RankIs
<1>5. di # 0 /\ (dj = 0 \/ di < dj) /\ (lj = 0 \/ ~ (li = 0 \/ lj < li))
  BY DEF Prefers
<1>6. /\ FusionScore(dense, lexical, chunks[i]) = Worth(di) + Worth(li)
      /\ FusionScore(dense, lexical, chunks[j]) = Worth(dj) + Worth(lj)
  BY FusionScoreIs
<1>7. /\ m \in Nat /\ l \in Nat /\ both \in [1..m + l -> 1..n]
      /\ \A k \in 1..m : both[k] = d[k]
  <2>1. InBoth(dense, d, m, lexical, e, l, chunks, n)
    BY BothFinds
  <2> QED
    BY <2>1 DEF InBoth
<1> HIDE DEF di, dj, li, lj, both
<1>8. di \in Nat /\ dj \in Nat /\ li \in Nat /\ lj \in Nat
  BY <1>1, <1>2, <1>3, <1>4, <1>7
<1>9. lj = 0 \/ (li # 0 /\ li <= lj)
  BY <1>5, <1>8
<1>10. /\ Worth(di) + Worth(li) \in Nat /\ Worth(dj) + Worth(lj) \in Nat
       /\ Worth(dj) + Worth(lj) <= Worth(di) + Worth(li)
  BY <1>5, <1>8, <1>9, ScoresFall
<1>11. di \in 1..m /\ di \in 1..m + l /\ both[di] = i
  BY <1>1, <1>5, <1>7, <1>8
<1>12. PICK a \in FirstOf(both, m + l) : both[a] = i /\ a <= di
  <2>1. m + l \in Nat
    BY <1>7
  <2>2. \E a \in FirstOf(both, m + l) : both[a] = both[di] /\ a <= di
    BY <1>11, <2>1, FirstExists
  <2> QED
    BY <1>11, <2>2
<1>13. b \in 1..m + l /\ a \in 1..m + l /\ both[b] = j
  BY <1>12 DEF FirstOf, both
<1>14. a < b
  <2>1. CASE b <= m
    <3>1. b \in 1..m
      BY <1>7, <1>13, <2>1
    <3>2. dj = b
      BY <1>2, <1>7, <1>13, <3>1
    <3>3. di < b
      BY <1>5, <1>13, <3>1, <3>2, <1>7
    <3> QED
      BY <1>8, <1>12, <1>13, <3>3, <1>7
  <2>2. CASE ~ (b <= m)
    BY <1>7, <1>8, <1>11, <1>12, <1>13, <2>2
  <2> QED
    BY <2>1, <2>2
<1> QED
  BY <1>6, <1>10, <1>12, <1>14 DEF both

Fuses(at, q, found, dense, lexical, chunks, n) ==
  /\ FoundAt(found, at, q, chunks, n)
  /\ q = Cardinality(ToSet(dense) \cup ToSet(lexical))
  /\ \A k \in 1..q : chunks[at[k]] \in ToSet(dense) \cup ToSet(lexical)
  /\ \A i, j \in 1..n : \A r \in 1..q :
       Prefers(dense, chunks[i], chunks[j]) /\ ~ Prefers(lexical, chunks[j], chunks[i]) /\ at[r] = j
         => \E p \in 1..q : p < r /\ at[p] = i

LEMMA FusionFinds ==
  ASSUME NEW n \in Nat, NEW chunks, Numbering(chunks, n),
         NEW dense, NEW d, NEW m, FoundAt(dense, d, m, chunks, n),
         NEW lexical, NEW e, NEW l, FoundAt(lexical, e, l, chunks, n)
  PROVE  \E at, q : Fuses(at, q, ReciprocalRankFusion(dense, lexical), dense, lexical, chunks, n)
<1> DEFINE both == Both(d, e, m, l)
           S == FirstOf(both, m + l)
           s == dense \o lexical
           scores == FusionScores(dense, lexical, S)
           index == [k \in S |-> both[k]]
           found == ReciprocalRankFusion(dense, lexical)
           q == Cardinality(S)
           at == Ordered(index, scores, S)
<1>1. /\ m \in Nat /\ l \in Nat /\ both \in [1..m + l -> 1..n] /\ DOMAIN s = 1..m + l
      /\ \A k \in 1..m + l : s[k] = chunks[both[k]]
  <2>1. InBoth(dense, d, m, lexical, e, l, chunks, n)
    BY BothFinds
  <2> QED
    BY <2>1 DEF InBoth
<1>2. /\ S \subseteq 1..m + l /\ S \subseteq Nat /\ IsFiniteSet(S)
      /\ \A i, j \in S : both[i] = both[j] => i = j
      /\ q = Cardinality(ToSet(dense) \cup ToSet(lexical))
      /\ \A k \in S : chunks[both[k]] \in ToSet(dense) \cup ToSet(lexical)
  <2>1. CandidatesAre(S, both, m + l, dense, lexical, chunks)
    BY FirstAreAll
  <2> HIDE DEF S, both
  <2> QED
    BY <2>1 DEF CandidatesAre
<1>3. found = RankedBy(s, scores)
  BY FusionIs
<1>4. ASSUME NEW k \in S PROVE scores[k] = FusionScore(dense, lexical, chunks[both[k]]) /\ scores[k] \in Int
  <2>1. k \in 1..m + l
    BY <1>2
  <2>2. s[k] = chunks[both[k]] /\ both[k] \in 1..n
    BY <1>1, <2>1
  <2>3. scores[k] = FusionScore(dense, lexical, s[k])
    BY DEF FusionScores
  <2>4. FusionScore(dense, lexical, chunks[both[k]]) \in Int
    <3> HIDE DEF both
    <3> DEFINE i == both[k]
    <3>1. i \in 1..n
      BY <2>2
    <3> HIDE DEF i
    <3>2. RankOf(dense, chunks[i]) \in 0..m
      BY <3>1, RankIs
    <3>3. RankOf(lexical, chunks[i]) \in 0..l
      BY <3>1, RankIs
    <3>4. RankOf(dense, chunks[i]) \in Nat /\ RankOf(lexical, chunks[i]) \in Nat
      BY <1>1, <3>2, <3>3
    <3>5. Worth(RankOf(dense, chunks[i])) \in Nat /\ Worth(RankOf(lexical, chunks[i])) \in Nat
      BY <3>4, WorthIsNat
    <3>6. FusionScore(dense, lexical, chunks[i]) \in Int
      BY <3>5, FusionScoreIs
    <3> QED
      BY <3>6 DEF i
  <2> HIDE DEF s, both, scores
  <2> QED
    BY <2>2, <2>3, <2>4
<1>5. scores \in [S -> Int]
  <2>1. scores = [k \in S |-> scores[k]]
    BY DEF FusionScores
  <2> HIDE DEF scores, S
  <2>2. \A k \in S : scores[k] \in Int
    BY <1>4
  <2> QED
    BY <2>1, <2>2
<1>6. index \in [S -> 1..n] /\ \A k \in S : s[k] = chunks[index[k]]
  BY <1>1, <1>2
<1>7. \A i, j \in S : index[i] = index[j] => i = j
  BY <1>2
<1> HIDE DEF S, index, scores, s
<1>8. FoundAt(RankedBy(s, scores), at, q, chunks, n)
  BY <1>2, <1>5, <1>6, <1>7, RankedFinds
<1>9. ASSUME NEW i \in 1..n, NEW j \in 1..n,
             Prefers(dense, chunks[i], chunks[j]), ~ Prefers(lexical, chunks[j], chunks[i]),
             NEW r \in 1..q, at[r] = j
      PROVE  \E p \in 1..q : p < r /\ at[p] = i
  <2>1. /\ q \in Nat
        /\ \A k \in 1..q : At(scores, k) \in S /\ Standing(scores)[At(scores, k)] = k
        /\ \A k \in S : /\ Standing(scores)[k] \in 1..q
                        /\ At(scores, Standing(scores)[k]) = k
    BY <1>2, <1>5, PlacesMatch
  <2> DEFINE b == At(scores, r)
  <2>2. b \in S /\ Standing(scores)[b] = r /\ both[b] = j
    BY <1>9, <2>1 DEF index, Ordered
  <2> HIDE DEF b, both
  <2>3. PICK a \in S : /\ both[a] = i /\ a < b
                       /\ FusionScore(dense, lexical, chunks[i]) \in Nat
                       /\ FusionScore(dense, lexical, chunks[j]) \in Nat
                       /\ FusionScore(dense, lexical, chunks[j]) <= FusionScore(dense, lexical, chunks[i])
    <3>1. b \in FirstOf(Both(d, e, m, l), m + l) /\ Both(d, e, m, l)[b] = j
      BY <2>2 DEF S, both
    <3>2. \E a \in FirstOf(Both(d, e, m, l), m + l) :
           /\ Both(d, e, m, l)[a] = i /\ a < b
           /\ FusionScore(dense, lexical, chunks[i]) \in Nat
           /\ FusionScore(dense, lexical, chunks[j]) \in Nat
           /\ FusionScore(dense, lexical, chunks[j]) <= FusionScore(dense, lexical, chunks[i])
      BY <1>9, <3>1, CandidatesFallInOrder
    <3> QED
      BY <3>2 DEF S, both
  <2>4. scores[a] \in Int /\ scores[b] \in Int /\ scores[b] <= scores[a]
    BY <1>4, <2>2, <2>3
  <2>5. Standing(scores)[a] < Standing(scores)[b]
    <3>1. scores[a] > scores[b] \/ (scores[a] = scores[b] /\ a < b)
      BY <2>3, <2>4
    <3>2. \A x, y \in S : scores[y] > scores[x] \/ (scores[y] = scores[x] /\ y < x)
                              => Standing(scores)[y] < Standing(scores)[x]
      BY <1>2, <1>5, PlacesAreAll
    <3> QED
      BY <2>2, <2>3, <3>1, <3>2
  <2> DEFINE p == Standing(scores)[a]
  <2>6. p \in 1..q /\ At(scores, p) = a
    BY <2>1, <2>3
  <2>7. at[p] = i
    BY <2>3, <2>6 DEF index, Ordered
  <2> HIDE DEF at, p
  <2>8. p < r
    BY <2>2, <2>5 DEF p
  <2> QED
    BY <2>6, <2>7, <2>8
<1> HIDE DEF at, q, found
<1>10. FoundAt(found, at, q, chunks, n)
  BY <1>3, <1>8
<1>11. ASSUME NEW k \in 1..q PROVE chunks[at[k]] \in ToSet(dense) \cup ToSet(lexical)
  <2>1. At(scores, k) \in S
    BY <1>2, <1>5, PlacesMatch DEF q
  <2> DEFINE b == At(scores, k)
  <2>2. at[k] = index[b]
    BY DEF at, Ordered, q
  <2>3. index[b] = both[b]
    BY <2>1 DEF index
  <2> HIDE DEF b, both
  <2> QED
    BY <1>2, <2>1, <2>2, <2>3 DEF b
<1>12. Fuses(at, q, found, dense, lexical, chunks, n)
  BY <1>2, <1>9, <1>10, <1>11 DEF Fuses
<1> QED
  BY <1>12 DEF found

(* Ranking some of the chunks, and keeping the first.                      *)
LEMMA SomeAreFound ==
  ASSUME NEW n \in Nat, NEW chunks, NEW S, S \subseteq 1..n, NEW scores \in [S -> Int],
         NEW limit \in Nat
  PROVE  \E at, m : /\ FoundAt(Top(RankedBy(chunks, scores), limit), at, m, chunks, n)
                    /\ \A k \in 1..m : at[k] \in S
<1> DEFINE index == [i \in S |-> i]
           q == Cardinality(S)
           found == RankedBy(chunks, scores)
           all == Ordered(index, scores, S)
           m == Least(limit, q)
           at == [k \in 1..m |-> all[k]]
<1>1. S \subseteq Nat /\ IsFiniteSet(S)
  <2>1. IsFiniteSet(1..n)
    BY FS_Interval
  <2>2. S \in SUBSET (1..n)
    OBVIOUS
  <2>3. IsFiniteSet(S)
    BY <2>1, <2>2, FS_Subset, Zenon
  <2> QED
    BY <2>3
<1>2. index \in [S -> 1..n] /\ \A i \in S : chunks[i] = chunks[index[i]]
  OBVIOUS
<1>3. \A i, j \in S : index[i] = index[j] => i = j
  OBVIOUS
<1>4. \A i \in S : index[i] = i
  OBVIOUS
<1> HIDE DEF index
<1>5. FoundAt(found, all, q, chunks, n)
  BY <1>1, <1>2, <1>3, RankedFinds
<1>6. q \in Nat /\ \A k \in 1..q : At(scores, k) \in S
  BY <1>1, PlacesMatch
<1>7. \A k \in 1..q : all[k] \in S
  BY <1>4, <1>6 DEF Ordered
<1> HIDE DEF found, all, q
<1>8. FoundAt(Top(found, limit), at, m, chunks, n)
  BY <1>5, TopFinds
<1>9. \A k \in 1..m : k \in 1..q
  BY <1>6 DEF Least
<1>10. \A k \in 1..m : at[k] \in S
  BY <1>7, <1>9
<1> QED
  BY <1>8, <1>10 DEF found

LEMMA DenseFinds ==
  ASSUME NEW n \in Nat, NEW chunks, Numbering(chunks, n), \A i \in 1..n : chunks[i].dense \in Int,
         NEW filters, NEW limit \in Nat
  PROVE  \E at, m : /\ FoundAt(DenseSearch(chunks, filters, limit), at, m, chunks, n)
                    /\ \A k \in 1..m : Passes(chunks[at[k]], filters)
<1> DEFINE S == {k \in DOMAIN chunks :
                   /\ chunks[k].dense # 0 /\ chunks[k].model = Model
                   /\ chunks[k].dense >= filters.minSimilarity /\ Passes(chunks[k], filters)}
           scores == [i \in S |-> chunks[i].dense]
<1>1. S \subseteq 1..n /\ \A i \in S : Passes(chunks[i], filters)
  BY DEF Numbering
<1>2. DenseSearch(chunks, filters, limit) = Top(RankedBy(chunks, scores), limit)
  BY DEF DenseSearch, RankedAmong
<1> HIDE DEF S
<1>3. scores \in [S -> Int]
  BY <1>1
<1> HIDE DEF scores
<1>4. PICK at, m : /\ FoundAt(Top(RankedBy(chunks, scores), limit), at, m, chunks, n)
                   /\ \A k \in 1..m : at[k] \in S
  BY <1>1, <1>3, SomeAreFound
<1> QED
  BY <1>1, <1>2, <1>4

LEMMA LexicalFinds ==
  ASSUME NEW n \in Nat, NEW chunks, Numbering(chunks, n), \A i \in 1..n : chunks[i].lexical \in Int,
         NEW filters, NEW limit \in Nat
  PROVE  \E at, m : /\ FoundAt(LexicalSearch(chunks, filters, limit), at, m, chunks, n)
                    /\ \A k \in 1..m : Passes(chunks[at[k]], filters)
<1> DEFINE S == {k \in DOMAIN chunks : chunks[k].lexical # 0 /\ Passes(chunks[k], filters)}
           scores == [i \in S |-> chunks[i].lexical]
<1>1. S \subseteq 1..n /\ \A i \in S : Passes(chunks[i], filters)
  BY DEF Numbering
<1>2. LexicalSearch(chunks, filters, limit) = Top(RankedBy(chunks, scores), limit)
  BY DEF LexicalSearch, RankedAmong
<1> HIDE DEF S
<1>3. scores \in [S -> Int]
  BY <1>1
<1> HIDE DEF scores
<1>4. PICK at, m : /\ FoundAt(Top(RankedBy(chunks, scores), limit), at, m, chunks, n)
                   /\ \A k \in 1..m : at[k] \in S
  BY <1>1, <1>3, SomeAreFound
<1> QED
  BY <1>1, <1>2, <1>4

(* The reranker finds no others.                                           *)
Rates(relevance, n) == \A id \in 1..n : relevance[id] \in Int
Reranks(found, again, at, m, limit, chunks, n) ==
  /\ FoundAt(found, again, Least(limit, m), chunks, n)
  /\ \A k \in 1..Least(limit, m) : \E j \in 1..m : again[k] = at[j]

LEMMA RerankFinds ==
  ASSUME NEW n \in Nat, NEW chunks, Numbering(chunks, n),
         NEW found, NEW at, NEW m, FoundAt(found, at, m, chunks, n),
         NEW relevance, Rates(relevance, n), NEW limit \in Nat
  PROVE  \E again : Reranks(Rerank(found, relevance, limit), again, at, m, limit, chunks, n)
<1> DEFINE S == 1..m
           scores == [k \in S |-> relevance[found[k].id]]
           all == Ordered(at, scores, S)
           again == [k \in 1..Least(limit, m) |-> all[k]]
<1>1. /\ m \in Nat /\ DOMAIN found = 1..m
      /\ \A k \in 1..m : found[k] = chunks[at[k]] /\ at[k] \in 1..n
  BY FoundIs
<1>2. S \subseteq Nat /\ IsFiniteSet(S) /\ Cardinality(S) = m
  <2>1. IsFiniteSet(1..m) /\ Cardinality(1..m) = m
    BY <1>1, FS_Interval
  <2> QED
    BY <1>1, <2>1
<1>3. at \in [S -> 1..n] /\ \A i, j \in S : at[i] = at[j] => i = j
  BY DEF FoundAt
<1>4. Rerank(found, relevance, limit) = Top(RankedBy(found, scores), limit)
  BY <1>1 DEF Rerank, Ranked, RankedAmong
<1>5. \A k \in S : relevance[found[k].id] \in Int
  BY <1>1 DEF Numbering, Rates
<1>6. \A i \in S : found[i] = chunks[at[i]]
  BY <1>1
<1> HIDE DEF S
<1>7. scores \in [S -> Int]
  BY <1>5
<1> HIDE DEF scores
<1>8. FoundAt(RankedBy(found, scores), all, m, chunks, n)
  <2>1. FoundAt(RankedBy(found, scores), Ordered(at, scores, S), Cardinality(S), chunks, n)
    BY <1>2, <1>3, <1>6, <1>7, RankedFinds
  <2> QED
    BY <1>2, <2>1
<1>9. \A k \in 1..m : At(scores, k) \in S
  BY <1>2, <1>7, PlacesMatch
<1>10. \A k \in 1..m : \E j \in 1..m : all[k] = at[j]
  BY <1>2, <1>9 DEF Ordered, S
<1> HIDE DEF all
<1>11. FoundAt(Top(RankedBy(found, scores), limit), again, Least(limit, m), chunks, n)
  BY <1>8, TopFinds
<1>12. \A k \in 1..Least(limit, m) : k \in 1..m
  BY <1>1 DEF Least
<1>13. \A k \in 1..Least(limit, m) : \E j \in 1..m : again[k] = at[j]
  BY <1>10, <1>12
<1> QED
  BY <1>4, <1>11, <1>13 DEF Reranks

(* What a search fuses, and what of it is found.                           *)
Dense(chunks, request) == DenseSearch(chunks, request.filters, request.candidateK)
Lexical(chunks, request) == LexicalSearch(chunks, request.filters, request.candidateK)
FusedFrom(at, q, chunks, n, request) ==
  /\ Fuses(at, q, ReciprocalRankFusion(Dense(chunks, request), Lexical(chunks, request)),
          Dense(chunks, request), Lexical(chunks, request), chunks, n)
  /\ \A k \in 1..q : Passes(chunks[at[k]], request.filters)
  /\ \A x \in ToSet(Dense(chunks, request)) \cup ToSet(Lexical(chunks, request)) :
       \E i \in 1..n : x = chunks[i]

LEMMA FusedFinds ==
  ASSUME NEW n \in Nat, NEW chunks, Numbering(chunks, n),
         \A i \in 1..n : chunks[i].dense \in Int /\ chunks[i].lexical \in Int,
         NEW request, request.candidateK \in Nat
  PROVE  \E at, q : FusedFrom(at, q, chunks, n, request)
<1> DEFINE D == Dense(chunks, request)
           L == Lexical(chunks, request)
           filters == request.filters
           found == ReciprocalRankFusion(D, L)
<1>1. PICK d, m : /\ FoundAt(D, d, m, chunks, n)
                  /\ \A k \in 1..m : Passes(chunks[d[k]], filters)
  <2> HIDE DEF filters
  <2>1. \A i \in 1..n : chunks[i].dense \in Int
    OBVIOUS
  <2> DEFINE limit == request.candidateK
  <2>2. limit \in Nat
    OBVIOUS
  <2> HIDE DEF limit
  <2>3. \E d, m : /\ FoundAt(DenseSearch(chunks, filters, limit), d, m, chunks, n)
                  /\ \A k \in 1..m : Passes(chunks[d[k]], filters)
    BY <2>1, <2>2, DenseFinds
  <2> QED
    BY <2>3 DEF Dense, limit, filters
<1>2. PICK e, l : /\ FoundAt(L, e, l, chunks, n)
                  /\ \A k \in 1..l : Passes(chunks[e[k]], filters)
  <2> HIDE DEF filters
  <2>1. \A i \in 1..n : chunks[i].lexical \in Int
    OBVIOUS
  <2> DEFINE limit == request.candidateK
  <2>2. limit \in Nat
    OBVIOUS
  <2> HIDE DEF limit
  <2>3. \E e, l : /\ FoundAt(LexicalSearch(chunks, filters, limit), e, l, chunks, n)
                  /\ \A k \in 1..l : Passes(chunks[e[k]], filters)
    BY <2>1, <2>2, LexicalFinds
  <2> QED
    BY <2>3 DEF Lexical, limit, filters
<1> HIDE DEF D, L, filters
<1>3. PICK at, q : Fuses(at, q, found, D, L, chunks, n)
  BY <1>1, <1>2, FusionFinds
<1>4. ASSUME NEW x \in ToSet(D) PROVE Passes(x, filters) /\ \E i \in 1..n : x = chunks[i]
  <2>1. /\ \A k \in 1..m : D[k] = chunks[d[k]] /\ d[k] \in 1..n
        /\ ToSet(D) = {chunks[d[k]] : k \in 1..m}
    BY <1>1, FoundIs
  <2>2. PICK k \in 1..m : x = chunks[d[k]]
    BY <1>4, <2>1
  <2> QED
    BY <1>1, <2>1, <2>2
<1>5. ASSUME NEW x \in ToSet(L) PROVE Passes(x, filters) /\ \E i \in 1..n : x = chunks[i]
  <2>1. /\ \A k \in 1..l : L[k] = chunks[e[k]] /\ e[k] \in 1..n
        /\ ToSet(L) = {chunks[e[k]] : k \in 1..l}
    BY <1>2, FoundIs
  <2>2. PICK k \in 1..l : x = chunks[e[k]]
    BY <1>5, <2>1
  <2> QED
    BY <1>2, <2>1, <2>2
<1>6. \A k \in 1..q : chunks[at[k]] \in ToSet(D) \cup ToSet(L)
  BY <1>3 DEF Fuses
<1>7. \A k \in 1..q : Passes(chunks[at[k]], filters)
  BY <1>4, <1>5, <1>6
<1> HIDE DEF found
<1>8. \A x \in ToSet(D) \cup ToSet(L) : \E i \in 1..n : x = chunks[i]
  BY <1>4, <1>5
<1>9. FusedFrom(at, q, chunks, n, request)
  BY <1>3, <1>7, <1>8 DEF FusedFrom, found, D, L, filters
<1> QED
  BY <1>9

Kept(request, q) == Least(request.topK, Least(Least(request.candidateK, RerankerLimit), q))

LEMMA HybridFinds ==
  ASSUME NEW n \in Nat, NEW chunks, Numbering(chunks, n),
         NEW request, request.candidateK \in Nat, request.topK \in Nat,
         \A id \in 1..n : request.relevance[id] \in Int,
         NEW all, NEW q, FusedFrom(all, q, chunks, n, request)
  PROVE  \E at : /\ FoundAt(HybridSearch(chunks, request), at, Kept(request, q), chunks, n)
                 /\ \A k \in 1..Kept(request, q) : Passes(chunks[at[k]], request.filters)
                 /\ ~ request.rerank => \A k \in 1..Kept(request, q) : at[k] = all[k]
<1> DEFINE filters == request.filters
           candidateK == request.candidateK
           topK == request.topK
           limit == Least(candidateK, RerankerLimit)
           m == Least(limit, q)
           at == [k \in 1..m |-> all[k]]
           fused == Fused(chunks, request)
<1>1. candidateK \in Nat /\ topK \in Nat /\ limit \in Nat
  BY RetrievalAssumption DEF Least
<1>2. /\ FoundAt(ReciprocalRankFusion(Dense(chunks, request), Lexical(chunks, request)),
                 all, q, chunks, n)
      /\ q \in Nat
  BY DEF FusedFrom, Fuses, FoundAt
<1>3. fused = Top(ReciprocalRankFusion(Dense(chunks, request), Lexical(chunks, request)), limit)
  BY DEF Fused, Dense, Lexical, Least
<1> HIDE DEF fused, limit
<1>4. FoundAt(fused, at, m, chunks, n)
  BY <1>1, <1>2, <1>3, TopFinds
<1>5. \A k \in 1..m : Passes(chunks[at[k]], filters) /\ at[k] = all[k]
  <2>1. \A k \in 1..m : k \in 1..q
    BY <1>1, <1>2 DEF Least
  <2> QED
    BY <2>1 DEF FusedFrom
<1>6. m \in Nat
  BY <1>1, <1>2 DEF Least
<1>7. Kept(request, q) = Least(topK, m)
  BY DEF Kept, limit
<1> HIDE DEF at, m, filters, topK, candidateK
<1>8. CASE ~ request.rerank
  <2> DEFINE first == [k \in 1..Least(topK, m) |-> at[k]]
  <2>1. HybridSearch(chunks, request) = Top(fused, topK)
    BY <1>8 DEF HybridSearch, fused, topK
  <2>2. FoundAt(Top(fused, topK), first, Least(topK, m), chunks, n)
    BY <1>1, <1>4, TopFinds
  <2>3. \A k \in 1..Least(topK, m) : k \in 1..m
    BY <1>1, <1>6 DEF Least
  <2>4. \A k \in 1..Least(topK, m) : Passes(chunks[first[k]], filters) /\ first[k] = all[k]
    BY <1>5, <2>3
  <2> HIDE DEF first
  <2> QED
    BY <1>7, <2>1, <2>2, <2>4 DEF filters
<1>9. CASE request.rerank
  <2> DEFINE relevance == request.relevance
             ranked == Rerank(fused, relevance, topK)
             less == Least(topK, m)
  <2>1. HybridSearch(chunks, request) = Top(ranked, topK)
    BY <1>9 DEF HybridSearch, fused, topK
  <2>2. Rates(relevance, n)
    BY DEF Rates
  <2> HIDE DEF relevance
  <2>3. PICK again : /\ FoundAt(ranked, again, less, chunks, n)
                     /\ \A k \in 1..less : \E j \in 1..m : again[k] = at[j]
    <3>1. \E again : Reranks(Rerank(fused, relevance, topK), again, at, m, topK, chunks, n)
      BY <1>1, <1>4, <2>2, RerankFinds
    <3> QED
      BY <3>1 DEF Reranks
  <2> DEFINE first == [k \in 1..Least(topK, less) |-> again[k]]
  <2>4. less \in Nat /\ Least(topK, less) = less
    BY <1>1, <1>6 DEF Least
  <2> HIDE DEF ranked, less
  <2>5. FoundAt(Top(ranked, topK), first, Least(topK, less), chunks, n)
    BY <1>1, <2>3, TopFinds
  <2>6. \A k \in 1..less : Passes(chunks[first[k]], filters)
    <3>1. \A k \in 1..less : first[k] = again[k]
      BY <2>4
    <3> HIDE DEF first
    <3>2. \A k \in 1..less : Passes(chunks[again[k]], filters)
      BY <1>5, <2>3
    <3> QED
      BY <3>1, <3>2
  <2> HIDE DEF first
  <2>7. FoundAt(Top(ranked, topK), first, less, chunks, n)
    BY <2>4, <2>5
  <2> QED
    BY <1>7, <1>9, <2>1, <2>6, <2>7 DEF filters, less
<1> QED
  BY <1>8, <1>9

(* The first of two chunks is found before the second, if that is found.   *)
LEMMA FoundInOrder ==
  ASSUME NEW n \in Nat, NEW chunks, Numbering(chunks, n), NEW request,
         NEW all, NEW q, FusedFrom(all, q, chunks, n, request),
         NEW found, NEW at, NEW m, FoundAt(found, at, m, chunks, n), m <= q,
         \A k \in 1..m : at[k] = all[k],
         NEW i \in 1..n, NEW j \in 1..n,
         Prefers(Dense(chunks, request), chunks[i], chunks[j]),
         ~ Prefers(Lexical(chunks, request), chunks[j], chunks[i]),
         RankOf(found, chunks[j]) # 0
  PROVE  RankOf(found, chunks[i]) \in 1..RankOf(found, chunks[j])
<1> DEFINE r == RankOf(found, chunks[j])
<1>1. r \in 0..m /\ (r # 0 => at[r] = j)
  BY RankIs
<1>2. m \in Nat /\ q \in Nat
  BY DEF FoundAt, FusedFrom, Fuses
<1> HIDE DEF r
<1>3. r \in 1..m /\ r \in 1..q /\ r \in Nat
  BY <1>1, <1>2 DEF r
<1>4. all[r] = j
  BY <1>1, <1>3
<1>5. PICK p \in 1..q : p < r /\ all[p] = i
  BY <1>3, <1>4 DEF FusedFrom, Fuses
<1>6. p \in 1..m /\ p \in 1..r
  BY <1>2, <1>3, <1>5
<1>7. at[p] = i
  BY <1>5, <1>6
<1>8. RankOf(found, chunks[i]) = p
  BY <1>6, <1>7, RankIs
<1> QED
  BY <1>6, <1>8 DEF r

LEMMA KnownAreNumbered ==
  ASSUME NEW n \in Nat, NEW s, DOMAIN s = 1..n,
         \A k \in 1..n : {"id", "dense", "lexical"} \subseteq DOMAIN s[k]
  PROVE  /\ Numbering(Known(s), n)
         /\ \A k \in 1..n : Known(s)[k].dense = s[k].dense /\ Known(s)[k].lexical = s[k].lexical
<1>1. DOMAIN Known(s) = 1..n
  BY DEF Known
<1>2. ASSUME NEW k \in 1..n
      PROVE  /\ Known(s)[k].id = k
             /\ Known(s)[k].dense = s[k].dense /\ Known(s)[k].lexical = s[k].lexical
  <2>1. Known(s)[k] = [s[k] EXCEPT !.id = k]
    BY DEF Known
  <2>2. "id" \in DOMAIN s[k] /\ "dense" \in DOMAIN s[k] /\ "lexical" \in DOMAIN s[k]
    OBVIOUS
  <2> QED
    BY <2>1, <2>2
<1> QED
  BY <1>1, <1>2 DEF Numbering

LEMMA RankingsAreRespected ==
  ASSUME NEW n \in Nat, NEW chunks, Numbering(chunks, n),
         \A i \in 1..n : chunks[i].dense \in Int /\ chunks[i].lexical \in Int,
         NEW request, request.candidateK \in Nat, request.topK \in Nat,
         Rates(request.relevance, n)
  PROVE  LET dense == Dense(chunks, request)
             lexical == Lexical(chunks, request)
             found == HybridSearch(chunks, request)
         IN  /\ Len(found) <= request.topK
             /\ IsInjective(found)
             /\ \A k \in DOMAIN found : Passes(found[k], request.filters)
             /\ Len(found) = Min({request.topK, request.candidateK, RerankerLimit,
                                  Cardinality(ToSet(dense) \cup ToSet(lexical))})
             /\ ~request.rerank =>
                  \A x, y \in ToSet(dense) \cup ToSet(lexical) :
                    Prefers(dense, x, y) /\ ~Prefers(lexical, y, x) /\ RankOf(found, y) # 0
                      => RankOf(found, x) \in 1..RankOf(found, y)
<1> DEFINE dense == Dense(chunks, request)
           lexical == Lexical(chunks, request)
           found == HybridSearch(chunks, request)
           U == ToSet(dense) \cup ToSet(lexical)
           topK == request.topK
           candidateK == request.candidateK
           m(q) == Kept(request, q)
<1>1. PICK all, q : FusedFrom(all, q, chunks, n, request)
  BY FusedFinds
<1>2. PICK at : /\ FoundAt(found, at, Kept(request, q), chunks, n)
                /\ \A k \in 1..Kept(request, q) : Passes(chunks[at[k]], request.filters)
                /\ ~ request.rerank => \A k \in 1..Kept(request, q) : at[k] = all[k]
  BY <1>1, HybridFinds DEF Rates
<1>3. q = Cardinality(U) /\ q \in Nat
  BY <1>1 DEF FusedFrom, Fuses, FoundAt
<1>4. topK \in Nat /\ candidateK \in Nat /\ RerankerLimit \in Nat
  BY RetrievalAssumption
<1> DEFINE M == Kept(request, q)
           S == {topK, candidateK, RerankerLimit, Cardinality(U)}
<1>5. M \in S /\ \A x \in S : M <= x
  <2> HIDE DEF U
  <2>1. M = Least(topK, Least(Least(candidateK, RerankerLimit), q))
    BY DEF Kept
  <2> HIDE DEF topK, candidateK, M
  <2>2. M \in {topK, candidateK, RerankerLimit, q}
    BY <2>1, <1>3, <1>4 DEF Least
  <2>3. M <= topK /\ M <= candidateK /\ M <= RerankerLimit /\ M <= q
    BY <2>1, <1>3, <1>4 DEF Least
  <2> QED
    BY <2>2, <2>3, <1>3
<1>6. M = Min(S)
  <2> HIDE DEF U, M, topK, candidateK
  <2>1. S \subseteq Nat /\ S # {}
    BY <1>3, <1>4
  <2>2. Min(S) \in S /\ \A x \in S : Min(S) <= x
    <3> HIDE DEF S
    <3> QED
      BY <2>1, MinIsLeast
  <2> HIDE DEF S
  <2>3. M \in Nat /\ Min(S) \in Nat /\ M <= Min(S) /\ Min(S) <= M
    BY <1>5, <2>1, <2>2
  <2> QED
    BY <2>3
<1>7. /\ Len(found) = M /\ DOMAIN found = 1..M /\ M \in Nat
      /\ \A k \in 1..M : found[k] = chunks[at[k]] /\ at[k] \in 1..n
  <2> HIDE DEF found, M
  <2>1. FoundAt(found, at, M, chunks, n)
    BY <1>2 DEF M
  <2> QED
    BY <2>1, FoundIs
<1>8. M <= topK /\ M <= q
  BY <1>3, <1>5
<1>9. IsInjective(found)
  <2> HIDE DEF found, M
  <2>1. ASSUME NEW a \in 1..M, NEW b \in 1..M, found[a] = found[b] PROVE a = b
    <3>1. chunks[at[a]].id = at[a] /\ chunks[at[b]].id = at[b]
      BY <1>7 DEF Numbering
    <3>2. at[a] = at[b]
      BY <1>7, <2>1, <3>1
    <3>3. \A j, k \in 1..M : at[j] = at[k] => j = k
      BY <1>2 DEF M, FoundAt
    <3> QED
      BY <3>2, <3>3
  <2> QED
    BY <1>7, <2>1 DEF IsInjective
<1>10. ASSUME NEW k \in DOMAIN found PROVE Passes(found[k], request.filters)
  <2> HIDE DEF found, M
  <2>1. k \in 1..M /\ found[k] = chunks[at[k]]
    BY <1>7
  <2> QED
    BY <1>2, <2>1 DEF M
<1>11. ASSUME ~ request.rerank, NEW x \in U, NEW y \in U,
              Prefers(dense, x, y), ~ Prefers(lexical, y, x), RankOf(found, y) # 0
       PROVE  RankOf(found, x) \in 1..RankOf(found, y)
  <2>1. PICK i \in 1..n, j \in 1..n : x = chunks[i] /\ y = chunks[j]
    BY <1>1 DEF FusedFrom
  <2>2. \A k \in 1..M : at[k] = all[k]
    BY <1>2, <1>11
  <2>3. FoundAt(found, at, M, chunks, n)
    BY <1>2
  <2>4. Prefers(Dense(chunks, request), chunks[i], chunks[j])
        /\ ~ Prefers(Lexical(chunks, request), chunks[j], chunks[i])
    BY <1>11, <2>1
  <2> HIDE DEF found, M
  <2>5. RankOf(found, chunks[i]) \in 1..RankOf(found, chunks[j])
    BY <1>1, <1>8, <1>11, <2>1, <2>2, <2>3, <2>4, FoundInOrder
  <2> QED
    BY <2>1, <2>5
<1> HIDE DEF found, U, S, M
<1> QED
  BY <1>6, <1>7, <1>8, <1>9, <1>10, <1>11 DEF found, U, S

LEMMA FusionIsFair ==
  ASSUME InputsFit, task = "retrieval"
  PROVE  FusionRespectsBothRankings
<1> DEFINE n == Len(left)
           chunks == Known(left)
<1>1. n \in Nat /\ DOMAIN left = 1..n /\ \A k \in 1..n : left[k] \in Alphabet["retrieval"].left
  BY DEF InputsFit
<1>2. n <= Bound["retrieval"].left /\ Bound["retrieval"].left \in Nat
  BY BoundAssumption DEF InputsFit
<1>3. \A k \in 1..n : /\ {"id", "dense", "lexical"} \subseteq DOMAIN left[k]
                      /\ left[k].dense \in Int /\ left[k].lexical \in Int
  BY <1>1, AlphabetAssumption
<1> HIDE DEF n, chunks
<1>4. /\ Numbering(chunks, n)
      /\ \A k \in 1..n : chunks[k].dense = left[k].dense /\ chunks[k].lexical = left[k].lexical
  BY <1>1, <1>3, KnownAreNumbered DEF chunks
<1>5. \A k \in 1..n : chunks[k].dense \in Int /\ chunks[k].lexical \in Int
  BY <1>3, <1>4
<1>6. ASSUME NEW request \in Requests
      PROVE  LET dense == DenseSearch(chunks, request.filters, request.candidateK)
                 lexical == LexicalSearch(chunks, request.filters, request.candidateK)
                 found == HybridSearch(chunks, request)
             IN  /\ Len(found) <= request.topK
                 /\ IsInjective(found)
                 /\ \A k \in DOMAIN found : Passes(found[k], request.filters)
                 /\ Len(found) = Min({request.topK, request.candidateK, RerankerLimit,
                                      Cardinality(ToSet(dense) \cup ToSet(lexical))})
                 /\ ~request.rerank =>
                      \A x, y \in ToSet(dense) \cup ToSet(lexical) :
                        Prefers(dense, x, y) /\ ~Prefers(lexical, y, x) /\ RankOf(found, y) # 0
                          => RankOf(found, x) \in 1..RankOf(found, y)
  <2>1. /\ request.candidateK \in Nat /\ request.topK \in Nat
        /\ \A id \in 1..Bound["retrieval"].left : request.relevance[id] \in Int
    BY RequestsAssumption
  <2>2. Rates(request.relevance, n)
    <3>1. \A id \in 1..n : id \in 1..Bound["retrieval"].left
      BY <1>1, <1>2
    <3> QED
      BY <2>1, <3>1 DEF Rates
  <2> QED
    BY <1>1, <1>4, <1>5, <2>1, <2>2, RankingsAreRespected DEF Dense, Lexical
<1> QED
  BY <1>6 DEF FusionRespectsBothRankings, chunks

-----------------------------------------------------------------------------
(* Chunks.  First how flattening goes with putting together.               *)

LEMMA NothingFlat == FlattenSeq(<<>>) = <<>>
  BY DEF FlattenSeq

LEMMA ConcatAppend ==
  ASSUME NEW A, NEW a \in Seq(A), NEW d \in Seq(A), NEW x \in A
  PROVE  a \o Append(d, x) = Append(a \o d, x)
<1> DEFINE one == <<x>>
<1>1. one \in Seq(A) /\ a \o d \in Seq(A)
  BY ConcatProperties
<1>2. Append(d, x) = d \o one
  BY AppendIsConcat
<1>3. Append(a \o d, x) = (a \o d) \o one
  BY <1>1, AppendIsConcat
<1> HIDE DEF one
<1>4. (a \o d) \o one = a \o (d \o one)
  BY <1>1, ConcatAssociative
<1> QED
  BY <1>2, <1>3, <1>4

LEMMA FlattenConcat ==
  ASSUME NEW A, NEW a \in Seq(Seq(A)), NEW b \in Seq(Seq(A))
  PROVE  FlattenSeq(a \o b) = FlattenSeq(a) \o FlattenSeq(b)
<1> DEFINE Goes(c) == FlattenSeq(a \o c) = FlattenSeq(a) \o FlattenSeq(c)
           S == {n \in Nat : \A c \in Seq(Seq(A)) : Len(c) = n => Goes(c)}
<1>1. 0 \in S
  <2>1. ASSUME NEW c \in Seq(Seq(A)), Len(c) = 0 PROVE Goes(c)
    <3>1. c = <<>>
      BY <2>1
    <3>2. a \o <<>> = a
      BY ConcatEmptySeq
    <3>3. FlattenSeq(a) \in Seq(A)
      BY FlattenIs
    <3>4. FlattenSeq(a) \o <<>> = FlattenSeq(a)
      BY <3>3, ConcatEmptySeq
    <3> QED
      BY <3>1, <3>2, <3>4, NothingFlat
  <2> QED
    BY <2>1
<1>2. ASSUME NEW n \in Nat, n \in S PROVE n + 1 \in S
  <2>1. ASSUME NEW c \in Seq(Seq(A)), Len(c) = n + 1 PROVE Goes(c)
    <3>1. c # <<>>
      BY <2>1
    <3>2. PICK d \in Seq(Seq(A)), x \in Seq(A) : c = Append(d, x)
      BY <3>1, SequenceEmptyOrAppend
    <3>3. Len(d) = n
      BY <2>1, <3>2, AppendProperties
    <3>4. FlattenSeq(a \o d) = FlattenSeq(a) \o FlattenSeq(d)
      BY <1>2, <3>3
    <3>5. a \o Append(d, x) = Append(a \o d, x)
      <4> DEFINE B == Seq(A)
      <4>1. a \in Seq(B) /\ d \in Seq(B) /\ x \in B
        OBVIOUS
      <4> HIDE DEF B
      <4> QED
        BY <4>1, ConcatAppend
    <3>6. FlattenSeq(Append(a \o d, x)) = FlattenSeq(a \o d) \o x
      <4>1. a \o d \in Seq(Seq(A))
        BY ConcatProperties
      <4> QED
        BY <4>1, FlattenAppend
    <3>7. FlattenSeq(Append(d, x)) = FlattenSeq(d) \o x
      BY FlattenAppend
    <3>8. FlattenSeq(a) \in Seq(A)
      BY FlattenIs
    <3>9. FlattenSeq(d) \in Seq(A)
      BY FlattenIs
    <3>10. (FlattenSeq(a) \o FlattenSeq(d)) \o x = FlattenSeq(a) \o (FlattenSeq(d) \o x)
      BY <3>8, <3>9, ConcatAssociative, SMTT(30)
    <3> QED
      BY <3>2, <3>4, <3>5, <3>6, <3>7, <3>10
  <2> QED
    BY <1>2, <2>1
<1>3. Len(b) \in S
  <2>1. Len(b) \in Nat
    OBVIOUS
  <2>2. 0..Len(b) \subseteq S
    <3> DEFINE n == Len(b)
    <3>1. \A i \in 0..n - 1 : i \in S => i + 1 \in S
      BY <1>2, <2>1
    <3> HIDE DEF S, n
    <3>2. n \in Nat
      BY <2>1 DEF n
    <3> QED
      BY <1>1, <3>1, <3>2, UpTo DEF n
  <2>3. Len(b) \in 0..Len(b)
    BY <2>1
  <2> HIDE DEF S
  <2> QED
    BY <2>2, <2>3
<1> QED
  BY <1>3

(* The flattening of each of the sequences of a sequence.                  *)
EachFlat(ss) == [k \in DOMAIN ss |-> FlattenSeq(ss[k])]

LEMMA EachFlatIs ==
  ASSUME NEW A, NEW ss \in Seq(Seq(Seq(A)))
  PROVE  EachFlat(ss) \in Seq(Seq(A)) /\ Len(EachFlat(ss)) = Len(ss)
<1>1. /\ Len(ss) \in Nat /\ DOMAIN ss = 1..Len(ss)
      /\ \A k \in 1..Len(ss) : ss[k] \in Seq(Seq(A))
  OBVIOUS
<1>2. \A k \in 1..Len(ss) : FlattenSeq(ss[k]) \in Seq(A)
  BY <1>1, FlattenIs
<1>3. EachFlat(ss) \in [1..Len(ss) -> Seq(A)]
  BY <1>1, <1>2 DEF EachFlat
<1> DEFINE n == Len(ss)
           e == EachFlat(ss)
<1>4. n \in Nat /\ e \in [1..n -> Seq(A)]
  BY <1>1, <1>3
<1> HIDE DEF n, e
<1>5. e \in Seq(Seq(A)) /\ Len(e) = n
  BY <1>4
<1> QED
  BY <1>5 DEF n, e

LEMMA EachFlatAppend ==
  ASSUME NEW A, NEW ss \in Seq(Seq(Seq(A))), NEW s \in Seq(Seq(A))
  PROVE  EachFlat(Append(ss, s)) = Append(EachFlat(ss), FlattenSeq(s))
<1> DEFINE n == Len(ss)
           more == Append(ss, s)
           l == EachFlat(more)
           r == Append(EachFlat(ss), FlattenSeq(s))
<1>1. /\ n \in Nat /\ more \in Seq(Seq(Seq(A))) /\ Len(more) = n + 1 /\ DOMAIN more = 1..n + 1
      /\ \A k \in 1..n : more[k] = ss[k]
      /\ more[n + 1] = s
  BY AppendProperties
<1>2. FlattenSeq(s) \in Seq(A)
  BY FlattenIs
<1>3. EachFlat(ss) \in Seq(Seq(A)) /\ Len(EachFlat(ss)) = n
  BY EachFlatIs
<1>4. /\ r \in Seq(Seq(A)) /\ Len(r) = n + 1
      /\ \A k \in 1..n : r[k] = EachFlat(ss)[k]
      /\ r[n + 1] = FlattenSeq(s)
  <2> DEFINE e == EachFlat(ss)
             x == FlattenSeq(s)
  <2>1. e \in Seq(Seq(A)) /\ x \in Seq(A) /\ Len(e) = n
    BY <1>2, <1>3
  <2> HIDE DEF e, x
  <2>2. /\ Append(e, x) \in Seq(Seq(A)) /\ Len(Append(e, x)) = Len(e) + 1
        /\ \A k \in 1..Len(e) : Append(e, x)[k] = e[k]
        /\ Append(e, x)[Len(e) + 1] = x
    BY <2>1, AppendProperties
  <2> QED
    BY <2>1, <2>2 DEF e, x
<1>5. l \in Seq(Seq(A)) /\ Len(l) = n + 1
  <2> HIDE DEF more
  <2> QED
    BY <1>1, EachFlatIs
<1>6. \A k \in 1..n : EachFlat(ss)[k] = FlattenSeq(ss[k])
  BY DEF EachFlat
<1>7. \A k \in 1..n + 1 : l[k] = FlattenSeq(more[k])
  BY <1>1 DEF EachFlat
<1> HIDE DEF l, r, more
<1>8. ASSUME NEW k \in 1..n + 1 PROVE l[k] = r[k]
  <2>1. CASE k = n + 1
    BY <1>1, <1>4, <1>7, <2>1
  <2>2. CASE k # n + 1
    <3>1. k \in 1..n
      BY <1>1, <2>2
    <3> QED
      BY <1>1, <1>4, <1>6, <1>7, <3>1
  <2> QED
    BY <2>1, <2>2
<1>9. l = r
  BY <1>4, <1>5, <1>8, SeqEqual
<1> QED
  BY <1>9 DEF l, r, more

LEMMA FlattenTwice ==
  ASSUME NEW A, NEW ss \in Seq(Seq(Seq(A)))
  PROVE  FlattenSeq(FlattenSeq(ss)) = FlattenSeq(EachFlat(ss))
<1> DEFINE Goes(c) == FlattenSeq(FlattenSeq(c)) = FlattenSeq(EachFlat(c))
           S == {n \in Nat : \A c \in Seq(Seq(Seq(A))) : Len(c) = n => Goes(c)}
<1>1. 0 \in S
  <2>1. ASSUME NEW c \in Seq(Seq(Seq(A))), Len(c) = 0 PROVE Goes(c)
    <3>1. c = <<>>
      BY <2>1
    <3>2. EachFlat(c) \in Seq(Seq(A)) /\ Len(EachFlat(c)) = 0
      BY <2>1, EachFlatIs
    <3>3. EachFlat(c) = <<>>
      BY <3>2
    <3> QED
      BY <3>1, <3>3, NothingFlat
  <2> QED
    BY <2>1
<1>2. ASSUME NEW n \in Nat, n \in S PROVE n + 1 \in S
  <2>1. ASSUME NEW c \in Seq(Seq(Seq(A))), Len(c) = n + 1 PROVE Goes(c)
    <3>1. c # <<>>
      BY <2>1
    <3>2. PICK d \in Seq(Seq(Seq(A))), x \in Seq(Seq(A)) : c = Append(d, x)
      BY <3>1, SequenceEmptyOrAppend
    <3>3. Len(d) = n
      BY <2>1, <3>2, AppendProperties
    <3>4. FlattenSeq(FlattenSeq(d)) = FlattenSeq(EachFlat(d))
      BY <1>2, <3>3
    <3>5. FlattenSeq(Append(d, x)) = FlattenSeq(d) \o x
      BY FlattenAppend
    <3>6. FlattenSeq(d) \in Seq(Seq(A))
      BY FlattenIs
    <3>7. FlattenSeq(FlattenSeq(d) \o x) = FlattenSeq(FlattenSeq(d)) \o FlattenSeq(x)
      BY <3>6, FlattenConcat
    <3>8. EachFlat(Append(d, x)) = Append(EachFlat(d), FlattenSeq(x))
      BY EachFlatAppend
    <3>9. EachFlat(d) \in Seq(Seq(A))
      BY EachFlatIs
    <3>10. FlattenSeq(x) \in Seq(A)
      BY FlattenIs
    <3>11. FlattenSeq(Append(EachFlat(d), FlattenSeq(x))) = FlattenSeq(EachFlat(d)) \o FlattenSeq(x)
      BY <3>9, <3>10, FlattenAppend
    <3> QED
      BY <3>2, <3>4, <3>5, <3>7, <3>8, <3>11
  <2> QED
    BY <1>2, <2>1
<1>3. Len(ss) \in S
  <2>1. Len(ss) \in Nat
    OBVIOUS
  <2>2. 0..Len(ss) \subseteq S
    <3> DEFINE n == Len(ss)
    <3>1. \A i \in 0..n - 1 : i \in S => i + 1 \in S
      BY <1>2, <2>1
    <3> HIDE DEF S, n
    <3>2. n \in Nat
      BY <2>1 DEF n
    <3> QED
      BY <1>1, <3>1, <3>2, UpTo DEF n
  <2> QED
    BY <2>1, <2>2
<1> QED
  BY <1>3

(* A sequence cut at given places is put together again.                   *)
CutAt(w, c, m) == [k \in 1..m |-> SubSeq(w, c[k - 1] + 1, c[k])]
CutsRise(c, n, w) == c \in [0..n -> 0..Len(w)] /\ \A k \in 1..n : c[k - 1] <= c[k]

LEMMA CutsAre ==
  ASSUME NEW A, NEW w \in Seq(A), NEW n \in Nat, NEW c, CutsRise(c, n, w), NEW m \in 0..n
  PROVE  /\ CutAt(w, c, m) \in Seq(Seq(A)) /\ Len(CutAt(w, c, m)) = m
         /\ \A k \in 1..m : /\ CutAt(w, c, m)[k] = SubSeq(w, c[k - 1] + 1, c[k])
                            /\ Len(CutAt(w, c, m)[k]) = c[k] - c[k - 1]
<1> DEFINE L == Len(w)
           r == CutAt(w, c, m)
<1>1. /\ L \in Nat /\ m \in Nat /\ \A i \in 1..L : w[i] \in A
      /\ c \in [0..n -> 0..L] /\ \A k \in 1..n : c[k - 1] <= c[k]
  BY DEF CutsRise
<1>2. ASSUME NEW k \in 1..m
      PROVE  /\ r[k] = SubSeq(w, c[k - 1] + 1, c[k])
             /\ r[k] \in Seq(A) /\ Len(r[k]) = c[k] - c[k - 1]
  <2> DEFINE a == c[k - 1] + 1
             b == c[k]
  <2>1. /\ k - 1 \in 0..n /\ k \in 0..n /\ k \in 1..n
        /\ c[k - 1] \in 0..L /\ b \in 0..L /\ c[k - 1] <= b
    <3>1. k - 1 \in 0..n /\ k \in 0..n /\ k \in 1..n
      OBVIOUS
    <3> HIDE DEF L
    <3> QED
      BY <1>1, <3>1
  <2>2. a \in 1..L + 1 /\ b \in 0..L /\ a <= b + 1 /\ b - c[k - 1] = b - a + 1
    BY <1>1, <2>1
  <2>3. r[k] = SubSeq(w, a, b)
    BY DEF CutAt
  <2> HIDE DEF a, b, r, L
  <2>4. \A i \in a..b : w[i] \in A
    BY <1>1, <2>2
  <2>5. SubSeq(w, a, b) \in Seq(A) /\ Len(SubSeq(w, a, b)) = IF a <= b THEN b - a + 1 ELSE 0
    BY <1>1, <2>2, <2>4, SubSeqProperties
  <2>6. (IF a <= b THEN b - a + 1 ELSE 0) = b - a + 1
    BY <1>1, <2>2
  <2> QED
    BY <2>2, <2>3, <2>5, <2>6 DEF a, b
<1>3. r = [k \in 1..m |-> r[k]]
  BY DEF CutAt
<1> HIDE DEF r
<1>4. r \in [1..m -> Seq(A)]
  BY <1>2, <1>3
<1>5. r \in Seq(Seq(A)) /\ Len(r) = m
  BY <1>1, <1>4
<1> QED
  BY <1>2, <1>5 DEF r

LEMMA CutsFlatten ==
  ASSUME NEW A, NEW w \in Seq(A), NEW n \in Nat, NEW c, CutsRise(c, n, w), c[0] = 0, c[n] = Len(w)
  PROVE  FlattenSeq(CutAt(w, c, n)) = w
<1> DEFINE L == Len(w)
           S == {m \in 0..n : FlattenSeq(CutAt(w, c, m)) = SubSeq(w, 1, c[m])}
<1>1. L \in Nat /\ (\A m \in 0..n : c[m] \in 0..L) /\ \A k \in 1..n : c[k - 1] <= c[k]
  BY DEF CutsRise
<1>2. 0 \in S
  <2>1. CutAt(w, c, 0) = <<>>
    BY DEF CutAt
  <2>2. SubSeq(w, 1, 0) = <<>>
    BY SubSeqEmpty
  <2>3. FlattenSeq(CutAt(w, c, 0)) = SubSeq(w, 1, c[0])
    BY <2>1, <2>2, NothingFlat
  <2> QED
    BY <2>3
<1>3. ASSUME NEW m \in 0..n - 1, m \in S PROVE m + 1 \in S
  <2> DEFINE before == CutAt(w, c, m)
             after == CutAt(w, c, m + 1)
             next == SubSeq(w, c[m] + 1, c[m + 1])
  <2>1. m \in 0..n /\ m + 1 \in 0..n /\ m + 1 \in 1..n /\ m \in Nat /\ (m + 1) - 1 = m
    OBVIOUS
  <2>2. before \in Seq(Seq(A)) /\ Len(before) = m
    BY <2>1, CutsAre
  <2>3. after \in Seq(Seq(A)) /\ Len(after) = m + 1
    BY <2>1, CutsAre
  <2>4. next \in Seq(A)
    <3>1. after[m + 1] = next
      <4>1. \A k \in 1..m + 1 : after[k] = SubSeq(w, c[k - 1] + 1, c[k])
        BY DEF CutAt
      <4>2. m + 1 \in 1..m + 1
        BY <2>1
      <4> HIDE DEF after
      <4> QED
        BY <2>1, <4>1, <4>2
    <3> HIDE DEF after, next
    <3> QED
      BY <2>1, <2>3, <3>1
  <2>5. /\ Append(before, next) \in Seq(Seq(A)) /\ Len(Append(before, next)) = m + 1
        /\ \A k \in 1..m : Append(before, next)[k] = before[k]
        /\ Append(before, next)[m + 1] = next
    <3> HIDE DEF before, next
    <3>1. /\ Append(before, next) \in Seq(Seq(A)) /\ Len(Append(before, next)) = Len(before) + 1
          /\ \A k \in 1..Len(before) : Append(before, next)[k] = before[k]
          /\ Append(before, next)[Len(before) + 1] = next
      <4> DEFINE B == Seq(A)
      <4>1. before \in Seq(B) /\ next \in B
        BY <2>2, <2>4
      <4> HIDE DEF B
      <4>2. /\ Append(before, next) \in Seq(B) /\ Len(Append(before, next)) = Len(before) + 1
            /\ \A k \in 1..Len(before) : Append(before, next)[k] = before[k]
            /\ Append(before, next)[Len(before) + 1] = next
        BY <4>1, AppendProperties
      <4> QED
        BY <4>2 DEF B
    <3> QED
      BY <2>2, <3>1
  <2>6. \A k \in 1..m + 1 : after[k] = SubSeq(w, c[k - 1] + 1, c[k])
    BY DEF CutAt
  <2>7. \A k \in 1..m : before[k] = SubSeq(w, c[k - 1] + 1, c[k])
    BY DEF CutAt
  <2>8. after[m + 1] = next
    BY <2>1, <2>6
  <2> HIDE DEF before, after, next
  <2>9. ASSUME NEW k \in 1..m + 1 PROVE after[k] = Append(before, next)[k]
    <3>1. CASE k = m + 1
      BY <2>5, <2>8, <3>1
    <3>2. CASE k # m + 1
      <4>1. k \in 1..m
        BY <2>1, <3>2
      <4> QED
        BY <2>5, <2>6, <2>7, <4>1
    <3> QED
      BY <3>1, <3>2
  <2>10. after = Append(before, next)
    BY <2>3, <2>5, <2>9, SeqEqual
  <2>11. FlattenSeq(after) = FlattenSeq(before) \o next
    BY <2>2, <2>4, <2>10, FlattenAppend
  <2>12. FlattenSeq(before) = SubSeq(w, 1, c[m])
    BY <1>3 DEF before
  <2>13. SubSeq(w, 1, c[m]) \o next = SubSeq(w, 1, c[m + 1])
    <3> DEFINE i == c[m]
               j == c[m + 1]
    <3>1. i \in 0..L /\ j \in 0..L /\ i <= j
      <4>1. c[(m + 1) - 1] <= c[m + 1]
        BY <1>1, <2>1
      <4> QED
        BY <1>1, <2>1, <4>1
    <3>2. next = SubSeq(w, i + 1, j)
      BY DEF next
    <3> HIDE DEF i, j
    <3>3. 1 \in 1..Len(w) + 1 /\ i \in 1 - 1..Len(w) /\ j \in i..Len(w)
      BY <1>1, <3>1
    <3>4. SubSeq(w, 1, i) \o SubSeq(w, i + 1, j) = SubSeq(w, 1, j)
      BY <3>3, ConcatAdjacentSubSeq
    <3> QED
      BY <3>2, <3>4 DEF i, j
  <2> QED
    BY <2>1, <2>11, <2>12, <2>13 DEF after
<1>4. n \in S
  <2> HIDE DEF S
  <2>1. 0..n \subseteq S
    BY <1>2, <1>3, UpTo
  <2>2. n \in 0..n
    OBVIOUS
  <2> QED
    BY <2>1, <2>2
<1>5. FlattenSeq(CutAt(w, c, n)) = SubSeq(w, 1, Len(w))
  BY <1>4
<1> QED
  BY <1>5, SubSeqFull

(* Pieces of text, none empty and none longer than a chunk.                *)
Fitting(s, A) ==
  /\ s \in Seq(Seq(A))
  /\ \A k \in 1..Len(s) : s[k] # <<>> /\ Len(s[k]) <= MaxTokens

LEMMA SlicesAre ==
  ASSUME NEW A, NEW w \in Seq(A), w # <<>>
  PROVE  Fitting(Slices(w), A) /\ FlattenSeq(Slices(w)) = w
<1> DEFINE L == Len(w)
           M == MaxTokens
           N == L + M - 1
           n == N \div M
           c == [k \in 0..n |-> IF k * M < L THEN k * M ELSE L]
<1>1. M \in Nat /\ M # 0 /\ L \in Nat /\ L # 0 /\ N \in Nat /\ N = L + M - 1
  BY ChunkingAssumption
<1>2. Slices(w) = [k \in 1..n |-> SubSeq(w, (k - 1) * M + 1, IF k * M < L THEN k * M ELSE L)]
  BY DEF Slices
<1> HIDE DEF N, M, L
<1>3. n \in Nat /\ n * M <= N /\ N < M * n + M
  <2>1. n \in Nat /\ n * M <= N
    BY <1>1, DivAtMost
  <2>2. N < M * n + M
    BY <1>1
  <2> QED
    BY <2>1, <2>2
<1> HIDE DEF n
<1> DEFINE nM == n * M
<1>4. nM \in Nat /\ L <= nM /\ nM < L + M /\ M * n = nM
  <2>1. n * M \in Nat /\ M * n = n * M
    BY <1>1, <1>3
  <2> HIDE DEF nM
  <2>2. nM \in Nat /\ nM <= N /\ N < nM + M
    BY <1>3, <2>1 DEF nM
  <2>3. L <= nM /\ nM < L + M
    BY <1>1, <2>2
  <2> QED
    BY <2>1, <2>2, <2>3 DEF nM
<1> HIDE DEF nM
<1>5. ASSUME NEW k \in 1..n
      PROVE  /\ (k - 1) * M \in Nat /\ k * M = (k - 1) * M + M /\ (k - 1) * M < L
  <2>1. k - 1 \in Nat /\ n - 1 \in Nat /\ k - 1 <= n - 1 /\ k \in Nat
    BY <1>3
  <2>2. M * (k - 1) \in Nat /\ M * (n - 1) \in Nat /\ M * (k - 1) <= M * (n - 1)
    BY <1>1, <2>1, TimesKeepsOrder
  <2>3. M * (n - 1) = nM - M
    <3>1. M * (n - 1) = M * n - M
      BY <1>1, <1>3
    <3> QED
      BY <1>4, <3>1
  <2>4. (k - 1) * M = M * (k - 1)
    BY <1>1, <2>1
  <2>5. k * M = (k - 1) * M + M
    BY <1>1, <2>1
  <2> DEFINE x == M * (k - 1)
             y == M * (n - 1)
  <2> HIDE DEF x, y
  <2>6. x \in Nat /\ y \in Nat /\ x <= y /\ y = nM - M
    BY <2>2, <2>3 DEF x, y
  <2>7. x < L
    BY <1>1, <1>4, <2>6
  <2> QED
    BY <2>2, <2>4, <2>5, <2>7 DEF x
<1>6. \A k \in 0..n : k * M \in Nat /\ c[k] = IF k * M < L THEN k * M ELSE L
  BY <1>1, <1>3
<1>7. \A k \in 0..n : c[k] \in 0..L
  <2> HIDE DEF c
  <2>1. ASSUME NEW k \in 0..n PROVE c[k] \in 0..L
    <3> DEFINE x == k * M
    <3>1. x \in Nat /\ c[k] = IF x < L THEN x ELSE L
      BY <1>6
    <3> HIDE DEF x
    <3> QED
      BY <1>1, <3>1
  <2> QED
    BY <2>1
<1>8. c \in [0..n -> 0..L]
  BY <1>7
<1>9. c[0] = 0
  <2>1. 0 \in 0..n /\ 0 * M = 0
    BY <1>1, <1>3
  <2> QED
    BY <1>1, <1>6, <2>1
<1>10. c[n] = L
  <2>1. n \in 0..n
    BY <1>3
  <2>2. ~ (n * M < L)
    BY <1>1, <1>4 DEF nM
  <2> QED
    BY <1>6, <2>1, <2>2
<1> HIDE DEF c
<1>11. ASSUME NEW k \in 1..n
       PROVE  /\ c[k - 1] = (k - 1) * M /\ c[k] = (IF k * M < L THEN k * M ELSE L)
              /\ c[k - 1] < c[k] /\ c[k] - c[k - 1] <= M
  <2> DEFINE x == (k - 1) * M
             y == k * M
  <2>1. k - 1 \in 0..n /\ k \in 0..n
    BY <1>3
  <2>2. x \in Nat /\ y = x + M /\ x < L
    BY <1>5
  <2>3. c[k - 1] = IF x < L THEN x ELSE L
    BY <1>6, <2>1
  <2>4. c[k] = IF y < L THEN y ELSE L
    BY <1>6, <2>1
  <2> HIDE DEF x, y
  <2>5. c[k - 1] = x
    BY <2>2, <2>3
  <2>6. c[k - 1] < c[k] /\ c[k] - c[k - 1] <= M
    BY <1>1, <2>2, <2>4, <2>5
  <2> QED
    BY <2>4, <2>5, <2>6 DEF x, y
<1>12. CutsRise(c, n, w)
  <2>1. \A k \in 1..n : c[k - 1] <= c[k]
    <3>1. ASSUME NEW k \in 1..n PROVE c[k - 1] <= c[k]
      <4>1. k - 1 \in 0..n /\ k \in 0..n
        BY <1>3
      <4>2. c[k - 1] \in Nat /\ c[k] \in Nat
        BY <1>1, <1>7, <4>1
      <4> QED
        BY <1>11, <4>2
    <3> QED
      BY <3>1
  <2> QED
    BY <1>8, <2>1 DEF CutsRise, L
<1>13. Slices(w) = CutAt(w, c, n)
  <2>1. \A k \in 1..n : SubSeq(w, (k - 1) * M + 1, IF k * M < L THEN k * M ELSE L)
                          = SubSeq(w, c[k - 1] + 1, c[k])
    BY <1>11
  <2>2. CutAt(w, c, n) = [k \in 1..n |-> SubSeq(w, c[k - 1] + 1, c[k])]
    BY DEF CutAt
  <2> QED
    BY <1>2, <2>1, <2>2
<1>14. n \in 0..n
  BY <1>3
<1>15. /\ CutAt(w, c, n) \in Seq(Seq(A)) /\ Len(CutAt(w, c, n)) = n
       /\ \A k \in 1..n : Len(CutAt(w, c, n)[k]) = c[k] - c[k - 1]
  BY <1>3, <1>12, <1>14, CutsAre
<1>16. FlattenSeq(CutAt(w, c, n)) = w
  BY <1>3, <1>9, <1>10, <1>12, CutsFlatten DEF L
<1> DEFINE s == Slices(w)
<1>17. s \in Seq(Seq(A)) /\ Len(s) = n /\ \A k \in 1..n : Len(s[k]) = c[k] - c[k - 1]
  BY <1>13, <1>15
<1> HIDE DEF s
<1>18. ASSUME NEW k \in 1..n PROVE s[k] # <<>> /\ Len(s[k]) <= MaxTokens
  <2>1. k - 1 \in 0..n /\ k \in 0..n
    BY <1>3
  <2>2. c[k - 1] \in Nat /\ c[k] \in Nat
    BY <1>1, <1>7, <2>1
  <2>3. Len(s[k]) # 0 /\ Len(s[k]) <= M
    BY <1>1, <1>11, <1>17, <2>2
  <2>4. Len(<<>>) = 0
    OBVIOUS
  <2> QED
    BY <2>3, <2>4 DEF M
<1> QED
  BY <1>13, <1>16, <1>17, <1>18 DEF Fitting, s

LEMMA FittingAppend ==
  ASSUME NEW A, NEW s, Fitting(s, A), NEW x \in Seq(A), x # <<>>, Len(x) <= MaxTokens
  PROVE  Fitting(Append(s, x), A) /\ FlattenSeq(Append(s, x)) = FlattenSeq(s) \o x
<1> DEFINE B == Seq(A)
           t == Append(s, x)
<1>1. s \in Seq(B) /\ x \in B /\ \A k \in 1..Len(s) : s[k] # <<>> /\ Len(s[k]) <= MaxTokens
  BY DEF Fitting
<1>2. FlattenSeq(t) = FlattenSeq(s) \o x
  BY <1>1, FlattenAppend
<1> HIDE DEF B
<1>3. /\ t \in Seq(B) /\ Len(t) = Len(s) + 1 /\ Len(s) \in Nat
      /\ \A k \in 1..Len(s) : t[k] = s[k]
      /\ t[Len(s) + 1] = x
  BY <1>1, AppendProperties
<1> HIDE DEF t
<1>4. ASSUME NEW k \in 1..Len(t) PROVE t[k] # <<>> /\ Len(t[k]) <= MaxTokens
  <2>1. CASE k = Len(s) + 1
    BY <1>3, <2>1
  <2>2. CASE k # Len(s) + 1
    <3>1. k \in 1..Len(s)
      BY <1>3, <2>2
    <3> QED
      BY <1>1, <1>3, <3>1
  <2> QED
    BY <2>1, <2>2
<1> QED
  BY <1>2, <1>3, <1>4 DEF Fitting, B, t

LEMMA FittingConcat ==
  ASSUME NEW A, NEW s, Fitting(s, A), NEW t, Fitting(t, A)
  PROVE  Fitting(s \o t, A) /\ FlattenSeq(s \o t) = FlattenSeq(s) \o FlattenSeq(t)
<1> DEFINE B == Seq(A)
           r == s \o t
<1>1. /\ s \in Seq(B) /\ \A k \in 1..Len(s) : s[k] # <<>> /\ Len(s[k]) <= MaxTokens
      /\ t \in Seq(B) /\ \A k \in 1..Len(t) : t[k] # <<>> /\ Len(t[k]) <= MaxTokens
  BY DEF Fitting
<1>2. FlattenSeq(r) = FlattenSeq(s) \o FlattenSeq(t)
  BY <1>1, FlattenConcat
<1> HIDE DEF B
<1>3. /\ r \in Seq(B) /\ Len(r) = Len(s) + Len(t) /\ Len(s) \in Nat /\ Len(t) \in Nat
      /\ \A k \in 1..Len(s) + Len(t) : r[k] = IF k <= Len(s) THEN s[k] ELSE t[k - Len(s)]
  BY <1>1, ConcatProperties
<1> HIDE DEF r
<1>4. ASSUME NEW k \in 1..Len(r) PROVE r[k] # <<>> /\ Len(r[k]) <= MaxTokens
  <2>1. CASE k <= Len(s)
    <3>1. k \in 1..Len(s) /\ k \in 1..Len(s) + Len(t)
      BY <1>3, <2>1
    <3> QED
      BY <1>1, <1>3, <2>1, <3>1
  <2>2. CASE ~ (k <= Len(s))
    <3>1. k - Len(s) \in 1..Len(t) /\ k \in 1..Len(s) + Len(t)
      BY <1>3, <2>2
    <3> QED
      BY <1>1, <1>3, <2>2, <3>1
  <2> QED
    BY <2>1, <2>2
<1> QED
  BY <1>2, <1>3, <1>4 DEF Fitting, B, r

LEMMA NothingFits == \A A : Fitting(<<>>, A)
  BY DEF Fitting

(* What a loop has cut holds the words it has read.                        *)
CutsOf(A) == [closed: Seq(Seq(A)), open: Seq(A)]
Holds(cut, A, read) ==
  /\ cut \in CutsOf(A)
  /\ Fitting(cut.closed, A) /\ Len(cut.open) <= MaxTokens
  /\ FlattenSeq(cut.closed) \o cut.open = read

LEMMA FlushedFits ==
  ASSUME NEW A, NEW cut, NEW read, Holds(cut, A, read)
  PROVE  Fitting(Flushed(cut), A) /\ FlattenSeq(Flushed(cut)) = read
<1> DEFINE closed == cut.closed
           open == cut.open
<1>1. /\ Fitting(closed, A) /\ open \in Seq(A) /\ Len(open) <= MaxTokens
      /\ FlattenSeq(closed) \o open = read
      /\ closed \in Seq(Seq(A))
  BY DEF Holds, CutsOf
<1>2. Flushed(cut) = IF open = <<>> THEN closed ELSE Append(closed, open)
  BY DEF Flushed
<1> HIDE DEF closed, open
<1>3. CASE open = <<>>
  <2>1. FlattenSeq(closed) \in Seq(A)
    BY <1>1, FlattenIs
  <2>2. FlattenSeq(closed) \o <<>> = FlattenSeq(closed)
    BY <2>1, ConcatEmptySeq
  <2> QED
    BY <1>1, <1>2, <1>3, <2>2
<1>4. CASE open # <<>>
  <2>1. Fitting(Append(closed, open), A) /\ FlattenSeq(Append(closed, open)) = FlattenSeq(closed) \o open
    BY <1>1, <1>4, FittingAppend
  <2> QED
    BY <1>1, <1>2, <1>4, <2>1
<1> QED
  BY <1>3, <1>4

LEMMA PackKeeps ==
  ASSUME NEW A, NEW cut, NEW read, Holds(cut, A, read), NEW sentence \in Seq(A)
  PROVE  Holds(PackSentence(cut, sentence), A, read \o sentence)
<1> DEFINE closed == IF Overflows(cut, sentence) THEN Flushed(cut) ELSE cut.closed
           open == IF Overflows(cut, sentence) THEN <<>> ELSE cut.open
           result == PackSentence(cut, sentence)
<1>1. /\ cut \in CutsOf(A) /\ Fitting(cut.closed, A) /\ Len(cut.open) <= MaxTokens
      /\ FlattenSeq(cut.closed) \o cut.open = read
      /\ cut.open \in Seq(A)
  BY DEF Holds, CutsOf
<1>2. MaxTokens \in Nat \ {0} /\ <<>> \in Seq(A) /\ Len(<<>>) = 0
  BY ChunkingAssumption, EmptySeq
<1>3. /\ Fitting(closed, A) /\ open \in Seq(A) /\ Len(open) <= MaxTokens
      /\ FlattenSeq(closed) \o open = read
      /\ open = <<>> \/ Len(open) + Len(sentence) <= MaxTokens
  <2>1. CASE Overflows(cut, sentence)
    <3>1. Fitting(Flushed(cut), A) /\ FlattenSeq(Flushed(cut)) = read
      BY FlushedFits
    <3>2. FlattenSeq(Flushed(cut)) \in Seq(A)
      BY <3>1, FlattenIs DEF Fitting
    <3>3. FlattenSeq(Flushed(cut)) \o <<>> = FlattenSeq(Flushed(cut))
      BY <3>2, ConcatEmptySeq
    <3>4. closed = Flushed(cut) /\ open = <<>>
      BY <2>1
    <3> HIDE DEF closed, open
    <3> QED
      BY <1>2, <3>1, <3>3, <3>4
  <2>2. CASE ~ Overflows(cut, sentence)
    <3>1. closed = cut.closed /\ open = cut.open
      BY <2>2
    <3>2. open = <<>> \/ ~ (Len(open) + Len(sentence) > MaxTokens)
      BY <2>2, <3>1 DEF Overflows
    <3> HIDE DEF closed, open
    <3>3. open = <<>> \/ Len(open) + Len(sentence) <= MaxTokens
      BY <1>1, <1>2, <3>1, <3>2
    <3> QED
      BY <1>1, <3>1, <3>3
  <2> QED
    BY <2>1, <2>2
<1>4. result = IF Len(sentence) > MaxTokens
               THEN [closed |-> closed \o Slices(sentence), open |-> open]
               ELSE [closed |-> closed, open |-> open \o sentence]
  BY DEF PackSentence
<1> HIDE DEF closed, open, result
<1>5. closed \in Seq(Seq(A)) /\ FlattenSeq(closed) \in Seq(A)
  <2>1. closed \in Seq(Seq(A))
    BY <1>3 DEF Fitting
  <2> QED
    BY <2>1, FlattenIs
<1>6. CASE Len(sentence) > MaxTokens
  <2>1. sentence # <<>>
    BY <1>2, <1>6
  <2>2. Fitting(Slices(sentence), A) /\ FlattenSeq(Slices(sentence)) = sentence
    BY <2>1, SlicesAre
  <2>3. open = <<>>
    BY <1>2, <1>3, <1>6
  <2>4. /\ Fitting(closed \o Slices(sentence), A)
        /\ FlattenSeq(closed \o Slices(sentence)) = FlattenSeq(closed) \o sentence
    <3> DEFINE slices == Slices(sentence)
    <3>1. Fitting(slices, A) /\ FlattenSeq(slices) = sentence
      BY <2>2
    <3> HIDE DEF slices
    <3>2. Fitting(closed \o slices, A) /\ FlattenSeq(closed \o slices) = FlattenSeq(closed) \o FlattenSeq(slices)
      <4>1. Fitting(closed, A)
        BY <1>3
      <4>2. Fitting(closed \o slices, A)
        BY <3>1, <4>1, FittingConcat
      <4>3. FlattenSeq(closed \o slices) = FlattenSeq(closed) \o FlattenSeq(slices)
        <5>1. closed \in Seq(Seq(A)) /\ slices \in Seq(Seq(A))
          BY <3>1, <4>1 DEF Fitting
        <5> QED
          BY <5>1, FlattenConcat
      <4> QED
        BY <4>2, <4>3
    <3> QED
      BY <3>1, <3>2 DEF slices
  <2> DEFINE more == closed \o Slices(sentence)
  <2>5. FlattenSeq(closed) = read
    BY <1>3, <1>5, <2>3, ConcatEmptySeq
  <2>6. result.closed = more /\ result.open = <<>> /\ result = [closed |-> more, open |-> <<>>]
    BY <1>4, <1>6, <2>3
  <2>7. FlattenSeq(more) \in Seq(A)
    BY <2>4, FlattenIs DEF Fitting
  <2> HIDE DEF more
  <2>8. FlattenSeq(more) \o <<>> = FlattenSeq(more)
    BY <2>7, ConcatEmptySeq
  <2>9. more \in Seq(Seq(A)) /\ Fitting(more, A)
    BY <2>4 DEF Fitting, more
  <2>10. FlattenSeq(more) = read \o sentence
    BY <2>4, <2>5 DEF more
  <2>11. result \in CutsOf(A)
    BY <1>2, <2>6, <2>9 DEF CutsOf
  <2> QED
    BY <1>2, <2>6, <2>8, <2>9, <2>10, <2>11 DEF Holds, result
<1>7. CASE ~ (Len(sentence) > MaxTokens)
  <2> DEFINE more == open \o sentence
  <2>1. more \in Seq(A) /\ Len(more) = Len(open) + Len(sentence)
    BY <1>3, ConcatProperties
  <2>2. result.closed = closed /\ result.open = more /\ result = [closed |-> closed, open |-> more]
    BY <1>4, <1>7
  <2>3. (FlattenSeq(closed) \o open) \o sentence = FlattenSeq(closed) \o more
    <3> DEFINE flat == FlattenSeq(closed)
    <3>1. flat \in Seq(A) /\ open \in Seq(A)
      BY <1>3, <1>5
    <3> HIDE DEF flat
    <3>2. (flat \o open) \o sentence = flat \o (open \o sentence)
      BY <3>1, ConcatAssociative
    <3> QED
      BY <3>2 DEF flat
  <2> HIDE DEF more
  <2>4. Len(more) <= MaxTokens
    <3>1. Len(sentence) \in Nat /\ Len(open) \in Nat /\ (open = <<>> => Len(open) = 0)
      BY <1>2, <1>3
    <3> QED
      BY <1>2, <1>3, <1>7, <2>1, <3>1
  <2>5. FlattenSeq(closed) \o more = read \o sentence
    BY <1>3, <2>3
  <2>6. result \in CutsOf(A)
    BY <1>5, <2>1, <2>2 DEF CutsOf
  <2> QED
    BY <1>3, <2>2, <2>4, <2>5, <2>6 DEF Holds, result
<1> QED
  BY <1>6, <1>7

LEMMA SubSeqPlaces ==
  ASSUME NEW X, NEW s \in Seq(X), NEW m \in Nat, m <= Len(s)
  PROVE  Len(SubSeq(s, 1, m)) = m /\ \A k \in 1..m : SubSeq(s, 1, m)[k] = s[k]
<1>1. 1 \in 1..Len(s) + 1 /\ m \in 1 - 1..Len(s)
  OBVIOUS
<1>2. /\ Len(SubSeq(s, 1, m)) = m - 1 + 1
      /\ \A k \in 1..m - 1 + 1 : SubSeq(s, 1, m)[k] = s[1 + k - 1]
  BY <1>1, SubSeqProperties
<1>3. m - 1 + 1 = m /\ \A k \in 1..m : 1 + k - 1 = k
  OBVIOUS
<1> QED
  BY <1>2, <1>3

(* What has been read of a sequence of sequences.                          *)
FlatUpTo(s, k) == FlattenSeq(SubSeq(s, 1, k))

LEMMA FlatUpToIs ==
  ASSUME NEW A, NEW s \in Seq(Seq(A))
  PROVE  /\ FlatUpTo(s, 0) = <<>> /\ FlatUpTo(s, Len(s)) = FlattenSeq(s)
         /\ \A k \in 0..Len(s) : FlatUpTo(s, k) \in Seq(A)
         /\ \A k \in 1..Len(s) : FlatUpTo(s, k) = FlatUpTo(s, k - 1) \o s[k]
<1> DEFINE B == Seq(A)
<1>1. Len(s) \in Nat /\ s \in Seq(B) /\ \A i \in 1..Len(s) : s[i] \in B
  OBVIOUS
<1>2. FlatUpTo(s, 0) = <<>>
  <2>1. SubSeq(s, 1, 0) = <<>>
    BY SubSeqEmpty
  <2> QED
    BY <2>1, NothingFlat DEF FlatUpTo
<1>3. FlatUpTo(s, Len(s)) = FlattenSeq(s)
  <2>1. SubSeq(s, 1, Len(s)) = s
    BY SubSeqFull
  <2> QED
    BY <2>1 DEF FlatUpTo
<1>4. ASSUME NEW k \in 0..Len(s)
      PROVE  SubSeq(s, 1, k) \in Seq(B) /\ Len(SubSeq(s, 1, k)) = k
             /\ \A i \in 1..k : SubSeq(s, 1, k)[i] = s[i]
  <2> HIDE DEF B
  <2>1. \A i \in 1..k : s[i] \in B
    BY <1>1
  <2>2. SubSeq(s, 1, k) \in Seq(B)
    BY <2>1, SubSeqProperties
  <2> QED
    BY <1>1, <2>2, SubSeqPlaces
<1>5. \A k \in 0..Len(s) : FlatUpTo(s, k) \in Seq(A)
  BY <1>4, FlattenIs DEF FlatUpTo
<1>6. ASSUME NEW k \in 1..Len(s) PROVE FlatUpTo(s, k) = FlatUpTo(s, k - 1) \o s[k]
  <2> DEFINE before == SubSeq(s, 1, k - 1)
             after == SubSeq(s, 1, k)
  <2>1. k - 1 \in 0..Len(s) /\ k \in 0..Len(s) /\ k \in Nat /\ (k - 1) + 1 = k
    BY <1>1
  <2>2. before \in Seq(B) /\ Len(before) = k - 1 /\ \A i \in 1..k - 1 : before[i] = s[i]
    BY <1>4, <2>1
  <2>3. after \in Seq(B) /\ Len(after) = k /\ \A i \in 1..k : after[i] = s[i]
    BY <1>4, <2>1
  <2>4. s[k] \in B
    BY <1>1
  <2> HIDE DEF before, after, B
  <2>5. /\ Append(before, s[k]) \in Seq(B) /\ Len(Append(before, s[k])) = Len(before) + 1
        /\ \A i \in 1..Len(before) : Append(before, s[k])[i] = before[i]
        /\ Append(before, s[k])[Len(before) + 1] = s[k]
    BY <2>2, <2>4, AppendProperties
  <2>6. ASSUME NEW i \in 1..k PROVE after[i] = Append(before, s[k])[i]
    <3>1. CASE i = k
      BY <2>1, <2>2, <2>3, <2>5, <3>1
    <3>2. CASE i # k
      <4>1. i \in 1..k - 1
        BY <2>1, <3>2
      <4> QED
        BY <2>2, <2>3, <2>5, <4>1
    <3> QED
      BY <3>1, <3>2
  <2>7. after = Append(before, s[k])
    BY <2>1, <2>2, <2>3, <2>5, <2>6, SeqEqual
  <2>8. FlattenSeq(after) = FlattenSeq(before) \o s[k]
    BY <2>2, <2>4, <2>7, FlattenAppend DEF B
  <2> QED
    BY <2>8 DEF after, before, FlatUpTo
<1> QED
  BY <1>2, <1>3, <1>5, <1>6

LEMMA SplitIs ==
  ASSUME NEW A, NEW paragraph \in Seq(Seq(A))
  PROVE  \E f : /\ SplitLargeParagraph(paragraph) = Flushed(f[Len(paragraph)])
               /\ f[0] = Nothing
               /\ \A k \in 1..Len(paragraph) : f[k] = PackSentence(f[k - 1], paragraph[k])
<1> DEFINE n == Len(paragraph)
           T == {x \in CutsOf(A) : Fitting(x.closed, A) /\ Len(x.open) <= MaxTokens}
           step == [x \in T \X (1..n) |-> PackSentence(x[1], paragraph[x[2]])]
           Packing(f) == f = [k \in 0..n |-> IF k = 0 THEN Nothing ELSE PackSentence(f[k - 1], paragraph[k])]
           packed == CHOOSE f : Packing(f)
<1>1. n \in Nat /\ \A i \in 1..n : paragraph[i] \in Seq(A)
  OBVIOUS
<1>2. SplitLargeParagraph(paragraph) = Flushed(packed[n])
  BY DEF SplitLargeParagraph
<1> HIDE DEF n
<1>3. Nothing \in T
  <2>1. Nothing \in CutsOf(A) /\ Nothing.closed = <<>> /\ Nothing.open = <<>> /\ Len(<<>>) = 0
    BY EmptySeq DEF Nothing, CutsOf
  <2>2. Len(Nothing.open) <= MaxTokens
    BY <2>1, ChunkingAssumption
  <2> QED
    BY <2>1, <2>2, NothingFits
<1>4. ASSUME NEW x \in T, NEW i \in 1..n PROVE PackSentence(x, paragraph[i]) \in T
  <2> DEFINE read == FlattenSeq(x.closed) \o x.open
  <2>1. Holds(x, A, read)
    BY DEF Holds
  <2>2. paragraph[i] \in Seq(A)
    BY <1>1
  <2> HIDE DEF read
  <2>3. Holds(PackSentence(x, paragraph[i]), A, read \o paragraph[i])
    BY <2>1, <2>2, PackKeeps
  <2> QED
    BY <2>3 DEF Holds
<1> HIDE DEF T
<1>5. step \in Steps(n, T) /\ \A x \in T, i \in 1..n : step[<<x, i>>] = PackSentence(x, paragraph[i])
  BY <1>4 DEF Steps
<1> HIDE DEF step
<1>6. PICK f : Follows(f, n, T, Nothing, step)
  BY <1>1, <1>3, <1>5, FoldExists
<1>7. f \in [0..n -> T] /\ f[0] = Nothing /\ \A i \in 1..n : f[i] = step[<<f[i - 1], i>>]
  BY <1>6 DEF Follows
<1>8. ASSUME NEW k \in 0..n
      PROVE  f[k] = IF k = 0 THEN Nothing ELSE PackSentence(f[k - 1], paragraph[k])
  <2>1. CASE k = 0
    BY <1>7, <2>1
  <2>2. CASE k # 0
    <3>1. k \in 1..n /\ k - 1 \in 0..n
      BY <1>1, <2>2
    <3>2. f[k - 1] \in T
      BY <1>7, <3>1
    <3> QED
      BY <1>5, <1>7, <2>2, <3>1, <3>2
  <2> QED
    BY <2>1, <2>2
<1>9. Packing(f)
  <2>1. f = [k \in 0..n |-> f[k]]
    BY <1>7
  <2>2. [k \in 0..n |-> f[k]] = [k \in 0..n |-> IF k = 0 THEN Nothing ELSE PackSentence(f[k - 1], paragraph[k])]
    BY <1>8
  <2> QED
    BY <2>1, <2>2
<1>10. Packing(packed)
  BY <1>9
<1> HIDE DEF packed
<1>11. \A k \in 0..n : packed[k] = IF k = 0 THEN Nothing ELSE PackSentence(packed[k - 1], paragraph[k])
  BY <1>10
<1>12. 0 \in 0..n /\ \A k \in 1..n : k \in 0..n /\ k # 0
  BY <1>1
<1>13. packed[0] = Nothing
  BY <1>11, <1>12
<1>14. \A k \in 1..n : packed[k] = PackSentence(packed[k - 1], paragraph[k])
  BY <1>11, <1>12
<1> QED
  BY <1>2, <1>13, <1>14 DEF n

LEMMA SplitFits ==
  ASSUME NEW A, NEW paragraph \in Seq(Seq(A))
  PROVE  /\ Fitting(SplitLargeParagraph(paragraph), A)
         /\ FlattenSeq(SplitLargeParagraph(paragraph)) = FlattenSeq(paragraph)
<1> DEFINE n == Len(paragraph)
<1>1. PICK f : /\ SplitLargeParagraph(paragraph) = Flushed(f[n])
               /\ f[0] = Nothing
               /\ \A k \in 1..n : f[k] = PackSentence(f[k - 1], paragraph[k])
  BY SplitIs
<1>2. n \in Nat /\ \A i \in 1..n : paragraph[i] \in Seq(A)
  OBVIOUS
<1> DEFINE S == {k \in 0..n : Holds(f[k], A, FlatUpTo(paragraph, k))}
<1>3. 0 \in S
  <2>1. Nothing \in CutsOf(A) /\ Nothing.closed = <<>> /\ Nothing.open = <<>> /\ Len(<<>>) = 0
    BY EmptySeq DEF Nothing, CutsOf
  <2>2. Len(Nothing.open) <= MaxTokens
    BY <2>1, ChunkingAssumption
  <2>3. FlattenSeq(Nothing.closed) \o Nothing.open = <<>>
    <3>1. <<>> \o <<>> = <<>>
      BY EmptySeq, ConcatEmptySeq
    <3> QED
      BY <2>1, <3>1, NothingFlat
  <2>4. Fitting(Nothing.closed, A)
    BY <2>1, NothingFits
  <2>5. Holds(Nothing, A, <<>>)
    BY <2>1, <2>2, <2>3, <2>4 DEF Holds
  <2>6. FlatUpTo(paragraph, 0) = <<>>
    BY FlatUpToIs
  <2> QED
    BY <1>1, <1>2, <2>5, <2>6
<1>4. ASSUME NEW k \in 0..n - 1, k \in S PROVE k + 1 \in S
  <2>1. k + 1 \in 1..n /\ k + 1 \in 0..n /\ (k + 1) - 1 = k
    BY <1>2
  <2>2. Holds(f[k], A, FlatUpTo(paragraph, k))
    BY <1>4
  <2>3. paragraph[k + 1] \in Seq(A)
    BY <1>2, <2>1
  <2>4. Holds(PackSentence(f[k], paragraph[k + 1]), A, FlatUpTo(paragraph, k) \o paragraph[k + 1])
    BY <2>2, <2>3, PackKeeps
  <2>5. f[k + 1] = PackSentence(f[k], paragraph[k + 1])
    BY <1>1, <2>1
  <2>6. FlatUpTo(paragraph, k + 1) = FlatUpTo(paragraph, k) \o paragraph[k + 1]
    <3>1. FlatUpTo(paragraph, k + 1) = FlatUpTo(paragraph, (k + 1) - 1) \o paragraph[k + 1]
      BY <2>1, FlatUpToIs
    <3> QED
      BY <2>1, <3>1
  <2> QED
    BY <2>1, <2>4, <2>5, <2>6
<1>5. n \in S
  <2> HIDE DEF S, n
  <2>1. 0..n \subseteq S
    BY <1>2, <1>3, <1>4, UpTo
  <2>2. n \in 0..n
    BY <1>2
  <2> QED
    BY <2>1, <2>2
<1>6. Holds(f[n], A, FlattenSeq(paragraph))
  <2>1. FlatUpTo(paragraph, Len(paragraph)) = FlattenSeq(paragraph)
    BY FlatUpToIs
  <2> QED
    BY <1>5, <2>1
<1> HIDE DEF n
<1>7. Fitting(Flushed(f[n]), A) /\ FlattenSeq(Flushed(f[n])) = FlattenSeq(paragraph)
  BY <1>6, FlushedFits
<1> QED
  BY <1>1, <1>7

LEMMA PiecesFit ==
  ASSUME NEW A, NEW paragraph \in Seq(Seq(A))
  PROVE  Fitting(Pieces(paragraph), A) /\ FlattenSeq(Pieces(paragraph)) = FlattenSeq(paragraph)
<1> DEFINE flat == FlattenSeq(paragraph)
<1>1. flat \in Seq(A)
  BY FlattenIs
<1>2. Pieces(paragraph) = IF Len(flat) > MaxTokens THEN SplitLargeParagraph(paragraph)
                          ELSE IF flat = <<>> THEN <<>> ELSE <<flat>>
  BY DEF Pieces
<1>3. /\ Fitting(SplitLargeParagraph(paragraph), A)
      /\ FlattenSeq(SplitLargeParagraph(paragraph)) = flat
  BY SplitFits
<1> HIDE DEF flat
<1>4. CASE Len(flat) > MaxTokens
  BY <1>2, <1>3, <1>4 DEF flat
<1>5. CASE ~ (Len(flat) > MaxTokens) /\ flat = <<>>
  BY <1>2, <1>5, NothingFits, NothingFlat DEF flat
<1>6. CASE ~ (Len(flat) > MaxTokens) /\ flat # <<>>
  <2>1. Fitting(<<>>, A) /\ Len(flat) <= MaxTokens
    BY <1>1, <1>6, NothingFits, ChunkingAssumption
  <2>2. Fitting(Append(<<>>, flat), A)
    BY <1>1, <1>6, <2>1, FittingAppend
  <2>3. FlattenSeq(Append(<<>>, flat)) = FlattenSeq(<<>>) \o flat
    BY <1>1, <1>6, <2>1, FittingAppend
  <2>4. <<>> \o flat = flat
    BY <1>1, ConcatEmptySeq
  <2>5. <<flat>> = Append(<<>>, flat)
    OBVIOUS
  <2> QED
    BY <1>2, <1>6, <2>2, <2>3, <2>4, <2>5, NothingFlat DEF flat
<1> QED
  BY <1>4, <1>5, <1>6

AllPieces(paragraphs) == FlattenSeq([k \in DOMAIN paragraphs |-> Pieces(paragraphs[k])])

LEMMA AllPiecesFit ==
  ASSUME NEW A, NEW paragraphs \in Seq(Seq(Seq(A)))
  PROVE  /\ Fitting(AllPieces(paragraphs), A)
         /\ FlattenSeq(AllPieces(paragraphs)) = FlattenSeq(FlattenSeq(paragraphs))
<1> DEFINE n == Len(paragraphs)
           each == [k \in DOMAIN paragraphs |-> Pieces(paragraphs[k])]
           all == FlattenSeq(each)
<1>1. n \in Nat /\ DOMAIN paragraphs = 1..n /\ \A k \in 1..n : paragraphs[k] \in Seq(Seq(A))
  OBVIOUS
<1> HIDE DEF n
<1>2. ASSUME NEW k \in 1..n
      PROVE  /\ Fitting(each[k], A) /\ each[k] \in Seq(Seq(A))
             /\ FlattenSeq(each[k]) = FlattenSeq(paragraphs[k])
  <2> DEFINE p == paragraphs[k]
  <2>1. p \in Seq(Seq(A)) /\ each[k] = Pieces(p)
    BY <1>1
  <2> HIDE DEF p, each
  <2>2. Fitting(Pieces(p), A) /\ FlattenSeq(Pieces(p)) = FlattenSeq(p)
    BY <2>1, PiecesFit
  <2>3. Pieces(p) \in Seq(Seq(A))
    BY <2>2 DEF Fitting
  <2> QED
    BY <2>1, <2>2, <2>3 DEF p
<1>3. DOMAIN each = 1..n /\ each = [k \in 1..n |-> each[k]]
  BY <1>1
<1> HIDE DEF each
<1>4. each \in [1..n -> Seq(Seq(A))]
  BY <1>2, <1>3
<1>5. each \in Seq(Seq(Seq(A))) /\ Len(each) = n
  <2> DEFINE B == Seq(Seq(A))
  <2>1. each \in [1..n -> B]
    BY <1>4
  <2> HIDE DEF B
  <2>2. each \in Seq(B) /\ Len(each) = n
    BY <1>1, <2>1
  <2> QED
    BY <2>2 DEF B
<1>6. FlattenSeq(all) = FlattenSeq(EachFlat(each))
  BY <1>5, FlattenTwice
<1>7. FlattenSeq(FlattenSeq(paragraphs)) = FlattenSeq(EachFlat(paragraphs))
  BY FlattenTwice
<1>8. EachFlat(each) = EachFlat(paragraphs)
  <2>1. EachFlat(each) = [k \in 1..n |-> FlattenSeq(each[k])]
    BY <1>3 DEF EachFlat
  <2>2. EachFlat(paragraphs) = [k \in 1..n |-> FlattenSeq(paragraphs[k])]
    BY <1>1 DEF EachFlat
  <2>3. [k \in 1..n |-> FlattenSeq(each[k])] = [k \in 1..n |-> FlattenSeq(paragraphs[k])]
    BY <1>2
  <2> QED
    BY <2>1, <2>2, <2>3
<1>9. all \in Seq(Seq(A)) /\ ToSet(all) = UNION {ToSet(each[i]) : i \in DOMAIN each}
  <2> DEFINE B == Seq(A)
  <2>1. each \in Seq(Seq(B))
    BY <1>5
  <2> HIDE DEF B
  <2>2. all \in Seq(B) /\ ToSet(all) = UNION {ToSet(each[i]) : i \in DOMAIN each}
    BY <2>1, FlattenIs
  <2> QED
    BY <2>2 DEF B
<1> HIDE DEF all
<1>10. ASSUME NEW k \in 1..Len(all) PROVE all[k] # <<>> /\ Len(all[k]) <= MaxTokens
  <2>1. all[k] \in ToSet(all)
    <3>1. DOMAIN all = 1..Len(all)
      BY <1>9
    <3> QED
      BY <3>1 DEF ToSet
  <2>2. PICK i \in DOMAIN each : all[k] \in ToSet(each[i])
    BY <1>9, <2>1
  <2>3. i \in 1..n
    BY <1>3
  <2>4. Fitting(each[i], A)
    BY <1>2, <2>3
  <2>5. PICK j \in DOMAIN each[i] : all[k] = each[i][j]
    BY <2>2 DEF ToSet
  <2>6. j \in 1..Len(each[i])
    BY <2>4, <2>5 DEF Fitting
  <2> QED
    BY <2>4, <2>5, <2>6 DEF Fitting
<1>11. Fitting(all, A)
  BY <1>9, <1>10 DEF Fitting
<1> QED
  BY <1>6, <1>7, <1>8, <1>11 DEF AllPieces, all, each

(* Each text is the overlap with the one before it and words of its own.   *)
OverlapAfter(c) == IF c = <<>> THEN <<>> ELSE LastWords(c[Len(c)], OverlapTokens)
Overlap(s, k) == IF k = 1 THEN <<>> ELSE LastWords(s[k - 1], OverlapTokens)
Chained(s, own, A) ==
  /\ s \in Seq(Seq(A)) /\ own \in Seq(Seq(A)) /\ Len(own) = Len(s)
  /\ \A k \in 1..Len(s) : /\ own[k] # <<>> /\ s[k] = Overlap(s, k) \o own[k]
                          /\ Len(s[k]) <= MaxTokens + OverlapTokens

LEMMA LastWordsAre ==
  ASSUME NEW A, NEW w \in Seq(A)
  PROVE  LastWords(w, OverlapTokens) \in Seq(A) /\ Len(LastWords(w, OverlapTokens)) <= OverlapTokens
<1> DEFINE n == OverlapTokens
           L == Len(w)
<1>1. n \in Nat /\ L \in Nat /\ \A i \in 1..L : w[i] \in A
  BY ChunkingAssumption
<1>2. LastWords(w, n) = IF L <= n THEN w ELSE SubSeq(w, L - n + 1, L)
  BY DEF LastWords
<1> HIDE DEF n
<1>3. CASE L <= n
  BY <1>2, <1>3 DEF n
<1>4. CASE ~ (L <= n)
  <2> HIDE DEF L
  <2> DEFINE m == L - n + 1
  <2>2. m \in Nat /\ m # 0 /\ L - m + 1 = n
    BY <1>1, <1>4
  <2> HIDE DEF m
  <2>3. \A i \in m..L : w[i] \in A
    BY <1>1, <2>2
  <2>4. SubSeq(w, m, L) \in Seq(A) /\ Len(SubSeq(w, m, L)) = IF m <= L THEN L - m + 1 ELSE 0
    BY <1>1, <2>2, <2>3, SubSeqProperties
  <2>5. Len(SubSeq(w, m, L)) <= n
    BY <1>1, <2>2, <2>4
  <2> QED
    BY <1>2, <1>4, <2>4, <2>5 DEF m, n
<1> QED
  BY <1>3, <1>4

LEMMA ChainIs ==
  ASSUME NEW A, NEW c \in Seq(Seq(A)), NEW o \in Seq(Seq(A)), NEW x \in Seq(A), NEW y \in Seq(A)
  PROVE  Chained(Append(c, x), Append(o, y), A)
           <=> /\ Chained(c, o, A)
               /\ y # <<>> /\ x = OverlapAfter(c) \o y
               /\ Len(x) <= MaxTokens + OverlapTokens
<1> DEFINE B == Seq(A)
           s == Append(c, x)
           own == Append(o, y)
           n == Len(c)
           M == MaxTokens + OverlapTokens
           Link(t, w, k) == w[k] # <<>> /\ t[k] = Overlap(t, k) \o w[k] /\ Len(t[k]) <= M
<1>1. c \in Seq(B) /\ o \in Seq(B) /\ x \in B /\ y \in B /\ n \in Nat /\ Len(o) \in Nat
  OBVIOUS
<1> HIDE DEF B
<1>2. /\ s \in Seq(B) /\ Len(s) = n + 1 /\ \A k \in 1..n : s[k] = c[k]
      /\ s[n + 1] = x
  BY <1>1, AppendProperties
<1>3. /\ own \in Seq(B) /\ Len(own) = Len(o) + 1 /\ \A k \in 1..Len(o) : own[k] = o[k]
      /\ own[Len(o) + 1] = y
  BY <1>1, AppendProperties
<1>4. Chained(s, own, A) <=> Len(own) = Len(s) /\ \A k \in 1..Len(s) : Link(s, own, k)
  BY <1>2, <1>3 DEF Chained, B
<1>5. Chained(c, o, A) <=> Len(o) = n /\ \A k \in 1..n : Link(c, o, k)
  BY <1>1 DEF Chained, B
<1> HIDE DEF s, own, M
<1>6. Overlap(s, n + 1) = OverlapAfter(c)
  <2>1. CASE n = 0
    <3>1. c = <<>> /\ n + 1 = 1
      BY <1>1, <2>1
    <3> QED
      BY <3>1 DEF Overlap, OverlapAfter
  <2>2. CASE n # 0
    <3>1. c # <<>> /\ n + 1 # 1 /\ (n + 1) - 1 = n /\ n \in 1..n
      BY <1>1, <2>2
    <3>2. s[n] = c[n]
      BY <1>2, <3>1
    <3> QED
      BY <3>1, <3>2 DEF Overlap, OverlapAfter
  <2> QED
    BY <2>1, <2>2
<1>7. ASSUME NEW k \in 1..n PROVE Overlap(s, k) = Overlap(c, k)
  <2>1. CASE k = 1
    BY <2>1 DEF Overlap
  <2>2. CASE k # 1
    <3>1. k - 1 \in 1..n
      BY <1>1, <2>2
    <3> QED
      BY <1>2, <2>2, <3>1 DEF Overlap
  <2> QED
    BY <2>1, <2>2
<1>8. ASSUME Len(o) = n, NEW k \in 1..n PROVE Link(s, own, k) <=> Link(c, o, k)
  <2>1. s[k] = c[k] /\ own[k] = o[k]
    BY <1>2, <1>3, <1>8
  <2> QED
    BY <1>7, <2>1
<1>9. ASSUME Len(o) = n
      PROVE  Link(s, own, n + 1) <=> y # <<>> /\ x = OverlapAfter(c) \o y /\ Len(x) <= M
  <2>1. s[n + 1] = x /\ own[n + 1] = y
    BY <1>2, <1>3, <1>9
  <2> QED
    BY <1>6, <2>1
<1>10. Len(own) = Len(s) <=> Len(o) = n
  BY <1>1, <1>2, <1>3
<1>11. 1..n + 1 = (1..n) \cup {n + 1}
  BY <1>1
<1> DEFINE All(t, w, i) == \A k \in 1..i : Link(t, w, k)
           Adds == y # <<>> /\ x = OverlapAfter(c) \o y /\ Len(x) <= M
<1>12. ASSUME Len(o) = n
       PROVE  (\A k \in 1..n + 1 : Link(s, own, k)) <=> (\A k \in 1..n : Link(c, o, k)) /\ Adds
  <2>1. (\A k \in 1..n + 1 : Link(s, own, k)) <=> (\A k \in 1..n : Link(s, own, k)) /\ Link(s, own, n + 1)
    <3> HIDE DEF Link
    <3> QED
      BY <1>11
  <2>2. (\A k \in 1..n : Link(s, own, k)) <=> (\A k \in 1..n : Link(c, o, k))
    <3>1. \A k \in 1..n : Link(s, own, k) <=> Link(c, o, k)
      BY <1>8, <1>12
    <3> HIDE DEF Link
    <3> QED
      BY <3>1
  <2>3. Link(s, own, n + 1) <=> Adds
    BY <1>9, <1>12
  <2> HIDE DEF Link, Adds
  <2> QED
    BY <2>1, <2>2, <2>3
<1> HIDE DEF Link, Adds
<1>13. Chained(s, own, A) <=> Len(o) = n /\ \A k \in 1..n + 1 : Link(s, own, k)
  BY <1>2, <1>4, <1>10
<1>14. Chained(s, own, A) <=> Chained(c, o, A) /\ Adds
  BY <1>5, <1>12, <1>13
<1> QED
  BY <1>14 DEF s, own, Adds, M

(* What the loop over the pieces has cut is a chain of what it has read.   *)
Running(cut, A, read) ==
  /\ cut \in CutsOf(A)
  /\ cut.open = <<>> => cut.closed = <<>>
  /\ \E own : Chained(Flushed(cut), own, A) /\ FlattenSeq(own) = read

LEMMA ChainGrows ==
  ASSUME NEW A, NEW c, NEW own, Chained(c, own, A),
         NEW words \in Seq(A), words # <<>>, Len(words) <= MaxTokens
  PROVE  /\ OverlapAfter(c) \in Seq(A) /\ OverlapAfter(c) \o words \in Seq(A)
         /\ OverlapAfter(c) \o words # <<>>
         /\ Chained(Append(c, OverlapAfter(c) \o words), Append(own, words), A)
         /\ FlattenSeq(Append(own, words)) = FlattenSeq(own) \o words
<1> DEFINE o == OverlapAfter(c)
           x == o \o words
<1>1. c \in Seq(Seq(A)) /\ own \in Seq(Seq(A))
  BY DEF Chained
<1>2. MaxTokens \in Nat /\ OverlapTokens \in Nat
  BY ChunkingAssumption
<1>3. o \in Seq(A) /\ Len(o) <= OverlapTokens
  <2>1. CASE c = <<>>
    <3>1. o = <<>>
      BY <2>1 DEF OverlapAfter
    <3> HIDE DEF o
    <3> QED
      BY <1>2, <3>1, EmptySeq
  <2>2. CASE c # <<>>
    <3> DEFINE w == c[Len(c)]
    <3>1. w \in Seq(A)
      <4>1. Len(c) \in 1..Len(c)
        BY <1>1, <2>2
      <4> QED
        BY <1>1, <4>1
    <3>2. o = LastWords(w, OverlapTokens)
      BY <2>2 DEF OverlapAfter
    <3> HIDE DEF w, o
    <3> QED
      BY <3>1, <3>2, LastWordsAre
  <2> QED
    BY <2>1, <2>2
<1>4. FlattenSeq(Append(own, words)) = FlattenSeq(own) \o words
  BY <1>1, FlattenAppend
<1> HIDE DEF o
<1>5. x \in Seq(A) /\ Len(x) = Len(o) + Len(words)
  BY <1>3, ConcatProperties
<1>6. x # <<>> /\ Len(x) <= MaxTokens + OverlapTokens
  <2>1. Len(words) \in Nat /\ Len(words) # 0 /\ Len(o) \in Nat
    BY <1>3
  <2>2. Len(x) # 0 /\ Len(x) <= MaxTokens + OverlapTokens
    BY <1>2, <1>3, <1>5, <2>1
  <2> QED
    BY <2>2
<1>7. x = o \o words
  OBVIOUS
<1> HIDE DEF x
<1>8. Chained(Append(c, x), Append(own, words), A)
  <2>1. x = OverlapAfter(c) \o words
    BY <1>7 DEF o
  <2> QED
    BY <1>1, <1>5, <1>6, <2>1, ChainIs
<1> QED
  BY <1>3, <1>4, <1>5, <1>6, <1>8 DEF o, x

LEMMA LinkGrows ==
  ASSUME NEW A, NEW c \in Seq(Seq(A)), NEW x \in Seq(A), NEW own, Chained(Append(c, x), own, A),
         NEW words \in Seq(A), Len(x) + Len(words) <= MaxTokens
  PROVE  \E more : /\ Chained(Append(c, x \o words), more, A)
                   /\ FlattenSeq(more) = FlattenSeq(own) \o words
<1> DEFINE B == Seq(A)
<1>1. own \in Seq(B) /\ Len(own) = Len(Append(c, x))
  BY DEF Chained
<1>2. Len(Append(c, x)) = Len(c) + 1 /\ Len(c) \in Nat
  <2>1. c \in Seq(B) /\ x \in B
    OBVIOUS
  <2> HIDE DEF B
  <2> QED
    BY <2>1, AppendProperties
<1>3. own # <<>>
  BY <1>1, <1>2
<1>4. PICK o \in Seq(B), y \in B : own = Append(o, y)
  <2> HIDE DEF B
  <2> QED
    BY <1>1, <1>3, SequenceEmptyOrAppend
<1>5. Chained(c, o, A) /\ y # <<>> /\ x = OverlapAfter(c) \o y
  <2>1. Chained(Append(c, x), Append(o, y), A)
    BY <1>4
  <2> QED
    BY <2>1, ChainIs
<1>6. OverlapAfter(c) \in Seq(A)
  <2>1. CASE c = <<>>
    BY <2>1, EmptySeq DEF OverlapAfter
  <2>2. CASE c # <<>>
    <3> DEFINE w == c[Len(c)]
    <3>1. w \in Seq(A)
      <4>1. Len(c) \in 1..Len(c)
        BY <2>2
      <4> QED
        BY <4>1
    <3>2. OverlapAfter(c) = LastWords(w, OverlapTokens)
      BY <2>2 DEF OverlapAfter
    <3> HIDE DEF w
    <3> QED
      BY <3>1, <3>2, LastWordsAre
  <2> QED
    BY <2>1, <2>2
<1> DEFINE z == y \o words
           v == x \o words
           p == OverlapAfter(c)
<1>7. z \in Seq(A) /\ Len(z) = Len(y) + Len(words)
  BY ConcatProperties
<1>8. v \in Seq(A) /\ Len(v) = Len(x) + Len(words)
  BY ConcatProperties
<1>9. z # <<>>
  <2>1. Len(y) \in Nat /\ Len(y) # 0 /\ Len(words) \in Nat
    BY <1>5
  <2> HIDE DEF z
  <2>2. Len(z) # 0
    BY <1>7, <2>1
  <2> QED
    BY <2>2
<1>10. v = OverlapAfter(c) \o z
  <2> HIDE DEF p
  <2>1. p \in Seq(A) /\ y \in Seq(A) /\ x = p \o y
    BY <1>5, <1>6 DEF p
  <2>2. (p \o y) \o words = p \o (y \o words)
    BY <2>1, ConcatAssociative
  <2> QED
    BY <2>1, <2>2 DEF p
<1>11. Len(v) <= MaxTokens + OverlapTokens
  <2>1. MaxTokens \in Nat /\ OverlapTokens \in Nat /\ Len(x) + Len(words) \in Nat
    BY ChunkingAssumption
  <2> HIDE DEF v
  <2> QED
    BY <1>8, <2>1
<1> HIDE DEF z, v
<1>12. Chained(Append(c, v), Append(o, z), A)
  BY <1>5, <1>7, <1>8, <1>9, <1>10, <1>11, ChainIs
<1>13. FlattenSeq(Append(o, z)) = FlattenSeq(own) \o words
  <2> DEFINE f == FlattenSeq(o)
  <2>1. FlattenSeq(Append(o, z)) = f \o z
    BY <1>7, FlattenAppend
  <2>2. FlattenSeq(own) = f \o y
    BY <1>4, FlattenAppend
  <2>3. f \in Seq(A) /\ y \in Seq(A)
    BY FlattenIs
  <2> HIDE DEF f
  <2>4. (f \o y) \o words = f \o (y \o words)
    BY <2>3, ConcatAssociative, SMTT(30)
  <2> QED
    BY <2>1, <2>2, <2>4 DEF z
<1> QED
  BY <1>12, <1>13 DEF v

LEMMA OpenGrows ==
  ASSUME NEW A, NEW cut \in CutsOf(A), NEW words
  PROVE  [cut EXCEPT !.open = @ \o words] = [closed |-> cut.closed, open |-> cut.open \o words]
<1> DEFINE v == cut.open \o words
           l == [cut EXCEPT !.open = v]
           r == [closed |-> cut.closed, open |-> v]
<1>1. cut = [closed |-> cut.closed, open |-> cut.open]
  BY DEF CutsOf
<1>2. cut = [x \in {"closed", "open"} |-> cut[x]]
  BY <1>1
<1> HIDE DEF v
<1>3. l = [x \in {"closed", "open"} |-> IF x = "open" THEN v ELSE cut[x]]
  BY <1>2
<1>4. r = [x \in {"closed", "open"} |-> IF x = "open" THEN v ELSE cut[x]]
  OBVIOUS
<1>5. l = r
  BY <1>3, <1>4
<1> QED
  BY <1>5 DEF v

LEMMA AppendOrFlushKeeps ==
  ASSUME NEW A, NEW cut, NEW read, Running(cut, A, read),
         NEW words \in Seq(A), words # <<>>, Len(words) <= MaxTokens
  PROVE  Running(AppendOrFlush(cut, words), A, read \o words)
<1> DEFINE closed == cut.closed
           open == cut.open
           s == Flushed(cut)
           next == AppendOrFlush(cut, words)
<1>1. PICK own : Chained(s, own, A) /\ FlattenSeq(own) = read
  BY DEF Running
<1>2. /\ cut \in CutsOf(A) /\ cut = [closed |-> closed, open |-> open]
      /\ closed \in Seq(Seq(A)) /\ open \in Seq(A) /\ (open = <<>> => closed = <<>>)
  BY DEF Running, CutsOf
<1>3. s = IF open = <<>> THEN closed ELSE Append(closed, open)
  BY DEF Flushed
<1>4. Overflows(cut, words) <=> open # <<>> /\ Len(open) + Len(words) > MaxTokens
  BY DEF Overflows
<1>5. next = IF Overflows(cut, words)
             THEN [closed |-> Append(closed, open), open |-> LastWords(open, OverlapTokens) \o words]
             ELSE [closed |-> closed, open |-> open \o words]
  <2>1. [cut EXCEPT !.open = @ \o words] = [closed |-> closed, open |-> open \o words]
    BY <1>2, OpenGrows
  <2> QED
    BY <2>1 DEF AppendOrFlush
<1>6. /\ OverlapAfter(s) \in Seq(A) /\ OverlapAfter(s) \o words \in Seq(A)
      /\ OverlapAfter(s) \o words # <<>>
      /\ Chained(Append(s, OverlapAfter(s) \o words), Append(own, words), A)
      /\ FlattenSeq(Append(own, words)) = read \o words
  <2> HIDE DEF s
  <2> QED
    BY <1>1, ChainGrows, ZenonT(60)
<1>7. s \in Seq(Seq(A))
  BY <1>1 DEF Chained
<1> HIDE DEF s, next, closed, open
<1>8. ASSUME NEW c, NEW x, next = [closed |-> c, open |-> x], c \in Seq(Seq(A)), x \in Seq(A), x # <<>>,
             \E more : Chained(Append(c, x), more, A) /\ FlattenSeq(more) = read \o words
      PROVE  Running(next, A, read \o words)
  <2>1. next \in CutsOf(A) /\ next.open # <<>> /\ Flushed(next) = Append(c, x)
    BY <1>8 DEF CutsOf, Flushed
  <2> QED
    BY <1>8, <2>1 DEF Running
<1>9. CASE Overflows(cut, words)
  <2> DEFINE x == OverlapAfter(s) \o words
  <2>1. open # <<>> /\ s = Append(closed, open)
    BY <1>3, <1>4, <1>9
  <2>2. OverlapAfter(s) = LastWords(open, OverlapTokens)
    <3> DEFINE B == Seq(A)
    <3>1. closed \in Seq(B) /\ open \in B
      BY <1>2
    <3> HIDE DEF B
    <3>2. s # <<>> /\ Len(s) = Len(closed) + 1 /\ s[Len(closed) + 1] = open
      BY <2>1, <3>1, AppendProperties
    <3> QED
      BY <3>2 DEF OverlapAfter
  <2>3. next = [closed |-> s, open |-> x]
    BY <1>5, <1>9, <2>1, <2>2
  <2> HIDE DEF x
  <2>4. x \in Seq(A) /\ x # <<>> /\ Chained(Append(s, x), Append(own, words), A)
    BY <1>6 DEF x
  <2>5. \E more : Chained(Append(s, x), more, A) /\ FlattenSeq(more) = read \o words
    BY <1>6, <2>4
  <2>6. Running(next, A, read \o words)
    BY <1>7, <1>8, <2>3, <2>4, <2>5
  <2> QED
    BY <2>6 DEF next
<1>10. CASE ~ Overflows(cut, words) /\ open = <<>>
  <2>1. s = <<>> /\ closed = <<>>
    BY <1>2, <1>3, <1>10
  <2>2. OverlapAfter(s) = <<>>
    BY <2>1 DEF OverlapAfter
  <2>3. <<>> \o words = words
    BY ConcatEmptySeq
  <2>4. next = [closed |-> closed, open |-> words]
    BY <1>5, <1>10, <2>3
  <2>5. Chained(Append(closed, words), Append(own, words), A)
    BY <1>6, <2>1, <2>2, <2>3
  <2>6. \E more : Chained(Append(closed, words), more, A) /\ FlattenSeq(more) = read \o words
    BY <1>6, <2>5
  <2>7. Running(next, A, read \o words)
    BY <1>2, <1>8, <2>4, <2>6
  <2> QED
    BY <2>7 DEF next
<1>11. CASE ~ Overflows(cut, words) /\ open # <<>>
  <2> DEFINE x == open \o words
  <2>1. s = Append(closed, open)
    BY <1>3, <1>11
  <2>2. next = [closed |-> closed, open |-> x]
    BY <1>5, <1>11
  <2>3. Len(open) \in Nat /\ Len(open) # 0 /\ Len(words) \in Nat
    BY <1>2, <1>11
  <2>4. Len(open) + Len(words) <= MaxTokens
    BY <1>4, <1>11, <2>3, ChunkingAssumption
  <2>5. x \in Seq(A) /\ Len(x) = Len(open) + Len(words)
    BY <1>2, ConcatProperties
  <2>6. \E more : /\ Chained(Append(closed, x), more, A)
                  /\ FlattenSeq(more) = FlattenSeq(own) \o words
    <3>1. Chained(Append(closed, open), own, A)
      BY <1>1, <2>1
    <3> QED
      BY <1>2, <2>4, <3>1, LinkGrows
  <2> HIDE DEF x
  <2>7. x # <<>>
    <3>1. Len(x) # 0
      BY <2>3, <2>5
    <3> QED
      BY <3>1
  <2>8. Running(next, A, read \o words)
    BY <1>1, <1>2, <1>8, <2>2, <2>5, <2>6, <2>7
  <2> QED
    BY <2>8 DEF next
<1> QED
  BY <1>9, <1>10, <1>11

LEMMA TextIs ==
  ASSUME NEW A, NEW paragraphs \in Seq(Seq(Seq(A)))
  PROVE  \E f : /\ ChunkSectionText(paragraphs) = Flushed(f[Len(AllPieces(paragraphs))])
               /\ f[0] = Nothing
               /\ \A k \in 1..Len(AllPieces(paragraphs)) :
                    f[k] = AppendOrFlush(f[k - 1], AllPieces(paragraphs)[k])
<1> DEFINE pieces == AllPieces(paragraphs)
           n == Len(pieces)
           T == CutsOf(A)
           step == [x \in T \X (1..n) |-> AppendOrFlush(x[1], pieces[x[2]])]
           Cutting(f) == f = [k \in 0..n |-> IF k = 0 THEN Nothing ELSE AppendOrFlush(f[k - 1], pieces[k])]
           cut == CHOOSE f : Cutting(f)
<1>1. n \in Nat /\ \A i \in 1..n : pieces[i] \in Seq(A)
  <2>1. Fitting(pieces, A)
    BY AllPiecesFit
  <2> HIDE DEF pieces
  <2>2. pieces \in Seq(Seq(A))
    BY <2>1 DEF Fitting
  <2> QED
    BY <2>2
<1>2. ChunkSectionText(paragraphs) = Flushed(cut[n])
  BY DEF ChunkSectionText, AllPieces
<1> HIDE DEF n, pieces
<1>3. Nothing \in T
  BY EmptySeq DEF Nothing, CutsOf
<1>4. ASSUME NEW x \in T, NEW i \in 1..n PROVE AppendOrFlush(x, pieces[i]) \in T
  <2> DEFINE w == pieces[i]
             last == LastWords(x.open, OverlapTokens)
  <2>1. w \in Seq(A) /\ x.open \in Seq(A) /\ x.closed \in Seq(Seq(A))
    BY <1>1 DEF CutsOf
  <2>2. last \in Seq(A)
    BY <2>1, LastWordsAre
  <2> HIDE DEF w, last
  <2>3. x.open \o w \in Seq(A) /\ last \o w \in Seq(A)
    BY <2>1, <2>2, ConcatProperties
  <2>4. Append(x.closed, x.open) \in Seq(Seq(A))
    BY <2>1
  <2>5. [x EXCEPT !.open = @ \o w] = [closed |-> x.closed, open |-> x.open \o w]
    BY OpenGrows
  <2>6. AppendOrFlush(x, w) = IF Overflows(x, w)
                              THEN [closed |-> Append(x.closed, x.open), open |-> last \o w]
                              ELSE [closed |-> x.closed, open |-> x.open \o w]
    BY <2>5 DEF AppendOrFlush, last
  <2>7. AppendOrFlush(x, w) \in CutsOf(A)
    <3> DEFINE Over == Overflows(x, w)
               a == Append(x.closed, x.open)
               b == last \o w
               d == x.open \o w
    <3>1. a \in Seq(Seq(A)) /\ b \in Seq(A) /\ d \in Seq(A) /\ x.closed \in Seq(Seq(A))
      BY <2>1, <2>3, <2>4
    <3>2. AppendOrFlush(x, w) = IF Over THEN [closed |-> a, open |-> b]
                                ELSE [closed |-> x.closed, open |-> d]
      BY <2>6
    <3> HIDE DEF Over, a, b, d
    <3> QED
      BY <3>1, <3>2 DEF CutsOf
  <2> QED
    BY <2>7 DEF w
<1> HIDE DEF T
<1>5. step \in Steps(n, T) /\ \A x \in T, i \in 1..n : step[<<x, i>>] = AppendOrFlush(x, pieces[i])
  BY <1>4 DEF Steps
<1> HIDE DEF step
<1>6. PICK f : Follows(f, n, T, Nothing, step)
  BY <1>1, <1>3, <1>5, FoldExists
<1>7. f \in [0..n -> T] /\ f[0] = Nothing /\ \A i \in 1..n : f[i] = step[<<f[i - 1], i>>]
  BY <1>6 DEF Follows
<1>8. ASSUME NEW k \in 0..n
      PROVE  f[k] = IF k = 0 THEN Nothing ELSE AppendOrFlush(f[k - 1], pieces[k])
  <2>1. CASE k = 0
    BY <1>7, <2>1
  <2>2. CASE k # 0
    <3>1. k \in 1..n /\ k - 1 \in 0..n
      BY <1>1, <2>2
    <3>2. f[k - 1] \in T
      BY <1>7, <3>1
    <3> QED
      BY <1>5, <1>7, <2>2, <3>1, <3>2
  <2> QED
    BY <2>1, <2>2
<1>9. Cutting(f)
  <2>1. f = [k \in 0..n |-> f[k]]
    BY <1>7
  <2>2. [k \in 0..n |-> f[k]] = [k \in 0..n |-> IF k = 0 THEN Nothing ELSE AppendOrFlush(f[k - 1], pieces[k])]
    BY <1>8
  <2> QED
    BY <2>1, <2>2
<1>10. Cutting(cut)
  BY <1>9
<1> HIDE DEF cut
<1>11. \A k \in 0..n : cut[k] = IF k = 0 THEN Nothing ELSE AppendOrFlush(cut[k - 1], pieces[k])
  BY <1>10
<1>12. 0 \in 0..n /\ \A k \in 1..n : k \in 0..n /\ k # 0
  BY <1>1
<1>13. cut[0] = Nothing
  BY <1>11, <1>12
<1>14. \A k \in 1..n : cut[k] = AppendOrFlush(cut[k - 1], pieces[k])
  BY <1>11, <1>12
<1> QED
  BY <1>2, <1>13, <1>14 DEF n, pieces

LEMMA TextIsChained ==
  ASSUME NEW A, NEW paragraphs \in Seq(Seq(Seq(A)))
  PROVE  \E own : /\ Chained(ChunkSectionText(paragraphs), own, A)
                 /\ FlattenSeq(own) = FlattenSeq(FlattenSeq(paragraphs))
<1> DEFINE pieces == AllPieces(paragraphs)
           n == Len(pieces)
<1>1. PICK f : /\ ChunkSectionText(paragraphs) = Flushed(f[n])
               /\ f[0] = Nothing
               /\ \A k \in 1..n : f[k] = AppendOrFlush(f[k - 1], pieces[k])
  BY TextIs
<1>2. /\ Fitting(pieces, A)
      /\ FlattenSeq(pieces) = FlattenSeq(FlattenSeq(paragraphs))
  BY AllPiecesFit
<1> HIDE DEF pieces
<1>3. /\ n \in Nat /\ pieces \in Seq(Seq(A))
      /\ \A i \in 1..n : pieces[i] \in Seq(A) /\ pieces[i] # <<>> /\ Len(pieces[i]) <= MaxTokens
  BY <1>2 DEF Fitting
<1> DEFINE S == {k \in 0..n : Running(f[k], A, FlatUpTo(pieces, k))}
<1>4. 0 \in S
  <2>1. Nothing \in CutsOf(A) /\ Nothing.closed = <<>> /\ Nothing.open = <<>> /\ Flushed(Nothing) = <<>>
    BY EmptySeq DEF Nothing, CutsOf, Flushed
  <2>2. Chained(<<>>, <<>>, A)
    BY EmptySeq DEF Chained
  <2>3. \E own : Chained(Flushed(Nothing), own, A) /\ FlattenSeq(own) = <<>>
    BY <2>1, <2>2, NothingFlat
  <2>4. Running(Nothing, A, <<>>)
    BY <2>1, <2>3 DEF Running
  <2>5. FlatUpTo(pieces, 0) = <<>>
    BY <1>3, FlatUpToIs
  <2> QED
    BY <1>1, <1>3, <2>4, <2>5
<1>5. ASSUME NEW k \in 0..n - 1, k \in S PROVE k + 1 \in S
  <2>1. k + 1 \in 1..n /\ k + 1 \in 0..n /\ (k + 1) - 1 = k
    BY <1>3
  <2>2. Running(f[k], A, FlatUpTo(pieces, k))
    BY <1>5
  <2> DEFINE w == pieces[k + 1]
  <2>3. w \in Seq(A) /\ w # <<>> /\ Len(w) <= MaxTokens
    BY <1>3, <2>1
  <2>4. f[k + 1] = AppendOrFlush(f[k], w)
    BY <1>1, <2>1
  <2>5. FlatUpTo(pieces, k + 1) = FlatUpTo(pieces, k) \o w
    <3>1. FlatUpTo(pieces, k + 1) = FlatUpTo(pieces, (k + 1) - 1) \o pieces[k + 1]
      BY <1>3, <2>1, FlatUpToIs
    <3> QED
      BY <2>1, <3>1
  <2> HIDE DEF w
  <2>6. Running(AppendOrFlush(f[k], w), A, FlatUpTo(pieces, k) \o w)
    BY <2>2, <2>3, AppendOrFlushKeeps
  <2> QED
    BY <2>1, <2>4, <2>5, <2>6
<1>6. n \in S
  <2> HIDE DEF S, n
  <2>1. 0..n \subseteq S
    BY <1>3, <1>4, <1>5, UpTo
  <2>2. n \in 0..n
    BY <1>3
  <2> QED
    BY <2>1, <2>2
<1>7. Running(f[n], A, FlattenSeq(pieces))
  <2>1. FlatUpTo(pieces, Len(pieces)) = FlattenSeq(pieces)
    BY <1>3, FlatUpToIs
  <2> QED
    BY <1>6, <2>1
<1> QED
  BY <1>1, <1>2, <1>7 DEF Running

(* The tables that have words, up to one of them.                          *)
TablesUpTo(tables, k) == Cardinality({j \in 1..k : tables[j] # <<>>})

LEMMA TablesCount ==
  ASSUME NEW tables, NEW k \in Nat
  PROVE  /\ TablesUpTo(tables, 0) = 0 /\ TablesUpTo(tables, k) \in Nat
         /\ TablesUpTo(tables, k + 1) = TablesUpTo(tables, k) + (IF tables[k + 1] # <<>> THEN 1 ELSE 0)
<1> DEFINE T(i) == {j \in 1..i : tables[j] # <<>>}
<1>1. T(0) = {}
  OBVIOUS
<1>2. IsFiniteSet(T(k))
  <2>1. IsFiniteSet(1..k) /\ T(k) \in SUBSET (1..k)
    BY FS_Interval
  <2> HIDE DEF T
  <2> QED
    BY <2>1, FS_Subset
<1>3. Cardinality(T(k)) \in Nat
  <2> HIDE DEF T
  <2> QED
    BY <1>2, FS_CardinalityType
<1>4. k + 1 \notin T(k)
  OBVIOUS
<1>5. 1..k + 1 = (1..k) \cup {k + 1}
  OBVIOUS
<1>6. CASE tables[k + 1] # <<>>
  <2>1. T(k + 1) = T(k) \cup {k + 1}
    BY <1>5, <1>6
  <2> DEFINE t == T(k)
  <2> HIDE DEF T
  <2>2. Cardinality(t \cup {k + 1}) = Cardinality(t) + 1
    <3> HIDE DEF t
    <3>1. IsFiniteSet(t) /\ k + 1 \notin t
      BY <1>2, <1>4 DEF t
    <3> QED
      BY <3>1, FS_AddElement
  <2>3. Cardinality(T(k + 1)) = Cardinality(T(k)) + 1
    BY <2>1, <2>2
  <2>4. Cardinality(T(0)) = 0
    BY <1>1, FS_EmptySet
  <2> QED
    BY <1>3, <1>6, <2>3, <2>4 DEF T, TablesUpTo
<1>7. CASE ~ (tables[k + 1] # <<>>)
  <2>1. T(k + 1) = T(k)
    BY <1>5, <1>7
  <2> HIDE DEF T
  <2>2. Cardinality(T(k + 1)) = Cardinality(T(k)) + 0
    BY <1>3, <2>1
  <2>3. Cardinality(T(0)) = 0
    BY <1>1, FS_EmptySet
  <2> QED
    BY <1>3, <1>7, <2>2, <2>3 DEF T, TablesUpTo
<1> QED
  BY <1>6, <1>7

TextChunk(texts, j) == [kind |-> "text", words |-> texts[j], local |-> j]
TableChunk(tables, k) == [kind |-> "table", words |-> tables[k], local |-> 0]
ChunkOf(X) == [kind: {"text", "table"}, words: X, local: Nat]

LaidOut(f, chunks, texts, tables, X) ==
  /\ chunks = f[Len(tables)]
  /\ f \in [0..Len(tables) -> Seq(ChunkOf(X))]
  /\ f[0] = [j \in 1..Len(texts) |-> TextChunk(texts, j)]
  /\ \A k \in 1..Len(tables) :
       f[k] = IF tables[k] = <<>> THEN f[k - 1] ELSE Append(f[k - 1], TableChunk(tables, k))

LEMMA ChunksFollow ==
  ASSUME NEW X, NEW section,
         NEW texts \in Seq(X), texts = ChunkSectionText(section.paragraphs),
         NEW tables \in Seq(X), tables = section.tables
  PROVE  \E f : LaidOut(f, SectionChunks(section), texts, tables, X)
<1> DEFINE n == Len(tables)
           t == Len(texts)
           T == Seq(ChunkOf(X))
           first == [j \in 1..t |-> TextChunk(texts, j)]
           add(s, k) == IF tables[k] = <<>> THEN s ELSE Append(s, TableChunk(tables, k))
           step == [x \in T \X (1..n) |-> add(x[1], x[2])]
           Laid(f) == f = [k \in 0..n |-> IF k = 0 THEN first ELSE add(f[k - 1], k)]
           chunks == CHOOSE f : Laid(f)
<1>1. /\ n \in Nat /\ t \in Nat /\ DOMAIN texts = 1..t
      /\ (\A j \in 1..t : texts[j] \in X) /\ \A k \in 1..n : tables[k] \in X
  OBVIOUS
<1>2. SectionChunks(section) = chunks[n]
  <2> DEFINE first2 == [j \in DOMAIN texts |-> [kind |-> "text", words |-> texts[j], local |-> j]]
             Laid2(f) == f = [k \in 0..n |->
                                IF k = 0 THEN first2
                                ELSE IF tables[k] = <<>> THEN f[k - 1]
                                ELSE Append(f[k - 1], [kind |-> "table", words |-> tables[k], local |-> 0])]
  <2>1. SectionChunks(section) = (CHOOSE f : Laid2(f))[n]
    BY DEF SectionChunks
  <2>2. first2 = first
    BY <1>1 DEF TextChunk
  <2>3. \A f : Laid2(f) <=> Laid(f)
    <3> HIDE DEF first, first2
    <3> QED
      BY <2>2 DEF TableChunk
  <2>4. (CHOOSE f : Laid2(f)) = (CHOOSE f : Laid(f))
    <3> HIDE DEF Laid, Laid2
    <3> QED
      BY <2>3
  <2> QED
    BY <2>1, <2>4
<1> HIDE DEF n, t
<1>3. first \in T
  <2>1. \A j \in 1..t : TextChunk(texts, j) \in ChunkOf(X)
    BY <1>1 DEF TextChunk, ChunkOf
  <2>2. first \in [1..t -> ChunkOf(X)]
    BY <2>1
  <2> QED
    BY <1>1, <2>2
<1>4. ASSUME NEW s \in T, NEW k \in 1..n PROVE add(s, k) \in T
  <2>1. TableChunk(tables, k) \in ChunkOf(X)
    BY <1>1 DEF TableChunk, ChunkOf
  <2>2. Append(s, TableChunk(tables, k)) \in T
    BY <2>1, AppendProperties
  <2> QED
    BY <2>2
<1> HIDE DEF T, add, first
<1>5. step \in Steps(n, T) /\ \A x \in T, i \in 1..n : step[<<x, i>>] = add(x, i)
  BY <1>4 DEF Steps
<1> HIDE DEF step
<1>6. PICK f : Follows(f, n, T, first, step)
  BY <1>1, <1>3, <1>5, FoldExists
<1>7. f \in [0..n -> T] /\ f[0] = first /\ \A i \in 1..n : f[i] = step[<<f[i - 1], i>>]
  BY <1>6 DEF Follows
<1>8. ASSUME NEW k \in 0..n
      PROVE  f[k] = IF k = 0 THEN first ELSE add(f[k - 1], k)
  <2>1. CASE k = 0
    BY <1>7, <2>1
  <2>2. CASE k # 0
    <3>1. k \in 1..n /\ k - 1 \in 0..n
      BY <1>1, <2>2
    <3>2. f[k - 1] \in T
      BY <1>7, <3>1
    <3> QED
      BY <1>5, <1>7, <2>2, <3>1, <3>2
  <2> QED
    BY <2>1, <2>2
<1>9. Laid(f)
  <2>1. f = [k \in 0..n |-> f[k]]
    BY <1>7
  <2>2. [k \in 0..n |-> f[k]] = [k \in 0..n |-> IF k = 0 THEN first ELSE add(f[k - 1], k)]
    BY <1>8
  <2> QED
    BY <2>1, <2>2
<1>10. Laid(chunks)
  BY <1>9
<1> HIDE DEF chunks
<1>11. chunks = [k \in 0..n |-> IF k = 0 THEN first ELSE add(chunks[k - 1], k)]
  BY <1>10
<1>12. \A k \in 0..n : chunks[k] = IF k = 0 THEN first ELSE add(chunks[k - 1], k)
  BY <1>11
<1>13. 0 \in 0..n /\ \A k \in 1..n : k \in 0..n /\ k # 0 /\ k - 1 \in 0..n
  BY <1>1
<1>14. chunks[0] = first
  BY <1>12, <1>13
<1>15. \A k \in 1..n : chunks[k] = add(chunks[k - 1], k)
  BY <1>12, <1>13
<1>16. DOMAIN chunks = 0..n
  BY <1>11
<1> DEFINE S == {k \in 0..n : chunks[k] \in T}
<1>17. 0..n \subseteq S
  <2>1. 0 \in S
    BY <1>3, <1>13, <1>14
  <2>2. ASSUME NEW k \in 0..n - 1, k \in S PROVE k + 1 \in S
    <3>1. k + 1 \in 1..n /\ k + 1 \in 0..n /\ (k + 1) - 1 = k
      BY <1>1
    <3> QED
      BY <1>4, <1>15, <2>2, <3>1
  <2> HIDE DEF S
  <2> QED
    BY <1>1, <2>1, <2>2, UpTo
<1>18. chunks \in [0..n -> T]
  BY <1>11, <1>16, <1>17
<1>19. /\ SectionChunks(section) = chunks[Len(tables)]
       /\ chunks \in [0..Len(tables) -> Seq(ChunkOf(X))]
       /\ chunks[0] = [j \in 1..Len(texts) |-> TextChunk(texts, j)]
       /\ \A k \in 1..Len(tables) :
            chunks[k] = IF tables[k] = <<>> THEN chunks[k - 1]
                        ELSE Append(chunks[k - 1], TableChunk(tables, k))
  BY <1>2, <1>14, <1>15, <1>18 DEF n, t, T, first, add
<1>20. LaidOut(chunks, SectionChunks(section), texts, tables, X)
  BY <1>19 DEF LaidOut
<1> QED
  BY <1>20

(* What the chunks of a section hold once k of its tables are in.          *)
Arranged(c, texts, tables, k, X) ==
  /\ c \in Seq(ChunkOf(X))
  /\ Len(c) = Len(texts) + TablesUpTo(tables, k)
  /\ \A j \in 1..Len(texts) : c[j] = TextChunk(texts, j)
  /\ \A j \in Len(texts) + 1..Len(c) : c[j].kind = "table"
  /\ \A j \in 1..k : tables[j] # <<>> =>
       /\ TablesUpTo(tables, j) \in 1..TablesUpTo(tables, k)
       /\ c[Len(texts) + TablesUpTo(tables, j)].words = tables[j]

LEMMA FirstArranged ==
  ASSUME NEW X, NEW texts \in Seq(X), NEW tables, NEW c \in Seq(ChunkOf(X)),
         c = [j \in 1..Len(texts) |-> TextChunk(texts, j)]
  PROVE  Arranged(c, texts, tables, 0, X)
<1> DEFINE t == Len(texts)
<1>1. t \in Nat
  OBVIOUS
<1>2. DOMAIN c = 1..t /\ \A j \in 1..t : c[j] = TextChunk(texts, j)
  OBVIOUS
<1>3. Len(c) = t
  <2>1. Len(c) \in Nat /\ DOMAIN c = 1..Len(c)
    OBVIOUS
  <2> HIDE DEF t
  <2> QED
    BY <1>1, <1>2, <2>1
<1>4. TablesUpTo(tables, 0) = 0
  BY TablesCount
<1>5. Len(c) = t + 0 /\ t + 1..Len(c) = {} /\ 1..0 = {}
  BY <1>1, <1>3
<1> QED
  BY <1>2, <1>4, <1>5 DEF Arranged

LEMMA NextArranged ==
  ASSUME NEW X, NEW texts \in Seq(X), NEW tables \in Seq(X), NEW k \in 1..Len(tables),
         NEW c, Arranged(c, texts, tables, k - 1, X),
         NEW d, d = IF tables[k] = <<>> THEN c ELSE Append(c, TableChunk(tables, k))
  PROVE  Arranged(d, texts, tables, k, X)
<1> DEFINE t == Len(texts)
           u(j) == TablesUpTo(tables, j)
           C == ChunkOf(X)
<1>1. t \in Nat /\ k \in Nat /\ k - 1 \in Nat /\ (k - 1) + 1 = k /\ tables[k] \in X
  OBVIOUS
<1>2. u(k - 1) \in Nat /\ u(k) = u(k - 1) + (IF tables[k] # <<>> THEN 1 ELSE 0)
  BY <1>1, TablesCount
<1>3. TableChunk(tables, k) \in C
  BY <1>1 DEF TableChunk, ChunkOf
<1>4. /\ c \in Seq(C) /\ Len(c) = t + u(k - 1)
      /\ \A j \in 1..t : c[j] = TextChunk(texts, j)
      /\ \A j \in t + 1..Len(c) : c[j].kind = "table"
  BY DEF Arranged
<1>5. \A j \in 1..k - 1 : tables[j] # <<>> => u(j) \in 1..u(k - 1) /\ c[t + u(j)].words = tables[j]
  BY DEF Arranged
<1> HIDE DEF t, u, C
<1>6. SUFFICES /\ d \in Seq(C) /\ Len(d) = t + u(k)
               /\ \A j \in 1..t : d[j] = TextChunk(texts, j)
               /\ \A j \in t + 1..Len(d) : d[j].kind = "table"
               /\ \A j \in 1..k : tables[j] # <<>> => u(j) \in 1..u(k) /\ d[t + u(j)].words = tables[j]
  BY DEF t, u, C, Arranged
<1>7. CASE tables[k] = <<>>
  <2>1. d = c /\ u(k) = u(k - 1)
    BY <1>2, <1>7
  <2>2. ASSUME NEW j \in 1..k, tables[j] # <<>>
        PROVE  u(j) \in 1..u(k) /\ d[t + u(j)].words = tables[j]
    <3>1. j \in 1..k - 1
      BY <1>1, <1>7, <2>2
    <3> QED
      BY <1>5, <2>1, <2>2, <3>1
  <2> QED
    BY <1>4, <2>1, <2>2
<1>8. CASE tables[k] # <<>>
  <2>1. d = Append(c, TableChunk(tables, k)) /\ u(k) = u(k - 1) + 1
    BY <1>2, <1>8
  <2>2. /\ d \in Seq(C) /\ Len(d) = Len(c) + 1
        /\ \A j \in 1..Len(c) : d[j] = c[j]
        /\ d[Len(c) + 1] = TableChunk(tables, k)
    BY <1>3, <1>4, <2>1, AppendProperties
  <2>3. Len(c) \in Nat /\ Len(d) = t + u(k) /\ Len(c) + 1 = t + u(k)
    BY <1>1, <1>2, <1>4, <2>1, <2>2
  <2>4. ASSUME NEW j \in 1..t PROVE d[j] = TextChunk(texts, j)
    <3>1. j \in 1..Len(c)
      BY <1>1, <1>2, <1>4
    <3> QED
      BY <1>4, <2>2, <3>1
  <2>5. TableChunk(tables, k).kind = "table" /\ TableChunk(tables, k).words = tables[k]
    BY DEF TableChunk
  <2>6. ASSUME NEW j \in t + 1..Len(d) PROVE d[j].kind = "table"
    <3>1. CASE j = Len(c) + 1
      BY <2>2, <2>5, <3>1
    <3>2. CASE j # Len(c) + 1
      <4>1. j \in t + 1..Len(c) /\ j \in 1..Len(c)
        BY <1>1, <2>2, <2>3, <3>2
      <4> QED
        BY <1>4, <2>2, <4>1
    <3> QED
      BY <3>1, <3>2
  <2>7. ASSUME NEW j \in 1..k, tables[j] # <<>>
        PROVE  u(j) \in 1..u(k) /\ d[t + u(j)].words = tables[j]
    <3>1. CASE j = k
      <4>1. u(k) \in 1..u(k)
        BY <1>2, <2>1
      <4>2. d[t + u(k)].words = tables[k]
        BY <2>2, <2>3, <2>5
      <4> QED
        BY <3>1, <4>1, <4>2
    <3>2. CASE j # k
      <4>1. j \in 1..k - 1
        BY <1>1, <3>2
      <4>2. u(j) \in 1..u(k - 1) /\ c[t + u(j)].words = tables[j]
        BY <1>5, <2>7, <4>1
      <4>3. u(j) \in 1..u(k) /\ t + u(j) \in 1..Len(c)
        BY <1>1, <1>2, <1>4, <2>1, <4>2
      <4> QED
        BY <2>2, <4>2, <4>3
    <3> QED
      BY <3>1, <3>2
  <2> QED
    BY <2>2, <2>3, <2>4, <2>6, <2>7
<1> QED
  BY <1>7, <1>8

LEMMA ChunksAreArranged ==
  ASSUME NEW X, NEW section,
         NEW texts \in Seq(X), texts = ChunkSectionText(section.paragraphs),
         NEW tables \in Seq(X), tables = section.tables
  PROVE  Arranged(SectionChunks(section), texts, tables, Len(tables), X)
<1> DEFINE n == Len(tables)
<1>0. PICK f : LaidOut(f, SectionChunks(section), texts, tables, X)
  BY ChunksFollow
<1>1. /\ SectionChunks(section) = f[n]
      /\ f \in [0..n -> Seq(ChunkOf(X))]
      /\ f[0] = [j \in 1..Len(texts) |-> TextChunk(texts, j)]
      /\ \A k \in 1..n :
           f[k] = IF tables[k] = <<>> THEN f[k - 1] ELSE Append(f[k - 1], TableChunk(tables, k))
  BY <1>0 DEF LaidOut
<1>2. n \in Nat
  OBVIOUS
<1> DEFINE S == {k \in 0..n : Arranged(f[k], texts, tables, k, X)}
<1>3. 0 \in S
  <2>1. 0 \in 0..n
    BY <1>2
  <2>2. f[0] \in Seq(ChunkOf(X))
    BY <1>1, <2>1
  <2>3. Arranged(f[0], texts, tables, 0, X)
    BY <1>1, <2>2, FirstArranged
  <2> QED
    BY <2>1, <2>3
<1>4. ASSUME NEW k \in 0..n - 1, k \in S PROVE k + 1 \in S
  <2> DEFINE m == k + 1
             d == f[m]
             c == f[k]
  <2>1. m \in 1..n /\ m \in 0..n /\ m - 1 = k
    BY <1>2
  <2>2. d = IF tables[m] = <<>> THEN c ELSE Append(c, TableChunk(tables, m))
    BY <1>1, <2>1
  <2>3. Arranged(c, texts, tables, m - 1, X)
    BY <1>4, <2>1
  <2> HIDE DEF d, c, m
  <2>4. Arranged(d, texts, tables, m, X)
    BY <2>1, <2>2, <2>3, NextArranged
  <2> QED
    BY <2>1, <2>4 DEF d, m
<1>5. n \in S
  <2> HIDE DEF S, n
  <2>1. 0..n \subseteq S
    BY <1>2, <1>3, <1>4, UpTo
  <2> QED
    BY <1>2, <2>1
<1> QED
  BY <1>1, <1>5

LEMMA FunctionsAreSequences ==
  ASSUME NEW S, NEW n \in Nat, NEW f \in [1..n -> S]
  PROVE  f \in Seq(S)
BY SeqDef

(* The numbered words are a section's paragraphs.                          *)
NumberedWords(paragraphs) == {paragraphs[p][s][w] : p \in Nat, s \in Nat, w \in Nat}

LEMMA NumberedAreParagraphs ==
  ASSUME NEW sizes \in Seq(Seq(Nat))
  PROVE  Numbered(sizes) \in Seq(Seq(Seq(NumberedWords(Numbered(sizes)))))
<1> DEFINE before(p, s) == SumOf(FlattenSeq(SubSeq(sizes, 1, p - 1)) \o SubSeq(sizes[p], 1, s - 1))
           sentence(p, s) == [w \in 1..sizes[p][s] |-> before(p, s) + w]
           paragraph(p) == [s \in DOMAIN sizes[p] |-> sentence(p, s)]
           all == Numbered(sizes)
           n == Len(sizes)
           A == NumberedWords(all)
           B == Seq(A)
           C == Seq(B)
<1>1. n \in Nat /\ DOMAIN sizes = 1..n /\ \A p \in 1..n : sizes[p] \in Seq(Nat)
  OBVIOUS
<1>2. all = [p \in DOMAIN sizes |-> paragraph(p)]
  BY DEF Numbered
<1> HIDE DEF before, n, all
<1>3. ASSUME NEW p \in 1..n PROVE all[p] \in C
  <2> DEFINE m == Len(sizes[p])
  <2>1. m \in Nat /\ DOMAIN sizes[p] = 1..m /\ \A s \in 1..m : sizes[p][s] \in Nat
    BY <1>1
  <2>2. all[p] = [s \in DOMAIN sizes[p] |-> sentence(p, s)]
    BY <1>1, <1>2
  <2> HIDE DEF m
  <2>3. ASSUME NEW s \in 1..m PROVE sentence(p, s) \in B
    <3> DEFINE k == sizes[p][s]
    <3>1. k \in Nat
      BY <2>1
    <3>2. all[p][s] = sentence(p, s)
      BY <2>1, <2>2
    <3> DEFINE x == sentence(p, s)
    <3>3. x = [w \in 1..k |-> before(p, s) + w]
      OBVIOUS
    <3> HIDE DEF k, x
    <3>5. ASSUME NEW w \in 1..k PROVE x[w] \in A
      <4>1. p \in Nat /\ s \in Nat /\ w \in Nat
        BY <1>1, <2>1, <3>1
      <4>2. all[p][s][w] \in A
        BY <4>1 DEF NumberedWords
      <4> QED
        BY <3>2, <4>2 DEF x
    <3> HIDE DEF A, sentence
    <3>6. x \in [1..k -> A]
      <4>1. x = [w \in 1..k |-> x[w]]
        BY <3>3
      <4> QED
        BY <3>5, <4>1
    <3>7. x \in Seq(A)
      BY <3>1, <3>6, FunctionsAreSequences
    <3> QED
      BY <3>7 DEF x
  <2> HIDE DEF sentence, B
  <2>4. all[p] \in [1..m -> B]
    BY <2>1, <2>2, <2>3
  <2>5. all[p] \in Seq(B)
    BY <2>1, <2>4, FunctionsAreSequences
  <2> QED
    BY <2>5
<1> HIDE DEF paragraph, C
<1>4. all \in [1..n -> C]
  BY <1>1, <1>2, <1>3
<1>5. all \in Seq(C)
  BY <1>1, <1>4, FunctionsAreSequences
<1> QED
  BY <1>5 DEF C, B, A, all

LEMMA RestOfConcat ==
  ASSUME NEW A, NEW a \in Seq(A), NEW b \in Seq(A), b # <<>>
  PROVE  SubSeq(a \o b, Len(a) + 1, Len(a \o b)) = b
<1>1. Len(a) \in Nat /\ Len(b) \in Nat /\ Len(b) # 0
  OBVIOUS
<1>2. Len(a \o b) = Len(a) + Len(b)
  BY ConcatProperties
<1> DEFINE m == Len(a) + 1
           n == Len(a) + Len(b)
<1>3. m \in Len(a) + 1..Len(a) + Len(b) /\ n \in Len(a) + 1..Len(a) + Len(b)
      /\ m - Len(a) = 1 /\ n - Len(a) = Len(b)
  BY <1>1
<1> HIDE DEF m, n
<1>4. SubSeq(a \o b, m, n) = SubSeq(b, m - Len(a), n - Len(a))
  BY <1>3, SubSeqOfConcat2
<1>5. SubSeq(b, 1, Len(b)) = b
  BY SubSeqFull
<1> QED
  BY <1>2, <1>3, <1>4, <1>5 DEF m, n

LEMMA TextsAreFirst ==
  ASSUME NEW X, NEW texts \in Seq(X), NEW tables \in Seq(X), NEW c,
         Arranged(c, texts, tables, Len(tables), X)
  PROVE  /\ DOMAIN c = 1..Len(c)
         /\ Cardinality({k \in DOMAIN c : c[k].kind = "text"}) = Len(texts)
         /\ \A k \in 1..Len(texts) : /\ c[k].kind = "text" /\ c[k].local = k
                                     /\ c[k].words = texts[k]
<1> DEFINE t == Len(texts)
           u == TablesUpTo(tables, Len(tables))
<1>1. t \in Nat /\ Len(tables) \in Nat
  OBVIOUS
<1>2. u \in Nat
  BY <1>1, TablesCount
<1>3. /\ c \in Seq(ChunkOf(X)) /\ Len(c) = t + u
      /\ \A j \in 1..t : c[j] = TextChunk(texts, j)
      /\ \A j \in t + 1..Len(c) : c[j].kind = "table"
  BY DEF Arranged
<1> HIDE DEF t, u
<1>4. DOMAIN c = 1..Len(c)
  BY <1>3
<1>5. ASSUME NEW j \in 1..t PROVE c[j].kind = "text" /\ c[j].local = j /\ c[j].words = texts[j]
  <2>1. c[j] = TextChunk(texts, j)
    BY <1>3
  <2>2. /\ TextChunk(texts, j).kind = "text" /\ TextChunk(texts, j).local = j
        /\ TextChunk(texts, j).words = texts[j]
    BY DEF TextChunk
  <2> QED
    BY <2>1, <2>2
<1>6. ASSUME NEW j \in 1..Len(c) PROVE c[j].kind = "text" <=> j \in 1..t
  <2>1. j \in 1..t \/ j \in t + 1..Len(c)
    BY <1>1, <1>2, <1>3
  <2>2. j \in t + 1..Len(c) => j \notin 1..t
    BY <1>1, <1>2, <1>3
  <2> QED
    BY <1>3, <1>5, <2>1, <2>2
<1>7. 1..t \subseteq 1..Len(c)
  BY <1>1, <1>2, <1>3
<1>8. {k \in DOMAIN c : c[k].kind = "text"} = 1..t
  BY <1>4, <1>6, <1>7
<1>9. Cardinality(1..t) = t
  BY <1>1, FS_Interval
<1> QED
  BY <1>4, <1>5, <1>8, <1>9 DEF t

LEMMA OwnWords ==
  ASSUME NEW A, NEW s, NEW own, Chained(s, own, A), NEW k \in 1..Len(s)
  PROVE  SubSeq(s[k], Len(Overlap(s, k)) + 1, Len(s[k])) = own[k]
<1> DEFINE ov == Overlap(s, k)
           o == own[k]
           w == s[k]
<1>1. Len(s) \in Nat /\ s \in Seq(Seq(A)) /\ own \in Seq(Seq(A)) /\ Len(own) = Len(s)
  BY DEF Chained
<1>2. o \in Seq(A) /\ o # <<>> /\ w = ov \o o
  BY <1>1 DEF Chained
<1>3. ov \in Seq(A)
  <2>1. CASE k = 1
    BY <2>1, EmptySeq DEF Overlap
  <2>2. CASE k # 1
    <3>1. k - 1 \in 1..Len(s)
      BY <1>1, <2>2
    <3>2. s[k - 1] \in Seq(A)
      BY <1>1, <3>1
    <3> QED
      BY <2>2, <3>2, LastWordsAre DEF Overlap
  <2> QED
    BY <2>1, <2>2
<1> HIDE DEF ov, o, w
<1>4. SubSeq(w, Len(ov) + 1, Len(w)) = o
  BY <1>2, <1>3, RestOfConcat, SMTT(30)
<1> QED
  BY <1>4 DEF ov, o, w

LEMMA ChunksCover ==
  ASSUME InputsFit, task = "chunks"
  PROVE  ChunksCoverTheText
<1> DEFINE paragraphs == Numbered(left)
           section == [paragraphs |-> paragraphs, tables |-> right]
           chunks == SectionChunks(section)
           texts == ChunkSectionText(paragraphs)
           A == NumberedWords(paragraphs)
           X == Seq(A) \cup Seq(Nat)
           t == Len(texts)
<1>1. left \in Seq(Seq(Nat)) /\ right \in Seq(Seq(Nat))
  <2>1. left \in Seq(Alphabet["chunks"].left) /\ right \in Seq(Alphabet["chunks"].right)
    BY DEF InputsFit
  <2>2. Alphabet["chunks"].left \subseteq Seq(Nat) /\ Alphabet["chunks"].right \subseteq Seq(Nat)
    BY AlphabetAssumption
  <2> QED
    BY <2>1, <2>2, SeqMonotonic
<1>2. paragraphs \in Seq(Seq(Seq(A)))
  BY <1>1, NumberedAreParagraphs
<1>3. section.paragraphs = paragraphs /\ section.tables = right
  OBVIOUS
<1> HIDE DEF paragraphs, A
<1>4. PICK own : /\ Chained(texts, own, A)
                 /\ FlattenSeq(own) = FlattenSeq(FlattenSeq(paragraphs))
  BY <1>2, TextIsChained
<1>5. /\ texts \in Seq(Seq(A)) /\ own \in Seq(Seq(A)) /\ Len(own) = t /\ t \in Nat
      /\ \A k \in 1..t : /\ own[k] # <<>> /\ texts[k] = Overlap(texts, k) \o own[k]
                         /\ Len(texts[k]) <= MaxTokens + OverlapTokens
  BY <1>4 DEF Chained
<1> HIDE DEF section
<1>6. texts \in Seq(X) /\ right \in Seq(X)
  <2>1. Seq(A) \subseteq X /\ Seq(Nat) \subseteq X
    OBVIOUS
  <2> HIDE DEF X, texts
  <2> QED
    BY <1>1, <1>5, <2>1, SeqMonotonic
<1>7. texts = ChunkSectionText(section.paragraphs)
  BY <1>3
<1> HIDE DEF X, texts, chunks
<1>8. Arranged(chunks, texts, right, Len(right), X)
  BY <1>3, <1>6, <1>7, ChunksAreArranged DEF chunks
<1>9. /\ DOMAIN chunks = 1..Len(chunks)
      /\ Cardinality({k \in DOMAIN chunks : chunks[k].kind = "text"}) = t
      /\ \A k \in 1..t : /\ chunks[k].kind = "text" /\ chunks[k].local = k
                         /\ chunks[k].words = texts[k]
  BY <1>6, <1>8, TextsAreFirst, SMTT(30)
<1>10. /\ Len(chunks) = t + TablesUpTo(right, Len(right))
       /\ \A j \in 1..Len(right) : right[j] # <<>> =>
            chunks[t + TablesUpTo(right, j)].words = right[j]
  BY <1>8 DEF Arranged
<1> HIDE DEF t
<1> DEFINE overlap(k) == IF k = 1 THEN <<>> ELSE LastWords(chunks[k - 1].words, OverlapTokens)
           rest == [k \in 1..t |-> SubSeq(chunks[k].words, Len(overlap(k)) + 1, Len(chunks[k].words))]
<1>11. ASSUME NEW k \in 1..t PROVE overlap(k) = Overlap(texts, k)
  <2>1. CASE k = 1
    BY <2>1 DEF Overlap
  <2>2. CASE k # 1
    <3>1. k - 1 \in 1..t
      BY <1>5, <2>2
    <3>2. chunks[k - 1].words = texts[k - 1]
      BY <1>9, <3>1
    <3> QED
      BY <2>2, <3>2 DEF Overlap
  <2> QED
    BY <2>1, <2>2
<1> HIDE DEF overlap
<1>12. ASSUME NEW k \in 1..t PROVE rest[k] = own[k]
  <2>1. rest[k] = SubSeq(chunks[k].words, Len(overlap(k)) + 1, Len(chunks[k].words))
    OBVIOUS
  <2>2. rest[k] = SubSeq(texts[k], Len(Overlap(texts, k)) + 1, Len(texts[k]))
    BY <1>9, <1>11, <2>1
  <2>3. k \in 1..Len(texts)
    BY DEF t
  <2>4. Chained(texts, own, A)
    BY <1>4
  <2>5. SubSeq(texts[k], Len(Overlap(texts, k)) + 1, Len(texts[k])) = own[k]
    BY <2>3, <2>4, OwnWords
  <2> HIDE DEF rest
  <2> QED
    BY <2>2, <2>5
<1>13. rest = own
  <2> DEFINE B == Seq(A)
  <2>1. own \in Seq(B) /\ Len(own) = t /\ DOMAIN own = 1..t /\ \A k \in 1..t : own[k] \in B
    BY <1>5
  <2>2. DOMAIN rest = 1..t
    OBVIOUS
  <2> HIDE DEF rest, B
  <2>3. rest \in [1..t -> B]
    <3>1. \A k \in 1..t : rest[k] \in B
      BY <1>12, <2>1
    <3>2. rest = [k \in 1..t |-> rest[k]]
      BY <2>2 DEF rest
    <3> QED
      BY <3>1, <3>2
  <2>4. rest \in Seq(B)
    BY <1>5, <2>3, FunctionsAreSequences
  <2>5. Len(rest) = t
    BY <1>5, <2>2, <2>4
  <2> QED
    BY <1>12, <2>1, <2>4, <2>5, SeqEqual
<1>14. ASSUME NEW k \in 1..t
       PROVE  /\ chunks[k].kind = "text" /\ chunks[k].local = k
              /\ chunks[k].words = overlap(k) \o rest[k] /\ rest[k] # <<>>
              /\ Len(chunks[k].words) <= MaxTokens + OverlapTokens
  <2>1. own[k] # <<>> /\ texts[k] = Overlap(texts, k) \o own[k]
        /\ Len(texts[k]) <= MaxTokens + OverlapTokens
    BY <1>5 DEF t
  <2> HIDE DEF rest
  <2> QED
    BY <1>9, <1>11, <1>12, <2>1
<1>15. FlattenSeq(rest) = FlattenSeq(FlattenSeq(paragraphs))
  <2> HIDE DEF rest
  <2> QED
    BY <1>4, <1>13
<1>16. DOMAIN right = 1..Len(right)
  BY <1>1
<1> DEFINE kept(k) == Cardinality({j \in 1..k : right[j] # <<>>})
<1>17. /\ Len(chunks) = t + kept(Len(right))
       /\ \A k \in DOMAIN right : right[k] # <<>> => chunks[t + kept(k)].words = right[k]
  BY <1>10, <1>16 DEF TablesUpTo
<1> HIDE DEF kept, rest
<1> DEFINE Covered(n) ==
             LET own2 == [k \in 1..n |-> SubSeq(chunks[k].words, Len(overlap(k)) + 1, Len(chunks[k].words))]
             IN  /\ \A k \in 1..n :
                      /\ chunks[k].kind = "text" /\ chunks[k].local = k
                      /\ chunks[k].words = overlap(k) \o own2[k] /\ own2[k] # <<>>
                      /\ Len(chunks[k].words) <= MaxTokens + OverlapTokens
                 /\ FlattenSeq(own2) = FlattenSeq(FlattenSeq(paragraphs))
                 /\ Len(chunks) = n + kept(Len(right))
                 /\ \A k \in DOMAIN right : right[k] # <<>> => chunks[n + kept(k)].words = right[k]
<1>18. Covered(t)
  BY <1>14, <1>15, <1>17 DEF rest
<1>19. Covered(Cardinality({k \in DOMAIN chunks : chunks[k].kind = "text"}))
  <2> HIDE DEF Covered
  <2> QED
    BY <1>9, <1>18
<1> QED
  BY <1>19 DEF ChunksCoverTheText, chunks, section, paragraphs, overlap, kept

(***************************************************************************)
(* For any filing, chunk limits, searches, scores and filters: the chunks  *)
(* of a section carry all of its words, in order, each chunk starting with *)
(* the end of the one before, within the limits, and each table that has   *)
(* words is a chunk; and a search comes back with as many chunks as it may *)
(* hold, each once and within its filters, that go against neither of the  *)
(* two rankings (chunking_service.py, retrieval_service.py).               *)
(***************************************************************************)
THEOREM SearchesAreSound == Spec => []SearchIsSound
<1>1. InputsFit => SearchIsSound
  BY FusionIsFair, ChunksCover DEF SearchIsSound
<1> QED
  BY <1>1, InputsAreOfTheirTask, PTL

-----------------------------------------------------------------------------
(* Readings.  First what the filters and the loop that stores claims do.   *)

Keeping(f, s, places) ==
  /\ f[0] = <<>>
  /\ \A k \in 1..Len(s) :
       f[k] = IF k \in places THEN Append(f[k - 1], s[k]) ELSE f[k - 1]

LEMMA OnlyFollows ==
  ASSUME NEW X, NEW s \in Seq(X), NEW places
  PROVE  \E f \in [0..Len(s) -> Seq(X)] : Only(s, places) = f[Len(s)] /\ Keeping(f, s, places)
<1> DEFINE n == Len(s)
           T == Seq(X)
           keep(r, k) == IF k \in places THEN Append(r, s[k]) ELSE r
           step == [x \in T \X (1..n) |-> keep(x[1], x[2])]
           Keeps(f) == f = [k \in 0..n |-> IF k = 0 THEN <<>> ELSE keep(f[k - 1], k)]
           kept == CHOOSE f : Keeps(f)
<1>1. n \in Nat /\ <<>> \in T /\ \A k \in 1..n : s[k] \in X
  BY EmptySeq
<1>2. Only(s, places) = kept[n]
  BY DEF Only
<1> HIDE DEF n
<1>3. ASSUME NEW r \in T, NEW k \in 1..n PROVE keep(r, k) \in T
  BY <1>1, AppendProperties
<1> HIDE DEF T, keep
<1>4. step \in Steps(n, T) /\ \A r \in T, k \in 1..n : step[<<r, k>>] = keep(r, k)
  BY <1>3 DEF Steps
<1> HIDE DEF step
<1>5. PICK f : Follows(f, n, T, <<>>, step)
  BY <1>1, <1>4, FoldExists
<1>6. f \in [0..n -> T] /\ f[0] = <<>> /\ \A k \in 1..n : f[k] = step[<<f[k - 1], k>>]
  BY <1>5 DEF Follows
<1>7. ASSUME NEW k \in 0..n
      PROVE  f[k] \in T /\ f[k] = IF k = 0 THEN <<>> ELSE keep(f[k - 1], k)
  <2>1. CASE k = 0
    BY <1>6, <2>1
  <2>2. CASE k # 0
    <3>1. k \in 1..n /\ k - 1 \in 0..n
      BY <1>1, <2>2
    <3>2. f[k - 1] \in T
      BY <1>6, <3>1
    <3> QED
      BY <1>4, <1>6, <2>2, <3>1, <3>2
  <2> QED
    BY <2>1, <2>2
<1>8. Keeps(f)
  <2>1. f = [k \in 0..n |-> f[k]]
    BY <1>6
  <2>2. [k \in 0..n |-> f[k]] = [k \in 0..n |-> IF k = 0 THEN <<>> ELSE keep(f[k - 1], k)]
    BY <1>7
  <2> QED
    BY <2>1, <2>2
<1>9. Keeps(kept)
  BY <1>8
<1> HIDE DEF kept
<1>10. DOMAIN kept = 0..n /\ \A k \in 0..n : kept[k] = IF k = 0 THEN <<>> ELSE keep(kept[k - 1], k)
  BY <1>9
<1>11. 0 \in 0..n /\ \A k \in 1..n : k \in 0..n /\ k # 0
  BY <1>1
<1>12. kept[0] = <<>> /\ \A k \in 1..n : kept[k] = keep(kept[k - 1], k)
  BY <1>10, <1>11
<1> DEFINE S == {k \in 0..n : kept[k] \in T}
<1>13. 0..n \subseteq S
  <2>1. 0 \in S
    BY <1>1, <1>11, <1>12
  <2>2. ASSUME NEW k \in 0..n - 1, k \in S PROVE k + 1 \in S
    <3>1. k + 1 \in 1..n /\ k + 1 \in 0..n /\ (k + 1) - 1 = k
      BY <1>1
    <3> QED
      BY <1>3, <1>12, <2>2, <3>1
  <2> HIDE DEF S
  <2> QED
    BY <1>1, <2>1, <2>2, UpTo
<1>14. kept \in [0..n -> T]
  <2>1. kept = [k \in 0..n |-> kept[k]]
    BY <1>9
  <2> QED
    BY <1>13, <2>1
<1>15. Keeping(kept, s, places)
  BY <1>12 DEF Keeping, keep, n
<1> QED
  BY <1>2, <1>14, <1>15 DEF n, T

LEMMA OnlyIsSequence ==
  ASSUME NEW X, NEW s \in Seq(X), NEW places
  PROVE  Only(s, places) \in Seq(X)
<1>1. Len(s) \in 0..Len(s)
  OBVIOUS
<1> QED
  BY <1>1, OnlyFollows

LEMMA OnlyOfOne ==
  ASSUME NEW X, NEW x \in X, NEW places
  PROVE  Only(<<x>>, places) = IF 1 \in places THEN <<x>> ELSE <<>>
<1> DEFINE s == <<x>>
<1>1. s \in Seq(X) /\ Len(s) = 1 /\ s[1] = x
  OBVIOUS
<1> HIDE DEF s
<1>2. PICK f \in [0..Len(s) -> Seq(X)] : Only(s, places) = f[Len(s)] /\ Keeping(f, s, places)
  BY <1>1, OnlyFollows
<1>3. f[0] = <<>> /\ f[1] = IF 1 \in places THEN Append(f[1 - 1], s[1]) ELSE f[1 - 1]
  BY <1>1, <1>2 DEF Keeping
<1>4. Append(<<>>, x) = <<x>>
  OBVIOUS
<1> QED
  BY <1>1, <1>2, <1>3, <1>4 DEF s

LEMMA OnlyOfTwo ==
  ASSUME NEW X, NEW x \in X, NEW y \in X, NEW places
  PROVE  Only(<<x, y>>, places) =
           IF 1 \in places THEN (IF 2 \in places THEN <<x, y>> ELSE <<x>>)
           ELSE IF 2 \in places THEN <<y>> ELSE <<>>
<1> DEFINE s == <<x, y>>
<1>1. s \in Seq(X) /\ Len(s) = 2 /\ s[1] = x /\ s[2] = y
  OBVIOUS
<1> HIDE DEF s
<1>2. PICK f \in [0..Len(s) -> Seq(X)] : Only(s, places) = f[Len(s)] /\ Keeping(f, s, places)
  BY <1>1, OnlyFollows
<1>3. f[0] = <<>> /\ \A k \in 1..2 : f[k] = IF k \in places THEN Append(f[k - 1], s[k]) ELSE f[k - 1]
  BY <1>1, <1>2 DEF Keeping
<1>4. 1 \in 1..2 /\ 2 \in 1..2 /\ 1 - 1 = 0 /\ 2 - 1 = 1
  OBVIOUS
<1>5. f[1] = IF 1 \in places THEN <<x>> ELSE <<>>
  <2>1. f[1] = IF 1 \in places THEN Append(f[1 - 1], s[1]) ELSE f[1 - 1]
    BY <1>3, <1>4
  <2>2. f[1] = IF 1 \in places THEN Append(<<>>, x) ELSE <<>>
    BY <1>1, <1>3, <1>4, <2>1
  <2> QED
    BY <2>2
<1>6. Append(<<>>, y) = <<y>> /\ Append(<<x>>, y) = <<x, y>>
  <2>1. <<x>> \in Seq(X) /\ Len(<<x>>) = 1 /\ <<x>>[1] = x
    OBVIOUS
  <2> DEFINE a == Append(<<x>>, y)
             b == <<x, y>>
  <2>2. a \in Seq(X) /\ Len(a) = 1 + 1 /\ a[1] = x /\ a[1 + 1] = y
    BY <2>1, AppendProperties
  <2>3. b \in Seq(X) /\ Len(b) = 2 /\ b[1] = x /\ b[2] = y
    OBVIOUS
  <2> HIDE DEF a, b
  <2>4. Len(a) = Len(b) /\ \A k \in 1..Len(a) : a[k] = b[k]
    BY <2>2, <2>3
  <2>5. a = b
    BY <2>2, <2>3, <2>4, SeqEqual
  <2> QED
    BY <2>5 DEF a, b
<1>7. f[2] = IF 2 \in places THEN Append(f[1], y) ELSE f[1]
  <2>1. f[2] = IF 2 \in places THEN Append(f[2 - 1], s[2]) ELSE f[2 - 1]
    BY <1>3, <1>4
  <2> QED
    BY <1>1, <1>4, <2>1
<1>8. Only(s, places) = f[2]
  BY <1>1, <1>2

<1> QED
  BY <1>5, <1>6, <1>7, <1>8 DEF s

Storing(f, stored, extracted) ==
  /\ PersistExtractions(stored, extracted) = f[Len(extracted)]
  /\ f[0] = stored
  /\ \A k \in 1..Len(extracted) : f[k] = Upsert(f[k - 1], extracted[k])

LEMMA StoringFollows ==
  ASSUME NEW C, NEW stored \in Seq(C), NEW extracted \in Seq(C)
  PROVE  \E f : Storing(f, stored, extracted)
<1> DEFINE n == Len(extracted)
           T == Seq(C)
           step == [x \in T \X (1..n) |-> Upsert(x[1], extracted[x[2]])]
           Stores(f) == f = [k \in 0..n |-> IF k = 0 THEN stored ELSE Upsert(f[k - 1], extracted[k])]
           after == CHOOSE f : Stores(f)
<1>1. n \in Nat /\ stored \in T /\ \A k \in 1..n : extracted[k] \in C
  OBVIOUS
<1>2. PersistExtractions(stored, extracted) = after[n]
  BY DEF PersistExtractions
<1> HIDE DEF n
<1>3. ASSUME NEW r \in T, NEW k \in 1..n PROVE Upsert(r, extracted[k]) \in T
  BY <1>1, AppendProperties DEF Upsert
<1> HIDE DEF T
<1>4. step \in Steps(n, T) /\ \A r \in T, k \in 1..n : step[<<r, k>>] = Upsert(r, extracted[k])
  BY <1>3 DEF Steps
<1> HIDE DEF step
<1>5. PICK f : Follows(f, n, T, stored, step)
  BY <1>1, <1>4, FoldExists
<1>6. f \in [0..n -> T] /\ f[0] = stored /\ \A k \in 1..n : f[k] = step[<<f[k - 1], k>>]
  BY <1>5 DEF Follows
<1>7. ASSUME NEW k \in 0..n
      PROVE  f[k] = IF k = 0 THEN stored ELSE Upsert(f[k - 1], extracted[k])
  <2>1. CASE k = 0
    BY <1>6, <2>1
  <2>2. CASE k # 0
    <3>1. k \in 1..n /\ k - 1 \in 0..n
      BY <1>1, <2>2
    <3>2. f[k - 1] \in T
      BY <1>6, <3>1
    <3> QED
      BY <1>4, <1>6, <2>2, <3>1, <3>2
  <2> QED
    BY <2>1, <2>2
<1>8. Stores(f)
  <2>1. f = [k \in 0..n |-> f[k]]
    BY <1>6
  <2>2. [k \in 0..n |-> f[k]]
          = [k \in 0..n |-> IF k = 0 THEN stored ELSE Upsert(f[k - 1], extracted[k])]
    BY <1>7
  <2> QED
    BY <2>1, <2>2
<1>9. Stores(after)
  BY <1>8
<1> HIDE DEF after
<1>10. \A k \in 0..n : after[k] = IF k = 0 THEN stored ELSE Upsert(after[k - 1], extracted[k])
  BY <1>9
<1>11. 0 \in 0..n /\ \A k \in 1..n : k \in 0..n /\ k # 0
  BY <1>1
<1>12. after[0] = stored /\ \A k \in 1..n : after[k] = Upsert(after[k - 1], extracted[k])
  BY <1>10, <1>11
<1>13. Storing(after, stored, extracted)
  BY <1>2, <1>12 DEF n, Storing
<1> QED
  BY <1>13

LEMMA StoredOnce ==
  ASSUME NEW c
  PROVE  /\ PersistExtractions(<<>>, <<>>) = <<>>
         /\ PersistExtractions(<<>>, <<c>>) = <<c>>
         /\ PersistExtractions(<<c>>, <<c, c>>) = <<c>>
<1> DEFINE none == <<>>
           one == <<c>>
           two == <<c, c>>
<1>1. /\ none \in Seq({c}) /\ one \in Seq({c}) /\ two \in Seq({c})
      /\ Len(none) = 0 /\ Len(one) = 1 /\ Len(two) = 2
      /\ one[1] = c /\ two[1] = c /\ two[2] = c
      /\ DOMAIN none = {} /\ DOMAIN one = {1}
      /\ Append(none, c) = one
  BY EmptySeq
<1> HIDE DEF none, one, two
<1>2. Upsert(none, c) = one /\ Upsert(one, c) = one
  BY <1>1 DEF Upsert
<1>3. 1 \in 1..1 /\ 1 \in 1..2 /\ 2 \in 1..2 /\ 1 - 1 = 0 /\ 2 - 1 = 1
  OBVIOUS
<1>4. PersistExtractions(none, none) = none
  <2>1. PICK f : Storing(f, none, none)
    BY <1>1, StoringFollows
  <2> QED
    BY <1>1, <2>1 DEF Storing
<1>5. PersistExtractions(none, one) = one
  <2>0. PICK f : Storing(f, none, one)
    BY <1>1, StoringFollows
  <2>1. /\ PersistExtractions(none, one) = f[1] /\ f[0] = none
        /\ \A k \in 1..1 : f[k] = Upsert(f[k - 1], one[k])
    BY <1>1, <2>0 DEF Storing
  <2>2. f[1] = Upsert(f[1 - 1], one[1])
    BY <1>3, <2>1
  <2> QED
    BY <1>1, <1>2, <1>3, <2>1, <2>2
<1>6. PersistExtractions(one, two) = one
  <2>0. PICK f : Storing(f, one, two)
    BY <1>1, StoringFollows
  <2>1. /\ PersistExtractions(one, two) = f[2] /\ f[0] = one
        /\ \A k \in 1..2 : f[k] = Upsert(f[k - 1], two[k])
    BY <1>1, <2>0 DEF Storing
  <2>2. f[1] = Upsert(f[1 - 1], two[1]) /\ f[2] = Upsert(f[2 - 1], two[2])
    BY <1>3, <2>1
  <2>3. f[1] = one
    BY <1>1, <1>2, <1>3, <2>1, <2>2
  <2> QED
    BY <1>1, <1>2, <1>3, <2>1, <2>2, <2>3
<1> QED
  BY <1>4, <1>5, <1>6 DEF none, one, two

LEMMA ExtractedIs ==
  ASSUME NEW sentence
  PROVE  /\ LooksFinancial(sentence) =>
              /\ DeterministicExtract(<<sentence>>) = <<ClaimOf(sentence)>>
              /\ DeterministicExtract(<<sentence, sentence>>)
                   = <<ClaimOf(sentence), ClaimOf(sentence)>>
         /\ ~LooksFinancial(sentence) =>
              /\ DeterministicExtract(<<sentence>>) = <<>>
              /\ DeterministicExtract(<<sentence, sentence>>) = <<>>
<1> DEFINE one == <<sentence>>
           two == <<sentence, sentence>>
           c == ClaimOf(sentence)
           Where(text) == {k \in DOMAIN text : LooksFinancial(text[k])}
           financial(text) == Only(text, Where(text))
<1>1. \A text : DeterministicExtract(text) = [k \in DOMAIN financial(text) |-> ClaimOf(financial(text)[k])]
  BY DEF DeterministicExtract
<1>2. /\ DOMAIN one = {1} /\ DOMAIN two = {1, 2}
      /\ one[1] = sentence /\ two[1] = sentence /\ two[2] = sentence
  OBVIOUS
<1>3. /\ financial(one) = IF 1 \in Where(one) THEN <<sentence>> ELSE <<>>
      /\ financial(two) = IF 1 \in Where(two)
                          THEN (IF 2 \in Where(two) THEN <<sentence, sentence>> ELSE <<sentence>>)
                          ELSE IF 2 \in Where(two) THEN <<sentence>> ELSE <<>>
  <2>1. sentence \in {sentence}
    OBVIOUS
  <2> DEFINE places == Where(one)
             both == Where(two)
  <2> HIDE DEF Where, places, both
  <2>2. Only(<<sentence>>, places) = IF 1 \in places THEN <<sentence>> ELSE <<>>
    BY <2>1, OnlyOfOne
  <2>3. Only(<<sentence, sentence>>, both)
          = IF 1 \in both THEN (IF 2 \in both THEN <<sentence, sentence>> ELSE <<sentence>>)
            ELSE IF 2 \in both THEN <<sentence>> ELSE <<>>
    BY <2>1, OnlyOfTwo
  <2> QED
    BY <2>2, <2>3 DEF places, both
<1>4. CASE LooksFinancial(sentence)
  <2>1. 1 \in Where(one) /\ 1 \in Where(two) /\ 2 \in Where(two)
    BY <1>2, <1>4
  <2> HIDE DEF Where
  <2>2. financial(one) = one /\ financial(two) = two
    BY <1>3, <2>1
  <2> HIDE DEF financial, one, two
  <2>3. /\ DeterministicExtract(one) = [k \in {1} |-> ClaimOf(one[k])]
        /\ DeterministicExtract(two) = [k \in {1, 2} |-> ClaimOf(two[k])]
    BY <1>1, <1>2, <2>2
  <2>4. /\ [k \in {1} |-> ClaimOf(one[k])] = [k \in {1} |-> c]
        /\ [k \in {1, 2} |-> ClaimOf(two[k])] = [k \in {1, 2} |-> c]
    BY <1>2
  <2> HIDE DEF c
  <2>5. [k \in {1} |-> c] = <<c>> /\ [k \in {1, 2} |-> c] = <<c, c>>
    <3>1. {1} = 1..1 /\ {1, 2} = 1..2
      OBVIOUS
    <3>2. [k \in 1..1 |-> c] = <<c>> /\ [k \in 1..2 |-> c] = <<c, c>>
      OBVIOUS
    <3> QED
      BY <3>1, <3>2
  <2> QED
    BY <1>4, <2>3, <2>4, <2>5 DEF one, two, c
<1>5. CASE ~LooksFinancial(sentence)
  <2>1. 1 \notin Where(one) /\ 1 \notin Where(two) /\ 2 \notin Where(two)
    BY <1>2, <1>5
  <2> HIDE DEF Where
  <2>2. financial(one) = <<>> /\ financial(two) = <<>>
    BY <1>3, <2>1
  <2> HIDE DEF financial, one, two
  <2>3. /\ DeterministicExtract(one) = [k \in {} |-> ClaimOf(<<>>[k])]
        /\ DeterministicExtract(two) = [k \in {} |-> ClaimOf(<<>>[k])]
    <3>1. DOMAIN <<>> = {}
      OBVIOUS
    <3> QED
      BY <1>1, <2>2, <3>1
  <2>4. [k \in {} |-> ClaimOf(<<>>[k])] = <<>>
    OBVIOUS
  <2> QED
    BY <1>5, <2>3, <2>4 DEF one, two
<1> QED
  BY <1>4, <1>5

JudgedTypes ==
  {"percentage_change", "percentage_point_change", "comparative_statement", "absolute_value"}

(* What is read of a sentence, and of its numbers.                         *)
LEMMA NumbersAre ==
  ASSUME NEW A, NEW sentence \in Seq(A)
  PROVE  LET numbers == ParseAllNumbers(sentence)
         IN  numbers # <<>> =>
               1 \in DOMAIN numbers /\ numbers[1].value \in {n.value : n \in ToSet(numbers)}
<1> DEFINE words == Only(sentence, {k \in DOMAIN sentence : sentence[k] \in DOMAIN NumberOf})
           numbers == ParseAllNumbers(sentence)
           n == Len(words)
<1>1. numbers = [k \in DOMAIN words |-> ParsedNumber(NumberOf[words[k]])]
  BY DEF ParseAllNumbers
<1>2. words \in Seq(A)
  BY OnlyIsSequence
<1> HIDE DEF words, numbers
<1>3. n \in Nat /\ DOMAIN words = 1..n
  BY <1>2
<1>4. DOMAIN numbers = 1..n
  BY <1>1, <1>3
<1>5. CASE n = 0
  <2>1. DOMAIN words = {}
    BY <1>3, <1>5
  <2>2. numbers = <<>>
    BY <1>1, <2>1
  <2> QED
    BY <2>2 DEF numbers
<1>6. CASE n # 0
  <2>1. 1 \in DOMAIN numbers
    BY <1>3, <1>4, <1>6
  <2>2. numbers[1] \in ToSet(numbers)
    BY <2>1 DEF ToSet
  <2> QED
    BY <2>1, <2>2 DEF numbers
<1> QED
  BY <1>5, <1>6

LEMMA TypeOfNumbers ==
  ASSUME NEW numbers, numbers # <<>>, NEW direction, NEW basis
  PROVE  ClaimType(numbers, direction, basis) \in JudgedTypes
BY DEF ClaimType, JudgedTypes

LEMMA ClaimIs ==
  ASSUME NEW sentence
  PROVE  LET numbers == ParseAllNumbers(sentence)
             claim == ClaimOf(sentence)
         IN  /\ claim.text = sentence
             /\ claim.metric = ResolveMetric(sentence).metric
             /\ claim.type = ClaimType(numbers, Direction(sentence), ComparisonBasis(sentence))
             /\ claim.direction = Direction(sentence)
             /\ claim.value = IF numbers # <<>> /\ claim.type \in {"absolute_value"}
                              THEN Given(numbers[1].value) ELSE Missing
             /\ claim.change =
                  IF /\ numbers # <<>>
                     /\ claim.type \in {"percentage_change", "percentage_point_change"}
                  THEN Given(numbers[1].value) ELSE Missing
<1> DEFINE numbers == ParseAllNumbers(sentence)
           direction == Direction(sentence)
           basis == ComparisonBasis(sentence)
           type == ClaimType(numbers, direction, basis)
           metric == ResolveMetric(sentence)
           value == IF numbers # <<>> /\ type \in {"absolute_value"}
                    THEN Given(numbers[1].value) ELSE Missing
           change == IF numbers # <<>> /\ type \in {"percentage_change", "percentage_point_change"}
                     THEN Given(numbers[1].value) ELSE Missing
           unit == IF type \in {"absolute_value", "percentage_change", "percentage_point_change"}
                   THEN numbers[1].unit ELSE "none"
           confidence == IF metric.status = "resolved" /\ numbers # <<>> THEN 9500 ELSE 7000
           claim == [text |-> sentence, metric |-> metric.metric, type |-> type,
                     direction |-> direction, basis |-> basis, value |-> value, change |-> change,
                     unit |-> unit, confidence |-> confidence]
<1>1. ClaimOf(sentence) = claim
  BY DEF ClaimOf
<1> HIDE DEF numbers, direction, basis, type, metric, unit, confidence
<1>2. /\ claim.text = sentence /\ claim.metric = metric.metric /\ claim.type = type
      /\ claim.direction = direction /\ claim.value = value /\ claim.change = change
  <2> HIDE DEF value, change
  <2> QED
    OBVIOUS
<1> QED
  BY <1>1, <1>2 DEF numbers, direction, basis, type, metric

LEMMA CarriedNumbers ==
  ASSUME NEW A, NEW sentence \in Seq(A)
  PROVE  LET claim == ClaimOf(sentence)
         IN  ToSet(claim.value \o claim.change) \subseteq {n.value : n \in ToSet(ParseAllNumbers(sentence))}
<1> DEFINE numbers == ParseAllNumbers(sentence)
           claim == ClaimOf(sentence)
           v == numbers[1].value
           values == {n.value : n \in ToSet(numbers)}
<1>1. numbers # <<>> => v \in values
  BY NumbersAre
<1>2. /\ claim.value = IF numbers # <<>> /\ claim.type \in {"absolute_value"} THEN <<v>> ELSE <<>>
      /\ claim.change = IF /\ numbers # <<>>
                           /\ claim.type \in {"percentage_change", "percentage_point_change"}
                        THEN <<v>> ELSE <<>>
  BY ClaimIs DEF Given, Missing
<1> HIDE DEF numbers, claim, v, values
<1>3. \/ claim.value = <<>> /\ claim.change = <<>>
      \/ v \in values /\ claim.value = <<v>> /\ claim.change = <<>>
      \/ v \in values /\ claim.value = <<>> /\ claim.change = <<v>>
  BY <1>1, <1>2
<1>4. <<>> \o <<>> = <<>> /\ <<v>> \o <<>> = <<v>> /\ <<>> \o <<v>> = <<v>>
  OBVIOUS
<1>5. ToSet(<<>>) = {} /\ ToSet(<<v>>) = {v}
  <2>1. DOMAIN <<>> = {} /\ DOMAIN <<v>> = {1} /\ <<v>>[1] = v
    OBVIOUS
  <2> QED
    BY <2>1 DEF ToSet
<1>6. ToSet(claim.value \o claim.change) \subseteq values
  BY <1>3, <1>4, <1>5
<1> QED
  BY <1>6 DEF claim, values, numbers

LEMMA FactsOf ==
  ASSUME NEW pair \in Facts
  PROVE  /\ pair[1].status = "selected" /\ pair[2].status = "selected" /\ pair[2] # NotCompared
         /\ pair[1].fact[1].value \in Int /\ pair[2].fact[1].value \in Int
<1>1. 1 \in 1..2 /\ 2 \in 1..2
  OBVIOUS
<1>2. NotCompared.status # "selected"
  BY DEF NotCompared
<1> QED
  BY <1>1, <1>2, FactsAssumption

LEMMA ClaimsAreJudged ==
  ASSUME NEW sentence, ParseAllNumbers(sentence) # <<>>, NEW pair \in Facts
  PROVE  Verdict(ClaimOf(sentence), pair[1], pair[2]).status
           \in {"verified", "approximately_verified", "contradicted", "zero_denominator"}
<1> DEFINE numbers == ParseAllNumbers(sentence)
           claim == ClaimOf(sentence)
           change == pair[1].fact[1].value - pair[2].fact[1].value
           base == pair[2].fact[1].value
           Judged == {"verified", "approximately_verified", "contradicted", "zero_denominator"}
           verdict == Verdict(claim, pair[1], pair[2])
<1>0. SUFFICES verdict.status \in Judged
  OBVIOUS
<1>1. claim.type \in JudgedTypes
  BY ClaimIs, TypeOfNumbers
<1>2. /\ claim.type = "absolute_value" => claim.value # Missing
      /\ claim.type \in {"percentage_change", "percentage_point_change"} => claim.change # Missing
  <2> DEFINE v == numbers[1].value
  <2>1. numbers # <<>>
    OBVIOUS
  <2>2. /\ claim.value = IF numbers # <<>> /\ claim.type \in {"absolute_value"}
                         THEN Given(v) ELSE Missing
        /\ claim.change = IF /\ numbers # <<>>
                             /\ claim.type \in {"percentage_change", "percentage_point_change"}
                          THEN Given(v) ELSE Missing
    BY ClaimIs
  <2> HIDE DEF claim, numbers, v
  <2>3. Given(v) # Missing
    BY DEF Given, Missing
  <2> QED
    BY <2>1, <2>2, <2>3
<1>3. pair[1].status = "selected" /\ pair[2].status = "selected" /\ pair[2] # NotCompared
  BY FactsOf
<1> HIDE DEF claim, numbers
<1>4. verdict = Calculate(claim, pair[1], pair[2])
  BY <1>1, <1>3 DEF Verdict, JudgedTypes, NeedsComparison
<1>5. CASE claim.type = "absolute_value"
  <2>1. verdict = VerifyAbsolute(claim, pair[1].fact[1])
    BY <1>4, <1>5 DEF Calculate
  <2> HIDE DEF verdict
  <2> QED
    BY <1>2, <1>5, <2>1 DEF VerifyAbsolute, Computed, DistanceFromSigned, Given, Missing
<1>6. CASE claim.type = "percentage_point_change"
  <2>1. verdict = VerifyPoints(claim, change)
    BY <1>3, <1>4, <1>6 DEF Calculate
  <2> HIDE DEF change, verdict
  <2> QED
    BY <1>2, <1>6, <2>1 DEF VerifyPoints, Computed, DistanceFromSigned, Given, Missing, Within
<1>7. CASE claim.type \in {"percentage_change", "comparative_statement"} /\ base = 0
  <2>1. verdict = Computed("zero_denominator", "none", Given(change), Missing, Missing, Missing)
    BY <1>3, <1>4, <1>7 DEF Calculate
  <2> HIDE DEF change, verdict
  <2> QED
    BY <2>1 DEF Computed
<1>8. CASE claim.type = "percentage_change" /\ base # 0
  <2>1. verdict = VerifyChange(claim, change, PercentOf(change, base))
    BY <1>3, <1>4, <1>8 DEF Calculate
  <2> DEFINE percent == PercentOf(change, base)
  <2> HIDE DEF change, percent, verdict
  <2> QED
    BY <1>2, <1>8, <2>1 DEF VerifyChange, Computed, DistanceFromSigned, Given, Missing, Within
<1>9. CASE claim.type = "comparative_statement" /\ base # 0
  <2>1. verdict = Computed("verified", "directional_change", Given(change),
                           Given(PercentOf(change, base)), Missing, Missing)
    BY <1>3, <1>4, <1>9 DEF Calculate
  <2> DEFINE percent == PercentOf(change, base)
  <2> HIDE DEF change, percent, verdict
  <2> QED
    BY <2>1 DEF Computed
<1> QED
  BY <1>1, <1>5, <1>6, <1>7, <1>8, <1>9 DEF JudgedTypes

LEMMA MetricIsNamed ==
  ASSUME NEW A, NEW sentence \in Seq(A), LooksFinancial(sentence),
         ClaimOf(sentence).metric # "none"
  PROVE  \E m \in NamedIn(sentence) :
           /\ ClaimOf(sentence).metric = Registry[m].name
           /\ NamedIn(sentence) = {m} \/ ExactAliases(sentence) # {}
<1> DEFINE exact == ExactAliases(sentence)
           named == NamedIn(sentence)
           metric == ResolveMetric(sentence).metric
<1>1. ClaimOf(sentence).metric = metric
  BY ClaimIs
<1>2. DOMAIN sentence = 1..Len(sentence) /\ Len(sentence) \in Nat
  OBVIOUS
<1>3. DOMAIN sentence # {}
  BY DEF LooksFinancial, Mentions, Says
<1>4. 1 \in DOMAIN sentence
  BY <1>2, <1>3
<1>5. Says(sentence, sentence)
  <2>1. SubSeq(sentence, 1, Len(sentence)) = sentence
    BY SubSeqFull
  <2>2. IsPrefix(sentence, SubSeq(sentence, 1, Len(sentence)))
    BY <1>2, <2>1 DEF IsPrefix
  <2> QED
    BY <1>4, <2>2 DEF Says
<1>6. CASE \E x \in exact : exact = {x}
  <2>1. PICK x \in exact : exact = {x}
    BY <1>6
  <2>2. (CHOOSE y \in exact : TRUE) = x
    <3> HIDE DEF exact
    <3> QED
      BY <2>1
  <2>3. metric = Registry[x[1]].name
    BY <1>6, <2>2 DEF ResolveMetric
  <2>4. x[1] \in DOMAIN Registry /\ x[2] \in DOMAIN Registry[x[1]].aliases
        /\ Registry[x[1]].aliases[x[2]] = sentence
    BY DEF ExactAliases
  <2>5. x[1] \in named
    BY <1>5, <2>4 DEF NamedIn
  <2> HIDE DEF named, exact, metric
  <2> QED
    BY <1>1, <2>1, <2>3, <2>5 DEF named, exact
<1>7. CASE ~ (\E x \in exact : exact = {x})
  <2>1. metric # "none"
    BY <1>1
  <2>2. exact = {} /\ \E m \in named : named = {m}
    BY <1>7, <2>1 DEF ResolveMetric
  <2>3. PICK m \in named : named = {m}
    BY <2>2
  <2>4. metric = Registry[CHOOSE y \in named : TRUE].name
    BY <1>7, <2>2 DEF ResolveMetric
  <2>5. (CHOOSE y \in named : TRUE) = m
    <3> HIDE DEF named
    <3> QED
      BY <2>3
  <2> HIDE DEF named, exact, metric
  <2> QED
    BY <1>1, <2>3, <2>4, <2>5 DEF named
<1> QED
  BY <1>6, <1>7

LEMMA ClaimsFit ==
  ASSUME NEW A, left \in Seq(A)
  PROVE  ClaimsCanBeJudged
<1> DEFINE claims == DeterministicExtract(<<left>>)
           numbers == ParseAllNumbers(left)
           stored == PersistExtractions(<<>>, claims)
           claim == ClaimOf(left)
<1>1. CASE LooksFinancial(left)
  <2>1. claims = <<claim>> /\ DeterministicExtract(<<left, left>>) = <<claim, claim>>
    BY <1>1, ExtractedIs
  <2>2. ToSet(claims) = {claim}
    <3> HIDE DEF claim
    <3>1. DOMAIN <<claim>> = {1} /\ <<claim>>[1] = claim
      OBVIOUS
    <3> QED
      BY <2>1, <3>1 DEF ToSet
  <2>3. PersistExtractions(stored, HybridExtract(<<left, left>>, <<>>)) = stored
    <3> HIDE DEF claim
    <3>1. <<claim, claim>> # <<>>
      OBVIOUS
    <3>2. HybridExtract(<<left, left>>, <<>>) = <<claim, claim>>
      BY <2>1, <3>1 DEF HybridExtract
    <3>3. stored = <<claim>>
      BY <2>1, StoredOnce
    <3> QED
      BY <3>2, <3>3, StoredOnce
  <2>4. numbers # <<>> => \A pair \in Facts :
          Verdict(claim, pair[1], pair[2]).status
            \in {"verified", "approximately_verified", "contradicted", "zero_denominator"}
    BY ClaimsAreJudged
  <2>5. ToSet(claim.value \o claim.change) \subseteq {n.value : n \in ToSet(numbers)}
    BY CarriedNumbers
  <2>6. claim.metric # "none" =>
          \E m \in NamedIn(left) : /\ claim.metric = Registry[m].name
                                   /\ NamedIn(left) = {m} \/ ExactAliases(left) # {}
    BY <1>1, MetricIsNamed
  <2> HIDE DEF claim, numbers
  <2> QED
    BY <2>2, <2>3, <2>4, <2>5, <2>6 DEF ClaimsCanBeJudged, numbers
<1>2. CASE ~LooksFinancial(left)
  <2>1. claims = <<>> /\ DeterministicExtract(<<left, left>>) = <<>>
    BY <1>2, ExtractedIs
  <2>2. ToSet(claims) = {}
    <3>1. DOMAIN <<>> = {}
      OBVIOUS
    <3> QED
      BY <2>1, <3>1 DEF ToSet
  <2>3. PersistExtractions(stored, HybridExtract(<<left, left>>, <<>>)) = stored
    <3>1. HybridExtract(<<left, left>>, <<>>) = <<>>
      BY <2>1 DEF HybridExtract
    <3>2. stored = <<>>
      BY <2>1, StoredOnce
    <3> QED
      BY <3>1, <3>2, StoredOnce
  <2> QED
    BY <2>2, <2>3 DEF ClaimsCanBeJudged
<1> QED
  BY <1>1, <1>2

(* What the rules find of a claim, by its verdict.                         *)
NumericalFindings == {"numerical_claim_contradiction", "direction_contradiction"}
Overstated == "magnitude_overstatement"
Understated == "magnitude_understatement"

IsMeasured(n) == n = Missing \/ \E i \in Int : n = Given(i)
Measures(v) == IsMeasured(v.absolute) /\ IsMeasured(v.percent) /\ IsMeasured(v.points)

LEMMA PercentIsInt ==
  ASSUME NEW n \in Int, NEW d \in Int, d # 0
  PROVE  PercentOf(n, d) \in Int
<1> DEFINE m == n * 1000000
           a == 2 * Size(m) + Size(d)
           b == 2 * Size(d)
           q == a \div b
<1>1. m \in Int
  OBVIOUS
<1> HIDE DEF m
<1>2. Size(m) \in Nat /\ Size(d) \in Nat /\ Size(d) # 0
  BY <1>1 DEF Size
<1>3. a \in Nat /\ b \in Nat /\ b # 0
  BY <1>2
<1> HIDE DEF a, b
<1>4. q \in Nat
  BY <1>3, DivAtMost
<1>5. PercentOf(n, d) = IF (m < 0) # (d < 0) THEN -q ELSE q
  BY DEF PercentOf, Rounded, a, b, m
<1> HIDE DEF q
<1> QED
  BY <1>4, <1>5

LEMMA MeasuredIs ==
  ASSUME NEW status, NEW type, NEW absolute, NEW percent, NEW points, NEW difference,
         IsMeasured(absolute), IsMeasured(percent), IsMeasured(points)
  PROVE  Measures(Computed(status, type, absolute, percent, points, difference))
<1> DEFINE v == Computed(status, type, absolute, percent, points, difference)
<1>1. v.absolute = absolute /\ v.percent = percent /\ v.points = points
  BY DEF Computed
<1> HIDE DEF v
<1>2. Measures(v)
  BY <1>1 DEF Measures
<1> QED
  BY <1>2 DEF v

LEMMA VerdictMeasures ==
  ASSUME NEW claim, NEW pair \in Facts
  PROVE  Measures(Verdict(claim, pair[1], pair[2]))
<1> DEFINE change == pair[1].fact[1].value - pair[2].fact[1].value
           base == pair[2].fact[1].value
           percent == PercentOf(change, base)
           verdict == Verdict(claim, pair[1], pair[2])
<1>1. /\ pair[1].status = "selected" /\ pair[2].status = "selected" /\ pair[2] # NotCompared
      /\ pair[1].fact[1].value \in Int /\ base \in Int
  BY FactsOf
<1>2. change \in Int
  BY <1>1
<1>3. IsMeasured(Missing) /\ \A i \in Int : IsMeasured(Given(i))
  BY DEF IsMeasured
<1>4. \/ \E status : verdict = Uncomputed(status)
      \/ verdict = VerifyAbsolute(claim, pair[1].fact[1])
      \/ verdict = VerifyPoints(claim, change)
      \/ verdict = Computed("zero_denominator", "none", Given(change), Missing, Missing, Missing)
      \/ base # 0 /\ verdict = VerifyChange(claim, change, percent)
      \/ base # 0 /\ verdict = Computed("verified", "directional_change", Given(change),
                                        Given(percent), Missing, Missing)
  <2> HIDE DEF percent
  <2>1. \/ \E status : verdict = Uncomputed(status)
        \/ verdict = Calculate(claim, pair[1], pair[2])
    BY DEF Verdict
  <2> HIDE DEF verdict
  <2>2. CASE verdict = Calculate(claim, pair[1], pair[2])
    BY <1>1, <2>2 DEF Calculate, percent
  <2> QED
    BY <2>1, <2>2
<1>0. SUFFICES Measures(verdict)
  OBVIOUS
<1> HIDE DEF change, base, verdict
<1>5. base # 0 => percent \in Int
  BY <1>1, <1>2, PercentIsInt
<1> HIDE DEF percent
<1>6. change * 10000 \in Int
  BY <1>2
<1>7. CASE \E status : verdict = Uncomputed(status)
  BY <1>3, <1>7, MeasuredIs DEF Uncomputed
<1>8. CASE verdict = VerifyAbsolute(claim, pair[1].fact[1])
  BY <1>3, <1>8, MeasuredIs DEF VerifyAbsolute
<1>9. CASE verdict = VerifyPoints(claim, change)
  BY <1>2, <1>3, <1>6, <1>9, MeasuredIs DEF VerifyPoints
<1>10. CASE verdict = Computed("zero_denominator", "none", Given(change), Missing, Missing, Missing)
  BY <1>2, <1>3, <1>10, MeasuredIs
<1>11. CASE base # 0 /\ verdict = VerifyChange(claim, change, percent)
  BY <1>2, <1>3, <1>5, <1>11, MeasuredIs DEF VerifyChange
<1>12. CASE base # 0 /\ verdict = Computed("verified", "directional_change", Given(change),
                                           Given(percent), Missing, Missing)
  BY <1>2, <1>3, <1>5, <1>12, MeasuredIs
<1> QED
  BY <1>4, <1>7, <1>8, <1>9, <1>10, <1>11, <1>12

LEMMA ChangeIsMeasured ==
  ASSUME NEW v, Measures(v)
  PROVE  IsMeasured(CalculatedChange(v))
<1>1. CASE Truthy(v.points) \/ Truthy(v.percent) \/ v.absolute = Missing
  BY <1>1 DEF CalculatedChange, Measures, IsMeasured
<1>2. CASE ~ (Truthy(v.points) \/ Truthy(v.percent) \/ v.absolute = Missing)
  <2>1. CalculatedChange(v) = Given(v.absolute[1] * 10000)
    BY <1>2 DEF CalculatedChange
  <2>2. PICK i \in Int : v.absolute = Given(i)
    BY <1>2 DEF Measures, IsMeasured
  <2>3. v.absolute[1] = i
    BY <2>2 DEF Given
  <2>4. v.absolute[1] * 10000 \in Int
    BY <2>3
  <2> QED
    BY <2>1, <2>4 DEF IsMeasured
<1> QED
  BY <1>1, <1>2

LEMMA NumericalFound ==
  ASSUME NEW claim, NEW verdict
  PROVE  /\ verdict.status # "contradicted" => NumericalDetect(claim, verdict) = {}
         /\ verdict.status = "contradicted" =>
              \E c : /\ NumericalDetect(claim, verdict) = {c}
                     /\ c.finding.type \in NumericalFindings
<1>1. CASE verdict.status # "contradicted"
  BY <1>1 DEF NumericalDetect
<1>2. CASE verdict.status = "contradicted"
  <2> DEFINE type == NumericalType(claim, CalculatedChange(verdict))
             complete == ~EvidenceMissing(claim, verdict)
             severity == SeverityOf(type, verdict, CalculatedChange(verdict), complete)
             status == IF complete THEN "candidate" ELSE "insufficient_evidence"
             c == [key |-> <<type, claim.id>>,
                   finding |-> Finding(type, status, severity, claim.id)]
  <2>1. NumericalDetect(claim, verdict) = {c}
    BY <1>2 DEF NumericalDetect
  <2>2. type \in NumericalFindings
    BY DEF NumericalType, NumericalFindings
  <2> HIDE DEF type, complete, severity, status
  <2>3. c.finding.type = type
    BY DEF Finding
  <2> HIDE DEF c
  <2> QED
    BY <1>2, <2>1, <2>2, <2>3
<1> QED
  BY <1>1, <1>2

LEMMA MagnitudeFound ==
  ASSUME NEW claim, NEW verdict, NEW ranks, NEW c \in MagnitudeDetect(claim, verdict, ranks)
  PROVE  /\ CalculatedChange(verdict) # Missing
         /\ c.finding.severity \in {"low", "medium"}
         /\ c.finding.type \in {Overstated, Understated, "unsupported_qualitative_claim"}
         /\ c.finding.type = Overstated =>
              Size(CalculatedChange(verdict)[1]) <= Policy(claim.metric, verdict).small
         /\ c.finding.type = Understated =>
              Size(CalculatedChange(verdict)[1]) >= Policy(claim.metric, verdict).large
<1> DEFINE qualifier == FirstQualifier(claim.text, ranks)
           type == MagnitudeType(claim, verdict, qualifier)
           severity == SeverityOf(type, verdict, CalculatedChange(verdict), TRUE)
           finding == Finding(type, "candidate", severity, claim.id)
<1>1. /\ c = [key |-> <<type, claim.id, qualifier>>, finding |-> finding]
      /\ CalculatedChange(verdict) # Missing /\ type # "none"
  BY DEF MagnitudeDetect
<1>2. type \in {Overstated, Understated, "unsupported_qualitative_claim", "none"}
  BY DEF MagnitudeType, Overstated, Understated
<1>3. /\ type = Overstated =>
           Size(CalculatedChange(verdict)[1]) <= Policy(claim.metric, verdict).small
      /\ type = Understated =>
           Size(CalculatedChange(verdict)[1]) >= Policy(claim.metric, verdict).large
  BY DEF MagnitudeType, Overstated, Understated
<1>4. severity \in {"low", "medium"}
  <2> DEFINE change == CalculatedChange(verdict)
  <2> HIDE DEF type, change
  <2> QED
    BY <1>2 DEF SeverityOf, Overstated, Understated
<1> HIDE DEF qualifier, type, severity
<1>5. c.finding.type = type /\ c.finding.severity = severity
  BY <1>1 DEF Finding
<1> QED
  BY <1>1, <1>2, <1>3, <1>4, <1>5

LEMMA PolicyIsApart ==
  ASSUME ThresholdsApart, NEW metric, NEW verdict, NEW size \in Int
  PROVE  ~ (size <= Policy(metric, verdict).small /\ size >= Policy(metric, verdict).large)
BY PolicyAssumption DEF ThresholdsApart, Policy

(* What ClaimsAreFoundFairly says of one claim and its facts.              *)
FairlyFound(claim, pair) ==
  LET types == {f.type : f \in UNION {FoundOf(claim, pair, ranks) : ranks \in Orders}}
      numerical == {"numerical_claim_contradiction", "direction_contradiction"}
      contradicted == Verdict(claim, pair[1], pair[2]).status = "contradicted"
  IN  /\ contradicted <=> types \cap numerical # {}
      /\ contradicted => types \subseteq numerical
      /\ ThresholdsApart =>
           ~({"magnitude_overstatement", "magnitude_understatement"} \subseteq types)
      /\ ~contradicted => \A ranks \in Orders : \A f \in FoundOf(claim, pair, ranks) :
                            f.severity \in {"low", "medium"}

LEMMA FoundFairly ==
  ASSUME NEW claim, NEW pair \in Facts
  PROVE  FairlyFound(claim, pair)
<1> DEFINE row == ClaimRow(claim)
           judged == Verdict(claim, pair[1], pair[2])
           verdict == VerdictRow(claim, pair)
           D(ranks) == DetectForClaim(row, verdict, ranks)
           types == {f.type : f \in UNION {FoundOf(claim, pair, ranks) : ranks \in Orders}}
           numerical == {"numerical_claim_contradiction", "direction_contradiction"}
<1>1. /\ verdict.status = judged.status /\ verdict.absolute = judged.absolute
      /\ verdict.percent = judged.percent /\ verdict.points = judged.points
  <2> HIDE DEF judged
  <2> QED
    BY DEF VerdictRow, judged
<1>2. Measures(verdict)
  <2>1. Measures(judged)
    BY VerdictMeasures
  <2> HIDE DEF verdict, judged
  <2> QED
    BY <1>1, <2>1 DEF Measures
<1>3. \A ranks \in Orders : FoundOf(claim, pair, ranks) = {c.finding : c \in D(ranks)}
  BY DEF FoundOf
<1>4. \A ranks \in Orders : D(ranks) = IF NumericalDetect(row, verdict) # {}
                                       THEN NumericalDetect(row, verdict)
                                       ELSE MagnitudeDetect(row, verdict, ranks)
  BY DEF DetectForClaim
<1> HIDE DEF row, verdict, D
<1>5. \A t : t \in types <=> \E ranks \in Orders : \E c \in D(ranks) : c.finding.type = t
  BY <1>3
<1> HIDE DEF types, judged
<1>6. CASE judged.status = "contradicted"
  <2>1. PICK c : NumericalDetect(row, verdict) = {c} /\ c.finding.type \in NumericalFindings
    BY <1>1, <1>6, NumericalFound
  <2>2. \A ranks \in Orders : D(ranks) = {c}
    BY <1>4, <2>1
  <2>3. c.finding.type \in types
    BY <1>5, <2>2, FactsAssumption
  <2>4. \A t \in types : t = c.finding.type
    BY <1>5, <2>2
  <2>5. types \subseteq numerical
    BY <2>1, <2>4 DEF NumericalFindings
  <2>6. types \cap numerical # {}
    BY <2>3, <2>5
  <2>7. ~({"magnitude_overstatement", "magnitude_understatement"} \subseteq types)
    BY <2>5
  <2> QED
    BY <1>6, <2>5, <2>6, <2>7 DEF FairlyFound, judged, types
<1>7. CASE judged.status # "contradicted"
  <2>1. \A ranks \in Orders : D(ranks) = MagnitudeDetect(row, verdict, ranks)
    BY <1>1, <1>4, <1>7, NumericalFound
  <2> DEFINE change == CalculatedChange(verdict)
             policy == Policy(row.metric, verdict)
  <2>2. ASSUME NEW ranks \in Orders, NEW c \in D(ranks)
        PROVE  /\ change # Missing
               /\ c.finding.severity \in {"low", "medium"}
               /\ c.finding.type \in {Overstated, Understated, "unsupported_qualitative_claim"}
               /\ c.finding.type = Overstated => Size(change[1]) <= policy.small
               /\ c.finding.type = Understated => Size(change[1]) >= policy.large
    <3>1. c \in MagnitudeDetect(row, verdict, ranks)
      BY <2>1
    <3> QED
      BY <3>1, MagnitudeFound
  <2>3. IsMeasured(change)
    BY <1>2, ChangeIsMeasured
  <2>4. \A t \in types : t \in {Overstated, Understated, "unsupported_qualitative_claim"}
    <3> HIDE DEF change, policy
    <3> QED
      BY <1>5, <2>2
  <2>5. types \cap numerical = {}
    BY <2>4 DEF Overstated, Understated
  <2>6. ThresholdsApart => ~(Overstated \in types /\ Understated \in types)
    <3> SUFFICES ASSUME ThresholdsApart, Overstated \in types, Understated \in types PROVE FALSE
      OBVIOUS
    <3> HIDE DEF change, policy
    <3>1. change # Missing /\ Size(change[1]) <= policy.small
      BY <1>5, <2>2
    <3>2. Size(change[1]) >= policy.large
      BY <1>5, <2>2
    <3>3. PICK i \in Int : change = Given(i)
      BY <2>3, <3>1 DEF IsMeasured
    <3>4. Size(change[1]) \in Int
      BY <3>3 DEF Given, Size
    <3> QED
      BY <3>1, <3>2, <3>4, PolicyIsApart DEF policy
  <2>7. \A ranks \in Orders : \A f \in FoundOf(claim, pair, ranks) : f.severity \in {"low", "medium"}
    <3> HIDE DEF change, policy
    <3> QED
      BY <1>3, <2>2
  <2> HIDE DEF change, policy
  <2> QED
    BY <1>7, <2>5, <2>6, <2>7 DEF FairlyFound, judged, types, Overstated, Understated
<1> QED
  BY <1>6, <1>7

LEMMA ClaimsAreFairlyFound == ClaimsAreFoundFairly
<1> SUFFICES ASSUME NEW claim, NEW pair \in Facts PROVE FairlyFound(claim, pair)
  BY DEF ClaimsAreFoundFairly, FairlyFound
<1> QED
  BY FoundFairly

-----------------------------------------------------------------------------
(* Narratives.  The first of a set of pairs, in the order they are tried.  *)
FirstIn(P, p) ==
  /\ p \in P
  /\ \A o \in P : p[1] < o[1] \/ (p[1] = o[1] /\ p[2] <= o[2])

LEMMA FirstPairExists ==
  ASSUME NEW P, P \subseteq Nat \X Nat, P # {}
  PROVE  \E p : FirstIn(P, p)
<1> DEFINE rows == {q[1] : q \in P}
<1>1. rows \subseteq Nat /\ rows # {}
  <2>1. PICK q : q \in P
    OBVIOUS
  <2>2. q[1] \in rows
    BY <2>1
  <2>3. \A r \in P : r[1] \in Nat
    OBVIOUS
  <2> QED
    BY <2>2, <2>3
<1>2. PICK i \in rows : \A j \in rows : i <= j
  BY <1>1, LeastNatural
<1> DEFINE columns == {q[2] : q \in {r \in P : r[1] = i}}
<1>3. columns \subseteq Nat /\ columns # {}
  BY <1>2
<1>4. PICK c \in columns : \A d \in columns : c <= d
  BY <1>3, LeastNatural
<1>5. PICK p \in P : p[1] = i /\ p[2] = c
  BY <1>4
<1>6. ASSUME NEW o \in P PROVE p[1] < o[1] \/ (p[1] = o[1] /\ p[2] <= o[2])
  <2>1. o[1] \in rows
    OBVIOUS
  <2>2. o[1] = i => o[2] \in columns
    OBVIOUS
  <2>3. i \in Nat /\ o[1] \in Nat /\ i <= o[1]
    BY <1>1, <1>2, <2>1
  <2> HIDE DEF rows, columns
  <2> QED
    BY <1>4, <1>5, <2>2, <2>3
<1> QED
  BY <1>5, <1>6 DEF FirstIn

LEMMA FirstPairIsOne ==
  ASSUME NEW P, P \subseteq Nat \X Nat, NEW p, NEW q, FirstIn(P, p), FirstIn(P, q)
  PROVE  p = q
<1>1. p \in Nat \X Nat /\ q \in Nat \X Nat
  BY DEF FirstIn
<1>2. p[1] < q[1] \/ (p[1] = q[1] /\ p[2] <= q[2])
  BY DEF FirstIn
<1>3. q[1] < p[1] \/ (q[1] = p[1] /\ q[2] <= p[2])
  BY DEF FirstIn
<1>4. p[1] = q[1] /\ p[2] = q[2]
  BY <1>1, <1>2, <1>3
<1> QED
  BY <1>1, <1>4

(* The pairs of sentences of two sections that conflict.                   *)
PairsOf(l, r) == {p \in (1..Len(l)) \X (1..Len(r)) : Conflicts(l[p[1]], r[p[2]])}

LEMMA ConflictIs ==
  ASSUME NEW l, NEW r
  PROVE  LET P == PairsOf(Leading(l, 20), Leading(r, 20)) IN
         /\ P = {} => SectionConflict(l, r) = Missing
         /\ P # {} => SectionConflict(l, r) # Missing /\ FirstIn(P, SectionConflict(l, r))
<1> DEFINE P == PairsOf(Leading(l, 20), Leading(r, 20))
           first == CHOOSE p \in P :
                      \A o \in P : p[1] < o[1] \/ (p[1] = o[1] /\ p[2] <= o[2])
<1>1. SectionConflict(l, r) = IF P = {} THEN Missing ELSE first
  BY DEF SectionConflict, PairsOf
<1>2. P \subseteq Nat \X Nat
  BY DEF PairsOf
<1> HIDE DEF P
<1>3. ASSUME P # {} PROVE first # Missing /\ FirstIn(P, first)
  <2>1. PICK p : FirstIn(P, p)
    <3> HIDE DEF first
    <3> QED
      BY <1>2, <1>3, FirstPairExists
  <2>2. FirstIn(P, first)
    BY <2>1 DEF FirstIn
  <2>3. first \in Nat \X Nat
    BY <1>2, <2>2 DEF FirstIn
  <2> HIDE DEF first
  <2>4. first # <<>>
    BY <2>3
  <2> QED
    BY <2>2, <2>4 DEF Missing
<1> HIDE DEF first
<1> QED
  BY <1>1, <1>3 DEF P

(* A section that says more says the same before.                          *)
Extends(s, t) == Len(s) <= Len(t) /\ \A k \in 1..Len(s) : t[k] = s[k]

LEMMA LeadingGrows ==
  ASSUME NEW X, NEW s \in Seq(X), NEW x \in X, NEW n \in Nat
  PROVE  /\ Len(Leading(s, n)) \in Nat /\ Len(Leading(Append(s, x), n)) \in Nat
         /\ Extends(Leading(s, n), Leading(Append(s, x), n))
<1> DEFINE t == Append(s, x)
           m == IF Len(s) < n THEN Len(s) ELSE n
           o == IF Len(t) < n THEN Len(t) ELSE n
<1>1. t \in Seq(X) /\ Len(t) = Len(s) + 1 /\ Len(s) \in Nat
      /\ \A k \in 1..Len(s) : t[k] = s[k]
  BY AppendProperties
<1> HIDE DEF t
<1>2. m \in Nat /\ o \in Nat /\ m <= o /\ m <= Len(s) /\ o <= Len(t)
  BY <1>1
<1>3. Leading(s, n) = SubSeq(s, 1, m) /\ Leading(t, n) = SubSeq(t, 1, o)
  BY DEF Leading
<1> HIDE DEF m, o
<1>4. Len(SubSeq(s, 1, m)) = m /\ \A k \in 1..m : SubSeq(s, 1, m)[k] = s[k]
  BY <1>1, <1>2, SubSeqPlaces
<1>5. Len(SubSeq(t, 1, o)) = o /\ \A k \in 1..o : SubSeq(t, 1, o)[k] = t[k]
  BY <1>1, <1>2, SubSeqPlaces
<1>6. ASSUME NEW k \in 1..m PROVE SubSeq(t, 1, o)[k] = SubSeq(s, 1, m)[k]
  <2>1. k \in 1..o /\ k \in 1..Len(s)
    BY <1>1, <1>2
  <2> QED
    BY <1>1, <1>4, <1>5, <2>1
<1>7. Len(Leading(s, n)) = m /\ Len(Leading(t, n)) = o
  BY <1>3, <1>4, <1>5
<1>8. Extends(Leading(s, n), Leading(t, n))
  BY <1>2, <1>3, <1>6, <1>7 DEF Extends
<1> QED
  BY <1>2, <1>7, <1>8 DEF t

LEMMA PairsGrowLeft ==
  ASSUME NEW l, NEW t, NEW r, Len(l) \in Nat, Len(t) \in Nat, Extends(l, t)
  PROVE  /\ PairsOf(l, r) \subseteq PairsOf(t, r)
         /\ \A p : FirstIn(PairsOf(l, r), p) => FirstIn(PairsOf(t, r), p)
<1>1. ASSUME NEW p \in PairsOf(l, r) PROVE p \in PairsOf(t, r)
  <2>1. p \in (1..Len(l)) \X (1..Len(r)) /\ Conflicts(l[p[1]], r[p[2]])
    BY DEF PairsOf
  <2>2. p \in (1..Len(t)) \X (1..Len(r)) /\ t[p[1]] = l[p[1]]
    BY <2>1 DEF Extends
  <2> QED
    BY <2>1, <2>2 DEF PairsOf
<1>2. ASSUME NEW p, FirstIn(PairsOf(l, r), p) PROVE FirstIn(PairsOf(t, r), p)
  <2>1. p \in PairsOf(l, r) /\ p \in (1..Len(l)) \X (1..Len(r))
    BY <1>2 DEF FirstIn, PairsOf
  <2>2. ASSUME NEW o \in PairsOf(t, r)
        PROVE  p[1] < o[1] \/ (p[1] = o[1] /\ p[2] <= o[2])
    <3>1. o \in (1..Len(t)) \X (1..Len(r)) /\ Conflicts(t[o[1]], r[o[2]])
      BY DEF PairsOf
    <3>2. CASE o[1] <= Len(l)
      <4>1. o[1] \in 1..Len(l) /\ o \in (1..Len(l)) \X (1..Len(r))
        BY <3>1, <3>2
      <4>2. t[o[1]] = l[o[1]]
        BY <4>1 DEF Extends
      <4>3. o \in PairsOf(l, r)
        BY <3>1, <4>1, <4>2 DEF PairsOf
      <4> QED
        BY <1>2, <4>3 DEF FirstIn
    <3>3. CASE ~ (o[1] <= Len(l))
      BY <2>1, <3>1, <3>3
    <3> QED
      BY <3>2, <3>3
  <2> QED
    BY <1>1, <2>1, <2>2 DEF FirstIn
<1> QED
  BY <1>1, <1>2

LEMMA PairsGrowRight ==
  ASSUME NEW l, NEW r, NEW t, Len(r) \in Nat, Len(t) \in Nat, Extends(r, t)
  PROVE  PairsOf(l, r) \subseteq PairsOf(l, t)
<1> SUFFICES ASSUME NEW p \in PairsOf(l, r) PROVE p \in PairsOf(l, t)
  OBVIOUS
<1>1. p \in (1..Len(l)) \X (1..Len(r)) /\ Conflicts(l[p[1]], r[p[2]])
  BY DEF PairsOf
<1>2. p \in (1..Len(l)) \X (1..Len(t)) /\ t[p[2]] = r[p[2]]
  BY <1>1 DEF Extends
<1> QED
  BY <1>1, <1>2 DEF PairsOf

LEMMA SaidGrows ==
  ASSUME NEW A, NEW s \in Seq(A), NEW x \in A
  PROVE  /\ Said(s) \in Seq(A \cup {{}})
         /\ Said(Append(s, x)) = Append(Said(s), x)
<1> DEFINE X == A \cup {{}}
           blank == [k \in 1..18 |-> {}]
<1>1. blank \in Seq(X) /\ x \in X /\ s \in Seq(X)
  OBVIOUS
<1> HIDE DEF X, blank
<1>2. blank \o s \in Seq(X)
  BY <1>1, ConcatProperties
<1>3. blank \o Append(s, x) = Append(blank \o s, x)
  BY <1>1
<1> QED
  BY <1>2, <1>3 DEF Said, X, blank

(* What is found between two sections that conflict there.                 *)
ConflictFinding(found) ==
  [key |-> <<"narrative_cross_section_inconsistency", "s1", "s2", found>>,
   finding |-> Finding("narrative_cross_section_inconsistency", "candidate", "medium", "s1")]

LEMMA BetweenIs ==
  ASSUME NEW mda, NEW risks
  PROVE  LET found == SectionConflict(Said(mda), Said(risks)) IN
         BetweenSections(mda, risks) = IF found = Missing THEN {} ELSE {ConflictFinding(found)}
<1> DEFINE m == [id |-> "s1", type |-> "mda", sentences |-> Said(mda)]
           n == [id |-> "s2", type |-> "risk_factors", sentences |-> Said(risks)]
           sections == <<m, n>>
           found == SectionConflict(Said(mda), Said(risks))
           ofTypes(types) == {k \in DOMAIN sections : sections[k].type \in types}
           ofMda == Leading(Only(sections, ofTypes({"mda"})), 2)
           others == Leading(Only(sections, ofTypes(Compared)), 4)
           fits == {q \in (1..Len(ofMda)) \X (1..Len(others)) :
                      SectionConflict(ofMda[q[1]].sentences, others[q[2]].sentences) # Missing}
           Of(p) == [key |-> <<"narrative_cross_section_inconsistency", ofMda[p[1]].id, others[p[2]].id,
                               SectionConflict(ofMda[p[1]].sentences, others[p[2]].sentences)>>,
                     finding |-> Finding("narrative_cross_section_inconsistency", "candidate", "medium",
                                         ofMda[p[1]].id)]
<1>1. BetweenSections(mda, risks) = {Of(p) : p \in fits}
  BY DEF BetweenSections, CrossSectionDetect
<1>2. /\ m.id = "s1" /\ m.type = "mda" /\ m.sentences = Said(mda)
      /\ n.id = "s2" /\ n.type = "risk_factors" /\ n.sentences = Said(risks)
  OBVIOUS
<1> HIDE DEF m, n
<1>3. DOMAIN sections = {1, 2} /\ sections[1] = m /\ sections[2] = n
  OBVIOUS
<1>4. Only(sections, ofTypes({"mda"})) = <<m>>
  <2>1. 1 \in ofTypes({"mda"}) /\ 2 \notin ofTypes({"mda"})
    BY <1>2, <1>3
  <2> DEFINE places == ofTypes({"mda"})
  <2> HIDE DEF places
  <2>2. Only(<<m, n>>, places) = <<m>>
    <3>1. m \in {m, n} /\ n \in {m, n}
      OBVIOUS
    <3> QED
      BY <2>1, <3>1, OnlyOfTwo DEF places
  <2> QED
    BY <2>2 DEF places
<1>5. Only(sections, ofTypes(Compared)) = <<n>>
  <2> DEFINE places == ofTypes(Compared)
  <2>1. 1 \notin places /\ 2 \in places
    BY <1>2, <1>3 DEF Compared
  <2> HIDE DEF places, sections
  <2>2. Only(<<m, n>>, places) = <<n>>
    <3>1. m \in {m, n} /\ n \in {m, n}
      OBVIOUS
    <3>2. Only(<<m, n>>, places) =
            IF 1 \in places THEN (IF 2 \in places THEN <<m, n>> ELSE <<m>>)
            ELSE IF 2 \in places THEN <<n>> ELSE <<>>
      BY <3>1, OnlyOfTwo
    <3> QED
      BY <2>1, <3>2
  <2> QED
    BY <2>2 DEF places, sections
<1>6. ASSUME NEW x, NEW k \in Nat, k >= 1 PROVE Leading(<<x>>, k) = <<x>>
  <2>1. Len(<<x>>) = 1
    OBVIOUS
  <2>2. (IF 1 < k THEN 1 ELSE k) = 1
    BY <1>6
  <2>3. SubSeq(<<x>>, 1, 1) = <<x>>
    <3>1. <<x>> \in Seq({x})
      OBVIOUS
    <3> QED
      BY <2>1, <3>1, SubSeqFull
  <2> QED
    BY <2>1, <2>2, <2>3 DEF Leading
<1>7. ofMda = <<m>> /\ others = <<n>>
  <2>1. 2 \in Nat /\ 2 >= 1 /\ 4 \in Nat /\ 4 >= 1
    OBVIOUS
  <2>2. Leading(<<m>>, 2) = <<m>>
    BY <1>6, <2>1
  <2>3. Leading(<<n>>, 4) = <<n>>
    BY <1>6, <2>1
  <2> HIDE DEF sections, ofTypes
  <2> QED
    BY <1>4, <1>5, <2>2, <2>3
<1>8. Len(ofMda) = 1 /\ ofMda[1] = m /\ Len(others) = 1 /\ others[1] = n
  <2> HIDE DEF ofMda, others
  <2> QED
    BY <1>7
<1> HIDE DEF ofMda, others, sections
<1>9. (1..Len(ofMda)) \X (1..Len(others)) = {<<1, 1>>}
  BY <1>8
<1>10. fits = IF found = Missing THEN {} ELSE {<<1, 1>>}
  BY <1>2, <1>8, <1>9
<1>11. Of(<<1, 1>>) = ConflictFinding(found)
  BY <1>2, <1>8 DEF ConflictFinding
<1> HIDE DEF fits, Of, found
<1> QED
  BY <1>1, <1>10, <1>11 DEF found

LEMMA TextGrows ==
  ASSUME NEW A, NEW s \in Seq(A), NEW x \in A
  PROVE  UNION ToSet(s) \subseteq UNION ToSet(Append(s, x))
<1>1. DOMAIN s \subseteq DOMAIN Append(s, x) /\ \A k \in DOMAIN s : Append(s, x)[k] = s[k]
  BY AppendProperties
<1>2. ToSet(s) \subseteq ToSet(Append(s, x))
  BY <1>1 DEF ToSet
<1> QED
  BY <1>2

LEMMA OverTimeGrows ==
  ASSUME NEW p, NEW q, NEW c, NEW d,
         UNION ToSet(p) \subseteq UNION ToSet(q), UNION ToSet(c) \subseteq UNION ToSet(d)
  PROVE  OverTime(p, c) \subseteq OverTime(q, d)
<1> DEFINE before(x, y) == [id |-> "d1", previous |-> UNION ToSet(x), current |-> UNION ToSet(y),
                            materiality |-> 70]
           finding == [key |-> <<"temporal_narrative_inconsistency", "d1">>,
                       finding |-> Finding("temporal_narrative_inconsistency", "candidate",
                                     "medium", "d1")]
<1>1. \A x, y : OverTime(x, y) =
                  IF ~TemporalConflict(UNION ToSet(x), UNION ToSet(y)) THEN {} ELSE {finding}
  <2> TAKE x, y
  <2>1. before(x, y).id = "d1" /\ before(x, y).previous = UNION ToSet(x)
        /\ before(x, y).current = UNION ToSet(y) /\ before(x, y).materiality = 70
    OBVIOUS
  <2>2. OverTime(x, y) = TemporalDetect(before(x, y))
    BY DEF OverTime
  <2> HIDE DEF before
  <2>3. (IF before(x, y).materiality >= 65 THEN "medium" ELSE "low") = "medium"
    BY <2>1
  <2> QED
    BY <2>1, <2>2, <2>3 DEF TemporalDetect
<1>2. TemporalConflict(UNION ToSet(p), UNION ToSet(c))
        => TemporalConflict(UNION ToSet(q), UNION ToSet(d))
  <2> DEFINE a == UNION ToSet(p)  b == UNION ToSet(q)
             e == UNION ToSet(c)  f == UNION ToSet(d)
  <2>1. a \subseteq b /\ e \subseteq f
    OBVIOUS
  <2> HIDE DEF a, b, e, f
  <2>2. TemporalConflict(a, e) => TemporalConflict(b, f)
    BY <2>1 DEF TemporalConflict
  <2> QED
    BY <2>2 DEF a, b, e, f
<1> HIDE DEF finding
<1> QED
  BY <1>1, <1>2

LEMMA SectionsGrow ==
  ASSUME NEW A, NEW l \in Seq(A), NEW r \in Seq(A), NEW x \in A
  PROVE  /\ BetweenSections(l, r) \subseteq BetweenSections(Append(l, x), r)
         /\ BetweenSections(l, r) # {} => BetweenSections(l, Append(r, x)) # {}
<1> DEFINE X == A \cup {{}}
           a == Said(l)
           b == Said(r)
           ax == Said(Append(l, x))
           bx == Said(Append(r, x))
           La == Leading(a, 20)
           Lb == Leading(b, 20)
           Lax == Leading(ax, 20)
           Lbx == Leading(bx, 20)
<1>1. /\ a \in Seq(X) /\ b \in Seq(X) /\ x \in X
      /\ ax = Append(a, x) /\ bx = Append(b, x)
  BY SaidGrows
<1> HIDE DEF X, a, b, ax, bx
<1>2. Len(La) \in Nat /\ Len(Lax) \in Nat /\ Extends(La, Lax)
  BY <1>1, LeadingGrows
<1>3. Len(Lb) \in Nat /\ Len(Lbx) \in Nat /\ Extends(Lb, Lbx)
  BY <1>1, LeadingGrows
<1> HIDE DEF La, Lb, Lax, Lbx
<1>4. /\ PairsOf(La, Lb) \subseteq PairsOf(Lax, Lb)
      /\ \A p : FirstIn(PairsOf(La, Lb), p) => FirstIn(PairsOf(Lax, Lb), p)
  BY <1>2, PairsGrowLeft
<1>5. PairsOf(La, Lb) \subseteq PairsOf(La, Lbx)
  BY <1>3, PairsGrowRight
<1>6. /\ PairsOf(La, Lb) = {} => SectionConflict(a, b) = Missing
      /\ PairsOf(La, Lb) # {} =>
           SectionConflict(a, b) # Missing /\ FirstIn(PairsOf(La, Lb), SectionConflict(a, b))
  BY ConflictIs DEF La, Lb
<1>7. PairsOf(Lax, Lb) # {} =>
        SectionConflict(ax, b) # Missing /\ FirstIn(PairsOf(Lax, Lb), SectionConflict(ax, b))
  BY ConflictIs DEF Lax, Lb
<1>8. PairsOf(La, Lbx) # {} => SectionConflict(a, bx) # Missing
  BY ConflictIs DEF La, Lbx
<1>9. BetweenSections(l, r) = IF SectionConflict(a, b) = Missing THEN {}
                              ELSE {ConflictFinding(SectionConflict(a, b))}
  BY BetweenIs DEF a, b
<1>10. BetweenSections(Append(l, x), r) =
         IF SectionConflict(ax, b) = Missing THEN {} ELSE {ConflictFinding(SectionConflict(ax, b))}
  BY BetweenIs DEF ax, b
<1>11. BetweenSections(l, Append(r, x)) =
         IF SectionConflict(a, bx) = Missing THEN {} ELSE {ConflictFinding(SectionConflict(a, bx))}
  BY BetweenIs DEF a, bx
<1>12. CASE PairsOf(La, Lb) = {}
  BY <1>6, <1>9, <1>12
<1>13. CASE PairsOf(La, Lb) # {}
  <2>1. FirstIn(PairsOf(Lax, Lb), SectionConflict(a, b))
    BY <1>4, <1>6, <1>13
  <2>2. /\ SectionConflict(ax, b) # Missing
        /\ FirstIn(PairsOf(Lax, Lb), SectionConflict(ax, b))
    BY <1>4, <1>7, <1>13
  <2>3. PairsOf(Lax, Lb) \subseteq Nat \X Nat
    BY DEF PairsOf
  <2>4. SectionConflict(ax, b) = SectionConflict(a, b)
    BY <2>1, <2>2, <2>3, FirstPairIsOne
  <2>5. SectionConflict(a, bx) # Missing
    BY <1>5, <1>8, <1>13
  <2> QED
    BY <1>6, <1>9, <1>10, <1>11, <1>13, <2>4, <2>5
<1> QED
  BY <1>12, <1>13

LEMMA NarrativesHold ==
  ASSUME InputsFit, task = "narrative"
  PROVE  NarrativesAreStable
<1> DEFINE A == Alphabet["narrative"].left \cup Alphabet["narrative"].right
<1> SUFFICES ASSUME NEW more \in Alphabet["narrative"].left
             PROVE  /\ BetweenSections(left, right) \subseteq BetweenSections(Append(left, more), right)
                    /\ BetweenSections(left, right) # {} => BetweenSections(left, Append(right, more)) # {}
                    /\ OverTime(left, right) \subseteq OverTime(Append(left, more), right)
                                                         \cap OverTime(left, Append(right, more))
  BY DEF NarrativesAreStable
<1>1. left \in Seq(A) /\ right \in Seq(A) /\ more \in A
  BY DEF InputsFit
<1> HIDE DEF A
<1>2. /\ BetweenSections(left, right) \subseteq BetweenSections(Append(left, more), right)
      /\ BetweenSections(left, right) # {} => BetweenSections(left, Append(right, more)) # {}
  BY <1>1, SectionsGrow
<1>3. /\ UNION ToSet(left) \subseteq UNION ToSet(Append(left, more))
      /\ UNION ToSet(right) \subseteq UNION ToSet(Append(right, more))
  BY <1>1, TextGrows
<1>4. OverTime(left, right) \subseteq OverTime(Append(left, more), right)
  BY <1>3, OverTimeGrows
<1>5. OverTime(left, right) \subseteq OverTime(left, Append(right, more))
  BY <1>3, OverTimeGrows
<1> QED
  BY <1>2, <1>4, <1>5

(***************************************************************************)
(* For any words, numbers, metrics, facts, qualifiers and thresholds: a    *)
(* claim read from a sentence can be judged, carries its numbers and its   *)
(* metric, is stored once and has the findings its verdict asks for, none  *)
(* both too strong and too weak unless the thresholds cross; and a filing  *)
(* that says more keeps the inconsistencies found in it                    *)
(* (financial_claim_extraction_service.py,                                 *)
(* contradiction_analysis_service.py).                                     *)
(***************************************************************************)
THEOREM ReadingsHold == Spec => []ReadingsAreSound
<1>1. InputsFit => ReadingsAreSound
  <2> SUFFICES ASSUME InputsFit PROVE ReadingsAreSound
    OBVIOUS
  <2>1. left \in Seq(Alphabet[task].left)
    BY DEF InputsFit
  <2>2. ClaimsCanBeJudged /\ ClaimsAreFoundFairly
    BY <2>1, ClaimsFit, ClaimsAreFairlyFound
  <2>3. task = "narrative" => NarrativesAreStable
    BY NarrativesHold
  <2> QED
    BY <2>2, <2>3 DEF ReadingsAreSound
<1> QED
  BY <1>1, InputsAreOfTheirTask, PTL
=============================================================================
