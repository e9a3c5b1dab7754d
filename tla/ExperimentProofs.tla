---------------------------- MODULE ExperimentProofs ----------------------------
(***************************************************************************)
(* Proofs about the two modules of experiments.py that follow a study:     *)
(* BaselineMetrics, the scores of the frame baseline, and ScenarioStudy,   *)
(* the pool of workers, the partitions and the manifests.                  *)
(*                                                                         *)
(* For every list of records, the detector of the definition, which looks  *)
(* at the whole list, finds what an online detector finds, and a ranking   *)
(* of an instant's loops exists and has the definition's precisions.  For  *)
(* every pool, world and set of jobs, a manifest that gets to the disk is  *)
(* the one of a sequential evaluation; the report of a split does not      *)
(* depend on the other split's seeds; the frame samples are there for the  *)
(* fit and in no file; and the matrix agrees with the studies.             *)
(***************************************************************************)
EXTENDS BaselineMetrics, ScenarioStudy, FiniteSetTheorems, TLAPS

-----------------------------------------------------------------------------
\* Lists that enumerate a set in an order.

\* What is not above x in the order R of S.
Below(S, R, x) == {y \in S : y = x \/ <<y, x>> \in R}

IsOrder(S, R) ==
  /\ \A x \in S : <<x, x>> \notin R
  /\ \A x, y \in S : x = y \/ <<x, y>> \in R \/ <<y, x>> \in R
  /\ \A x, y, z \in S : <<x, y>> \in R /\ <<y, z>> \in R => <<x, z>> \in R

\* The members of a finite ordered set have the ranks 1 to its size.
LEMMA Ranks ==
  ASSUME NEW S, IsFiniteSet(S), NEW R, IsOrder(S, R)
  PROVE  /\ \A x \in S : Cardinality(Below(S, R, x)) \in 1..Cardinality(S)
         /\ \A x, y \in S : <<x, y>> \in R =>
              Cardinality(Below(S, R, x)) < Cardinality(Below(S, R, y))
         /\ \A k \in 1..Cardinality(S) : \E x \in S : Cardinality(Below(S, R, x)) = k
<1> DEFINE B(x) == Below(S, R, x)
<1>1. \A x \in S : B(x) \in SUBSET S /\ x \in B(x)
  BY DEF Below
<1>2. \A x \in S : IsFiniteSet(B(x)) /\ Cardinality(B(x)) <= Cardinality(S)
  BY <1>1, FS_Subset
<1>3. Cardinality(S) \in Nat /\ \A x \in S : Cardinality(B(x)) \in Nat
  BY <1>2, FS_CardinalityType
<1>4. \A x \in S : Cardinality(B(x)) # 0
  BY <1>1, <1>2, FS_EmptySet
<1>5. \A x \in S : Cardinality(B(x)) \in 1..Cardinality(S)
  BY <1>2, <1>3, <1>4
<1>6. ASSUME NEW x \in S, NEW y \in S, <<x, y>> \in R
      PROVE  Cardinality(B(x)) < Cardinality(B(y))
  <2>1. B(x) \in SUBSET B(y)
    BY <1>6 DEF Below, IsOrder
  <2>2. y \notin B(x) /\ y \in B(y)
    BY <1>6 DEF Below, IsOrder
  <2>3. Cardinality(B(x)) <= Cardinality(B(y))
        /\ (Cardinality(B(y)) = Cardinality(B(x)) => B(x) = B(y))
    BY <1>2, <2>1, FS_Subset
  <2> QED BY <1>3, <2>2, <2>3
<1>7. ASSUME NEW k \in 1..Cardinality(S) PROVE \E x \in S : Cardinality(B(x)) = k
  <2> DEFINE f == [x \in S |-> Cardinality(B(x))]
  <2>1. f \in [S -> 1..Cardinality(S)]
    BY <1>5
  <2>2. ASSUME NEW x \in S, NEW y \in S, f[x] = f[y] PROVE x = y
    <3>1. Cardinality(B(x)) = Cardinality(B(y)) /\ Cardinality(B(x)) \in Nat
      BY <1>3, <2>2
    <3>2. <<x, y>> \notin R /\ <<y, x>> \notin R
      <4>1. CASE <<x, y>> \in R
        BY <1>6, <3>1, <4>1
      <4>2. CASE <<y, x>> \in R
        BY <1>6, <3>1, <4>2
      <4> QED BY <4>1, <4>2
    <3> QED BY <3>2 DEF IsOrder
  <2> HIDE DEF f
  <2>3. f \in Injection(S, 1..Cardinality(S))
    BY <2>1, <2>2 DEF Injection, IsInjective
  <2>4. IsFiniteSet(1..Cardinality(S)) /\ Cardinality(1..Cardinality(S)) = Cardinality(S)
    BY <1>3, FS_Interval
  <2>5. f \in Surjection(S, 1..Cardinality(S))
    BY <2>3, <2>4, FS_Injection
  <2>6. PICK x \in S : f[x] = k
    BY <2>5 DEF Surjection
  <2> QED BY <2>6 DEF f
<1> QED BY <1>5, <1>6, <1>7

\* s lists all of S in the order R.
Lists(S, R, n, s) ==
  /\ n \in Nat /\ s \in [1..n -> S]
  /\ \A x \in S : \E i \in 1..n : s[i] = x
  /\ \A i, j \in 1..n : i < j => <<s[i], s[j]>> \in R

\* In a sorted list of the set, the first i entries are those not above the i-th.
LEMMA SortedRanks ==
  ASSUME NEW S, NEW R, IsOrder(S, R), NEW n, NEW s, Lists(S, R, n, s)
  PROVE  /\ IsFiniteSet(S) /\ Cardinality(S) = n
         /\ \A i \in 1..n : /\ Below(S, R, s[i]) = {s[k] : k \in 1..i}
                            /\ Cardinality(Below(S, R, s[i])) = i
         /\ \A i, j \in 1..n : s[i] = s[j] => i = j
<1>0. /\ n \in Nat /\ s \in [1..n -> S]
      /\ \A x \in S : \E i \in 1..n : s[i] = x
      /\ \A i, j \in 1..n : i < j => <<s[i], s[j]>> \in R
  BY DEF Lists
<1>1. ASSUME NEW i \in 1..n, NEW j \in 1..n, s[i] = s[j] PROVE i = j
  <2>1. ~(i < j)
    <3> SUFFICES ASSUME i < j PROVE FALSE
      OBVIOUS
    <3>1. <<s[i], s[j]>> \in R /\ s[i] \in S
      BY <1>0
    <3> QED BY <1>1, <3>1 DEF IsOrder
  <2>2. ~(j < i)
    <3> SUFFICES ASSUME j < i PROVE FALSE
      OBVIOUS
    <3>1. <<s[j], s[i]>> \in R /\ s[i] \in S
      BY <1>0
    <3> QED BY <1>1, <3>1 DEF IsOrder
  <2> QED BY <1>0, <2>1, <2>2
<1>2. s \in Bijection(1..n, S)
  BY <1>0, <1>1 DEF Bijection, Injection, Surjection, IsInjective
<1>3. IsFiniteSet(1..n) /\ Cardinality(1..n) = n
  BY <1>0, FS_Interval
<1>4. IsFiniteSet(S) /\ Cardinality(S) = n
  BY <1>2, <1>3, FS_Bijection DEF ExistsBijection
<1>5. ASSUME NEW i \in 1..n
      PROVE  /\ Below(S, R, s[i]) = {s[k] : k \in 1..i}
             /\ Cardinality(Below(S, R, s[i])) = i
  <2> DEFINE first == {s[k] : k \in 1..i}
  <2>1. ASSUME NEW k \in 1..n PROVE s[k] \in Below(S, R, s[i]) <=> k <= i
    <3>1. s[i] \in S /\ s[k] \in S
      BY <1>0
    <3>2. s[k] \in Below(S, R, s[i]) <=> s[k] = s[i] \/ <<s[k], s[i]>> \in R
      BY <3>1 DEF Below
    <3>3. CASE k < i
      <4>1. <<s[k], s[i]>> \in R
        BY <1>0, <3>3
      <4> QED BY <3>2, <3>3, <4>1
    <3>4. CASE k = i
      BY <3>2, <3>4
    <3>5. CASE i < k
      <4>1. <<s[i], s[k]>> \in R /\ s[i] # s[k]
        BY <1>0, <1>1, <3>5
      <4>2. <<s[k], s[i]>> \notin R
        <5> SUFFICES ASSUME <<s[k], s[i]>> \in R PROVE FALSE
          OBVIOUS
        <5>1. <<s[i], s[i]>> \in R
          BY <3>1, <4>1 DEF IsOrder
        <5> QED BY <3>1, <5>1 DEF IsOrder
      <4> QED BY <3>2, <3>5, <4>1, <4>2
    <3> QED BY <1>0, <3>3, <3>4, <3>5
  <2>2. Below(S, R, s[i]) = first
    <3>1. ASSUME NEW x \in Below(S, R, s[i]) PROVE x \in first
      <4>1. PICK k \in 1..n : s[k] = x
        BY <1>0 DEF Below
      <4> QED BY <2>1, <4>1
    <3>2. ASSUME NEW x \in first PROVE x \in Below(S, R, s[i])
      <4>1. PICK k \in 1..i : s[k] = x
        OBVIOUS
      <4> QED BY <1>0, <2>1, <4>1
    <3> QED BY <3>1, <3>2
  <2> DEFINE g == [k \in 1..i |-> s[k]]
  <2>3. g \in Bijection(1..i, first)
    BY <1>0, <1>1 DEF Bijection, Injection, Surjection, IsInjective
  <2>4. IsFiniteSet(1..i) /\ Cardinality(1..i) = i
    BY <1>0, FS_Interval
  <2> HIDE DEF g, first
  <2>5. Cardinality(first) = i
    BY <2>3, <2>4, FS_Bijection DEF ExistsBijection
  <2> QED BY <2>2, <2>5 DEF first
<1> QED BY <1>1, <1>4, <1>5

\* The order of the integers in a set.
Ascending(I) == {p \in I \X I : p[1] < p[2]}

LEMMA AscendingOrder ==
  ASSUME NEW I \in SUBSET Int
  PROVE  /\ IsOrder(I, Ascending(I))
         /\ \A i \in I : Below(I, Ascending(I), i) = {j \in I : j <= i}
         /\ \A i, j \in I : <<i, j>> \in Ascending(I) <=> i < j
<1>1. \A i, j \in I : <<i, j>> \in Ascending(I) <=> i < j
  BY DEF Ascending
<1>2. IsOrder(I, Ascending(I))
  BY <1>1 DEF IsOrder
<1>3. ASSUME NEW i \in I PROVE Below(I, Ascending(I), i) = {j \in I : j <= i}
  <2>1. \A j \in I : j <= i <=> j = i \/ j < i
    OBVIOUS
  <2> QED BY <1>1, <2>1 DEF Below
<1> QED BY <1>1, <1>2, <1>3

\* e lists the m elements of I in their order.
Lines(I, m, e) ==
  /\ I \in SUBSET Int /\ m \in Nat /\ e \in [1..m -> I]
  /\ \A i, j \in 1..m : i < j => e[i] < e[j]
  /\ \A i \in I : \E k \in 1..m : e[k] = i

\* Such a list is the enumeration Nth gives.
LEMMA NthIs ==
  ASSUME NEW I, NEW m, NEW e, Lines(I, m, e)
  PROVE  /\ IsFiniteSet(I) /\ Cardinality(I) = m
         /\ \A k \in 1..m : Nth(I, k) = e[k]
<1>0. /\ I \in SUBSET Int /\ m \in Nat /\ e \in [1..m -> I]
      /\ \A i, j \in 1..m : i < j => e[i] < e[j]
      /\ \A i \in I : \E k \in 1..m : e[k] = i
  BY DEF Lines
<1>1. \A i, j \in 1..m : i < j => <<e[i], e[j]>> \in Ascending(I)
  BY <1>0, AscendingOrder
<1>2. IsOrder(I, Ascending(I))
  BY <1>0, AscendingOrder
<1>3. /\ IsFiniteSet(I) /\ Cardinality(I) = m
      /\ \A k \in 1..m : Cardinality(Below(I, Ascending(I), e[k])) = k
  <2>1. Lists(I, Ascending(I), m, e)
    BY <1>0, <1>1 DEF Lists
  <2> QED BY <1>2, <2>1, SortedRanks
<1>4. \A k \in 1..m : Cardinality({j \in I : j <= e[k]}) = k
  BY <1>0, <1>3, AscendingOrder
<1>5. ASSUME NEW k \in 1..m PROVE Nth(I, k) = e[k]
  <2>1. ASSUME NEW i \in I, Cardinality({j \in I : j <= i}) = k PROVE i = e[k]
    <3>1. PICK x \in 1..m : e[x] = i
      BY <1>0
    <3> QED BY <1>0, <1>4, <2>1, <3>1
  <2>2. e[k] \in I /\ Cardinality({j \in I : j <= e[k]}) = k
    BY <1>0, <1>4
  <2> QED BY <2>1, <2>2 DEF Nth
<1> QED BY <1>3, <1>5

\* Nth enumerates every finite set of integers in its order.
LEMMA NthEnumerates ==
  ASSUME NEW I \in SUBSET Int, IsFiniteSet(I)
  PROVE  /\ Cardinality(I) \in Nat
         /\ \A k \in 1..Cardinality(I) : Nth(I, k) \in I
         /\ \A i, j \in 1..Cardinality(I) : i < j => Nth(I, i) < Nth(I, j)
         /\ \A i \in I : \E k \in 1..Cardinality(I) : Nth(I, k) = i
<1> DEFINE rank(i) == Cardinality({j \in I : j <= i})
<1>1. IsOrder(I, Ascending(I)) /\ \A i \in I : Below(I, Ascending(I), i) = {j \in I : j <= i}
  BY AscendingOrder
<1>2. /\ \A i \in I : rank(i) \in 1..Cardinality(I)
      /\ \A i, j \in I : i < j => rank(i) < rank(j)
      /\ \A k \in 1..Cardinality(I) : \E i \in I : rank(i) = k
  <2>1. \A i, j \in I : i < j => <<i, j>> \in Ascending(I)
    BY AscendingOrder
  <2> DEFINE R == Ascending(I)
             B(i) == Below(I, R, i)
  <2>2. /\ \A i \in I : Cardinality(B(i)) \in 1..Cardinality(I)
        /\ \A i, j \in I : <<i, j>> \in R => Cardinality(B(i)) < Cardinality(B(j))
        /\ \A k \in 1..Cardinality(I) : \E i \in I : Cardinality(B(i)) = k
    <3> HIDE DEF R
    <3>1. IsOrder(I, R)
      BY <1>1 DEF R
    <3> QED BY <3>1, Ranks
  <2>3. \A i \in I : Cardinality(B(i)) = rank(i)
    BY <1>1
  <2> HIDE DEF R, B, rank
  <2>4. \A i \in I : rank(i) \in 1..Cardinality(I)
    BY <2>2, <2>3
  <2>5. \A i, j \in I : i < j => rank(i) < rank(j)
    BY <2>1, <2>2, <2>3 DEF R
  <2>6. \A k \in 1..Cardinality(I) : \E i \in I : rank(i) = k
    BY <2>2, <2>3
  <2> QED BY <2>4, <2>5, <2>6
<1>3. \A k \in 1..Cardinality(I) : Nth(I, k) \in I /\ rank(Nth(I, k)) = k
  BY <1>2 DEF Nth
<1>4. Cardinality(I) \in Nat
  BY FS_CardinalityType
<1> HIDE DEF rank
<1>5. \A i, j \in I : rank(i) = rank(j) => i = j
  BY <1>2
<1>6. \A i, j \in 1..Cardinality(I) : i < j => Nth(I, i) < Nth(I, j)
  <2> SUFFICES ASSUME NEW i \in 1..Cardinality(I), NEW j \in 1..Cardinality(I), i < j
               PROVE  Nth(I, i) < Nth(I, j)
    OBVIOUS
  <2>1. PICK a \in I, b \in I : a = Nth(I, i) /\ b = Nth(I, j)
    BY <1>3
  <2>2. rank(a) = i /\ rank(b) = j
    BY <1>3, <2>1
  <2>3. ~(b < a) /\ a # b
    BY <1>2, <2>2
  <2> QED BY <2>1, <2>3
<1>7. \A i \in I : \E k \in 1..Cardinality(I) : Nth(I, k) = i
  BY <1>2, <1>3, <1>5
<1> QED BY <1>3, <1>4, <1>6, <1>7

LEMMA LeastOf ==
  ASSUME NEW I \in SUBSET Int, IsFiniteSet(I), I # {}
  PROVE  \E x \in I : \A y \in I : x <= y
<1>1. Cardinality(I) \in Nat /\ Cardinality(I) # 0
  BY NthEnumerates, FS_EmptySet
<1>2. 1 \in 1..Cardinality(I)
  BY <1>1
<1>3. \A k \in 1..Cardinality(I) : Nth(I, k) \in I /\ (1 < k => Nth(I, 1) < Nth(I, k))
  BY <1>2, NthEnumerates
<1>4. \A y \in I : \E k \in 1..Cardinality(I) : Nth(I, k) = y
  BY NthEnumerates
<1>5. PICK x \in I : x = Nth(I, 1)
  BY <1>2, <1>3
<1>6. ASSUME NEW y \in I PROVE x <= y
  <2>1. PICK k \in 1..Cardinality(I) : Nth(I, k) = y
    BY <1>4
  <2>2. k = 1 \/ 1 < k
    OBVIOUS
  <2>3. x = y \/ x < y
    BY <1>3, <1>5, <2>1, <2>2
  <2> QED BY <2>3
<1> QED BY <1>6

-----------------------------------------------------------------------------
\* The history of one loop and one more record.

Record == [loop : Loop, at : Nat, active : BOOLEAN, score : Int]

\* The records of a loop, one per frame.
History(s) == s \in Seq(Record) /\ \A k \in 1..Len(s) : s[k].at = k - 1

Hit(r) == r.active /\ Predicted(r)

\* Onset i of an activation that has not ended.
Open(s, i) == i \in OnsetsOf(s) /\ \A k \in i..Len(s) : s[k].active

\* The hits in a row at the end.
Trailing(s, r) ==
  /\ r \in 0..Len(s)
  /\ \A k \in (Len(s) - r + 1)..Len(s) : Hit(s[k])
  /\ r < Len(s) => ~Hit(s[Len(s) - r])

\* The online detector: r hits in a row at the end, o the open onset that has no
\* confirmation yet, w the last label.
Tracks(s, r, o, w) ==
  /\ w \in BOOLEAN /\ (w <=> Len(s) = 0 \/ s[Len(s)].active)
  /\ Trailing(s, r)
  /\ o \in -1..(Len(s) - 1)
  /\ o >= 0 => Open(s, o + 1) /\ Confirmations(s, o + 1) = {}
  /\ \A i \in OnsetsOf(s) : Open(s, i) /\ Confirmations(s, i) = {} => o = i - 1

DelaysOf(l, s) ==
  {[loop |-> l, onset |-> s[i].at, delay |-> s[Confirmation(s, i)].at - s[i].at] :
     i \in {o \in OnsetsOf(s) : Confirmations(s, o) # {}}}

LEMMA Extended ==
  ASSUME NEW s, History(s), NEW r \in Record, NEW t, t = Append(s, r)
  PROVE  /\ Len(s) \in Nat /\ Len(t) = Len(s) + 1 /\ t \in Seq(Record)
         /\ \A k \in 1..Len(s) : t[k] = s[k] /\ s[k] \in Record
         /\ t[Len(s) + 1] = r
         /\ DOMAIN s = 1..Len(s) /\ DOMAIN t = 1..(Len(s) + 1)
BY DEF History

\* The last record begins an activation, or no onset is new.
LEMMA OnsetsGrow ==
  ASSUME NEW s, History(s), NEW r \in Record, NEW t, t = Append(s, r),
         NEW w, w <=> Len(s) = 0 \/ s[Len(s)].active
  PROVE  /\ OnsetsOf(t) = OnsetsOf(s) \cup (IF r.active /\ ~w THEN {Len(s) + 1} ELSE {})
         /\ OnsetsOf(s) \in SUBSET (2..Len(s))
<1> DEFINE n == Len(s)
<1>1. /\ n \in Nat /\ Len(t) = n + 1
      /\ \A k \in 1..n : t[k] = s[k]
      /\ t[n + 1] = r
  BY Extended
<1> HIDE DEF n
<1>2. OnsetsOf(s) = {i \in 2..n : s[i].active /\ ~s[i - 1].active}
  BY DEF OnsetsOf, n
<1>3. OnsetsOf(t) = {i \in 2..(n + 1) : t[i].active /\ ~t[i - 1].active}
  BY <1>1 DEF OnsetsOf
<1>4. w <=> n = 0 \/ s[n].active
  BY DEF n
<1>5. ASSUME NEW i \in 2..n PROVE i \in OnsetsOf(t) <=> i \in OnsetsOf(s)
  <2>1. t[i] = s[i] /\ t[i - 1] = s[i - 1] /\ i \in 2..(n + 1)
    BY <1>1
  <2> QED BY <1>2, <1>3, <2>1
<1>6. n + 1 \in OnsetsOf(t) <=> r.active /\ ~w
  <2>1. CASE n = 0
    BY <1>3, <1>4, <2>1
  <2>2. CASE n # 0
    <3>1. n + 1 \in 2..(n + 1) /\ (n + 1) - 1 = n /\ n \in 1..n
      BY <1>1, <2>2
    <3>2. t[(n + 1) - 1] = s[n] /\ t[n + 1] = r
      BY <1>1, <3>1
    <3>3. n + 1 \in OnsetsOf(t) <=> r.active /\ ~s[n].active
      BY <1>3, <3>1, <3>2
    <3> QED BY <1>4, <2>2, <3>3
  <2> QED BY <2>1, <2>2
<1>7. \A i \in 2..(n + 1) : i \in 2..n \/ i = n + 1
  BY <1>1
<1> QED BY <1>1, <1>2, <1>3, <1>5, <1>6, <1>7 DEF n

\* A record confirms at most the activation it belongs to.
LEMMA ConfirmationsGrow ==
  ASSUME NEW s, History(s), NEW r \in Record, NEW t, t = Append(s, r), NEW i \in 1..(Len(s) + 1)
  PROVE  \A j : j \in Confirmations(t, i) <=>
                  \/ i <= Len(s) /\ j \in Confirmations(s, i)
                  \/ /\ j = Len(s) + 1 /\ j >= FirstConfirmation(i)
                     /\ \A k \in i..j : t[k].active
                     /\ \A k \in (j - Persistence + 1)..j : k \in DOMAIN t /\ Predicted(t[k])
<1> DEFINE n == Len(s)
<1>1. /\ n \in Nat /\ Len(t) = n + 1
      /\ \A k \in 1..n : t[k] = s[k]
      /\ DOMAIN s = 1..n /\ DOMAIN t = 1..(n + 1)
  BY Extended
<1>2. Persistence \in Nat \ {0}
  BY MetricsAssumption
<1> HIDE DEF n
<1> DEFINE within(q, j) == /\ \A k \in i..j : q[k].active
                           /\ \A k \in (j - Persistence + 1)..j : k \in DOMAIN q /\ Predicted(q[k])
<1>3. \A j : j \in Confirmations(s, i) <=> j \in FirstConfirmation(i)..n /\ within(s, j)
  BY DEF Confirmations, n
<1>4. \A j : j \in Confirmations(t, i) <=> j \in FirstConfirmation(i)..(n + 1) /\ within(t, j)
  BY <1>1 DEF Confirmations
<1>5. ASSUME NEW j \in FirstConfirmation(i)..n PROVE within(t, j) <=> within(s, j)
  <2>1. i \in Nat \ {0} /\ FirstConfirmation(i) = i + Persistence - 1
    BY <1>1 DEF FirstConfirmation, n
  <2>2. \A k \in i..j : t[k] = s[k]
    BY <1>1, <1>2, <2>1
  <2>3. \A k \in (j - Persistence + 1)..j : k \in 1..n /\ t[k] = s[k]
    BY <1>1, <1>2, <2>1
  <2>4. \A k \in (j - Persistence + 1)..j : k \in DOMAIN s /\ k \in DOMAIN t
    BY <1>1, <2>3
  <2> QED BY <2>2, <2>3, <2>4
<1>6. FirstConfirmation(i) \in Int /\ FirstConfirmation(i) >= i
  BY <1>1, <1>2 DEF FirstConfirmation, n
<1>7. ~(i <= n) => FirstConfirmation(i)..n = {}
  BY <1>1, <1>6 DEF n
<1> SUFFICES ASSUME NEW j
             PROVE  j \in Confirmations(t, i) <=>
                      \/ i <= n /\ j \in Confirmations(s, i)
                      \/ j = n + 1 /\ j >= FirstConfirmation(i) /\ within(t, j)
  BY DEF n
<1> HIDE DEF within
<1>8. j \in FirstConfirmation(i)..(n + 1) <=>
        j \in FirstConfirmation(i)..n \/ (j = n + 1 /\ j >= FirstConfirmation(i))
  BY <1>1, <1>6
<1> QED BY <1>3, <1>4, <1>5, <1>7, <1>8

\* The hits in a row and the onset that is pending after record r, the n + 1st.
HitsAfter(r, a, w) == IF ~Hit(r) THEN 0 ELSE IF r.active /\ ~w THEN 1 ELSE a + 1
PendingOf(r, n, o, w) == IF ~r.active THEN -1 ELSE IF r.active /\ ~w THEN n ELSE o

\* An onset is no hit before it, so the count need not be reset there.
LEMMA TrailingGrows ==
  ASSUME NEW s, History(s), NEW r \in Record, NEW t, t = Append(s, r),
         NEW a, NEW w, Trailing(s, a), w <=> Len(s) = 0 \/ s[Len(s)].active,
         NEW b, b = HitsAfter(r, a, w)
  PROVE  Trailing(t, b)
<1> DEFINE n == Len(s)
<1>1. /\ n \in Nat /\ Len(t) = n + 1
      /\ \A k \in 1..n : t[k] = s[k]
      /\ t[n + 1] = r
  BY Extended
<1>2. /\ a \in 0..n
      /\ \A k \in (n - a + 1)..n : Hit(s[k])
      /\ a < n => ~Hit(s[n - a])
      /\ w <=> n = 0 \/ s[n].active
  BY DEF Trailing
<1> HIDE DEF n
<1>3. CASE ~Hit(r)
  <2>1. b = 0 /\ (n + 1) - 0 = n + 1
    BY <1>1, <1>3 DEF HitsAfter
  <2>2. \A k \in ((n + 1) - b + 1)..(n + 1) : FALSE
    BY <1>1, <2>1
  <2>3. b \in 0..(n + 1) /\ ~Hit(t[(n + 1) - b])
    BY <1>1, <1>3, <2>1
  <2> QED BY <1>1, <2>2, <2>3 DEF Trailing
<1>4. CASE Hit(r)
  <2>1. ~w => a = 0
    <3> SUFFICES ASSUME ~w, a # 0 PROVE FALSE
      OBVIOUS
    <3>1. n \in (n - a + 1)..n
      BY <1>1, <1>2
    <3>2. Hit(s[n]) /\ ~s[n].active
      BY <1>2, <3>1
    <3> QED BY <3>2 DEF Hit
  <2>2. b = a + 1
    BY <1>2, <1>4, <2>1 DEF HitsAfter
  <2>3. b \in 0..(n + 1) /\ (n + 1) - b + 1 = n - a + 1 /\ (n + 1) - b = n - a
    BY <1>1, <1>2, <2>2
  <2>4. ASSUME NEW k \in (n - a + 1)..(n + 1) PROVE Hit(t[k])
    <3>1. CASE k = n + 1
      BY <1>1, <1>4, <3>1
    <3>2. CASE k # n + 1
      <4>1. k \in (n - a + 1)..n /\ k \in 1..n
        BY <1>1, <1>2, <3>2
      <4> QED BY <1>1, <1>2, <4>1
    <3> QED BY <3>1, <3>2
  <2>5. b < n + 1 => ~Hit(t[n - a])
    <3> SUFFICES ASSUME b < n + 1 PROVE ~Hit(t[n - a])
      OBVIOUS
    <3>1. a < n /\ n - a \in 1..n
      BY <1>1, <1>2, <2>2
    <3> QED BY <1>1, <1>2, <3>1
  <2> QED BY <1>1, <2>3, <2>4, <2>5 DEF Trailing
<1> QED BY <1>3, <1>4

\* The last frame confirms an open onset when the hits in a row reach the persistence.
LEMMA ConfirmsNow ==
  ASSUME NEW t, t \in Seq(Record), NEW b, Trailing(t, b), NEW i, Open(t, i)
  PROVE  /\ Len(t) >= FirstConfirmation(i)
         /\ \A k \in (Len(t) - Persistence + 1)..Len(t) : k \in DOMAIN t /\ Predicted(t[k])
         <=> b >= Persistence
<1> DEFINE m == Len(t)
<1>1. m \in Nat /\ DOMAIN t = 1..m
  OBVIOUS
<1>2. Persistence \in Nat \ {0}
  BY MetricsAssumption
<1>3. /\ b \in 0..m
      /\ \A k \in (m - b + 1)..m : Hit(t[k])
      /\ b < m => ~Hit(t[m - b])
  BY DEF Trailing
<1>4. i \in 2..m /\ ~t[i - 1].active /\ \A k \in i..m : t[k].active
  BY DEF Open, OnsetsOf
<1> HIDE DEF m
<1>5. m - b >= i - 1
  <2> SUFFICES ASSUME m - b < i - 1 PROVE FALSE
    BY <1>1, <1>3, <1>4
  <2>1. i - 1 \in (m - b + 1)..m
    BY <1>1, <1>3, <1>4
  <2> QED BY <1>3, <1>4, <2>1 DEF Hit
<1>6. ASSUME b >= Persistence
      PROVE  /\ m >= FirstConfirmation(i)
             /\ \A k \in (m - Persistence + 1)..m : k \in DOMAIN t /\ Predicted(t[k])
  <2>1. m >= i + Persistence - 1
    BY <1>1, <1>2, <1>3, <1>4, <1>5, <1>6
  <2>2. \A k \in (m - Persistence + 1)..m : k \in (m - b + 1)..m /\ k \in 1..m
    BY <1>1, <1>2, <1>3, <1>6
  <2> QED BY <1>1, <1>3, <2>1, <2>2 DEF FirstConfirmation, Hit
<1>7. ASSUME m >= FirstConfirmation(i), b < Persistence,
             \A k \in (m - Persistence + 1)..m : k \in DOMAIN t /\ Predicted(t[k])
      PROVE  FALSE
  <2>1. m - Persistence + 1 >= i
    BY <1>1, <1>2, <1>4, <1>7 DEF FirstConfirmation
  <2>2. b < m /\ m - b \in (m - Persistence + 1)..m /\ m - b \in i..m
    BY <1>1, <1>2, <1>3, <1>4, <1>7, <2>1
  <2>3. Predicted(t[m - b]) /\ t[m - b].active
    BY <1>4, <1>7, <2>2
  <2> QED BY <1>3, <2>2, <2>3 DEF Hit
<1> QED BY <1>2, <1>3, <1>6, <1>7 DEF m

LEMMA OpenGrows ==
  ASSUME NEW s, History(s), NEW r \in Record, NEW t, t = Append(s, r)
  PROVE  \A i \in OnsetsOf(t) : Open(t, i) <=> r.active /\ (i = Len(s) + 1 \/ Open(s, i))
<1> DEFINE n == Len(s)
<1>1. /\ n \in Nat /\ Len(t) = n + 1
      /\ \A k \in 1..n : t[k] = s[k]
      /\ t[n + 1] = r
  BY Extended
<1> HIDE DEF n
<1> SUFFICES ASSUME NEW i \in OnsetsOf(t)
             PROVE  Open(t, i) <=> r.active /\ (i = n + 1 \/ Open(s, i))
  BY DEF n
<1>2. i \in 2..(n + 1) /\ t[i].active /\ ~t[i - 1].active
  BY <1>1 DEF OnsetsOf
<1>3. Open(t, i) <=> \A k \in i..(n + 1) : t[k].active
  BY <1>1 DEF Open
<1>4. CASE i = n + 1
  BY <1>1, <1>2, <1>3, <1>4
<1>5. CASE i # n + 1
  <2>1. i \in 2..n /\ t[i] = s[i] /\ t[i - 1] = s[i - 1]
    BY <1>1, <1>2, <1>5
  <2>2. i \in OnsetsOf(s)
    BY <1>2, <2>1 DEF OnsetsOf, n
  <2>3. Open(s, i) <=> \A k \in i..n : s[k].active
    BY <2>2 DEF Open, n
  <2>4. (\A k \in i..(n + 1) : t[k].active) <=> r.active /\ \A k \in i..n : t[k].active
    <3>1. \A k \in i..(n + 1) : k = n + 1 \/ k \in i..n
      BY <1>1, <2>1
    <3>2. n + 1 \in i..(n + 1) /\ \A k \in i..n : k \in i..(n + 1)
      BY <1>1, <2>1
    <3> QED BY <1>1, <3>1, <3>2
  <2>5. \A k \in i..n : t[k] = s[k]
    BY <1>1, <2>1
  <2> QED BY <1>3, <1>5, <2>3, <2>4, <2>5
<1> QED BY <1>4, <1>5

\* p is the only onset left to confirm, and b hits confirm it.
Decides(s, t, p, b, i) ==
  /\ Open(t, i) /\ (i <= Len(s) => Confirmations(s, i) = {}) => p = i - 1
  /\ \A j : j \in Confirmations(t, i) <=>
              \/ i <= Len(s) /\ j \in Confirmations(s, i)
              \/ j = Len(s) + 1 /\ Open(t, i) /\ b >= Persistence

\* What the detector knows of the onsets before it decides on a frame: p is the open
\* onset without a confirmation, and only a frame with enough hits confirms it.
LEMMA PendingIs ==
  ASSUME NEW s, History(s), NEW r \in Record, NEW t, t = Append(s, r),
         NEW a, NEW o, NEW w, Tracks(s, a, o, w),
         NEW b, b = HitsAfter(r, a, w),
         NEW p, p = PendingOf(r, Len(s), o, w)
  PROVE  /\ p \in -1..Len(s)
         /\ p >= 0 => /\ Open(t, p + 1)
                      /\ p + 1 <= Len(s) => Confirmations(s, p + 1) = {}
         /\ \A i \in OnsetsOf(t) : Decides(s, t, p, b, i)
<1> DEFINE n == Len(s)
<1>1. /\ n \in Nat /\ Len(t) = n + 1 /\ t \in Seq(Record)
      /\ \A k \in 1..n : t[k] = s[k]
      /\ t[n + 1] = r
  <2>1. t \in Seq(Record)
    BY Extended
  <2>2. /\ n \in Nat /\ Len(t) = n + 1
        /\ \A k \in 1..n : t[k] = s[k]
        /\ t[n + 1] = r
    BY Extended
  <2> QED BY <2>1, <2>2
<1>2. /\ OnsetsOf(t) = OnsetsOf(s) \cup (IF r.active /\ ~w THEN {n + 1} ELSE {})
      /\ OnsetsOf(s) \in SUBSET (2..n)
  BY OnsetsGrow DEF Tracks
<1>3. Trailing(t, b)
  BY TrailingGrows DEF Tracks
<1>4. \A i \in OnsetsOf(t) : Open(t, i) <=> r.active /\ (i = n + 1 \/ Open(s, i))
  BY OpenGrows
<1>5. /\ o \in -1..(n - 1) /\ w \in BOOLEAN /\ (w <=> n = 0 \/ s[n].active)
      /\ o >= 0 => Open(s, o + 1) /\ Confirmations(s, o + 1) = {}
      /\ \A i \in OnsetsOf(s) : Open(s, i) /\ Confirmations(s, i) = {} => o = i - 1
  BY DEF Tracks
<1>6. ASSUME NEW i \in OnsetsOf(t)
      PROVE  \A j : j \in Confirmations(t, i) <=>
                      \/ i <= n /\ j \in Confirmations(s, i)
                      \/ j = n + 1 /\ Open(t, i) /\ b >= Persistence
  <2>1. i \in 1..(n + 1)
    BY <1>1, <1>2
  <2>2. \A j : j \in Confirmations(t, i) <=>
                 \/ i <= n /\ j \in Confirmations(s, i)
                 \/ /\ j = n + 1 /\ j >= FirstConfirmation(i)
                    /\ \A k \in i..j : t[k].active
                    /\ \A k \in (j - Persistence + 1)..j : k \in DOMAIN t /\ Predicted(t[k])
    BY <2>1, ConfirmationsGrow
  <2>3. Open(t, i) <=> \A k \in i..(n + 1) : t[k].active
    BY <1>1 DEF Open
  <2> DEFINE P(j) == \A k \in (j - Persistence + 1)..j : k \in DOMAIN t /\ Predicted(t[k])
             A(j) == \A k \in i..j : t[k].active
  <2>4. ASSUME Open(t, i)
        PROVE  n + 1 >= FirstConfirmation(i) /\ P(n + 1) <=> b >= Persistence
    <3>1. Len(t) >= FirstConfirmation(i) /\ P(Len(t)) <=> b >= Persistence
      BY <1>1, <1>3, <2>4, ConfirmsNow
    <3>2. Len(t) = n + 1
      BY <1>1
    <3> HIDE DEF n, P
    <3> QED BY <3>1, <3>2
  <2>5. \A j : j \in Confirmations(t, i) <=>
                 \/ i <= n /\ j \in Confirmations(s, i)
                 \/ j = n + 1 /\ j >= FirstConfirmation(i) /\ A(j) /\ P(j)
    BY <2>2
  <2>6. Open(t, i) <=> A(n + 1)
    BY <2>3
  <2> HIDE DEF n, A, P
  <2> QED BY <2>4, <2>5, <2>6
<1> HIDE DEF n
<1>7. p = IF ~r.active THEN -1 ELSE IF r.active /\ ~w THEN n ELSE o
  BY DEF n, PendingOf
<1>8. ASSUME ~r.active
      PROVE  /\ p \in -1..n
             /\ p >= 0 => Open(t, p + 1) /\ (p + 1 <= n => Confirmations(s, p + 1) = {})
             /\ \A i \in OnsetsOf(t) :
                  Open(t, i) /\ (i <= n => Confirmations(s, i) = {}) => p = i - 1
  BY <1>1, <1>4, <1>7, <1>8
<1>9. ASSUME r.active /\ ~w
      PROVE  /\ p \in -1..n
             /\ p >= 0 => Open(t, p + 1) /\ (p + 1 <= n => Confirmations(s, p + 1) = {})
             /\ \A i \in OnsetsOf(t) :
                  Open(t, i) /\ (i <= n => Confirmations(s, i) = {}) => p = i - 1
  <2>1. p = n /\ n + 1 \in OnsetsOf(t) /\ Open(t, n + 1)
    BY <1>2, <1>4, <1>7, <1>9
  <2>2. ASSUME NEW i \in OnsetsOf(s) PROVE ~Open(s, i)
    <3>1. n \in i..n /\ n # 0
      BY <1>1, <1>2
    <3>2. ~s[n].active
      BY <1>5, <1>9
    <3> QED BY <3>1, <3>2 DEF Open, n
  <2>3. ASSUME NEW i \in OnsetsOf(t), Open(t, i) PROVE i = n + 1
    BY <1>2, <1>4, <2>2, <2>3 DEF Open
  <2>4. \A i \in OnsetsOf(t) : Open(t, i) => p = i - 1
    BY <1>1, <2>1, <2>3
  <2> QED BY <1>1, <2>1, <2>4
<1>10. ASSUME r.active /\ w
       PROVE  /\ p \in -1..n
              /\ p >= 0 => Open(t, p + 1) /\ (p + 1 <= n => Confirmations(s, p + 1) = {})
              /\ \A i \in OnsetsOf(t) :
                   Open(t, i) /\ (i <= n => Confirmations(s, i) = {}) => p = i - 1
  <2>1. p = o /\ OnsetsOf(t) = OnsetsOf(s)
    BY <1>2, <1>7, <1>10
  <2>2. \A i \in OnsetsOf(s) : i <= n /\ i # n + 1
    BY <1>1, <1>2
  <2>3. \A i \in OnsetsOf(t) : Open(t, i) <=> Open(s, i)
    BY <1>4, <1>10, <2>1, <2>2
  <2>4. p >= 0 => Open(t, p + 1) /\ Confirmations(s, p + 1) = {}
    BY <1>5, <2>1, <2>3 DEF Open
  <2>5. p \in -1..n
    BY <1>1, <1>5, <2>1
  <2> QED BY <1>5, <2>1, <2>2, <2>3, <2>4, <2>5
<1>11. /\ p \in -1..n
       /\ p >= 0 => Open(t, p + 1) /\ (p + 1 <= n => Confirmations(s, p + 1) = {})
       /\ \A i \in OnsetsOf(t) :
            Open(t, i) /\ (i <= n => Confirmations(s, i) = {}) => p = i - 1
  BY <1>5, <1>8, <1>9, <1>10
<1>12. \A i \in OnsetsOf(t) : Decides(s, t, p, b, i)
  BY <1>6, <1>11 DEF Decides, n
<1> QED BY <1>11, <1>12 DEF n

\* t is the history s and a record more.
Longer(s, r, t) == History(s) /\ r \in Record /\ r.at = Len(s) /\ t = Append(s, r)

\* What remains pending after a frame, and what it detects, its onset and delay.
Confirmed(p, b) == p >= 0 /\ b >= Persistence
PendingLeft(p, b) == IF Confirmed(p, b) THEN -1 ELSE p
Fresh(l, n, p, b) ==
  IF Confirmed(p, b) THEN {[loop |-> l, onset |-> p, delay |-> n - p]} ELSE {}

\* Online and from the whole history: a frame adds to both what it confirms.
LEMMA DetectorStep ==
  ASSUME NEW s, NEW r, NEW t, Longer(s, r, t), NEW a, NEW o, NEW w, Tracks(s, a, o, w), NEW l
  PROVE  /\ Tracks(t, HitsAfter(r, a, w),
                   PendingLeft(PendingOf(r, Len(s), o, w), HitsAfter(r, a, w)), r.active)
         /\ DelaysOf(l, t) = DelaysOf(l, s) \cup
              Fresh(l, Len(s), PendingOf(r, Len(s), o, w), HitsAfter(r, a, w))
<1>0. History(s) /\ r \in Record /\ r.at = Len(s) /\ t = Append(s, r)
  BY DEF Longer
<1>a. PICK b : b = HitsAfter(r, a, w)
  OBVIOUS
<1>b. PICK p : p = PendingOf(r, Len(s), o, w)
  OBVIOUS
<1> DEFINE n == Len(s)
           detects == p >= 0 /\ b >= Persistence
<1>1. /\ n \in Nat /\ Len(t) = n + 1
      /\ \A k \in 1..n : t[k] = s[k]
      /\ t[n + 1] = r
  BY <1>0, Extended
<1>2. Trailing(t, b)
  BY <1>0, <1>a, TrailingGrows DEF Tracks
<1>3. /\ \A i \in OnsetsOf(t) : i \in OnsetsOf(s) \/ i = n + 1
      /\ OnsetsOf(s) \in SUBSET OnsetsOf(t)
      /\ OnsetsOf(s) \in SUBSET (2..n)
  <2>1. w <=> Len(s) = 0 \/ s[Len(s)].active
    BY DEF Tracks
  <2>2. /\ OnsetsOf(t) = OnsetsOf(s) \cup (IF r.active /\ ~w THEN {n + 1} ELSE {})
        /\ OnsetsOf(s) \in SUBSET (2..n)
    BY <1>0, <2>1, OnsetsGrow
  <2> HIDE DEF n
  <2> QED BY <2>2
<1>4. /\ p \in -1..n
      /\ p >= 0 => /\ Open(t, p + 1)
                   /\ p + 1 <= n => Confirmations(s, p + 1) = {}
  BY <1>0, <1>a, <1>b, PendingIs
<1>5. ASSUME NEW i \in OnsetsOf(t)
      PROVE  /\ Open(t, i) /\ (i <= n => Confirmations(s, i) = {}) => p = i - 1
             /\ \A j : j \in Confirmations(t, i) <=>
                         \/ i <= n /\ j \in Confirmations(s, i)
                         \/ j = n + 1 /\ Open(t, i) /\ b >= Persistence
  <2>1. Decides(s, t, p, b, i)
    BY <1>0, <1>a, <1>b, PendingIs
  <2> QED BY <2>1 DEF Decides
<1>6. Persistence \in Nat /\ b \in Nat
  BY <1>1, <1>2, MetricsAssumption DEF Trailing
<1>7. r.active \in BOOLEAN
  BY <1>0 DEF Record
<1>8. /\ s \in Seq(Record) /\ \A k \in 1..n : s[k].at = k - 1
      /\ DOMAIN s = 1..n
  BY <1>0 DEF History
<1>9. r.at = n
  BY <1>0
<1> HIDE DEF n
<1>10. Tracks(t, b, IF detects THEN -1 ELSE p, r.active)
  <2> DEFINE q == IF detects THEN -1 ELSE p
  <2>1. r.active <=> Len(t) = 0 \/ t[Len(t)].active
    BY <1>1
  <2>2. q \in -1..(Len(t) - 1)
    BY <1>1, <1>4
  <2>3. ASSUME q >= 0 PROVE Open(t, q + 1) /\ Confirmations(t, q + 1) = {}
    <3>1. q = p /\ p >= 0 /\ ~(b >= Persistence)
      BY <2>3
    <3>2. Open(t, p + 1) /\ p + 1 \in OnsetsOf(t)
      BY <1>4, <3>1 DEF Open
    <3>3. \A j : j \notin Confirmations(t, p + 1)
      BY <1>4, <1>5, <3>1, <3>2
    <3> QED BY <3>1, <3>2, <3>3
  <2>4. ASSUME NEW i \in OnsetsOf(t), Open(t, i), Confirmations(t, i) = {} PROVE q = i - 1
    <3>1. i <= n => Confirmations(s, i) = {}
      BY <1>5, <2>4
    <3>2. p = i - 1
      BY <1>5, <2>4, <3>1
    <3>3. ~(b >= Persistence)
      BY <1>5, <2>4
    <3> QED BY <3>2, <3>3
  <2> HIDE DEF q
  <2> QED BY <1>2, <1>7, <2>1, <2>2, <2>3, <2>4 DEF Tracks, q
<1>11. DelaysOf(l, t) = DelaysOf(l, s) \cup
         (IF detects THEN {[loop |-> l, onset |-> p, delay |-> n - p]} ELSE {})
  <2> DEFINE D(u, i) == [loop |-> l, onset |-> u[i].at, delay |-> u[Confirmation(u, i)].at - u[i].at]
             new == [loop |-> l, onset |-> p, delay |-> n - p]
  <2>1. ASSUME NEW i \in OnsetsOf(s), Confirmations(s, i) # {}
        PROVE  i \in OnsetsOf(t) /\ Confirmations(t, i) # {} /\ D(t, i) = D(s, i)
    <3>1. i \in OnsetsOf(t) /\ i \in 2..n
      BY <1>3
    <3>2. Confirmations(s, i) \in SUBSET (1..n)
      <4>1. \A j \in Confirmations(s, i) : j \in FirstConfirmation(i)..n
        BY DEF Confirmations, n
      <4>2. FirstConfirmation(i) \in Nat \ {0}
        BY <1>6, <3>1, MetricsAssumption DEF FirstConfirmation
      <4> QED BY <1>1, <4>1, <4>2
    <3>3. PICK x \in Confirmations(s, i) : \A y \in Confirmations(s, i) : x <= y
      <4>1. IsFiniteSet(Confirmations(s, i)) /\ Confirmations(s, i) \in SUBSET Int
        <5>1. IsFiniteSet(1..n)
          <6>1. 1 \in Int /\ n \in Int
            BY <1>1
          <6> HIDE DEF n
          <6> QED BY <6>1, FS_Interval
        <5>2. IsFiniteSet(Confirmations(s, i))
          BY <3>2, <5>1, FS_Subset
        <5> QED BY <3>2, <5>2
      <4> QED BY <2>1, <4>1, LeastOf
    <3>4. x \in 1..n
      BY <3>2
    <3>5. \A j \in Confirmations(t, i) : j \in Confirmations(s, i) \/ j = n + 1
      BY <1>5, <3>1
    <3>6. x \in Confirmations(t, i)
      BY <1>1, <1>5, <3>1, <3>3
    <3>7. \A y \in Confirmations(t, i) : x <= y
      BY <1>1, <3>3, <3>4, <3>5
    <3>8. Confirmation(s, i) = x
      <4>1. ASSUME NEW z \in Confirmations(s, i), \A y \in Confirmations(s, i) : z <= y PROVE z = x
        BY <3>2, <3>3, <4>1
      <4> QED BY <3>3, <4>1 DEF Confirmation, Min
    <3>9. Confirmation(t, i) = x
      <4>1. ASSUME NEW z \in Confirmations(t, i), \A y \in Confirmations(t, i) : z <= y PROVE z = x
        <5>1. z \in Int
          BY <1>1, <3>2, <3>5
        <5> QED BY <3>4, <3>6, <3>7, <4>1, <5>1
      <4> QED BY <3>6, <3>7, <4>1 DEF Confirmation, Min
    <3>10. t[x] = s[x] /\ t[i] = s[i]
      BY <1>1, <3>1, <3>4
    <3> QED BY <3>1, <3>6, <3>8, <3>9, <3>10
  <2>2. ASSUME NEW i \in OnsetsOf(t), Confirmations(t, i) # {},
               ~(i \in OnsetsOf(s) /\ Confirmations(s, i) # {})
        PROVE  detects /\ D(t, i) = new
    <3>1. i <= n => Confirmations(s, i) = {}
      BY <1>1, <1>3, <2>2
    <3>2. PICK j : j \in Confirmations(t, i)
      BY <2>2
    <3>3. Open(t, i) /\ b >= Persistence /\ p = i - 1
      BY <1>5, <3>1, <3>2
    <3>4. Confirmations(t, i) = {n + 1}
      BY <1>5, <3>1, <3>3
    <3>5. Confirmation(t, i) = n + 1
      <4>1. n + 1 <= n + 1
        BY <1>1
      <4> QED BY <3>4, <4>1 DEF Confirmation, Min
    <3>6. i \in 1..(n + 1)
      BY <1>1, <1>3
    <3>7. t[i].at = i - 1
      BY <1>1, <1>8, <1>9, <3>6
    <3>8. t[n + 1].at = n
      BY <1>1, <1>9
    <3>9. p >= 0 /\ p = t[i].at
      BY <3>3, <3>6, <3>7
    <3> QED BY <3>3, <3>5, <3>8, <3>9
  <2>3. ASSUME detects
        PROVE  \E i \in OnsetsOf(t) : Confirmations(t, i) # {} /\ D(t, i) = new
    <3>1. Open(t, p + 1) /\ p + 1 \in OnsetsOf(t)
      BY <1>4, <2>3 DEF Open
    <3>2. n + 1 \in Confirmations(t, p + 1)
      BY <1>5, <2>3, <3>1
    <3>3. ~(p + 1 \in OnsetsOf(s) /\ Confirmations(s, p + 1) # {})
      BY <1>1, <1>3, <1>4, <2>3
    <3> QED BY <2>2, <3>1, <3>2, <3>3
  <2>4. /\ DelaysOf(l, s) = {D(s, i) : i \in {k \in OnsetsOf(s) : Confirmations(s, k) # {}}}
        /\ DelaysOf(l, t) = {D(t, i) : i \in {k \in OnsetsOf(t) : Confirmations(t, k) # {}}}
    BY DEF DelaysOf
  <2> HIDE DEF D, new, detects
  <2>5. ASSUME NEW d \in DelaysOf(l, s) PROVE d \in DelaysOf(l, t)
    BY <2>1, <2>4
  <2>6. ASSUME NEW d \in DelaysOf(l, t) PROVE d \in DelaysOf(l, s) \/ (detects /\ d = new)
    <3>1. PICK i \in OnsetsOf(t) : Confirmations(t, i) # {} /\ d = D(t, i)
      BY <2>4
    <3>2. CASE i \in OnsetsOf(s) /\ Confirmations(s, i) # {}
      BY <2>1, <2>4, <3>1, <3>2
    <3>3. CASE ~(i \in OnsetsOf(s) /\ Confirmations(s, i) # {})
      BY <2>2, <3>1, <3>3
    <3> QED BY <3>2, <3>3
  <2>7. detects => new \in DelaysOf(l, t)
    BY <2>3, <2>4
  <2>8. DelaysOf(l, t) = DelaysOf(l, s) \cup (IF detects THEN {new} ELSE {})
    BY <2>5, <2>6, <2>7
  <2> QED BY <2>8 DEF new
<1> QED BY <1>a, <1>b, <1>10, <1>11 DEF detects, n, PendingLeft, Fresh, Confirmed

-----------------------------------------------------------------------------
\* The list of records: a record of every loop at each of n times.

\* e lists the positions of a loop's records, in the order of time.
Column(rs, n, l, e) ==
  /\ \A i, j \in 1..n : i < j => e[i] < e[j]
  /\ \A k \in 1..n : rs[e[k]].loop = l /\ rs[e[k]].at = k - 1
  /\ \A i \in 1..Len(rs) : rs[i].loop = l => \E k \in 1..n : e[k] = i

Grid(rs, n) ==
  rs \in Seq(Record) /\ n \in Nat /\ \A l \in Loop : \E e \in [1..n -> 1..Len(rs)] : Column(rs, n, l, e)

OfLoop(rs, l) == Filter(rs, LAMBDA r : r.loop = l)

\* rs, n and e are what Column is about.
IsColumn(rs, n, l, e) ==
  rs \in Seq(Record) /\ n \in Nat /\ e \in [1..n -> 1..Len(rs)] /\ Column(rs, n, l, e)

IsGroup(rs, n, l, e) == OfLoop(rs, l) = [k \in 1..n |-> rs[e[k]]]

\* A column is the group of its loop.
LEMMA ColumnIsGroup ==
  ASSUME NEW rs, NEW n, NEW l, NEW e, IsColumn(rs, n, l, e)
  PROVE  IsGroup(rs, n, l, e)
<1> USE DEF IsColumn
<1> DEFINE I == {i \in DOMAIN rs : rs[i].loop = l}
<1>1. DOMAIN rs = 1..Len(rs) /\ Len(rs) \in Nat
  OBVIOUS
<1>2. I \in SUBSET Int /\ e \in [1..n -> I]
  BY <1>1 DEF Column
<1>3. /\ \A i, j \in 1..n : i < j => e[i] < e[j]
      /\ \A i \in I : \E k \in 1..n : e[k] = i
  BY <1>1 DEF Column
<1>4. OfLoop(rs, l) = [k \in 1..Cardinality(I) |-> rs[Nth(I, k)]]
  BY DEF OfLoop, Filter
<1> HIDE DEF I
<1>5. Cardinality(I) = n /\ \A k \in 1..n : Nth(I, k) = e[k]
  <2>1. Lines(I, n, e)
    BY <1>2, <1>3 DEF Lines
  <2> QED BY <2>1, NthIs
<1> QED BY <1>4, <1>5 DEF IsGroup

LEMMA GridHistory ==
  ASSUME NEW rs, NEW n, Grid(rs, n), NEW l \in Loop
  PROVE  History(OfLoop(rs, l)) /\ Len(OfLoop(rs, l)) = n
<1>1. rs \in Seq(Record) /\ n \in Nat
  BY DEF Grid
<1>2. PICK e \in [1..n -> 1..Len(rs)] : Column(rs, n, l, e)
  BY DEF Grid
<1>3. OfLoop(rs, l) = [k \in 1..n |-> rs[e[k]]]
  <2>1. IsColumn(rs, n, l, e)
    BY <1>1, <1>2 DEF IsColumn
  <2>2. IsGroup(rs, n, l, e)
    BY <2>1, ColumnIsGroup
  <2> QED BY <2>2 DEF IsGroup
<1>4. \A k \in 1..n : rs[e[k]] \in Record /\ rs[e[k]].at = k - 1
  BY <1>1, <1>2 DEF Column
<1>5. OfLoop(rs, l) \in [1..n -> Record] /\ \A k \in 1..n : OfLoop(rs, l)[k].at = k - 1
  BY <1>3, <1>4
<1>6. \A f \in [1..n -> Record] : f \in Seq(Record) /\ Len(f) = n
  BY <1>1
<1> QED BY <1>5, <1>6 DEF History

\* One more record of every loop.
IsFrame(frame, n) ==
  frame \in [Loop -> Record] /\ \A l \in Loop : frame[l].loop = l /\ frame[l].at = n

\* qs is rs and a frame.
Extends(rs, frame, qs) ==
  /\ qs \in Seq(Record) /\ Len(qs) = Len(rs) + Loops
  /\ \A i \in 1..Len(rs) : qs[i] = rs[i]
  /\ \A l \in 1..Loops : qs[Len(rs) + l] = frame[l]

LEMMA FrameExtends ==
  ASSUME NEW rs \in Seq(Record), NEW frame \in [1..Loops -> Record]
  PROVE  Extends(rs, frame, rs \o frame)
<1>1. Loops \in Nat /\ Len(rs) \in Nat
  BY MetricsAssumption
<1>2. frame \in Seq(Record) /\ Len(frame) = Loops
  BY <1>1
<1>3. rs \o frame \in Seq(Record) /\ Len(rs \o frame) = Len(rs) + Loops
  BY <1>2
<1>4. \A i \in 1..Len(rs) : (rs \o frame)[i] = rs[i]
  BY <1>1, <1>2
<1>5. ASSUME NEW l \in 1..Loops PROVE (rs \o frame)[Len(rs) + l] = frame[l]
  <2>1. Len(rs) + l \in 1..(Len(rs) + Loops) /\ Len(rs) + l > Len(rs) /\ (Len(rs) + l) - Len(rs) = l
    BY <1>1
  <2> QED BY <1>1, <1>2, <2>1
<1> QED BY <1>3, <1>4, <1>5 DEF Extends

\* A frame adds its record to the group of every loop.
LEMMA GroupsGrow ==
  ASSUME NEW rs, NEW n, Grid(rs, n), NEW frame, IsFrame(frame, n),
         NEW qs, Extends(rs, frame, qs)
  PROVE  /\ Grid(qs, n + 1)
         /\ \A l \in Loop : OfLoop(qs, l) = Append(OfLoop(rs, l), frame[l])
         /\ qs # <<>> /\ qs[Len(qs)].at = n
<1>1. rs \in Seq(Record) /\ n \in Nat /\ Len(rs) \in Nat /\ DOMAIN rs = 1..Len(rs)
  BY DEF Grid
<1>2. Loops \in Nat \ {0} /\ Loop = 1..Loops
  BY MetricsAssumption DEF Loop
<1> DEFINE L == Len(rs)
<1>4. /\ qs \in Seq(Record) /\ Len(qs) = L + Loops
      /\ \A i \in 1..L : qs[i] = rs[i]
      /\ \A l \in Loop : qs[L + l] = frame[l]
  BY <1>2 DEF Extends
<1> HIDE DEF L
<1>5. L \in Nat
  BY <1>1 DEF L
<1>6. ASSUME NEW l \in Loop
      PROVE  /\ \E e \in [1..(n + 1) -> 1..Len(qs)] : Column(qs, n + 1, l, e)
             /\ OfLoop(qs, l) = Append(OfLoop(rs, l), frame[l])
  <2>1. PICK e \in [1..n -> 1..L] : Column(rs, n, l, e)
    BY DEF Grid, L
  <2> DEFINE g == [k \in 1..(n + 1) |-> IF k = n + 1 THEN L + l ELSE e[k]]
  <2>2. \A k \in 1..n : k # n + 1 /\ k \in 1..(n + 1) /\ e[k] \in 1..L
    BY <1>1, <2>1
  <2>3. /\ \A k \in 1..n : g[k] = e[k]
        /\ g[n + 1] = L + l
        /\ \A k \in 1..(n + 1) : k \in 1..n \/ k = n + 1
    BY <1>1, <2>2
  <2>4. g \in [1..(n + 1) -> 1..Len(qs)]
    BY <1>1, <1>2, <1>4, <1>5, <2>1
  <2> HIDE DEF g
  <2>5. \A i, j \in 1..(n + 1) : i < j => g[i] < g[j]
    <3> SUFFICES ASSUME NEW i \in 1..(n + 1), NEW j \in 1..(n + 1), i < j PROVE g[i] < g[j]
      OBVIOUS
    <3>1. i \in 1..n
      BY <1>1
    <3>2. CASE j = n + 1
      <4>1. e[i] \in 1..L /\ g[i] = e[i] /\ g[j] = L + l
        BY <2>2, <2>3, <3>1, <3>2
      <4>2. PICK x \in 1..L : x = e[i]
        BY <4>1
      <4>3. x < L + l
        BY <1>2, <1>5
      <4> QED BY <4>1, <4>2, <4>3
    <3>3. CASE j \in 1..n
      BY <2>1, <2>3, <3>1, <3>3 DEF Column
    <3> QED BY <2>3, <3>2, <3>3
  <2>6. \A k \in 1..(n + 1) : qs[g[k]].loop = l /\ qs[g[k]].at = k - 1
    <3> SUFFICES ASSUME NEW k \in 1..(n + 1) PROVE qs[g[k]].loop = l /\ qs[g[k]].at = k - 1
      OBVIOUS
    <3>1. CASE k = n + 1
      <4>1. g[k] = L + l /\ k - 1 = n
        BY <1>1, <2>3, <3>1
      <4>2. qs[g[k]] = frame[l]
        BY <1>4, <4>1
      <4> QED BY <4>1, <4>2 DEF IsFrame
    <3>2. CASE k \in 1..n
      <4>1. qs[g[k]] = rs[e[k]]
        BY <1>4, <2>2, <2>3, <3>2
      <4> QED BY <2>1, <3>2, <4>1 DEF Column
    <3> QED BY <2>3, <3>1, <3>2
  <2>7. \A i \in 1..Len(qs) : qs[i].loop = l => \E k \in 1..(n + 1) : g[k] = i
    <3> SUFFICES ASSUME NEW i \in 1..Len(qs), qs[i].loop = l PROVE \E k \in 1..(n + 1) : g[k] = i
      OBVIOUS
    <3>1. CASE i \in 1..L
      <4>1. rs[i].loop = l
        BY <1>4, <3>1
      <4>2. PICK k \in 1..n : e[k] = i
        BY <2>1, <3>1, <4>1 DEF Column, L
      <4> QED BY <2>2, <2>3, <4>2
    <3>2. CASE i \notin 1..L
      <4>1. PICK x \in Loop : i = L + x
        <5>1. i - L \in Loop /\ i = L + (i - L)
          BY <1>2, <1>4, <1>5, <3>2
        <5> QED BY <5>1
      <4>2. qs[i] = frame[x] /\ frame[x].loop = x
        BY <1>4, <4>1 DEF IsFrame
      <4>3. g[n + 1] = i /\ n + 1 \in 1..(n + 1)
        BY <1>1, <2>3, <4>1, <4>2
      <4> QED BY <4>3
    <3> QED BY <3>1, <3>2
  <2>8. Column(qs, n + 1, l, g)
    BY <1>1, <2>5, <2>6, <2>7 DEF Column
  <2>9. OfLoop(rs, l) = [k \in 1..n |-> rs[e[k]]]
    <3>1. e \in [1..n -> 1..Len(rs)]
      BY <2>1 DEF L
    <3>2. IsColumn(rs, n, l, e)
      BY <1>1, <2>1, <3>1 DEF IsColumn
    <3>3. IsGroup(rs, n, l, e)
      BY <3>2, ColumnIsGroup
    <3> QED BY <3>3 DEF IsGroup
  <2>10. OfLoop(qs, l) = [k \in 1..(n + 1) |-> qs[g[k]]]
    <3>1. n + 1 \in Nat /\ qs \in Seq(Record)
      BY <1>1, <1>4
    <3>2. IsColumn(qs, n + 1, l, g)
      BY <2>4, <2>8, <3>1 DEF IsColumn
    <3>3. IsGroup(qs, n + 1, l, g)
      BY <3>2, ColumnIsGroup
    <3> QED BY <3>3 DEF IsGroup
  <2>11. /\ \A k \in 1..n : qs[g[k]] = rs[e[k]]
         /\ qs[g[n + 1]] = frame[l]
    BY <1>4, <2>2, <2>3
  <2>12. History(OfLoop(rs, l)) /\ Len(OfLoop(rs, l)) = n
    BY GridHistory
  <2>13. frame[l] \in Record
    BY DEF IsFrame
  <2>14. OfLoop(qs, l) = Append(OfLoop(rs, l), frame[l])
    <3> DEFINE u == OfLoop(rs, l)
               v == Append(u, frame[l])
    <3>1. u \in Seq(Record) /\ Len(u) = n
      BY <2>12 DEF History
    <3>2. v = [k \in 1..(n + 1) |-> IF k = n + 1 THEN frame[l] ELSE u[k]]
      <4> HIDE DEF u
      <4> QED BY <1>1, <2>13, <3>1
    <3>3. \A k \in 1..n : u[k] = rs[e[k]]
      BY <2>9
    <3> HIDE DEF u, v
    <3>4. \A k \in 1..(n + 1) : qs[g[k]] = IF k = n + 1 THEN frame[l] ELSE u[k]
      BY <2>3, <2>11, <3>3
    <3> QED BY <2>10, <3>2, <3>4 DEF u, v
  <2> QED BY <2>4, <2>8, <2>14
<1>7. qs # <<>> /\ qs[Len(qs)].at = n
  <2>1. Loops \in Loop
    BY <1>2
  <2>2. qs[L + Loops] = frame[Loops] /\ Len(qs) # 0
    BY <1>2, <1>4, <1>5, <2>1
  <2> QED BY <1>4, <2>1, <2>2 DEF IsFrame
<1>8. Grid(qs, n + 1)
  <2>1. n + 1 \in Nat /\ qs \in Seq(Record)
    BY <1>1, <1>4
  <2> QED BY <1>6, <2>1 DEF Grid
<1> QED BY <1>6, <1>7, <1>8

\* New onsets of a frame are one for each loop of B.
LEMMA PairsGrow ==
  ASSUME NEW n \in Nat, NEW O \in [Loop -> SUBSET (2..n)], NEW B \in SUBSET Loop,
         NEW Q, Q = [l \in Loop |-> O[l] \cup (IF l \in B THEN {n + 1} ELSE {})]
  PROVE  /\ Cardinality(UNION {{l} \X O[l] : l \in Loop}) \in Nat
         /\ Cardinality(UNION {{l} \X Q[l] : l \in Loop})
              = Cardinality(UNION {{l} \X O[l] : l \in Loop}) + Cardinality(B)
<1> DEFINE before == UNION {{l} \X O[l] : l \in Loop}
           after == UNION {{l} \X Q[l] : l \in Loop}
           new == {<<l, n + 1>> : l \in B}
<1>1. IsFiniteSet(Loop) /\ IsFiniteSet(2..n)
  BY FS_Interval, MetricsAssumption DEF Loop
<1>2. IsFiniteSet(Loop \X (2..n))
  BY <1>1, FS_Product
<1>3. before \in SUBSET (Loop \X (2..n))
  OBVIOUS
<1>4. IsFiniteSet(before)
  BY <1>2, <1>3, FS_Subset
<1>5. IsFiniteSet(B)
  BY <1>1, FS_Subset
<1>6. IsFiniteSet(new) /\ Cardinality(new) = Cardinality(B)
  <2> DEFINE f == [l \in B |-> <<l, n + 1>>]
  <2>1. f \in Bijection(B, new)
    BY DEF Bijection, Injection, Surjection, IsInjective
  <2> HIDE DEF f, new
  <2> QED BY <1>5, <2>1, FS_Bijection DEF ExistsBijection
<1>7. after = before \cup new
  <2>1. ASSUME NEW x \in after PROVE x \in before \cup new
    <3>1. PICK l \in Loop : x \in {l} \X Q[l]
      OBVIOUS
    <3>2. PICK y \in Q[l] : x = <<l, y>>
      BY <3>1
    <3>3. CASE y \in O[l]
      BY <3>2, <3>3
    <3>4. CASE y \notin O[l]
      <4>1. l \in B /\ y = n + 1
        BY <3>2, <3>4
      <4> QED BY <3>2, <4>1
    <3> QED BY <3>3, <3>4
  <2>2. ASSUME NEW x \in before PROVE x \in after
    <3>1. PICK l \in Loop : x \in {l} \X O[l]
      OBVIOUS
    <3>2. O[l] \subseteq Q[l]
      OBVIOUS
    <3> QED BY <3>1, <3>2
  <2>3. ASSUME NEW x \in new PROVE x \in after
    <3>1. PICK l \in B : x = <<l, n + 1>>
      OBVIOUS
    <3>2. n + 1 \in Q[l] /\ l \in Loop
      OBVIOUS
    <3> QED BY <3>1, <3>2
  <2> QED BY <2>1, <2>2, <2>3
<1>8. before \cap new = {}
  <2> SUFFICES ASSUME NEW l \in B, <<l, n + 1>> \in before PROVE FALSE
    OBVIOUS
  <2>1. n + 1 \in 2..n
    BY <1>3
  <2> QED BY <2>1
<1> HIDE DEF before, after, new
<1>9. Cardinality(before) \in Nat /\ Cardinality(new) \in Nat
  BY <1>4, <1>6, FS_CardinalityType
<1>10. Cardinality(before \cup new) = Cardinality(before) + Cardinality(new) - Cardinality(before \cap new)
  BY <1>4, <1>6, FS_Union
<1>11. Cardinality(before \cap new) = 0
  BY <1>8, FS_EmptySet
<1>12. Cardinality(after) = Cardinality(before) + Cardinality(B)
  BY <1>6, <1>7, <1>9, <1>10, <1>11
<1> QED BY <1>9, <1>12 DEF before, after

-----------------------------------------------------------------------------
\* The online detector has seen every loop's group, and agrees with the code.
MetricsInv ==
  /\ Grid(records, Elapsed)
  /\ \A l \in Loop : Tracks(OfLoop(records, l), run[l], onset[l], was[l])
  /\ DetectionAgrees

LEMMA GroupIs ==
  \A l : Group(l) = OfLoop(records, l) /\ Delays(l) = DelaysOf(l, OfLoop(records, l))
BY DEF Group, OfLoop, Delays, DelaysOf

LEMMA GroupIsNext ==
  \A l : Group(l)' = OfLoop(records', l) /\ Delays(l)' = DelaysOf(l, OfLoop(records', l))
<1>1. \A l : Group(l)' = OfLoop(records', l)
  BY DEF Group, OfLoop, Filter
<1>2. ASSUME NEW l PROVE Delays(l)' = DelaysOf(l, OfLoop(records', l))
  <2>1. \A s : s = Group(l)' => Delays(l)' = DelaysOf(l, s)
    BY DEF Delays, DelaysOf
  <2> QED BY <1>1, <2>1
<1> QED BY <1>1, <1>2

LEMMA MetricsInvInit ==
  ASSUME MetricsInit
  PROVE  MetricsInv
<1>1. records = <<>> /\ Elapsed = 0
  BY DEF MetricsInit, Elapsed
<1>2. Grid(<<>>, 0)
  <2>1. ASSUME NEW l \in Loop PROVE \E e \in [1..0 -> 1..Len(<<>>)] : Column(<<>>, 0, l, e)
    <3> DEFINE e == [k \in 1..0 |-> k]
    <3>1. e \in [1..0 -> 1..Len(<<>>)] /\ Column(<<>>, 0, l, e)
      BY DEF Column
    <3> QED BY <3>1
  <2> QED BY <2>1 DEF Grid
<1>3. ASSUME NEW l \in Loop
      PROVE  /\ History(OfLoop(<<>>, l)) /\ Len(OfLoop(<<>>, l)) = 0
             /\ OnsetsOf(OfLoop(<<>>, l)) = {}
             /\ DelaysOf(l, OfLoop(<<>>, l)) = {}
  <2>1. History(OfLoop(<<>>, l)) /\ Len(OfLoop(<<>>, l)) = 0
    BY <1>2, GridHistory
  <2>2. OnsetsOf(OfLoop(<<>>, l)) = {}
    BY <2>1 DEF OnsetsOf
  <2> QED BY <2>1, <2>2 DEF DelaysOf
<1>4. ASSUME NEW l \in Loop PROVE Tracks(OfLoop(<<>>, l), 0, -1, TRUE)
  <2> DEFINE s == OfLoop(<<>>, l)
  <2>1. Len(s) = 0 /\ OnsetsOf(s) = {}
    BY <1>3
  <2> HIDE DEF s
  <2>2. Trailing(s, 0)
    BY <2>1 DEF Trailing
  <2> QED BY <2>1, <2>2 DEF Tracks, s
<1>5. \A l \in Loop : run[l] = 0 /\ onset[l] = -1 /\ was[l] = TRUE
  BY DEF MetricsInit
<1>6. DetectionAgrees
  <2>1. \A l \in Loop : Delays(l) = {} /\ {l} \X OnsetsOf(Group(l)) = {}
    BY <1>1, <1>3, GroupIs
  <2>2. UNION {Delays(l) : l \in Loop} = {} /\ UNION {{l} \X OnsetsOf(Group(l)) : l \in Loop} = {}
    BY <2>1
  <2> QED BY <2>2, FS_EmptySet DEF DetectionAgrees, MetricsInit
<1> QED BY <1>1, <1>2, <1>4, <1>5, <1>6 DEF MetricsInv

LEMMA FramesAreFrames ==
  ASSUME Elapsed \in Nat, NEW frame \in Frames
  PROVE  IsFrame(frame, Elapsed) /\ frame \in [1..Loops -> Record]
<1>1. PICK active \in [Loop -> BOOLEAN], score \in [Loop -> Scores] :
        frame = [l \in Loop |-> [loop |-> l, at |-> Elapsed, active |-> active[l], score |-> score[l]]]
  BY DEF Frames
<1>2. Scores \in SUBSET Int
  BY MetricsAssumption
<1>3. PICK n \in Nat : n = Elapsed
  OBVIOUS
<1> QED BY <1>1, <1>2, <1>3 DEF IsFrame, Record, Loop

\* A frame keeps the detector in step with the code.
LEMMA AddFrameInv ==
  ASSUME MetricsInv, NEW frame \in Frames, AddFrame(frame)
  PROVE  MetricsInv' /\ \A l \in Loop : Delays(l) \subseteq Delays(l)'
<1>1. PICK n \in Nat : n = Elapsed
  BY DEF MetricsInv, Grid
<1>2. Grid(records, n) /\ IsFrame(frame, n) /\ frame \in [1..Loops -> Record] /\ records \in Seq(Record)
  BY <1>1, FramesAreFrames DEF MetricsInv, Grid
<1>3. PICK qs : qs = records'
  OBVIOUS
<1>4. Extends(records, frame, qs)
  BY <1>2, <1>3, FrameExtends DEF AddFrame
<1>5. /\ Grid(qs, n + 1)
      /\ \A l \in Loop : OfLoop(qs, l) = Append(OfLoop(records, l), frame[l])
      /\ qs # <<>> /\ qs[Len(qs)].at = n
  BY <1>2, <1>4, GroupsGrow
<1>6. Elapsed' = n + 1
  BY <1>3, <1>5 DEF Elapsed
<1> DEFINE S(l) == OfLoop(records, l)
           b(l) == HitsAfter(frame[l], run[l], was[l])
           p(l) == PendingOf(frame[l], n, onset[l], was[l])
           detects(l) == Confirmed(p(l), b(l))
           fresh(l) == Fresh(l, n, p(l), b(l))
<1>7. ASSUME NEW l \in Loop
      PROVE  /\ frame[l] \in Record /\ frame[l].loop = l /\ frame[l].at = n
             /\ History(S(l)) /\ Len(S(l)) = n
             /\ Tracks(S(l), run[l], onset[l], was[l])
  BY <1>2, GridHistory DEF IsFrame, MetricsInv
<1>8. ASSUME NEW l \in Loop
      PROVE  /\ Tracks(OfLoop(qs, l), b(l), PendingLeft(p(l), b(l)), frame[l].active)
             /\ DelaysOf(l, OfLoop(qs, l)) = DelaysOf(l, S(l)) \cup fresh(l)
  <2> DEFINE r == frame[l]
             s == S(l)
             t == OfLoop(qs, l)
  <2>1. Longer(s, r, t) /\ Tracks(s, run[l], onset[l], was[l]) /\ n = Len(s)
    BY <1>5, <1>7 DEF Longer
  <2> HIDE DEF r, s, t
  <2>2. /\ Tracks(t, HitsAfter(r, run[l], was[l]),
                  PendingLeft(PendingOf(r, Len(s), onset[l], was[l]), HitsAfter(r, run[l], was[l])), r.active)
        /\ DelaysOf(l, t) = DelaysOf(l, s) \cup
             Fresh(l, Len(s), PendingOf(r, Len(s), onset[l], was[l]), HitsAfter(r, run[l], was[l]))
    BY <2>1, DetectorStep
  <2> QED BY <2>1, <2>2 DEF r, s, t
<1>9. ASSUME NEW l \in Loop
      PROVE  /\ RunAfter(frame[l]) = b(l) /\ PendingAfter(frame[l]) = p(l)
             /\ Begins(frame[l]) <=> frame[l].active /\ ~was[l]
             /\ Detects(frame[l]) <=> detects(l)
  <2>1. Begins(frame[l]) <=> frame[l].active /\ ~was[l]
    BY <1>7 DEF Begins
  <2>2. RunAfter(frame[l]) = b(l)
    BY <1>7 DEF RunAfter, HitsAfter, Hit, Begins
  <2>3. PendingAfter(frame[l]) = p(l)
    BY <1>7 DEF PendingAfter, PendingOf, Begins
  <2> QED BY <2>1, <2>2, <2>3 DEF Detects, Confirmed
<1> HIDE DEF b, p
<1>10. \A l \in Loop : /\ run'[l] = b(l) /\ was'[l] = frame[l].active
                       /\ onset'[l] = PendingLeft(p(l), b(l))
  BY <1>9 DEF AddFrame, PendingLeft
<1>11. \A l \in Loop : Tracks(OfLoop(qs, l), run'[l], onset'[l], was'[l])
  BY <1>8, <1>10
<1> DEFINE D(l) == DelaysOf(l, OfLoop(qs, l))
<1>12. found' = UNION {D(l) : l \in Loop}
  <2> DEFINE new == {[loop |-> l, onset |-> p(l), delay |-> n - p(l)] : l \in {d \in Loop : detects(d)}}
  <2>1. found' = found \cup new
    BY <1>1, <1>9 DEF AddFrame
  <2>2. found = UNION {DelaysOf(l, S(l)) : l \in Loop}
    BY GroupIs DEF MetricsInv, DetectionAgrees
  <2>3. \A l \in Loop : D(l) = DelaysOf(l, S(l)) \cup fresh(l)
    BY <1>8
  <2>4. ASSUME NEW x \in new PROVE \E l \in Loop : x \in fresh(l)
    BY DEF fresh, Fresh
  <2>5. ASSUME NEW l \in Loop, NEW x \in fresh(l) PROVE x \in new
    BY <2>5 DEF fresh, Fresh
  <2> HIDE DEF S, fresh, D, new
  <2>6. ASSUME NEW x PROVE x \in found \cup new <=> \E l \in Loop : x \in D(l)
    BY <2>2, <2>3, <2>4, <2>5
  <2> QED BY <2>1, <2>6
<1>13. \A l \in Loop : Delays(l) \subseteq Delays(l)'
  BY <1>3, <1>8, GroupIs, GroupIsNext
<1>14. onsets' = Cardinality(UNION {{l} \X OnsetsOf(OfLoop(qs, l)) : l \in Loop})
  <2> DEFINE O == [l \in Loop |-> OnsetsOf(S(l))]
             B == {l \in Loop : Begins(frame[l])}
             Q == [l \in Loop |-> O[l] \cup (IF l \in B THEN {n + 1} ELSE {})]
  <2>1. ASSUME NEW l \in Loop
        PROVE  /\ OnsetsOf(OfLoop(qs, l)) = OnsetsOf(S(l)) \cup (IF frame[l].active /\ ~was[l] THEN {n + 1} ELSE {})
               /\ OnsetsOf(S(l)) \in SUBSET (2..n)
    <3>1. was[l] <=> Len(S(l)) = 0 \/ S(l)[Len(S(l))].active
      BY <1>7 DEF Tracks
    <3> DEFINE s == S(l)
               t == OfLoop(qs, l)
    <3>2. History(s) /\ frame[l] \in Record /\ t = Append(s, frame[l]) /\ Len(s) = n
      BY <1>5, <1>7
    <3> HIDE DEF s, t
    <3>3. /\ OnsetsOf(t) = OnsetsOf(s) \cup (IF frame[l].active /\ ~was[l] THEN {Len(s) + 1} ELSE {})
          /\ OnsetsOf(s) \in SUBSET (2..Len(s))
      BY <3>1, <3>2, OnsetsGrow DEF s
    <3> QED BY <3>2, <3>3 DEF s, t
  <2>2. O \in [Loop -> SUBSET (2..n)] /\ B \in SUBSET Loop
    BY <2>1
  <2>3. \A l \in Loop : Q[l] = OnsetsOf(OfLoop(qs, l)) /\ O[l] = OnsetsOf(S(l))
    BY <1>9, <2>1
  <2>4. /\ Cardinality(UNION {{l} \X O[l] : l \in Loop}) \in Nat
        /\ Cardinality(UNION {{l} \X Q[l] : l \in Loop})
             = Cardinality(UNION {{l} \X O[l] : l \in Loop}) + Cardinality(B)
    <3>1. Q = [l \in Loop |-> O[l] \cup (IF l \in B THEN {n + 1} ELSE {})]
      OBVIOUS
    <3> HIDE DEF O, B, Q
    <3> QED BY <2>2, <3>1, PairsGrow
  <2>5. UNION {{l} \X Q[l] : l \in Loop} = UNION {{l} \X OnsetsOf(OfLoop(qs, l)) : l \in Loop}
    BY <2>3
  <2>6. UNION {{l} \X O[l] : l \in Loop} = UNION {{l} \X OnsetsOf(S(l)) : l \in Loop}
    BY <2>3
  <2>7. onsets = Cardinality(UNION {{l} \X OnsetsOf(S(l)) : l \in Loop})
    BY GroupIs DEF MetricsInv, DetectionAgrees
  <2>8. onsets' = onsets + Cardinality(B)
    BY DEF AddFrame
  <2> HIDE DEF O, B, Q, S
  <2> QED BY <2>4, <2>5, <2>6, <2>7, <2>8
<1>15. DetectionAgrees'
  <2>1. onsets' = Cardinality(UNION {{l} \X OnsetsOf(Group(l)') : l \in Loop})
    BY <1>3, <1>14, GroupIsNext
  <2>2. found' = UNION {Delays(l)' : l \in Loop}
    BY <1>3, <1>12, GroupIsNext
  <2> QED BY <2>1, <2>2 DEF DetectionAgrees
<1>16. Grid(records', Elapsed') /\ \A l \in Loop : Tracks(OfLoop(records', l), run'[l], onset'[l], was'[l])
  BY <1>3, <1>5, <1>6, <1>11
<1> QED BY <1>13, <1>15, <1>16 DEF MetricsInv

\* For every number of loops, persistence and history: the detections, their delays
\* and the onsets of the whole record are those of a detector that sees each frame
\* once (_temporal_detection_metrics).
THEOREM DetectionIsOnline == MetricsSpec => []MetricsInv
<1>1. MetricsInv /\ [MetricsNext]_metricsVars => MetricsInv'
  <2> SUFFICES ASSUME MetricsInv, [MetricsNext]_metricsVars PROVE MetricsInv'
    OBVIOUS
  <2>1. CASE MetricsNext
    BY <2>1, AddFrameInv DEF MetricsNext
  <2>2. CASE UNCHANGED metricsVars
    <3>1. /\ records' = records /\ run' = run /\ onset' = onset /\ was' = was
          /\ onsets' = onsets /\ found' = found
      BY <2>2 DEF metricsVars, online
    <3>2. Elapsed' = Elapsed
      BY <3>1 DEF Elapsed
    <3>3. \A l : Group(l)' = Group(l) /\ Delays(l)' = Delays(l)
      BY <3>1, GroupIs, GroupIsNext
    <3>4. DetectionAgrees'
      BY <3>1, <3>3 DEF MetricsInv, DetectionAgrees
    <3> QED BY <3>1, <3>2, <3>4 DEF MetricsInv
  <2> QED BY <2>1, <2>2
<1> QED BY <1>1, MetricsInvInit, PTL DEF MetricsSpec

\* Hence DetectionAgrees itself.
THEOREM DetectionsAgree == MetricsSpec => []DetectionAgrees
<1>1. MetricsInv => DetectionAgrees
  BY DEF MetricsInv
<1> QED BY <1>1, DetectionIsOnline, PTL

\* A later frame neither withdraws nor changes a detection, in any study.
THEOREM DetectionsStay == MetricsSpec => DetectionCausal
<1>1. MetricsInv /\ [MetricsNext]_metricsVars =>
        [UNION {Delays(l) : l \in Loop} \subseteq UNION {Delays(l)' : l \in Loop}]_metricsVars
  <2> SUFFICES ASSUME MetricsInv, MetricsNext
               PROVE  UNION {Delays(l) : l \in Loop} \subseteq UNION {Delays(l)' : l \in Loop}
    OBVIOUS
  <2>1. \A l \in Loop : Delays(l) \subseteq Delays(l)'
    BY AddFrameInv DEF MetricsNext
  <2> QED BY <2>1
<1> QED BY <1>1, DetectionIsOnline, PTL DEF MetricsSpec, DetectionCausal

-----------------------------------------------------------------------------
\* Types: no detection comes before Persistence frames of its activation, none is delayed
\* by more frames than there are.

Maps(f) == f = [l \in Loop |-> f[l]]

Sized ==
  /\ Elapsed <= MaxFrames /\ onsets \in Nat
  /\ Maps(run) /\ Maps(onset) /\ Maps(was)
  /\ \A i \in 1..Len(records) : records[i].score \in Scores

LEMMA SizedInit == MetricsInit => Sized
BY MetricsAssumption DEF MetricsInit, Sized, Maps, Elapsed

LEMMA SizedStep ==
  ASSUME MetricsInv, Sized, NEW frame \in Frames, AddFrame(frame)
  PROVE  Sized'
<1>1. PICK n \in Nat : n = Elapsed
  BY DEF MetricsInv, Grid
<1>2. /\ Grid(records, n) /\ IsFrame(frame, n) /\ frame \in [1..Loops -> Record]
      /\ records \in Seq(Record) /\ n < MaxFrames
  BY <1>1, FramesAreFrames DEF MetricsInv, Grid, AddFrame
<1>3. PICK qs : qs = records'
  OBVIOUS
<1>4. Extends(records, frame, qs)
  BY <1>2, <1>3, FrameExtends DEF AddFrame
<1>5. Elapsed' = n + 1
  BY <1>2, <1>3, <1>4, GroupsGrow DEF Elapsed
<1>6. Elapsed' <= MaxFrames
  BY <1>2, <1>5, MetricsAssumption
<1>7. onsets' \in Nat
  <2>1. IsFiniteSet(Loop)
    BY MetricsAssumption, FS_Interval DEF Loop
  <2>2. \A L \in SUBSET Loop : Cardinality(L) \in Nat
    BY <2>1, FS_Subset, FS_CardinalityType
  <2>3. Cardinality({l \in Loop : Begins(frame[l])}) \in Nat
    BY <2>2
  <2> QED BY <2>3 DEF AddFrame, Sized
<1>8. Maps(run)' /\ Maps(onset)' /\ Maps(was)'
  BY DEF AddFrame, Maps
<1>9. ASSUME NEW i \in 1..Len(qs) PROVE qs[i].score \in Scores
  <2>1. Len(records) \in Nat /\ Loops \in Nat /\ Len(qs) = Len(records) + Loops
    BY <1>2, <1>4, MetricsAssumption DEF Extends
  <2>2. CASE i <= Len(records)
    <3>1. i \in 1..Len(records) /\ qs[i] = records[i]
      BY <1>4, <2>1, <2>2 DEF Extends
    <3> QED BY <3>1 DEF Sized
  <2>3. CASE i > Len(records)
    <3>1. PICK l \in Loop : l = i - Len(records)
      BY <2>1, <2>3 DEF Loop
    <3>2. l \in 1..Loops /\ Len(records) + l = i
      BY <2>1, <3>1 DEF Loop
    <3>3. qs[i] = frame[l]
      BY <1>4, <3>2 DEF Extends
    <3>4. frame[l].score \in Scores
      BY DEF Frames
    <3> QED BY <3>3, <3>4
  <2> QED BY <2>1, <2>2, <2>3
<1> QED BY <1>3, <1>6, <1>7, <1>8, <1>9 DEF Sized

\* A detection of a history of n frames.
LEMMA DelayTypes ==
  ASSUME NEW s, History(s), NEW l \in Loop, NEW d \in DelaysOf(l, s)
  PROVE  d \in [loop : Loop, onset : 0..Len(s), delay : (Persistence - 1)..Len(s)]
<1>1. PICK i \in OnsetsOf(s) :
        /\ Confirmations(s, i) # {}
        /\ d = [loop |-> l, onset |-> s[i].at, delay |-> s[Confirmation(s, i)].at - s[i].at]
  BY DEF DelaysOf
<1>2. Len(s) \in Nat /\ Persistence \in Nat \ {0}
  BY MetricsAssumption DEF History
<1>3. i \in 2..Len(s)
  BY DEF OnsetsOf
<1>4. FirstConfirmation(i) = i + Persistence - 1
  BY DEF FirstConfirmation
<1>5. Confirmations(s, i) \subseteq FirstConfirmation(i)..Len(s)
  BY DEF Confirmations
<1>6. FirstConfirmation(i) \in Int /\ Len(s) \in Int
  BY <1>2, <1>3, <1>4
<1>7. Confirmation(s, i) \in Confirmations(s, i)
  <2>1. PICK C : C = Confirmations(s, i)
    OBVIOUS
  <2>2. IsFiniteSet(FirstConfirmation(i)..Len(s)) /\ FirstConfirmation(i)..Len(s) \subseteq Int
    BY <1>6, FS_Interval
  <2>3. C \in SUBSET Int /\ IsFiniteSet(C) /\ C # {}
    BY <1>1, <1>5, <2>1, <2>2, FS_Subset
  <2>4. \E x \in C : \A y \in C : x <= y
    BY <2>3, LeastOf
  <2>5. Min(C) \in C
    BY <2>4 DEF Min
  <2> QED BY <2>1, <2>5 DEF Confirmation
<1>8. PICK j : j = Confirmation(s, i)
  OBVIOUS
<1>9. j \in (i + Persistence - 1)..Len(s) /\ j \in 1..Len(s) /\ i \in 1..Len(s)
  BY <1>2, <1>3, <1>4, <1>5, <1>7, <1>8
<1>10. s[i].at = i - 1 /\ s[j].at = j - 1
  BY <1>9 DEF History
<1>11. i - 1 \in 0..Len(s) /\ (j - 1) - (i - 1) \in (Persistence - 1)..Len(s)
  BY <1>2, <1>3, <1>9
<1> QED BY <1>1, <1>8, <1>10, <1>11

\* An onset is detected after Persistence of its frames at the earliest, and every count and
\* delay stays within the frames of the study (_temporal_detection_metrics).
THEOREM DetectionTypes == MetricsSpec => []TypeOK
<1>1. ASSUME MetricsInv, Sized PROVE TypeOK
  <2>1. PICK n \in Nat : n = Elapsed
    BY <1>1 DEF MetricsInv, Grid
  <2>2. Grid(records, n) /\ n <= MaxFrames /\ MaxFrames \in Nat /\ records \in Seq(Record)
    BY <1>1, <2>1, MetricsAssumption DEF MetricsInv, Grid, Sized
  <2>3. ASSUME NEW i \in DOMAIN records
        PROVE  records[i] \in [loop : Loop, at : 0..MaxFrames, active : BOOLEAN, score : Scores]
    <3>1. i \in 1..Len(records) /\ records[i] \in Record
      BY <2>2
    <3>2. PICK l \in Loop : l = records[i].loop
      BY <3>1 DEF Record
    <3>3. PICK e \in [1..n -> 1..Len(records)] : Column(records, n, l, e)
      BY <2>2 DEF Grid
    <3>4. PICK k \in 1..n : e[k] = i
      BY <3>1, <3>2, <3>3 DEF Column
    <3>5. records[i].at = k - 1
      BY <3>3, <3>4 DEF Column
    <3>6. records[i].at \in 0..MaxFrames /\ records[i].score \in Scores
      BY <1>1, <2>2, <3>1, <3>5 DEF Sized
    <3> QED BY <3>1, <3>6 DEF Record
  <2>4. ASSUME NEW l \in Loop
        PROVE  /\ run[l] \in 0..MaxFrames /\ onset[l] \in -1..MaxFrames /\ was[l] \in BOOLEAN
               /\ Delays(l) \subseteq [loop : Loop, onset : 0..MaxFrames, delay : (Persistence - 1)..MaxFrames]
    <3>1. PICK s : s = OfLoop(records, l)
      OBVIOUS
    <3>2. History(s) /\ Len(s) = n /\ Tracks(s, run[l], onset[l], was[l])
      BY <1>1, <2>2, <3>1, GridHistory DEF MetricsInv
    <3>3. run[l] \in 0..n /\ onset[l] \in -1..(n - 1) /\ was[l] \in BOOLEAN
      BY <3>2 DEF Tracks, Trailing
    <3>4. Delays(l) = DelaysOf(l, s)
      BY <3>1, GroupIs
    <3>5. ASSUME NEW d \in DelaysOf(l, s)
          PROVE  d \in [loop : Loop, onset : 0..MaxFrames, delay : (Persistence - 1)..MaxFrames]
      <4>1. d \in [loop : Loop, onset : 0..n, delay : (Persistence - 1)..n]
        BY <3>2, DelayTypes
      <4>2. 0..n \subseteq 0..MaxFrames /\ (Persistence - 1)..n \subseteq (Persistence - 1)..MaxFrames
        BY <2>2, MetricsAssumption
      <4> QED BY <4>1, <4>2
    <3> QED BY <2>2, <3>3, <3>4, <3>5
  <2>5. run \in [Loop -> 0..MaxFrames] /\ onset \in [Loop -> -1..MaxFrames] /\ was \in [Loop -> BOOLEAN]
    BY <1>1, <2>4 DEF Sized, Maps
  <2>6. found = UNION {Delays(l) : l \in Loop}
    BY <1>1 DEF MetricsInv, DetectionAgrees
  <2>7. found \cup UNION {Delays(l) : l \in Loop}
          \subseteq [loop : Loop, onset : 0..MaxFrames, delay : (Persistence - 1)..MaxFrames]
    BY <2>4, <2>6
  <2> QED BY <1>1, <2>3, <2>5, <2>7 DEF TypeOK, Sized
<1>2. Sized /\ MetricsInv /\ [MetricsNext]_metricsVars => Sized'
  <2>1. CASE MetricsNext
    BY <2>1, SizedStep DEF MetricsNext
  <2>2. CASE UNCHANGED metricsVars
    BY <2>2 DEF metricsVars, online, Sized, Elapsed, Maps
  <2> QED BY <2>1, <2>2
<1> QED BY <1>1, <1>2, DetectionIsOnline, SizedInit, PTL DEF MetricsSpec

-----------------------------------------------------------------------------
\* The ranking of one instant.

\* Records of one instant: one for a loop.
Instant(c) == IsFiniteSet(c) /\ c \in SUBSET Record /\ \A r, o \in c : r.loop = o.loop => r = o

Ahead(c) == {p \in c \X c : Before(p[1], p[2])}

\* Those scored no worse than r, ties broken by name.
Top(c, r) == {o \in c : o.score > r.score \/ (o.score = r.score /\ o.loop <= r.loop)}

LEMMA AheadIsOrder ==
  ASSUME NEW c, Instant(c)
  PROVE  IsOrder(c, Ahead(c)) /\ \A r \in c : Below(c, Ahead(c), r) = Top(c, r)
<1>1. \A r \in c : r.score \in Int /\ r.loop \in Int
  BY DEF Instant, Record, Loop
<1>2. \A r, o \in c : <<r, o>> \in Ahead(c) <=> r.score > o.score \/ (r.score = o.score /\ r.loop < o.loop)
  BY DEF Ahead, Before
<1>3. \A r, o \in c : r = o \/ r.loop # o.loop
  BY DEF Instant
<1>4. \A r \in c : <<r, r>> \notin Ahead(c)
  BY <1>1, <1>2
<1>5. \A r, o \in c : r = o \/ <<r, o>> \in Ahead(c) \/ <<o, r>> \in Ahead(c)
  <2> SUFFICES ASSUME NEW r \in c, NEW o \in c, r # o PROVE <<r, o>> \in Ahead(c) \/ <<o, r>> \in Ahead(c)
    OBVIOUS
  <2>1. PICK a \in Int, b \in Int, x \in Int, y \in Int :
          a = r.score /\ b = o.score /\ x = r.loop /\ y = o.loop
    BY <1>1
  <2>2. x # y
    BY <1>3, <2>1
  <2>3. a > b \/ b > a \/ (a = b /\ (x < y \/ y < x))
    BY <2>2
  <2> QED BY <1>2, <2>1, <2>3
<1>6. \A r, o, q \in c : <<r, o>> \in Ahead(c) /\ <<o, q>> \in Ahead(c) => <<r, q>> \in Ahead(c)
  BY <1>1, <1>2
<1>7. ASSUME NEW r \in c PROVE Below(c, Ahead(c), r) = Top(c, r)
  <2>1. \A o \in c : o.score > r.score \/ (o.score = r.score /\ o.loop <= r.loop)
                      <=> o = r \/ <<o, r>> \in Ahead(c)
    BY <1>1, <1>2, <1>3
  <2> QED BY <2>1 DEF Below, Top
<1> QED BY <1>4, <1>5, <1>6, <1>7 DEF IsOrder

\* s lists every candidate once, each behind those that do no better.
Ranking(c, s) ==
  LET n == Cardinality(c) IN
    /\ n \in Nat /\ s \in [1..n -> c]
    /\ \A r \in c : \E i \in 1..n : s[i] = r
    /\ \A i, j \in 1..n : s[i] = s[j] => i = j
    /\ \A i \in 1..n : Top(c, s[i]) = {s[k] : k \in 1..i} /\ Cardinality(Top(c, s[i])) = i

\* The ranking exists: it lists every candidate, each with its rank.
LEMMA RankedIs ==
  ASSUME NEW c, Instant(c), NEW s, s = Ranked(c)
  PROVE  Ranking(c, s)
<1> DEFINE n == Cardinality(c)
           rank(r) == Cardinality(Below(c, Ahead(c), r))
<1>1. IsFiniteSet(c) /\ n \in Nat
  BY FS_CardinalityType DEF Instant
<1>2. IsOrder(c, Ahead(c)) /\ \A r \in c : Below(c, Ahead(c), r) = Top(c, r)
  BY AheadIsOrder
<1>3. /\ \A r \in c : rank(r) \in 1..n
      /\ \A r, o \in c : <<r, o>> \in Ahead(c) => rank(r) < rank(o)
      /\ \A k \in 1..n : \E r \in c : rank(r) = k
  BY <1>1, <1>2, Ranks
<1> HIDE DEF n, rank
<1>4. \A r, o \in c : rank(r) < rank(o) => <<r, o>> \in Ahead(c)
  <2> SUFFICES ASSUME NEW r \in c, NEW o \in c, rank(r) < rank(o) PROVE <<r, o>> \in Ahead(c)
    OBVIOUS
  <2>1. rank(r) \in Int /\ rank(o) \in Int
    BY <1>3
  <2>2. r # o /\ ~(<<o, r>> \in Ahead(c))
    BY <1>3, <2>1
  <2> QED BY <1>2, <2>2 DEF IsOrder
<1> DEFINE Sorts(q) == /\ q \in [1..n -> c]
                       /\ \A i, j \in 1..n : q[i] = q[j] => i = j
                       /\ \A i, j \in 1..n : i < j => <<q[i], q[j]>> \in Ahead(c)
<1>5. \A q : q \in SetToSeqs(c) /\ IsSorted(q, Before) <=> Sorts(q)
  <2> SUFFICES ASSUME NEW q, q \in [1..n -> c]
               PROVE  q \in SetToSeqs(c) /\ IsSorted(q, Before) <=> Sorts(q)
    BY DEF SetToSeqs, n
  <2>1. Len(q) = n
    BY <1>1
  <2>2. IsSorted(q, Before) <=> \A i, j \in 1..n : i < j => Before(q[i], q[j])
    BY <2>1 DEF IsSorted
  <2>3. \A i, j \in 1..n : <<q[i], q[j]>> \in Ahead(c) <=> Before(q[i], q[j])
    BY DEF Ahead
  <2>4. q \in SetToSeqs(c) <=> \A i, j \in 1..n : i # j => q[i] # q[j]
    BY DEF SetToSeqs, n
  <2> QED BY <2>2, <2>3, <2>4
<1>6. \E q : Sorts(q)
  <2> DEFINE q == [i \in 1..n |-> CHOOSE r \in c : rank(r) = i]
  <2>1. \A i \in 1..n : q[i] \in c /\ rank(q[i]) = i
    BY <1>3
  <2>2. q \in [1..n -> c]
    BY <2>1
  <2> HIDE DEF q
  <2>3. \A i, j \in 1..n : q[i] = q[j] => i = j
    BY <2>1
  <2>4. \A i, j \in 1..n : i < j => <<q[i], q[j]>> \in Ahead(c)
    BY <1>4, <2>1
  <2>5. Sorts(q)
    BY <2>2, <2>3, <2>4
  <2> QED BY <2>5
<1>7. Sorts(s)
  <2>1. s = CHOOSE q : q \in SetToSeqs(c) /\ IsSorted(q, Before)
    BY DEF Ranked
  <2>2. \E q : q \in SetToSeqs(c) /\ IsSorted(q, Before)
    BY <1>5, <1>6
  <2>3. s \in SetToSeqs(c) /\ IsSorted(s, Before)
    BY <2>1, <2>2
  <2> QED BY <1>5, <2>3
<1>8. \A r \in c : \E i \in 1..n : s[i] = r
  <2>1. s \in Injection(1..n, c)
    BY <1>7 DEF Injection, IsInjective
  <2>2. IsFiniteSet(1..n) /\ Cardinality(1..n) = n
    BY <1>1, FS_Interval
  <2>3. s \in Surjection(1..n, c)
    BY <1>1, <2>1, <2>2, FS_Injection DEF n
  <2> QED BY <2>3 DEF Surjection
<1>9. \A i \in 1..n : /\ Below(c, Ahead(c), s[i]) = {s[k] : k \in 1..i}
                      /\ Cardinality(Below(c, Ahead(c), s[i])) = i
  <2>1. s \in [1..n -> c] /\ \A i, j \in 1..n : i < j => <<s[i], s[j]>> \in Ahead(c)
    BY <1>7
  <2> HIDE DEF Sorts
  <2>2. PICK R : R = Ahead(c)
    OBVIOUS
  <2>3. IsOrder(c, R) /\ \A i, j \in 1..n : i < j => <<s[i], s[j]>> \in R
    BY <1>2, <2>1, <2>2
  <2>4. Lists(c, R, n, s)
    BY <1>1, <1>8, <2>1, <2>3 DEF Lists
  <2>5. \A i \in 1..n : Below(c, R, s[i]) = {s[k] : k \in 1..i} /\ Cardinality(Below(c, R, s[i])) = i
    BY <2>3, <2>4, SortedRanks
  <2> QED BY <2>2, <2>5
<1> QED BY <1>1, <1>2, <1>7, <1>8, <1>9 DEF n, Ranking

\* The code's loop over the ranking finds what the definition counts.
LEMMA RankingAgrees ==
  ASSUME NEW c, Instant(c), c # {}, NEW s, s = Ranked(c)
  PROVE  /\ Precisions(s) =
              {[loop |-> r.loop, found |-> Cardinality({o \in Top(c, r) : o.active}),
                rank |-> Cardinality(Top(c, r))] : r \in {r \in c : r.active}}
         /\ SelectedRelevant(s) = Cardinality({r \in c : r.active /\ Cardinality(Top(c, r)) <= TopK})
<1> DEFINE n == Cardinality(c)
<1>1. /\ n \in Nat /\ s \in [1..n -> c]
      /\ \A r \in c : \E i \in 1..n : s[i] = r
      /\ \A i, j \in 1..n : s[i] = s[j] => i = j
      /\ \A i \in 1..n : Top(c, s[i]) = {s[k] : k \in 1..i} /\ Cardinality(Top(c, s[i])) = i
  <2>1. Ranking(c, s)
    BY RankedIs
  <2> QED BY <2>1 DEF Ranking
<1>2. n # 0
  BY FS_EmptySet DEF Instant
<1>3. TopK \in Nat \ {0}
  BY MetricsAssumption
<1> HIDE DEF n
<1>4. DOMAIN s = 1..n /\ Len(s) = n
  BY <1>1
<1>5. ASSUME NEW i \in 1..n
      PROVE  Cardinality({k \in 1..i : s[k].active}) = Cardinality({o \in Top(c, s[i]) : o.active})
  <2> DEFINE K == {k \in 1..i : s[k].active}
             T == {o \in Top(c, s[i]) : o.active}
             f == [k \in K |-> s[k]]
  <2>1. K \in SUBSET (1..n) /\ K \in SUBSET (1..i)
    BY <1>1
  <2>2. ASSUME NEW o \in T PROVE \E k \in K : s[k] = o
    <3>1. o \in {s[k] : k \in 1..i} /\ o.active
      BY <1>1
    <3> QED BY <3>1
  <2>3. \A k \in K : s[k] \in T
    BY <1>1
  <2> HIDE DEF T
  <2>4. f \in Bijection(K, T)
    <3>1. f \in [K -> T] /\ \A a, b \in K : f[a] = f[b] => a = b
      BY <1>1, <2>1, <2>3
    <3>2. \A o \in T : \E k \in K : f[k] = o
      BY <2>2
    <3> HIDE DEF f, K
    <3> QED BY <3>1, <3>2 DEF Bijection, Injection, Surjection, IsInjective
  <2>5. IsFiniteSet(K)
    <3>1. IsFiniteSet(1..i)
      BY <1>1, FS_Interval
    <3> QED BY <2>1, <3>1, FS_Subset
  <2> HIDE DEF f, K
  <2>6. Cardinality(K) = Cardinality(T)
    BY <2>4, <2>5, FS_Bijection DEF ExistsBijection
  <2> QED BY <2>6 DEF K, T
<1>6. Precisions(s) =
        {[loop |-> r.loop, found |-> Cardinality({o \in Top(c, r) : o.active}),
          rank |-> Cardinality(Top(c, r))] : r \in {r \in c : r.active}}
  <2> DEFINE P(i) == [loop |-> s[i].loop, found |-> Cardinality({k \in 1..i : s[k].active}), rank |-> i]
             Q(r) == [loop |-> r.loop, found |-> Cardinality({o \in Top(c, r) : o.active}),
                      rank |-> Cardinality(Top(c, r))]
  <2>1. \A i \in 1..n : P(i) = Q(s[i])
    BY <1>1, <1>5
  <2>2. Precisions(s) = {P(i) : i \in {k \in 1..n : s[k].active}}
    BY <1>4 DEF Precisions, Relevant
  <2> HIDE DEF P, Q
  <2>3. {P(i) : i \in {k \in 1..n : s[k].active}} = {Q(r) : r \in {r \in c : r.active}}
    <3>1. ASSUME NEW i \in 1..n, s[i].active PROVE P(i) \in {Q(r) : r \in {r \in c : r.active}}
      BY <1>1, <2>1, <3>1
    <3>2. ASSUME NEW r \in c, r.active PROVE Q(r) \in {P(i) : i \in {k \in 1..n : s[k].active}}
      <4>1. PICK i \in 1..n : s[i] = r
        BY <1>1
      <4> QED BY <2>1, <3>2, <4>1
    <3> QED BY <3>1, <3>2
  <2> QED BY <2>2, <2>3 DEF Q
<1>7. SelectedRelevant(s) = Cardinality({r \in c : r.active /\ Cardinality(Top(c, r)) <= TopK})
  <2>1. PICK m \in 1..n : m <= TopK /\ (\A i \in 1..n : i <= TopK <=> i <= m) /\ m = Min({TopK, Len(s)})
    <3> DEFINE m == IF TopK <= n THEN TopK ELSE n
    <3>1. m \in 1..n /\ m <= TopK /\ (\A i \in 1..n : i <= TopK <=> i <= m)
      BY <1>1, <1>2, <1>3
    <3>2. m \in {TopK, n} /\ \A y \in {TopK, n} : m <= y
      BY <1>1, <1>3
    <3>3. ASSUME NEW x \in {TopK, n}, \A y \in {TopK, n} : x <= y PROVE x = m
      BY <1>1, <1>3, <3>3
    <3>4. m = Min({TopK, n})
      BY <3>2, <3>3 DEF Min
    <3> QED BY <1>4, <3>1, <3>4
  <2> DEFINE q == SubSeq(s, 1, m)
             K == {i \in 1..m : s[i].active}
             T == {r \in c : r.active /\ Cardinality(Top(c, r)) <= TopK}
             f == [i \in K |-> s[i]]
  <2>2. DOMAIN q = 1..m /\ \A i \in 1..m : q[i] = s[i]
    <3>1. s \in Seq(c) /\ m \in 1..Len(s)
      BY <1>1, <1>4
    <3> QED BY <3>1
  <2>3. Relevant(q) = K
    <3> HIDE DEF q
    <3> QED BY <2>2 DEF Relevant
  <2>4. SelectedRelevant(s) = Cardinality(K)
    BY <2>1, <2>3 DEF SelectedRelevant, Selected
  <2>5. \A i \in 1..m : i \in 1..n /\ i <= TopK
    BY <1>1, <1>3, <2>1
  <2>6. \A i \in K : s[i] \in T /\ i \in 1..n
    BY <1>1, <2>5
  <2>7. ASSUME NEW r \in T PROVE \E i \in K : s[i] = r
    <3>1. PICK i \in 1..n : s[i] = r
      BY <1>1
    <3>2. i <= TopK /\ r.active
      BY <1>1, <3>1
    <3>3. i <= m
      BY <2>1, <3>2
    <3>4. i \in Int /\ 1 <= i /\ m \in Int
      BY <1>1, <2>1
    <3>5. i \in 1..m
      BY <3>3, <3>4
    <3> QED BY <3>1, <3>2, <3>5
  <2>8. IsFiniteSet(K)
    <3>1. IsFiniteSet(1..m) /\ K \in SUBSET (1..m)
      BY FS_Interval
    <3> QED BY <3>1, FS_Subset
  <2> HIDE DEF K, T
  <2>9. f \in Bijection(K, T)
    <3>1. f \in [K -> T] /\ (\A a, b \in K : f[a] = f[b] => a = b) /\ \A r \in T : \E i \in K : f[i] = r
      BY <1>1, <2>6, <2>7
    <3> HIDE DEF f
    <3> QED BY <3>1 DEF Bijection, Injection, Surjection, IsInjective
  <2> HIDE DEF f
  <2>10. Cardinality(K) = Cardinality(T)
    BY <2>8, <2>9, FS_Bijection DEF ExistsBijection
  <2> QED BY <2>4, <2>10 DEF T
<1> QED BY <1>6, <1>7

\* The candidates of an instant are one record of each loop.
LEMMA CandidatesAre ==
  ASSUME NEW n, Grid(records, n), NEW t
  PROVE  Instant(Candidates(t))
<1> DEFINE J == {j \in DOMAIN records : records[j].at = t}
           c == Candidates(t)
           f == [j \in J |-> records[j]]
<1>1. records \in Seq(Record) /\ n \in Nat /\ DOMAIN records = 1..Len(records) /\ Len(records) \in Nat
  BY DEF Grid
<1>2. c = {records[j] : j \in J}
  BY DEF Candidates
<1>3. IsFiniteSet(J)
  <2>1. IsFiniteSet(1..Len(records)) /\ J \in SUBSET (1..Len(records))
    BY <1>1, FS_Interval
  <2> QED BY <2>1, FS_Subset
<1>4. c \in SUBSET Record
  BY <1>1, <1>2
<1>5. ASSUME NEW r \in c, NEW o \in c, r.loop = o.loop PROVE r = o
  <2>1. PICK i \in J, j \in J : r = records[i] /\ o = records[j]
    BY <1>2
  <2>2. PICK l \in Loop : l = r.loop
    BY <1>4 DEF Record
  <2>3. PICK e \in [1..n -> 1..Len(records)] : Column(records, n, l, e)
    BY DEF Grid
  <2>4. /\ i \in 1..Len(records) /\ j \in 1..Len(records)
        /\ records[i].loop = l /\ records[j].loop = l /\ records[i].at = t /\ records[j].at = t
    BY <1>1, <1>5, <2>1, <2>2
  <2>5. PICK a \in 1..n, b \in 1..n : e[a] = i /\ e[b] = j
    BY <2>3, <2>4 DEF Column
  <2>6. records[e[a]].at = a - 1 /\ records[e[b]].at = b - 1
    BY <2>3 DEF Column
  <2>7. a = b
    BY <1>1, <2>4, <2>5, <2>6
  <2> QED BY <2>1, <2>5, <2>7
<1>6. f \in Surjection(J, c)
  BY <1>2 DEF Surjection
<1> HIDE DEF f, J, c
<1>7. IsFiniteSet(c)
  BY <1>3, <1>6, FS_Surjection
<1> QED BY <1>4, <1>5, <1>7 DEF Instant, c

\* For every score: the hits the code scores, and the rank of each, are those of the
\* definition of average precision (_localization_metrics).
THEOREM RankingIsDefined == MetricsSpec => []LocalizationAgrees
<1>1. ASSUME MetricsInv PROVE LocalizationAgrees
  <2> SUFFICES ASSUME NEW i \in DOMAIN records
               PROVE  LET c == Candidates(records[i].at)
                          top(r) == {o \in c : o.score > r.score \/ (o.score = r.score /\ o.loop <= r.loop)}
                          s == Ranked(c)
                      IN  /\ Precisions(s) =
                               {[loop |-> r.loop, found |-> Cardinality({o \in top(r) : o.active}),
                                 rank |-> Cardinality(top(r))] : r \in {r \in c : r.active}}
                          /\ SelectedRelevant(s)
                               = Cardinality({r \in c : r.active /\ Cardinality(top(r)) <= TopK})
    BY DEF LocalizationAgrees
  <2> DEFINE c == Candidates(records[i].at)
  <2>1. Instant(c)
    BY <1>1, CandidatesAre DEF MetricsInv
  <2>2. c # {}
    BY DEF Candidates
  <2> HIDE DEF c
  <2>3. PICK s : s = Ranked(c)
    OBVIOUS
  <2>4. /\ Precisions(s) =
             {[loop |-> r.loop, found |-> Cardinality({o \in Top(c, r) : o.active}),
               rank |-> Cardinality(Top(c, r))] : r \in {r \in c : r.active}}
        /\ SelectedRelevant(s) = Cardinality({r \in c : r.active /\ Cardinality(Top(c, r)) <= TopK})
    BY <2>1, <2>2, <2>3, RankingAgrees
  <2> QED BY <2>3, <2>4 DEF c, Top
<1> QED BY <1>1, DetectionIsOnline, PTL

-----------------------------------------------------------------------------
\* ScenarioStudy.

\* The result of the i-th task of the running job.
ResultOf(i) == Result(world, TasksOf(job)[i], job.frames)

\* Every result any job can take.
Values == {Result(world, TasksOf(j)[i], j.frames) : j \in Jobs, i \in Nat}

\* Whatever the pool did, the results taken so far are those of the first tasks,
\* and the document to write was made from all of them.
PoolInv ==
  /\ pc \in {"idle", "evaluate", "drain", "open", "write"}
  /\ IF pc = "idle" THEN results = <<>> ELSE job \in Jobs
  /\ results \in Seq(Values)
  /\ \A i \in 1..Len(results) : results[i] = ResultOf(i)
  /\ pc \in {"open", "write"} => manifest = InSequence(world, job)

-----------------------------------------------------------------------------
\* The ends of a process leave nothing to be wrong.
LEMMA StopInv ==
  ASSUME Stop, UNCHANGED world
  PROVE  PoolInv'
  BY DEF Stop, PoolInv, Values, ResultOf

\* Steps of the pool that take no result.
LEMMA PoolStepInv ==
  ASSUME PoolInv, UNCHANGED <<world, job, results, manifest>>,
         pc' = pc \/ (pc = "evaluate" /\ pc' = "drain")
  PROVE  PoolInv'
<1>1. Values' = Values
  BY DEF Values, Jobs
<1>2. \A i \in 1..Len(results') : results'[i] = ResultOf(i)'
  BY DEF PoolInv, ResultOf
<1>3. InSequence(world, job)' = InSequence(world, job)
  OBVIOUS
<1> QED BY <1>1, <1>2, <1>3 DEF PoolInv, Jobs

\* The next result is appended at its place.
LEMMA TakeInv ==
  ASSUME PoolInv, NEW i \in finished, Take(i)
  PROVE  PoolInv'
<1>1. /\ i = Len(results) + 1 /\ Len(results) \in Nat
      /\ UNCHANGED <<world, pc, job, manifest>> /\ pc = "evaluate"
      /\ results' = Append(results, ResultOf(i))
  BY DEF Take, TakenNext, PoolInv, ResultOf
<1>2. ResultOf(i) \in Values
  BY <1>1 DEF PoolInv, Values, ResultOf
<1>3. Values' = Values
  BY <1>1 DEF Values, Jobs
<1>4. results' \in Seq(Values')
  BY <1>1, <1>2, <1>3 DEF PoolInv
<1>5. \A k \in 1..Len(results') : results'[k] = ResultOf(k)'
  <2> SUFFICES ASSUME NEW k \in 1..Len(results')
               PROVE  results'[k] = ResultOf(k)
    BY <1>1 DEF ResultOf
  <2>1. Len(results') = Len(results) + 1
    BY <1>1 DEF PoolInv
  <2>2. CASE k = i
    BY <1>1, <2>1, <2>2 DEF PoolInv
  <2>3. CASE k # i
    BY <1>1, <2>1, <2>3 DEF PoolInv
  <2> QED BY <2>2, <2>3
<1> QED BY <1>1, <1>4, <1>5 DEF PoolInv, Jobs

\* The document is made when all tasks have been taken.
LEMMA AssembleInv ==
  ASSUME PoolInv, Assemble
  PROVE  PoolInv'
<1>1. CASE Stop
  BY <1>1, StopInv DEF Assemble
<1>2. CASE /\ pc' = "open" /\ manifest' = Manifest(job, results)
           /\ UNCHANGED <<job, pool, results>>
  <2>1. /\ pc = "evaluate" /\ Len(results) = Len(TasksOf(job)) /\ UNCHANGED <<world, job, results>>
    BY <1>2 DEF Assemble
  <2>2. results = [i \in 1..Len(TasksOf(job)) |-> ResultOf(i)]
    <3>1. results = [i \in 1..Len(results) |-> results[i]]
      BY DEF PoolInv
    <3> QED BY <2>1, <3>1 DEF PoolInv
  <2>3. manifest' = InSequence(world, job)
    BY <1>2, <2>2 DEF InSequence, ResultOf
  <2>4. InSequence(world, job)' = InSequence(world, job)
    BY <2>1
  <2>5. Values' = Values /\ (\A i \in 1..Len(results) : ResultOf(i)' = ResultOf(i))
    BY <2>1 DEF Values, Jobs, ResultOf
  <2> QED BY <1>2, <2>1, <2>3, <2>4, <2>5 DEF PoolInv, Jobs
<1> QED BY <1>1, <1>2 DEF Assemble

\* Opening the output moves on with the same document.
LEMMA OpenOutputInv ==
  ASSUME PoolInv, OpenOutput
  PROVE  PoolInv'
<1>1. CASE Stop
  BY <1>1, StopInv DEF OpenOutput
<1>2. CASE pc' = "write" /\ UNCHANGED <<job, pool, results, manifest>>
  <2>1. pc = "open" /\ UNCHANGED <<world, job, results, manifest>>
    BY <1>2 DEF OpenOutput
  <2>2. InSequence(world, job)' = InSequence(world, job)
    BY <2>1
  <2>3. Values' = Values /\ (\A i \in 1..Len(results) : ResultOf(i)' = ResultOf(i))
    BY <2>1 DEF Values, Jobs, ResultOf
  <2> QED BY <1>2, <2>1, <2>2, <2>3 DEF PoolInv, Jobs
<1> QED BY <1>1, <1>2 DEF OpenOutput

\* A job begins with no results.
LEMMA BeginInv ==
  ASSUME PoolInv, Begin
  PROVE  PoolInv'
<1>1. pc' = "evaluate" /\ job' \in Jobs /\ results' = <<>>
  BY DEF Begin, PoolInv
<1>2. results' \in Seq(Values') /\ Len(results') = 0
  BY <1>1
<1>3. Jobs' = Jobs
  BY DEF Jobs
<1> QED BY <1>1, <1>2, <1>3 DEF PoolInv

-----------------------------------------------------------------------------
\* In every reachable state the results taken are those of the first tasks, in
\* their order, and the document at hand is the sequential one.
THEOREM ResultsInOrder == Spec => []PoolInv
<1>1. Init => PoolInv
  BY DEF Init, PoolInv
<1>2. PoolInv /\ [Next]_vars => PoolInv'
  <2> SUFFICES ASSUME PoolInv, [Next]_vars PROVE PoolInv'
    OBVIOUS
  <2>1. CASE Begin
    BY <2>1, BeginInv
  <2>2. CASE Claim
    BY <2>2, PoolStepInv DEF Claim
  <2>3. CASE PoolBreaks
    BY <2>3, PoolStepInv DEF PoolBreaks
  <2>4. ASSUME NEW i \in running, Finish(i) \/ Raise(i) PROVE PoolInv'
    BY <2>4, PoolStepInv DEF Finish, Raise
  <2>5. ASSUME NEW i \in finished, Take(i) PROVE PoolInv'
    BY <2>5, TakeInv
  <2>6. CASE Cancel
    BY <2>6, PoolStepInv DEF Cancel
  <2>7. CASE Drained
    BY <2>7, StopInv DEF Drained
  <2>8. CASE Assemble
    BY <2>8, AssembleInv
  <2>9. CASE OpenOutput
    BY <2>9, OpenOutputInv
  <2>10. CASE WriteOutput
    BY <2>10, StopInv DEF WriteOutput
  <2>11. CASE Kill
    BY <2>11, StopInv DEF Kill
  <2>12. CASE UNCHANGED vars
    BY <2>12, PoolStepInv DEF vars
  <2> QED BY <2>1, <2>2, <2>3, <2>4, <2>5, <2>6, <2>7, <2>8, <2>9, <2>10, <2>11, <2>12 DEF Next
<1> QED BY <1>1, <1>2, PTL DEF Spec

\* A file becomes whole by WriteOutput alone, with the document at hand.
LEMMA OnlyTheDocument ==
  ASSUME [Next]_vars, NEW kind \in DOMAIN files, files'[kind] # files[kind], Whole(kind)'
  PROVE  pc = "write" /\ files'[kind].manifest = manifest
<1>1. CASE WriteOutput
  BY <1>1 DEF WriteOutput, Whole
<1>2. CASE OpenOutput
  BY <1>2 DEF OpenOutput, Whole, Torn
<1>3. CASE UNCHANGED files
  BY <1>3
<1> QED BY <1>1, <1>2, <1>3 DEF Next, vars, Begin, Claim, PoolBreaks, Finish, Raise, Take,
                               Cancel, Drained, Assemble, Kill

\* Whatever the number of workers and the order they finish in, whatever raises
\* or dies: what is written is the manifest of a sequential evaluation.
THEOREM PoolIsSequential == Spec => ScheduleFree
<1>1. PoolInv /\ [Next]_vars =>
        [\A kind \in DOMAIN files : files'[kind] # files[kind] /\ Whole(kind)' =>
           files'[kind].manifest = InSequence(world, job)]_vars
  BY OnlyTheDocument DEF PoolInv
<1> QED BY <1>1, ResultsInOrder, PTL DEF Spec, ScheduleFree

-----------------------------------------------------------------------------
\* The partitions do not leak into one another.

\* The results of the running job, had the seeds behaved as in w.
ResultsIn(w) == [i \in 1..Len(TasksOf(job)) |-> Result(w, TasksOf(job)[i], job.frames)]

LEMMA ResultFields ==
  ASSUME NEW w, NEW seed, NEW sel, NEW frames
  PROVE  /\ Result(w, [seed |-> seed, selection |-> sel], frames).seed = seed
         /\ DOMAIN Result(w, [seed |-> seed, selection |-> sel], frames).scenarios = sel
BY DEF Result

LEMMA ResultOfBehavior ==
  ASSUME NEW v, NEW w, NEW seed, NEW sel, NEW frames, v[seed] = w[seed]
  PROVE  Result(v, [seed |-> seed, selection |-> sel], frames)
           = Result(w, [seed |-> seed, selection |-> sel], frames)
BY DEF Result

\* A study has one task per seed, in the order of the partitions.
LEMMA StudyTasks ==
  ASSUME job.kind = "study", NEW w
  PROVE  /\ Len(TasksOf(job)) = Len(SeedOrder) /\ DOMAIN TasksOf(job) = 1..Len(SeedOrder)
         /\ Len(SeedOrder) \in Nat /\ 1 \in 1..Len(SeedOrder)
         /\ DOMAIN ResultsIn(w) = 1..Len(SeedOrder)
         /\ \A i \in 1..Len(SeedOrder) :
              /\ ResultsIn(w)[i] = Result(w, [seed |-> SeedOrder[i], selection |-> job.selection], job.frames)
              /\ ResultsIn(w)[i].seed = SeedOrder[i]
              /\ DOMAIN ResultsIn(w)[i].scenarios = job.selection
<1>1. DOMAIN SeedOrder = 1..Len(SeedOrder) /\ Len(SeedOrder) \in Nat
  BY StudyAssumption
<1>2. Len(SeedOrder) # 0
  BY <1>1, StudyAssumption DEF Seeds, ToSet, Splits
<1>3. TasksOf(job) = [i \in 1..Len(SeedOrder) |-> [seed |-> SeedOrder[i], selection |-> job.selection]]
  BY <1>1 DEF TasksOf
<1>4. Len(TasksOf(job)) = Len(SeedOrder)
  BY <1>1, <1>3
<1>5. ASSUME NEW i \in 1..Len(SeedOrder)
      PROVE  ResultsIn(w)[i] = Result(w, [seed |-> SeedOrder[i], selection |-> job.selection], job.frames)
  BY <1>3, <1>4 DEF ResultsIn
<1>6. ASSUME NEW i \in 1..Len(SeedOrder)
      PROVE  /\ ResultsIn(w)[i].seed = SeedOrder[i]
             /\ DOMAIN ResultsIn(w)[i].scenarios = job.selection
  <2> DEFINE result == Result(w, [seed |-> SeedOrder[i], selection |-> job.selection], job.frames)
  <2>1. ResultsIn(w)[i] = result
    BY <1>5
  <2>2. result.seed = SeedOrder[i] /\ DOMAIN result.scenarios = job.selection
    BY ResultFields
  <2> HIDE DEF result
  <2> QED BY <2>1, <2>2
<1> QED BY <1>1, <1>2, <1>3, <1>4, <1>5, <1>6 DEF ResultsIn

\* Seeds that behave alike give the same results.
LEMMA ResultsAlike ==
  ASSUME job.kind = "study", NEW v, NEW w, NEW i \in 1..Len(SeedOrder),
         v[SeedOrder[i]] = w[SeedOrder[i]]
  PROVE  ResultsIn(v)[i] = ResultsIn(w)[i]
<1>1. ResultsIn(v)[i] = Result(v, [seed |-> SeedOrder[i], selection |-> job.selection], job.frames)
  BY StudyTasks
<1>2. ResultsIn(w)[i] = Result(w, [seed |-> SeedOrder[i], selection |-> job.selection], job.frames)
  BY StudyTasks
<1> QED BY <1>1, <1>2, ResultOfBehavior

\* Worlds that agree on the seeds of Q give the same samples of Q.
LEMMA SamplesAlike ==
  ASSUME job.kind = "study", NEW v, NEW w, NEW Q, \A s \in Q : v[s] = w[s]
  PROVE  /\ WindowSamples(ResultsIn(v), Q) = WindowSamples(ResultsIn(w), Q)
         /\ FrameSamples(ResultsIn(v), Q) = FrameSamples(ResultsIn(w), Q)
<1> DEFINE rs == ResultsIn(v)
           qs == ResultsIn(w)
<1>1. DOMAIN rs = 1..Len(SeedOrder) /\ \A i \in 1..Len(SeedOrder) : rs[i].seed = SeedOrder[i]
  BY StudyTasks
<1>2. DOMAIN qs = 1..Len(SeedOrder) /\ \A i \in 1..Len(SeedOrder) : qs[i].seed = SeedOrder[i]
  BY StudyTasks
<1>3. \A i \in 1..Len(SeedOrder) : SeedOrder[i] \in Q => rs[i] = qs[i]
  BY ResultsAlike
<1> HIDE DEF rs, qs
<1>4. WindowSamples(rs, Q) = WindowSamples(qs, Q)
  BY <1>1, <1>2, <1>3 DEF WindowSamples
<1>5. FrameSamples(rs, Q) = FrameSamples(qs, Q)
  BY <1>1, <1>2, <1>3 DEF FrameSamples
<1> QED BY <1>4, <1>5 DEF rs, qs

\* A world that agrees on the development seeds and those of S gives S the same report.
LEMMA ReportsAlike ==
  ASSUME job.kind = "study", NEW v, NEW w, NEW S \in Splits,
         \A s \in Development \cup S : v[s] = w[s]
  PROVE  /\ WindowBaselines(ResultsIn(v)) # <<>> =>
              WindowBaselines(ResultsIn(v))[S] = WindowBaselines(ResultsIn(w))[S]
         /\ FrameBaselines(ResultsIn(v)) # <<>> =>
              FrameBaselines(ResultsIn(v))[S] = FrameBaselines(ResultsIn(w))[S]
<1> DEFINE rs == ResultsIn(v)
           qs == ResultsIn(w)
<1>1. DOMAIN rs[1].scenarios = job.selection /\ DOMAIN qs[1].scenarios = job.selection
  <2> HIDE DEF rs, qs
  <2>1. 1 \in 1..Len(SeedOrder)
    BY StudyTasks
  <2>2. \A i \in 1..Len(SeedOrder) : DOMAIN rs[i].scenarios = job.selection
    BY StudyTasks DEF rs
  <2>3. \A i \in 1..Len(SeedOrder) : DOMAIN qs[i].scenarios = job.selection
    BY StudyTasks DEF qs
  <2> QED BY <2>1, <2>2, <2>3
<1>2. rs[1] = qs[1]
  BY StudyTasks, StudyAssumption, ResultsAlike
<1>3. WindowSamples(rs, FitSeeds) = WindowSamples(qs, FitSeeds)
      /\ FrameSamples(rs, FitSeeds) = FrameSamples(qs, FitSeeds)
  BY SamplesAlike DEF FitSeeds
<1>4. WindowSamples(rs, S) = WindowSamples(qs, S) /\ FrameSamples(rs, S) = FrameSamples(qs, S)
  BY SamplesAlike
<1> HIDE DEF rs, qs
<1>5. WindowBaselines(rs) # <<>> => WindowBaselines(rs)[S] = WindowBaselines(qs)[S]
  BY <1>1, <1>3, <1>4 DEF WindowBaselines
<1>6. FrameBaselines(rs) # <<>> => FrameBaselines(rs)[S] = FrameBaselines(qs)[S]
  BY <1>2, <1>3, <1>4 DEF FrameBaselines
<1> QED BY <1>5, <1>6 DEF rs, qs

\* The document of a running job.
LEMMA DocumentOf ==
  InSequence(world, job) = Manifest(job, ResultsIn(world))
BY DEF InSequence, ResultsIn

LEMMA JobKinds ==
  ASSUME job \in Jobs
  PROVE  /\ job.kind \in {"study", "matrix"} /\ job.frames \in BOOLEAN
         /\ job.kind = "study" => job.selection \in Selections
         /\ job.kind = "matrix" => job.frames = FALSE
BY DEF Jobs

LEMMA NoLeakOfInv ==
  ASSUME PoolInv
  PROVE  NoLeak
<1> SUFFICES ASSUME pc = "open", NEW S \in Splits, NEW w \in Worlds,
                    \A s \in Development \cup S : w[s] = world[s]
             PROVE  LET rs == [i \in DOMAIN TasksOf(job) |-> Result(w, TasksOf(job)[i], job.frames)]
                    IN /\ manifest.windows # <<>> => manifest.windows[S] = WindowBaselines(rs)[S]
                       /\ manifest.frames # <<>> /\ ~FrameBaselinesRaise(rs)
                            => manifest.frames[S] = FrameBaselines(rs)[S]
  BY DEF NoLeak
<1>1. job \in Jobs /\ manifest = Manifest(job, ResultsIn(world))
  BY DocumentOf DEF PoolInv
<1> DEFINE own == ResultsIn(world)
           windows == IF job.kind = "study" THEN WindowBaselines(own) ELSE <<>>
           frames == IF job.frames THEN FrameBaselines(own) ELSE <<>>
<1>2. manifest.windows = windows /\ manifest.frames = frames
  BY <1>1 DEF Manifest, FrameReport
<1>3. CASE job.kind = "study"
  <2>1. DOMAIN TasksOf(job) = 1..Len(TasksOf(job))
    BY <1>3, StudyTasks
  <2>2. [i \in DOMAIN TasksOf(job) |-> Result(w, TasksOf(job)[i], job.frames)] = ResultsIn(w)
    BY <2>1 DEF ResultsIn
  <2>3. /\ WindowBaselines(own) # <<>> => WindowBaselines(own)[S] = WindowBaselines(ResultsIn(w))[S]
        /\ FrameBaselines(own) # <<>> => FrameBaselines(own)[S] = FrameBaselines(ResultsIn(w))[S]
    BY <1>3, ReportsAlike
  <2> HIDE DEF own
  <2> QED BY <1>2, <1>3, <2>2, <2>3
<1>4. CASE job.kind = "matrix"
  <2>1. manifest.windows = <<>> /\ manifest.frames = <<>>
    BY <1>1, <1>2, <1>4, JobKinds
  <2> QED BY <2>1
<1> QED BY <1>1, <1>3, <1>4, JobKinds

\* The report of a split owes nothing to the other split, whatever the partitions, the
\* scenarios and the values are (_baseline_samples, _frame_baseline_samples).
THEOREM SplitsDoNotLeak == Spec => []NoLeak
BY ResultsInOrder, NoLeakOfInv, PTL

-----------------------------------------------------------------------------
\* The frames stay in memory.

\* Stripped results have no frames.
LEMMA StrippedFrames ==
  ASSUME NEW rs, \A i \in DOMAIN rs : \E w, t, f : rs[i] = Result(w, t, f)
  PROVE  \A i \in DOMAIN Stripped(rs) : Stripped(rs)[i].frame_samples = <<>>
<1> SUFFICES ASSUME NEW i \in DOMAIN rs
             PROVE  [rs[i] EXCEPT !.frame_samples = <<>>].frame_samples = <<>>
  BY DEF Stripped
<1>1. PICK w, t, f : rs[i] = Result(w, t, f)
  OBVIOUS
<1>2. PICK a, b, c, d : rs[i] = [seed |-> a, scenarios |-> b, failures |-> c, frame_samples |-> d]
  BY <1>1 DEF Result
<1> QED BY <1>2

LEMMA DocumentFrames ==
  ASSUME world \in Worlds, job \in Jobs
  PROVE  /\ InSequence(world, job).frames # <<>> <=> job.frames
         /\ \A i \in DOMAIN InSequence(world, job).results :
              InSequence(world, job).results[i].frame_samples = <<>>
<1> DEFINE rs == ResultsIn(world)
<1>1. InSequence(world, job).frames = FrameReport(job, rs)
      /\ InSequence(world, job).results = Stripped(rs)
  BY DocumentOf DEF Manifest
<1>2. \A i \in DOMAIN rs : \E w, t, f : rs[i] = Result(w, t, f)
  BY DEF ResultsIn
<1>3. ASSUME job.frames PROVE FrameBaselines(rs) # <<>>
  <2>1. job.kind = "study" /\ job.selection \in Selections /\ job.frames = TRUE
    BY <1>3, JobKinds
  <2>2. 1 \in 1..Len(SeedOrder) /\ SeedOrder[1] \in Seeds
    BY <2>1, StudyTasks, StudyAssumption DEF Seeds, Splits
  <2>3. rs[1] = Result(world, [seed |-> SeedOrder[1], selection |-> job.selection], TRUE)
    <3>1. \A i \in 1..Len(SeedOrder) :
            rs[i] = Result(world, [seed |-> SeedOrder[i], selection |-> job.selection], job.frames)
      BY <2>1, StudyTasks
    <3> HIDE DEF rs
    <3> QED BY <2>1, <2>2, <3>1
  <2>4. rs[1].frame_samples # <<>>
    <3>1. \A sel \in Selections :
            Result(world, [seed |-> SeedOrder[1], selection |-> sel], TRUE).frame_samples # <<>>
      BY <2>2, EvaluationAssumption
    <3> QED BY <2>1, <2>3, <3>1
  <2>5. ASSUME NEW f, DOMAIN f = Splits PROVE f # <<>>
    <3>1. Validation \in DOMAIN f
      BY <2>5 DEF Splits
    <3> QED BY <3>1
  <2> HIDE DEF rs
  <2> QED BY <2>4, <2>5 DEF FrameBaselines
<1> HIDE DEF rs
<1>4. FrameReport(job, rs) # <<>> <=> job.frames
  BY <1>3 DEF FrameReport
<1>5. \A i \in DOMAIN Stripped(rs) : Stripped(rs)[i].frame_samples = <<>>
  BY <1>2, StrippedFrames
<1> QED BY <1>1, <1>4, <1>5

FilesInv == PoolInv /\ world \in Worlds /\ DOMAIN files = {"study", "matrix"} /\ FramesStayInMemory

LEMMA FilesInit == Init => FilesInv
BY DEF Init, FilesInv, PoolInv, FramesStayInMemory, Whole, Missing

\* Only the last write makes a file whole, with the document and what was asked for.
LEMMA FilesStep ==
  ASSUME FilesInv, [Next]_vars, PoolInv'
  PROVE  FilesInv'
<1>1. UNCHANGED world /\ world' \in Worlds
  BY DEF FilesInv, Next, vars, Begin, Claim, Finish, Raise, PoolBreaks, Take, Cancel, Drained,
         Assemble, OpenOutput, WriteOutput, Kill
<1>2. CASE UNCHANGED files
  BY <1>1, <1>2 DEF FilesInv, FramesStayInMemory, Whole
<1>3. CASE OpenOutput
  <2>1. files' = [files EXCEPT ![job.kind] = Torn] \/ UNCHANGED files
    BY <1>3 DEF OpenOutput
  <2>2. DOMAIN files' = {"study", "matrix"}
    BY <2>1 DEF FilesInv
  <2>3. ASSUME NEW kind \in DOMAIN files', Whole(kind)'
        PROVE  files'[kind] = files[kind]
    BY <2>1, <2>2, <2>3 DEF FilesInv, Whole, Torn
  <2>4. FramesStayInMemory'
    BY <2>2, <2>3 DEF FilesInv, FramesStayInMemory, Whole
  <2> QED BY <1>1, <2>2, <2>4 DEF FilesInv
<1>4. CASE WriteOutput
  <2> DEFINE new == [state |-> "whole", wanted |-> job.frames, manifest |-> manifest]
  <2>1. pc = "write" /\ (files' = [files EXCEPT ![job.kind] = new] \/ UNCHANGED files)
    BY <1>4 DEF WriteOutput
  <2>2. job \in Jobs /\ manifest = InSequence(world, job) /\ world \in Worlds
    BY <2>1 DEF FilesInv, PoolInv
  <2>3. DOMAIN files' = {"study", "matrix"}
    BY <2>1 DEF FilesInv
  <2>4. /\ new.manifest.frames # <<>> <=> new.wanted
        /\ \A i \in DOMAIN new.manifest.results : new.manifest.results[i].frame_samples = <<>>
    BY <2>2, DocumentFrames
  <2> HIDE DEF new
  <2>5. \A kind \in DOMAIN files' : files'[kind] = new \/ files'[kind] = files[kind]
    BY <2>1, <2>3 DEF FilesInv
  <2>6. FramesStayInMemory'
    BY <2>3, <2>4, <2>5 DEF FilesInv, FramesStayInMemory, Whole
  <2> QED BY <1>1, <2>3, <2>6 DEF FilesInv
<1> QED BY <1>2, <1>3, <1>4 DEF Next, vars, Begin, Claim, PoolBreaks, Finish, Raise, Take,
                               Cancel, Drained, Assemble, Kill

\* Whatever fails or is killed: a whole file has the frame baselines it was asked for,
\* and none of the frames they were fitted on.
THEOREM FramesReachNoFile == Spec => []FramesStayInMemory
<1>1. FilesInv /\ PoolInv' /\ [Next]_vars => FilesInv'
  BY FilesStep
<1>2. FilesInv => FramesStayInMemory
  BY DEF FilesInv
<1> QED BY <1>1, <1>2, FilesInit, ResultsInOrder, PTL DEF Spec

-----------------------------------------------------------------------------
\* The isolation matrix and the studies.

\* The k-th element of an increasing image is the image of the k-th.
LEMMA NthOfImage ==
  ASSUME NEW K \in SUBSET Int, IsFiniteSet(K), NEW g \in [K -> Int],
         \A i, j \in K : i < j => g[i] < g[j],
         NEW I, I = {g[k] : k \in K}
  PROVE  /\ Cardinality(I) = Cardinality(K) /\ IsFiniteSet(I)
         /\ \A k \in 1..Cardinality(K) : Nth(K, k) \in K /\ Nth(I, k) = g[Nth(K, k)]
<1> DEFINE m == Cardinality(K)
           e == [k \in 1..m |-> g[Nth(K, k)]]
<1>1. /\ m \in Nat
      /\ \A k \in 1..m : Nth(K, k) \in K
      /\ \A i, j \in 1..m : i < j => Nth(K, i) < Nth(K, j)
      /\ \A i \in K : \E k \in 1..m : Nth(K, k) = i
  BY NthEnumerates
<1> HIDE DEF m
<1>2. I \in SUBSET Int
  OBVIOUS
<1>3. e \in [1..m -> I] /\ \A k \in 1..m : e[k] = g[Nth(K, k)]
  BY <1>1
<1> HIDE DEF e
<1>4. \A i, j \in 1..m : i < j => e[i] < e[j]
  BY <1>1, <1>3
<1>5. \A i \in I : \E k \in 1..m : e[k] = i
  BY <1>1, <1>3
<1>6. /\ IsFiniteSet(I) /\ Cardinality(I) = m
      /\ \A k \in 1..m : Nth(I, k) = e[k]
  <2>1. Lines(I, m, e)
    BY <1>1, <1>2, <1>3, <1>4, <1>5 DEF Lines
  <2> QED BY <2>1, NthIs
<1> QED BY <1>1, <1>3, <1>6 DEF m

\* The elements of 1..n in their order.
LEMMA NthOfInterval ==
  ASSUME NEW n \in Nat
  PROVE  Cardinality(1..n) = n /\ IsFiniteSet(1..n) /\ \A k \in 1..n : Nth(1..n, k) = k
<1> DEFINE e == [k \in 1..n |-> k]
<1>1. /\ 1..n \in SUBSET Int /\ e \in [1..n -> 1..n]
      /\ \A i, j \in 1..n : i < j => e[i] < e[j]
      /\ \A i \in 1..n : \E k \in 1..n : e[k] = i
  OBVIOUS
<1>2. \A k \in 1..n : e[k] = k
  OBVIOUS
<1> HIDE DEF e
<1>3. IsFiniteSet(1..n) /\ Cardinality(1..n) = n /\ \A k \in 1..n : Nth(1..n, k) = e[k]
  <2>1. Lines(1..n, n, e)
    BY <1>1 DEF Lines
  <2> QED BY <2>1, NthIs
<1> QED BY <1>2, <1>3

\* The elements of s at the positions of I, in their order.
At(s, I) == [k \in 1..Cardinality(I) |-> s[Nth(I, k)]]

\* g takes the positions K of t to the positions I of s with the same elements.
Carries(g, t, K, s, I) ==
  /\ K \in SUBSET Int /\ IsFiniteSet(K) /\ g \in [K -> Int]
  /\ \A i, j \in K : i < j => g[i] < g[j]
  /\ I = {g[k] : k \in K}
  /\ \A k \in K : s[g[k]] = t[k]

LEMMA AtImage ==
  ASSUME NEW g, NEW t, NEW K, NEW s, NEW I, Carries(g, t, K, s, I)
  PROVE  At(s, I) = At(t, K)
<1>0. /\ K \in SUBSET Int /\ IsFiniteSet(K) /\ g \in [K -> Int]
      /\ \A i, j \in K : i < j => g[i] < g[j]
      /\ I = {g[k] : k \in K}
      /\ \A k \in K : s[g[k]] = t[k]
  BY DEF Carries
<1>1. /\ Cardinality(I) = Cardinality(K)
      /\ \A k \in 1..Cardinality(K) : Nth(K, k) \in K /\ Nth(I, k) = g[Nth(K, k)]
  BY <1>0, NthOfImage
<1>2. \A k \in 1..Cardinality(K) : s[Nth(I, k)] = t[Nth(K, k)]
  BY <1>0, <1>1
<1> QED BY <1>1, <1>2 DEF At

\* Row and column of a cell of a table with n columns, rows after rows.
LEMMA CellOf ==
  ASSUME NEW n \in Nat \ {0}, NEW rows \in Nat, NEW i \in 1..(rows * n)
  PROVE  /\ ((i - 1) \div n) + 1 \in 1..rows
         /\ ((i - 1) % n) + 1 \in 1..n
         /\ i = ((i - 1) \div n) * n + ((i - 1) % n) + 1
<1>1. PICK x \in Nat : x = i - 1
  OBVIOUS
<1>2. PICK q \in Int, r \in Int : q = x \div n /\ r = x % n
  BY <1>1
<1>3. x = n * q + r /\ 0 <= r /\ r < n
  BY <1>2
<1>4. q >= 0
  <2> SUFFICES ASSUME q <= -1 PROVE FALSE
    OBVIOUS
  <2>1. n * q <= -n
    OBVIOUS
  <2> QED BY <1>1, <1>3, <2>1
<1>5. q < rows
  <2> SUFFICES ASSUME q >= rows PROVE FALSE
    OBVIOUS
  <2>1. n * q >= n * rows
    OBVIOUS
  <2>2. x < n * rows
    BY <1>1
  <2> QED BY <1>3, <2>1, <2>2
<1> QED BY <1>1, <1>2, <1>3, <1>4, <1>5

\* The cell of a row and a column.
IsCell(i, n, rows, p, k) ==
  n \in Nat \ {0} /\ rows \in Nat /\ p \in 1..rows /\ k \in 1..n /\ i = (p - 1) * n + k

LEMMA CellAt ==
  ASSUME NEW i, NEW n, NEW rows, NEW p, NEW k, IsCell(i, n, rows, p, k)
  PROVE  i \in 1..(rows * n) /\ (i - 1) \div n = p - 1 /\ (i - 1) % n = k - 1
<1>0. n \in Nat \ {0} /\ rows \in Nat /\ p \in 1..rows /\ k \in 1..n /\ i = (p - 1) * n + k
  BY DEF IsCell
<1>1. PICK x \in Int : x = (p - 1) * n + (k - 1)
  BY <1>0
<1>2. PICK q \in Int, r \in Int : q = x \div n /\ r = x % n
  BY <1>0, <1>1
<1>3. x = n * q + r /\ 0 <= r /\ r < n
  BY <1>0, <1>2
<1>4. n * (q - (p - 1)) = (k - 1) - r
  BY <1>0, <1>1, <1>3
<1>5. q = p - 1
  <2>1. PICK d \in Int : d = q - (p - 1)
    BY <1>0
  <2>2. n * d < n /\ n * d > -n
    BY <1>0, <1>3, <1>4, <2>1
  <2>3. d < 1
    <3> SUFFICES ASSUME d >= 1 PROVE FALSE
      BY <2>1
    <3>1. n * d >= n
      BY <1>0
    <3> QED BY <1>0, <2>2, <3>1
  <2>4. d > -1
    <3> SUFFICES ASSUME d <= -1 PROVE FALSE
      BY <2>1
    <3>1. n * d <= -n
      BY <1>0
    <3> QED BY <1>0, <2>2, <3>1
  <2> QED BY <1>0, <2>1, <2>3, <2>4
<1>6. r = k - 1
  BY <1>0, <1>1, <1>3, <1>5
<1>7. 0 <= (p - 1) * n /\ (p - 1) * n + n <= rows * n
  <2>1. (rows - p) * n >= 0 /\ (p - 1) * n >= 0
    BY <1>0
  <2> QED BY <1>0, <2>1
<1> QED BY <1>0, <1>1, <1>2, <1>5, <1>6, <1>7

\* Choosing among the chosen.
LEMMA AtTwice ==
  ASSUME NEW s, NEW A \in SUBSET Int, IsFiniteSet(A), NEW C \in SUBSET A,
         NEW B, B = {x \in 1..Cardinality(A) : Nth(A, x) \in C}
  PROVE  At(At(s, A), B) = At(s, C)
<1> DEFINE m == Cardinality(A)
           g == [x \in B |-> Nth(A, x)]
           t == At(s, A)
<1>1. /\ m \in Nat
      /\ \A k \in 1..m : Nth(A, k) \in A
      /\ \A i, j \in 1..m : i < j => Nth(A, i) < Nth(A, j)
      /\ \A i \in A : \E k \in 1..m : Nth(A, k) = i
  BY NthEnumerates
<1>2. B \in SUBSET (1..m) /\ \A x \in 1..m : x \in B <=> Nth(A, x) \in C
  OBVIOUS
<1>3. DOMAIN t = 1..m /\ \A x \in 1..m : t[x] = s[Nth(A, x)]
  BY DEF At
<1> HIDE DEF m, t
<1>4. B \in SUBSET Int /\ IsFiniteSet(B)
  <2>1. IsFiniteSet(1..m)
    BY <1>1, NthOfInterval
  <2>2. B \in SUBSET Int
    BY <1>1, <1>2
  <2> QED BY <1>2, <2>1, <2>2, FS_Subset
<1>5. g \in [B -> Int] /\ \A i, j \in B : i < j => g[i] < g[j]
  BY <1>1, <1>2
<1>6. C = {g[x] : x \in B}
  <2>1. \A x \in B : g[x] \in C
    BY <1>2
  <2>2. ASSUME NEW c \in C PROVE \E x \in B : g[x] = c
    <3>1. PICK x \in 1..m : Nth(A, x) = c
      BY <1>1
    <3> QED BY <1>2, <3>1
  <2> HIDE DEF g
  <2> QED BY <2>1, <2>2
<1>7. \A x \in B : s[g[x]] = t[x]
  BY <1>2, <1>3
<1> HIDE DEF g
<1>8. At(s, C) = At(t, B)
  <2>1. Carries(g, t, B, s, C)
    BY <1>4, <1>5, <1>6, <1>7 DEF Carries
  <2> QED BY <2>1, AtImage
<1> QED BY <1>8 DEF t

\* The results of a job, one task after the other.
Runs(w, j) == [i \in 1..Len(TasksOf(j)) |-> Result(w, TasksOf(j)[i], j.frames)]

\* The result of one task of scenario sc in isolation.
Isolated(w, k, sc, frames) == Result(w, [seed |-> SeedOrder[k], selection |-> {sc}], frames)

LEMMA Orders ==
  /\ Len(SeedOrder) \in Nat \ {0} /\ Len(ScenarioOrder) \in Nat
  /\ DOMAIN SeedOrder = 1..Len(SeedOrder) /\ DOMAIN ScenarioOrder = 1..Len(ScenarioOrder)
  /\ \A k \in 1..Len(SeedOrder) : SeedOrder[k] \in Seeds
  /\ \A p \in 1..Len(ScenarioOrder) : ScenarioOrder[p] \in Scenarios
  /\ \A sc \in Scenarios : \E p \in 1..Len(ScenarioOrder) : ScenarioOrder[p] = sc
  /\ \A p, q \in 1..Len(ScenarioOrder) : ScenarioOrder[p] = ScenarioOrder[q] => p = q
<1>1. SeedOrder \in Seq(Seeds) /\ ScenarioOrder \in Seq(Scenarios)
  BY StudyAssumption
<1>2. Len(SeedOrder) # 0
  BY <1>1, StudyAssumption DEF Seeds, ToSet, Splits
<1>3. \A sc \in Scenarios : \E p \in 1..Len(ScenarioOrder) : ScenarioOrder[p] = sc
  BY <1>1 DEF Scenarios, ToSet
<1>4. \A p, q \in 1..Len(ScenarioOrder) : ScenarioOrder[p] = ScenarioOrder[q] => p = q
  <2>1. IsInjective(ScenarioOrder) /\ DOMAIN ScenarioOrder = 1..Len(ScenarioOrder)
    BY <1>1, StudyAssumption
  <2> QED BY <2>1 DEF IsInjective
<1> QED BY <1>1, <1>2, <1>3, <1>4

\* m has a row per scenario and a column per seed.
IsTable(m, w, frames, n, rows) ==
  /\ DOMAIN m = 1..(rows * n) /\ rows * n \in Nat
  /\ \A p \in 1..rows, k \in 1..n :
       /\ (p - 1) * n + k \in 1..(rows * n)
       /\ m[(p - 1) * n + k] = Isolated(w, k, ScenarioOrder[p], frames)
  /\ \A i \in 1..(rows * n) : \E p \in 1..rows, k \in 1..n : i = (p - 1) * n + k

\* The runs of the matrix are such a table.
LEMMA MatrixRuns ==
  ASSUME NEW w, NEW j, j.kind = "matrix"
  PROVE  IsTable(Runs(w, j), w, j.frames, Len(SeedOrder), Len(ScenarioOrder))
<1>0. PICK n, rows : n = Len(SeedOrder) /\ rows = Len(ScenarioOrder)
  OBVIOUS
<1> DEFINE T == [i \in 1..(rows * n) |->
                   [seed |-> SeedOrder[((i - 1) % n) + 1],
                    selection |-> {ScenarioOrder[((i - 1) \div n) + 1]}]]
<1>1. n \in Nat \ {0} /\ rows \in Nat /\ rows * n \in Nat
  BY <1>0, Orders
<1>2. TasksOf(j) = T
  BY <1>0 DEF TasksOf
<1>3. Len(TasksOf(j)) = rows * n
  BY <1>1, <1>2
<1>4. ASSUME NEW p \in 1..rows, NEW k \in 1..n
      PROVE  /\ (p - 1) * n + k \in 1..(rows * n)
             /\ T[(p - 1) * n + k] = [seed |-> SeedOrder[k], selection |-> {ScenarioOrder[p]}]
  <2>1. PICK i : i = (p - 1) * n + k
    OBVIOUS
  <2>2. i \in 1..(rows * n) /\ (i - 1) \div n = p - 1 /\ (i - 1) % n = k - 1
    <3>1. n \in Nat \ {0} /\ rows \in Nat
      BY <1>1
    <3>2. IsCell(i, n, rows, p, k)
      BY <2>1, <3>1 DEF IsCell
    <3> QED BY <3>2, CellAt
  <2>3. ((i - 1) \div n) + 1 = p /\ ((i - 1) % n) + 1 = k
    BY <2>2
  <2> QED BY <2>1, <2>2, <2>3
<1>5. \A i \in 1..(rows * n) : \E p \in 1..rows, k \in 1..n : i = (p - 1) * n + k
  <2> SUFFICES ASSUME NEW i \in 1..(rows * n)
               PROVE  \E p \in 1..rows, k \in 1..n : i = (p - 1) * n + k
    OBVIOUS
  <2>1. PICK q, r : q = (i - 1) \div n /\ r = (i - 1) % n
    OBVIOUS
  <2>2. q + 1 \in 1..rows /\ r + 1 \in 1..n /\ i = q * n + r + 1
    BY <1>1, <2>1, CellOf
  <2>3. q \in Int /\ r \in Int
    BY <1>1, <2>1
  <2>4. i = ((q + 1) - 1) * n + (r + 1)
    BY <1>1, <2>2, <2>3
  <2> QED BY <2>2, <2>4
<1> HIDE DEF T
<1>6. IsTable(Runs(w, j), w, j.frames, n, rows)
  BY <1>1, <1>2, <1>3, <1>4, <1>5 DEF IsTable, Runs, Isolated
<1> QED BY <1>0, <1>6

\* s has a run of sc per seed.
IsRow(s, w, sc, frames, n) ==
  DOMAIN s = 1..n /\ \A k \in 1..n : s[k] = Isolated(w, k, sc, frames)

\* The runs of a study of one scenario are such a row.
LEMMA StudyRuns ==
  ASSUME NEW w, NEW j, j.kind = "study", NEW sc, j.selection = {sc}
  PROVE  IsRow(Runs(w, j), w, sc, j.frames, Len(SeedOrder))
<1> DEFINE n == Len(SeedOrder)
<1>1. TasksOf(j) = [i \in 1..n |-> [seed |-> SeedOrder[i], selection |-> {sc}]]
  BY DEF TasksOf
<1>2. Len(TasksOf(j)) = n
  BY <1>1, Orders
<1> QED BY <1>1, <1>2 DEF IsRow, Runs, Isolated

\* What an isolated run reports does not depend on the frames, and is about its scenario.
LEMMA IsolatedIs ==
  ASSUME NEW w \in Worlds, NEW k \in 1..Len(SeedOrder), NEW sc \in Scenarios, NEW f, NEW g
  PROVE  /\ Isolated(w, k, sc, f).seed = Isolated(w, k, sc, g).seed
         /\ Isolated(w, k, sc, f).scenarios = Isolated(w, k, sc, g).scenarios
         /\ Isolated(w, k, sc, f).failures = Isolated(w, k, sc, g).failures
         /\ DOMAIN Isolated(w, k, sc, f).scenarios = {sc}
         /\ \A x \in Isolated(w, k, sc, f).failures : x[1] = sc
<1> DEFINE outcome == Evaluated[w[SeedOrder[k]]][{sc}]
<1>1. DOMAIN outcome = {sc}
  <2>1. SeedOrder[k] \in Seeds
    BY Orders
  <2>2. \A seed \in Seeds, sel \in Selections \cup {{c} : c \in Scenarios} :
          DOMAIN Evaluated[w[seed]][sel] = sel
    BY EvaluationAssumption
  <2>3. {sc} \in Selections \cup {{c} : c \in Scenarios}
    OBVIOUS
  <2> QED BY <2>1, <2>2, <2>3
<1>2. /\ Isolated(w, k, sc, f).failures = Failures(outcome)
      /\ Isolated(w, k, sc, g).failures = Failures(outcome)
  BY DEF Isolated, Result
<1> HIDE DEF outcome
<1>3. \A x \in Failures(outcome) : x[1] = sc
  BY <1>1 DEF Failures
<1>4. /\ Isolated(w, k, sc, f).seed = Isolated(w, k, sc, g).seed
      /\ Isolated(w, k, sc, f).scenarios = Isolated(w, k, sc, g).scenarios
      /\ DOMAIN Isolated(w, k, sc, f).scenarios = {sc}
  BY DEF Isolated, Result
<1> QED BY <1>2, <1>3, <1>4

\* From position d on, m has the runs of s, but for their frames, and no other of sc.
SameReports(m, s, sc, n, N, d) ==
  /\ n \in Nat \ {0} /\ N \in Nat /\ d \in Int
  /\ DOMAIN m = 1..N /\ DOMAIN s = 1..n
  /\ \A k \in 1..n :
       /\ d + k \in 1..N
       /\ m[d + k].seed = s[k].seed
       /\ m[d + k].scenarios = s[k].scenarios
       /\ m[d + k].failures = s[k].failures
       /\ DOMAIN s[k].scenarios = {sc}
       /\ \A x \in s[k].failures : x[1] = sc
  /\ \A i \in 1..N :
       sc \in DOMAIN m[i].scenarios \/ (\E x \in m[i].failures : x[1] = sc)
         => \E k \in 1..n : i = d + k

LEMMA RowIsStudy ==
  ASSUME NEW w \in Worlds, NEW a, a.kind = "matrix", NEW sc \in Scenarios,
         NEW b, b.kind = "study", b.selection = {sc}
  PROVE  \E n, N, d : SameReports(Runs(w, a), Runs(w, b), sc, n, N, d)
<1>1. PICK n, rows : n = Len(SeedOrder) /\ rows = Len(ScenarioOrder)
  OBVIOUS
<1>2. n \in Nat \ {0} /\ rows \in Nat
  BY <1>1, Orders
<1>3. PICK p \in 1..rows : ScenarioOrder[p] = sc
  BY <1>1, Orders
<1>4. PICK m, s : m = Runs(w, a) /\ s = Runs(w, b)
  OBVIOUS
<1>5. IsTable(m, w, a.frames, n, rows)
  BY <1>1, <1>4, MatrixRuns
<1>6. IsRow(s, w, sc, b.frames, n)
  BY <1>1, <1>4, StudyRuns
<1>7. PICK d, N : d = (p - 1) * n /\ N = rows * n
  OBVIOUS
<1>8. n \in Nat \ {0} /\ N \in Nat /\ d \in Int /\ DOMAIN m = 1..N /\ DOMAIN s = 1..n
  BY <1>2, <1>5, <1>6, <1>7 DEF IsTable, IsRow
<1>9. ASSUME NEW k \in 1..n
      PROVE  /\ d + k \in 1..N
             /\ m[d + k].seed = s[k].seed
             /\ m[d + k].scenarios = s[k].scenarios
             /\ m[d + k].failures = s[k].failures
             /\ DOMAIN s[k].scenarios = {sc}
             /\ \A x \in s[k].failures : x[1] = sc
  <2>1. d + k \in 1..N /\ m[d + k] = Isolated(w, k, sc, a.frames)
    BY <1>3, <1>5, <1>7 DEF IsTable
  <2>2. s[k] = Isolated(w, k, sc, b.frames)
    BY <1>6 DEF IsRow
  <2>3. k \in 1..Len(SeedOrder)
    BY <1>1
  <2>4. PICK f, g : f = a.frames /\ g = b.frames
    OBVIOUS
  <2>5. /\ Isolated(w, k, sc, g).seed = Isolated(w, k, sc, f).seed
        /\ Isolated(w, k, sc, g).scenarios = Isolated(w, k, sc, f).scenarios
        /\ Isolated(w, k, sc, g).failures = Isolated(w, k, sc, f).failures
        /\ DOMAIN Isolated(w, k, sc, g).scenarios = {sc}
        /\ \A x \in Isolated(w, k, sc, g).failures : x[1] = sc
    BY <2>3, IsolatedIs
  <2> QED BY <2>1, <2>2, <2>4, <2>5
<1>10. ASSUME NEW i \in 1..N,
              sc \in DOMAIN m[i].scenarios \/ (\E x \in m[i].failures : x[1] = sc)
       PROVE  \E k \in 1..n : i = d + k
  <2>1. PICK q \in 1..rows, k \in 1..n : i = (q - 1) * n + k
    BY <1>5, <1>7 DEF IsTable
  <2>2. PICK c : c = ScenarioOrder[q]
    OBVIOUS
  <2>3. m[i] = Isolated(w, k, c, a.frames)
    BY <1>5, <2>1, <2>2 DEF IsTable
  <2>4. c \in Scenarios /\ k \in 1..Len(SeedOrder)
    BY <1>1, <2>2, Orders
  <2>5. DOMAIN m[i].scenarios = {c} /\ \A x \in m[i].failures : x[1] = c
    BY <2>3, <2>4, IsolatedIs
  <2>6. c = sc
    BY <1>10, <2>5
  <2>7. q = p
    BY <1>1, <1>3, <2>2, <2>6, Orders
  <2> QED BY <1>7, <2>1, <2>7
<1>11. SameReports(m, s, sc, n, N, d)
  BY <1>8, <1>9, <1>10 DEF SameReports
<1> QED BY <1>4, <1>11

LEMMA IntervalSubset ==
  ASSUME NEW n \in Nat, NEW K \in SUBSET (1..n)
  PROVE  IsFiniteSet(K) /\ K \in SUBSET Int
<1>1. IsFiniteSet(1..n)
  BY NthOfInterval
<1>2. IsFiniteSet(K)
  BY <1>1, FS_Subset
<1> QED BY <1>2

\* The positions K of t are the positions I of s, d later.
Shifted(d, n, t, K, s, I) ==
  /\ n \in Nat /\ K \in SUBSET (1..n) /\ d \in Int
  /\ I = {d + k : k \in K} /\ \A k \in K : s[d + k] = t[k]

LEMMA AtShifted ==
  ASSUME NEW d, NEW n, NEW t, NEW K, NEW s, NEW I, Shifted(d, n, t, K, s, I)
  PROVE  At(s, I) = At(t, K)
<1> DEFINE g == [k \in K |-> d + k]
<1>1. /\ n \in Nat /\ K \in SUBSET (1..n) /\ d \in Int
      /\ I = {d + k : k \in K} /\ \A k \in K : s[d + k] = t[k]
  BY DEF Shifted
<1>2. K \in SUBSET Int /\ IsFiniteSet(K)
  <2> HIDE DEF g
  <2> QED BY <1>1, IntervalSubset
<1>3. \A k \in K : g[k] = d + k
  OBVIOUS
<1>4. g \in [K -> Int] /\ \A i, j \in K : i < j => g[i] < g[j]
  BY <1>1, <1>2
<1> HIDE DEF g
<1>5. I = {g[k] : k \in K} /\ \A k \in K : s[g[k]] = t[k]
  BY <1>1, <1>3
<1>6. Carries(g, t, K, s, I)
  BY <1>2, <1>4, <1>5 DEF Carries
<1> QED BY <1>6, AtImage

\* Stripped to what the report of failed runs has.
Briefs(rs) == [i \in DOMAIN rs |-> [seed |-> rs[i].seed, failures |-> rs[i].failures]]

Failed(rs) == Filter(Briefs(rs), LAMBDA r : r.failures # {})
FailedOf(rs, sc) == Filter(Failed(rs), LAMBDA r : \E f \in r.failures : f[1] = sc)

\* The runs of the scenario are the study's, but for their frames.
LEMMA RunsOfRow ==
  ASSUME NEW m, NEW s, NEW sc, NEW n, NEW N, NEW d, SameReports(m, s, sc, n, N, d)
  PROVE  Statistics(RunsOf(m, sc))[sc] = Statistics(s)[sc]
<1>2. /\ n \in Nat \ {0} /\ d \in Int
      /\ DOMAIN s = 1..n
      /\ \A k \in 1..n : /\ d + k \in DOMAIN m /\ sc \in DOMAIN m[d + k].scenarios
                         /\ m[d + k].scenarios = s[k].scenarios
                         /\ DOMAIN s[k].scenarios = {sc}
      /\ \A i \in DOMAIN m : sc \in DOMAIN m[i].scenarios => \E k \in 1..n : i = d + k
  BY DEF SameReports
<1> DEFINE I == {i \in DOMAIN m : sc \in DOMAIN m[i].scenarios}
           t == [k \in 1..n |-> m[d + k]]
<1>3. I = {d + k : k \in 1..n}
  BY <1>2
<1>4. RunsOf(m, sc) = At(m, I)
  BY DEF RunsOf, Filter, At
<1>5. \A k \in 1..n : m[d + k] = t[k]
  OBVIOUS
<1>6. At(m, I) = At(t, 1..n)
  <2>1. Shifted(d, n, t, 1..n, m, I)
    BY <1>2, <1>3, <1>5 DEF Shifted
  <2> HIDE DEF I, t
  <2> QED BY <2>1, AtShifted
<1>7. At(t, 1..n) = t
  <2>1. Cardinality(1..n) = n /\ \A k \in 1..n : Nth(1..n, k) = k
    BY <1>2, NthOfInterval
  <2>2. At(t, 1..n) = [k \in 1..n |-> t[k]]
    BY <2>1 DEF At
  <2> QED BY <2>2
<1>8. DOMAIN t = 1..n /\ 1 \in 1..n /\ \A k \in 1..n : t[k].scenarios = s[k].scenarios
  BY <1>2
<1> HIDE DEF t, I
<1>9. DOMAIN t[1].scenarios = {sc} /\ DOMAIN s[1].scenarios = {sc}
  BY <1>2, <1>8
<1>10. [i \in DOMAIN t |-> t[i].scenarios[sc].metric] = [i \in DOMAIN s |-> s[i].scenarios[sc].metric]
  BY <1>2, <1>8
<1>11. Statistics(t)[sc] = Statistics(s)[sc]
  BY <1>9, <1>10 DEF Statistics
<1> QED BY <1>4, <1>6, <1>7, <1>11

\* The failed runs of the scenario are the study's.
LEMMA FailedOfRow ==
  ASSUME NEW m, NEW s, NEW sc, NEW n, NEW N, NEW d, SameReports(m, s, sc, n, N, d)
  PROVE  FailedOf(m, sc) = Failed(s)
<1>2. /\ n \in Nat /\ d \in Int /\ N \in Nat
      /\ DOMAIN m = 1..N /\ DOMAIN s = 1..n
      /\ \A k \in 1..n : /\ d + k \in 1..N
                         /\ m[d + k].seed = s[k].seed /\ m[d + k].failures = s[k].failures
                         /\ \A x \in m[d + k].failures : x[1] = sc
      /\ \A i \in 1..N : (\E x \in m[i].failures : x[1] = sc) => \E k \in 1..n : i = d + k
  BY DEF SameReports
<1> DEFINE a == Briefs(m)
           b == Briefs(s)
           A == {i \in 1..N : a[i].failures # {}}
           C == {i \in A : \E x \in a[i].failures : x[1] = sc}
           K == {k \in 1..n : b[k].failures # {}}
           B == {x \in 1..Cardinality(A) : Nth(A, x) \in C}
           once == At(a, A)
<1>3. DOMAIN a = 1..N /\ \A i \in 1..N : a[i].seed = m[i].seed /\ a[i].failures = m[i].failures
  BY <1>2 DEF Briefs
<1>4. DOMAIN b = 1..n /\ \A k \in 1..n : b[k] = a[d + k] /\ b[k].failures = m[d + k].failures
  BY <1>2 DEF Briefs
<1> HIDE DEF a, b
<1>5. Filter(a, LAMBDA r : r.failures # {}) = once
  BY <1>3 DEF Filter, At
<1>6. Filter(b, LAMBDA r : r.failures # {}) = At(b, K)
  BY <1>4 DEF Filter, At
<1>7. A \in SUBSET Int /\ IsFiniteSet(A) /\ A \in SUBSET (1..N)
  <2>1. IsFiniteSet(1..N) /\ A \in SUBSET (1..N)
    BY <1>2, NthOfInterval
  <2> QED BY <1>2, <2>1, FS_Subset
<1>8. C \in SUBSET A
  OBVIOUS
<1>9. \A x \in 1..Cardinality(A) : once[x] = a[Nth(A, x)] /\ Nth(A, x) \in A
  BY <1>7, NthEnumerates DEF At
<1>10. DOMAIN once = 1..Cardinality(A)
  BY DEF At
<1>11. \A i \in A : i \in C <=> \E x \in a[i].failures : x[1] = sc
  OBVIOUS
<1> HIDE DEF A, C, once
<1>12. {x \in DOMAIN once : \E f \in once[x].failures : f[1] = sc} = B
  BY <1>9, <1>10, <1>11
<1>13. Filter(once, LAMBDA r : \E f \in r.failures : f[1] = sc) = At(once, B)
  BY <1>12 DEF Filter, At
<1>14. At(once, B) = At(a, C)
  BY <1>7, <1>8, AtTwice DEF once
<1>15. C = {d + k : k \in K}
  <2>1. ASSUME NEW k \in K PROVE d + k \in C
    BY <1>2, <1>3, <1>4 DEF A, C
  <2>2. ASSUME NEW i \in C PROVE \E k \in K : i = d + k
    <3>1. i \in 1..N /\ a[i].failures # {} /\ \E x \in a[i].failures : x[1] = sc
      BY DEF A, C
    <3>2. PICK k \in 1..n : i = d + k
      BY <1>2, <1>3, <3>1
    <3> QED BY <1>3, <1>4, <3>1, <3>2
  <2> HIDE DEF K
  <2> QED BY <2>1, <2>2
<1>16. K \in SUBSET (1..n) /\ \A k \in K : a[d + k] = b[k]
  BY <1>4
<1> HIDE DEF K
<1>17. At(a, C) = At(b, K)
  <2>1. Shifted(d, n, b, K, a, C)
    BY <1>2, <1>15, <1>16 DEF Shifted
  <2> QED BY <2>1, AtShifted
<1> HIDE DEF B
<1>18. Filter(Filter(a, LAMBDA r : r.failures # {}), LAMBDA r : \E f \in r.failures : f[1] = sc)
         = Filter(once, LAMBDA r : \E f \in r.failures : f[1] = sc)
  BY <1>5
<1> QED BY <1>6, <1>13, <1>14, <1>17, <1>18 DEF a, b, Failed, FailedOf

LEMMA DocumentIs ==
  ASSUME NEW w, NEW j
  PROVE  InSequence(w, j) = Manifest(j, Runs(w, j))
BY DEF InSequence, Runs

AgreeOn(sc, m, s) ==
  /\ m.statistics[sc] = s.statistics[sc]
  /\ Filter(m.failed_runs, LAMBDA r : \E f \in r.failures : f[1] = sc) = s.failed_runs
  /\ m.passed => s.passed

\* The document of the matrix agrees with the one of a study of a single scenario.
LEMMA DocumentsAgree ==
  ASSUME NEW w \in Worlds, NEW a, a.kind = "matrix", NEW sc \in Scenarios,
         NEW b, b.kind = "study", b.selection = {sc},
         NEW m, m = InSequence(w, a), NEW s, s = InSequence(w, b)
  PROVE  AgreeOn(sc, m, s)
<1>1. PICK u, v : u = Runs(w, a) /\ v = Runs(w, b)
  OBVIOUS
<1>2. PICK n, N, d : SameReports(u, v, sc, n, N, d)
  BY <1>1, RowIsStudy
<1>3. m = Manifest(a, u) /\ s = Manifest(b, v)
  BY <1>1, DocumentIs
<1>4. /\ m.statistics = MatrixStatistics(u) /\ s.statistics = Statistics(v)
      /\ m.passed = \A i \in DOMAIN u : u[i].failures = {}
      /\ s.passed = \A i \in DOMAIN v : v[i].failures = {}
  BY <1>3 DEF Manifest
<1>5. /\ m.failed_runs = Filter(Briefs(u), LAMBDA r : r.failures # {})
      /\ s.failed_runs = Filter(Briefs(v), LAMBDA r : r.failures # {})
  BY <1>3 DEF Manifest, Briefs
<1>6. m.statistics[sc] = s.statistics[sc]
  <2>1. Statistics(RunsOf(u, sc))[sc] = Statistics(v)[sc]
    BY <1>2, RunsOfRow
  <2> QED BY <1>4, <2>1 DEF MatrixStatistics
<1>7. Filter(m.failed_runs, LAMBDA r : \E f \in r.failures : f[1] = sc) = s.failed_runs
  <2>1. FailedOf(u, sc) = Failed(v)
    BY <1>2, FailedOfRow
  <2>2. Filter(m.failed_runs, LAMBDA r : \E f \in r.failures : f[1] = sc) = FailedOf(u, sc)
    BY <1>5 DEF Failed, FailedOf
  <2> QED BY <1>5, <2>1, <2>2 DEF Failed
<1>8. m.passed => s.passed
  <2>1. DOMAIN v = 1..n /\ \A k \in 1..n : d + k \in DOMAIN u /\ u[d + k].failures = v[k].failures
    BY <1>2 DEF SameReports
  <2> QED BY <1>4, <2>1
<1> QED BY <1>6, <1>7, <1>8 DEF AgreeOn

\* What is on the disk is the document of some job of its kind.
WrittenInv ==
  /\ world \in Worlds /\ DOMAIN files = {"study", "matrix"}
  /\ \A kind \in DOMAIN files : Whole(kind) =>
       \E j \in Jobs : j.kind = kind /\ files[kind].manifest = InSequence(world, j)

LEMMA WrittenStep ==
  ASSUME PoolInv, WrittenInv, [Next]_vars
  PROVE  WrittenInv'
<1>1. UNCHANGED world /\ world' \in Worlds
  BY DEF WrittenInv, Next, vars, Begin, Claim, Finish, Raise, PoolBreaks, Take, Cancel, Drained,
         Assemble, OpenOutput, WriteOutput, Kill
<1>2. \A j : InSequence(world, j)' = InSequence(world, j)
  BY <1>1 DEF InSequence, TasksOf, Result
<1>3. DOMAIN files' = {"study", "matrix"}
      /\ \A kind \in DOMAIN files' :
           Whole(kind)' => \/ files'[kind] = files[kind]
                           \/ pc = "write" /\ kind = job.kind /\ files'[kind].manifest = manifest
  <2>1. CASE UNCHANGED files
    BY <2>1 DEF WrittenInv
  <2>2. CASE OpenOutput
    BY <2>2 DEF WrittenInv, OpenOutput, Whole, Torn
  <2>3. CASE WriteOutput
    BY <2>3 DEF WrittenInv, WriteOutput, Whole
  <2> QED BY <2>1, <2>2, <2>3 DEF Next, vars, Begin, Claim, PoolBreaks, Finish, Raise, Take,
                                Cancel, Drained, Assemble, Kill
<1>4. ASSUME NEW kind \in DOMAIN files', Whole(kind)'
      PROVE  \E j \in Jobs : j.kind = kind /\ files'[kind].manifest = InSequence(world, j)
  <2>1. CASE files'[kind] = files[kind]
    BY <1>3, <1>4, <2>1 DEF WrittenInv, Whole
  <2>2. CASE pc = "write" /\ kind = job.kind /\ files'[kind].manifest = manifest
    BY <2>2 DEF PoolInv
  <2> QED BY <1>3, <1>4, <2>1, <2>2
<1>5. Jobs' = Jobs
  BY DEF Jobs
<1> QED BY <1>1, <1>2, <1>3, <1>4, <1>5 DEF WrittenInv

LEMMA AgreeOfInv ==
  ASSUME WrittenInv
  PROVE  MatrixAgrees
<1> SUFFICES ASSUME Whole("matrix"), Whole("study"), NEW sc \in Scenarios,
                    files["study"].manifest.selection = {sc}
             PROVE  LET m == files["matrix"].manifest  s == files["study"].manifest
                    IN /\ m.statistics[sc] = s.statistics[sc]
                       /\ Filter(m.failed_runs, LAMBDA r : \E f \in r.failures : f[1] = sc)
                            = s.failed_runs
                       /\ m.passed => s.passed
  BY DEF MatrixAgrees
<1>1. PICK m, s, w : m = files["matrix"].manifest /\ s = files["study"].manifest /\ w = world
  OBVIOUS
<1>2. PICK a \in Jobs : a.kind = "matrix" /\ m = InSequence(w, a)
  BY <1>1 DEF WrittenInv
<1>3. PICK b \in Jobs : b.kind = "study" /\ s = InSequence(w, b)
  BY <1>1 DEF WrittenInv
<1>4. b.selection = {sc}
  BY <1>1, <1>3 DEF InSequence, Manifest
<1>5. w \in Worlds
  BY <1>1 DEF WrittenInv
<1>6. AgreeOn(sc, m, s)
  BY <1>2, <1>3, <1>4, <1>5, DocumentsAgree
<1> QED BY <1>1, <1>6 DEF AgreeOn

\* The matrix and the study of any one scenario, whenever both are on the disk, agree
\* on the scenario's statistics and failed runs (run_isolation_matrix, run_scenario_study).
THEOREM MatrixAgreesWithStudies == Spec => []MatrixAgrees
<1>1. Init => WrittenInv
  BY DEF Init, WrittenInv, Whole, Missing
<1>2. PoolInv /\ WrittenInv /\ [Next]_vars => WrittenInv'
  BY WrittenStep
<1>3. WrittenInv => MatrixAgrees
  BY AgreeOfInv
<1> QED BY <1>1, <1>2, <1>3, ResultsInOrder, PTL DEF Spec
=============================================================================
