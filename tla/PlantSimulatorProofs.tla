-------------------------- MODULE PlantSimulatorProofs --------------------------
(***************************************************************************)
(* For every plant, delay, cadence, integration step and schedule of       *)
(* calls: what a pruned buffer answers is what an unpruned one would, the  *)
(* truth events and the frozen measurements follow the scenario's windows, *)
(* and the timestamps of a signal increase.                                *)
(***************************************************************************)
EXTENDS PlantSimulator, FiniteSetTheorems, SequenceTheorems, WellFoundedInduction, TLAPS

-----------------------------------------------------------------------------
\* Least and greatest elements.

\* Intervals 1..x are ordered by inclusion as their ends are.
LEMMA LeastNat ==
  ASSUME NEW T, T \subseteq Nat, T # {}
  PROVE  \E x \in T : \A y \in T : x <= y
<1> DEFINE R == StrictSubsetOrdering(Nat)
           U == {1..x : x \in T}
<1>1. IsWellFoundedOn(R, FiniteSubsetsOf(Nat))
  BY FS_StrictSubsetOrderingWellFounded
<1>2. U \subseteq FiniteSubsetsOf(Nat) /\ U # {}
  <2>1. ASSUME NEW x \in T PROVE 1..x \in FiniteSubsetsOf(Nat)
    BY FS_Interval DEF FiniteSubsetsOf
  <2> QED BY <2>1
<1>3. PICK u \in U : \A v \in U : ~(<<v, u>> \in R)
  <2> HIDE DEF R, U
  <2> QED BY <1>1, <1>2, WFMin
<1>4. PICK x \in T : u = 1..x
  OBVIOUS
<1>5. \A y \in T : x <= y
  <2> SUFFICES ASSUME NEW y \in T, y < x PROVE FALSE
    OBVIOUS
  <2>1. x \in Nat /\ y \in Nat /\ x \in 1..x /\ x \notin 1..y
    OBVIOUS
  <2>2. (1..y) \subseteq (1..x) /\ (1..y) # (1..x)
    BY <2>1
  <2>3. <<1..y, u>> \in R
    BY <1>4, <2>1, <2>2 DEF StrictSubsetOrdering
  <2> QED BY <1>3, <2>3
<1> QED BY <1>5

LEMMA MaxIs ==
  ASSUME NEW S, S \subseteq Int, NEW m \in S, \A y \in S : m >= y
  PROVE  Max(S) = m
<1> DEFINE c == CHOOSE x \in S : \A y \in S : x >= y
<1>1. c \in S /\ \A y \in S : c >= y
  OBVIOUS
<1> HIDE DEF c
<1>2. c = m
  BY <1>1
<1> QED BY <1>2 DEF Max, c

LEMMA MinIs ==
  ASSUME NEW S, S \subseteq Nat, S # {}
  PROVE  Min(S) \in S /\ \A y \in S : Min(S) <= y
<1>1. \E x \in S : \A y \in S : x =< y
  BY LeastNat
<1> QED BY <1>1 DEF Min

\* A bounded set has a greatest element.
LEMMA MaxExists ==
  ASSUME NEW S, S \subseteq Int, S # {}, NEW b \in Int, \A x \in S : x <= b
  PROVE  Max(S) \in S /\ \A y \in S : Max(S) >= y
<1> DEFINE T == {b - x : x \in S}
<1>1. T \subseteq Nat /\ T # {}
  <2>1. \A x \in S : x \in Int /\ x <= b /\ b - x \in Nat
    OBVIOUS
  <2> QED BY <2>1
<1>2. PICK d \in T : \A y \in T : d <= y
  BY <1>1, LeastNat
<1>3. PICK m \in S : d = b - m
  OBVIOUS
<1>4. ASSUME NEW y \in S PROVE m >= y
  <2>1. b - y \in T
    OBVIOUS
  <2>2. d <= b - y
    BY <1>2, <2>1
  <2>3. m \in Int /\ y \in Int
    OBVIOUS
  <2> QED BY <1>3, <2>2, <2>3
<1> QED BY <1>4, MaxIs

\* The values of a function on a finite set of naturals are bounded: no least n has
\* a function on 1..n without a bound.
LEMMA FiniteBound ==
  ASSUME NEW E, IsFiniteSet(E), NEW f \in [E -> Nat]
  PROVE  \E b \in Nat : \A e \in E : f[e] <= b
<1>1. PICK n \in Nat : ExistsBijection(1..n, E)
  BY FS_NatBijection
<1>2. PICK g \in [1..n -> E] : \A e \in E : \E i \in 1..n : g[i] = e
  BY <1>1 DEF ExistsBijection, Bijection, Surjection
<1> DEFINE Unbounded == {k \in Nat : k <= n /\ ~ \E b \in Nat : \A i \in 1..k : f[g[i]] <= b}
<1>3. Unbounded = {}
  <2> SUFFICES ASSUME Unbounded # {} PROVE FALSE
    OBVIOUS
  <2>1. PICK k \in Unbounded : \A j \in Unbounded : k <= j
    BY LeastNat
  <2>2. k # 0
    BY <2>1
  <2>3. k - 1 \in Nat /\ k - 1 \notin Unbounded
    <3>1. k \in Nat /\ k - 1 \in Nat /\ ~(k <= k - 1)
      BY <2>1, <2>2
    <3> QED BY <2>1, <3>1
  <2>4. PICK b \in Nat : \A i \in 1..(k - 1) : f[g[i]] <= b
    BY <2>1, <2>3
  <2> DEFINE h == [i \in 1..k |-> f[g[i]]]
  <2>5. k \in Nat /\ k \in 1..k /\ \A i \in 1..k : h[i] \in Nat /\ h[i] = f[g[i]]
    <3>1. k \in Nat /\ k <= n /\ k \in 1..k /\ \A i \in 1..k : i \in 1..n
      BY <2>1, <2>2
    <3>2. \A i \in 1..n : f[g[i]] \in Nat
      BY <1>2
    <3> QED BY <3>1, <3>2
  <2>6. \A i \in 1..(k - 1) : h[i] <= b
    BY <2>4, <2>5
  <2> HIDE DEF h
  <2>7. \A i \in 1..k : i \in 1..(k - 1) \/ i = k
    BY <2>5
  <2>8. PICK c \in Nat : c = h[k]
    BY <2>5
  <2>9. b + c \in Nat /\ \A i \in 1..k : h[i] <= b + c
    <3>1. b + c \in Nat /\ c <= b + c /\ \A m \in Nat : m <= b => m <= b + c
      OBVIOUS
    <3>2. ASSUME NEW i \in 1..k PROVE h[i] <= b + c
      <4>1. CASE i = k
        BY <2>8, <3>1, <4>1
      <4>2. CASE i \in 1..(k - 1)
        BY <2>5, <2>6, <3>1, <4>2
      <4> QED BY <2>7, <4>1, <4>2
    <3> QED BY <3>1, <3>2
  <2>10. \A i \in 1..k : f[g[i]] <= b + c
    BY <2>5, <2>9
  <2> QED BY <2>1, <2>9, <2>10
<1>4. PICK b \in Nat : \A i \in 1..n : f[g[i]] <= b
  <2>1. n <= n
    OBVIOUS
  <2> HIDE DEF Unbounded
  <2>2. n \notin Unbounded
    BY <1>3
  <2> QED BY <2>1, <2>2 DEF Unbounded
<1> QED BY <1>2, <1>4

-----------------------------------------------------------------------------
\* Buffers.

\* h holds the instants of S from its first entry to now, in order.
History(h, now, S) ==
  /\ h \in Seq(Nat) /\ Len(h) \in Nat \ {0}
  /\ \A i, j \in 1..Len(h) : i < j => h[i] < h[j]
  /\ h[Len(h)] = now
  /\ \A i \in 1..Len(h) : h[i] \in S
  /\ \A t \in S : h[1] <= t => \E i \in 1..Len(h) : h[i] = t

Latest(S, target) == Max({0} \cup {t \in S : t <= target})

LEMMA LatestIs ==
  ASSUME NEW S, S \subseteq Nat, NEW target \in Int, NEW m,
         m = 0 \/ (m \in S /\ m <= target),
         \A t \in S : t <= target => t <= m
  PROVE  Latest(S, target) = m
<1> DEFINE T == {0} \cup {t \in S : t <= target}
<1>1. m \in Nat /\ m \in T
  <2>1. CASE m = 0
    BY <2>1
  <2>2. CASE m \in S /\ m <= target
    BY <2>2
  <2> QED BY <2>1, <2>2
<1>2. T \subseteq Int /\ \A y \in T : m >= y
  <2>1. \A y \in T : y = 0 \/ (y \in S /\ y \in Nat /\ y <= target)
    OBVIOUS
  <2> HIDE DEF T
  <2>2. \A y \in T : y \in Int /\ m >= y
    BY <1>1, <2>1
  <2> QED BY <2>2
<1> HIDE DEF T
<1>3. Max(T) = m
  BY <1>1, <1>2, MaxIs
<1> QED BY <1>3 DEF Latest, T

\* A history that reaches back far enough answers what the whole past would.
LEMMA LookupLatest ==
  ASSUME NEW S, S \subseteq Nat, NEW h, NEW now, History(h, now, S),
         NEW target \in Int, h[1] <= target \/ h[1] = 0
  PROVE  Lookup(h, target) = Latest(S, target)
<1> DEFINE I == {1} \cup {i \in 1..Len(h) : h[i] <= target}
<1>1. /\ Len(h) \in Nat \ {0} /\ 1 \in 1..Len(h)
      /\ \A i \in 1..Len(h) : h[i] \in Nat /\ h[i] \in S
      /\ \A i, j \in 1..Len(h) : i < j => h[i] < h[j]
      /\ \A t \in S : h[1] <= t => \E i \in 1..Len(h) : h[i] = t
  BY DEF History
<1>2. I \subseteq Int /\ I # {} /\ I \subseteq 1..Len(h) /\ \A i \in I : i <= Len(h)
  BY <1>1
<1>3. /\ Max(I) \in I /\ \A i \in I : Max(I) >= i
  <2> HIDE DEF I
  <2>1. PICK b \in Int : b = Len(h)
    BY <1>1
  <2>2. \A i \in I : i <= b
    BY <1>2, <2>1
  <2> QED BY <1>2, <2>2, MaxExists
<1> DEFINE m == Max(I)
<1>4. Lookup(h, target) = h[m]
  BY DEF Lookup
<1>5. m \in 1..Len(h) /\ (m = 1 \/ h[m] <= target) /\ \A i \in 1..Len(h) : h[i] <= target => i <= m
  BY <1>2, <1>3
<1> HIDE DEF m, I
<1>6. h[m] \in S /\ h[m] \in Nat
  BY <1>1, <1>5
<1>7. CASE h[1] <= target
  <2>1. h[m] <= target
    BY <1>5, <1>7
  <2>2. ASSUME NEW t \in S, t <= target PROVE t <= h[m]
    <3>1. CASE h[1] <= t
      <4>1. PICK i \in 1..Len(h) : h[i] = t
        BY <1>1, <3>1
      <4>2. i <= m
        BY <1>5, <2>2, <4>1
      <4>3. i = m \/ h[i] < h[m]
        BY <1>1, <1>5, <4>2
      <4> QED BY <1>6, <4>1, <4>3
    <3>2. CASE t < h[1]
      <4>1. m = 1 \/ h[1] < h[m]
        BY <1>1, <1>5
      <4> QED BY <1>1, <1>6, <3>2, <4>1
    <3> QED BY <1>1, <3>1, <3>2
  <2> QED BY <1>4, <1>6, <2>1, <2>2, LatestIs
<1>8. CASE ~(h[1] <= target)
  <2>1. h[1] = 0 /\ target < 0
    BY <1>1, <1>8
  <2>2. m = 1
    <3>1. ~(h[m] <= target)
      BY <1>6, <2>1
    <3> QED BY <1>5, <3>1
  <2>3. \A t \in S : ~(t <= target)
    BY <2>1
  <2>4. Latest(S, target) = 0
    BY <2>3, LatestIs
  <2> QED BY <1>4, <2>1, <2>2, <2>4
<1> QED BY <1>7, <1>8

LEMMA AppendHistory ==
  ASSUME NEW S, NEW h, NEW now \in Nat, History(h, now, S), NEW t \in Nat, now < t
  PROVE  /\ History(Append(h, t), t, S \cup {t})
         /\ Append(h, t)[1] = h[1] /\ Len(Append(h, t)) = Len(h) + 1
<1> DEFINE g == Append(h, t)
           n == Len(h)
<1>1. /\ h \in Seq(Nat) /\ n \in Nat \ {0}
      /\ \A i, j \in 1..n : i < j => h[i] < h[j]
      /\ h[n] = now
      /\ \A i \in 1..n : h[i] \in S /\ h[i] \in Nat
      /\ \A x \in S : h[1] <= x => \E i \in 1..n : h[i] = x
  BY DEF History
<1>2. g \in Seq(Nat) /\ Len(g) = n + 1 /\ g[n + 1] = t /\ \A i \in 1..n : g[i] = h[i]
  BY <1>1
<1> HIDE DEF g, n
<1>3. \A i \in 1..(n + 1) : i \in 1..n \/ i = n + 1
  BY <1>1
<1>4. \A i \in 1..n : h[i] <= now
  <2> SUFFICES ASSUME NEW i \in 1..n PROVE h[i] <= now
    OBVIOUS
  <2>1. i = n \/ (i < n /\ n \in 1..n)
    BY <1>1
  <2> QED BY <1>1, <2>1
<1>5. \A i, j \in 1..(n + 1) : i < j => g[i] < g[j]
  <2> SUFFICES ASSUME NEW i \in 1..(n + 1), NEW j \in 1..(n + 1), i < j PROVE g[i] < g[j]
    OBVIOUS
  <2>1. i \in 1..n
    BY <1>1
  <2>2. CASE j \in 1..n
    BY <1>1, <1>2, <2>1, <2>2
  <2>3. CASE j = n + 1
    <3>1. h[i] <= now /\ h[i] \in Nat
      BY <1>1, <1>4, <2>1
    <3> QED BY <1>2, <2>1, <2>3, <3>1
  <2> QED BY <1>3, <2>2, <2>3
<1>6. \A i \in 1..(n + 1) : g[i] \in S \cup {t}
  BY <1>1, <1>2, <1>3
<1>7. \A x \in S \cup {t} : g[1] <= x => \E i \in 1..(n + 1) : g[i] = x
  <2>1. \A i \in 1..n : i \in 1..(n + 1)
    BY <1>1
  <2>2. n + 1 \in 1..(n + 1) /\ 1 \in 1..n
    BY <1>1
  <2>3. g[1] = h[1]
    BY <1>2, <2>2
  <2> SUFFICES ASSUME NEW x \in S \cup {t}, g[1] <= x PROVE \E i \in 1..(n + 1) : g[i] = x
    OBVIOUS
  <2>4. CASE x = t
    BY <1>2, <2>2, <2>4
  <2>5. CASE x \in S
    BY <1>1, <1>2, <2>1, <2>3, <2>5
  <2> QED BY <2>4, <2>5
<1>8. History(g, t, S \cup {t})
  <2>1. Len(g) \in Nat \ {0}
    BY <1>1, <1>2
  <2> QED BY <1>2, <1>5, <1>6, <1>7, <2>1 DEF History
<1>9. g[1] = h[1]
  BY <1>1, <1>2
<1> QED BY <1>2, <1>8, <1>9 DEF g, n

\* What is left of a history after its first k - 1 entries.
LEMMA DropHistory ==
  ASSUME NEW S, S \subseteq Nat, NEW h, NEW now, History(h, now, S), NEW k \in 1..Len(h),
         NEW g, g = SubSeq(h, k, Len(h))
  PROVE  /\ History(g, now, S) /\ Len(g) = Len(h) - k + 1
         /\ g[1] = h[k] /\ (Len(g) >= 2 => g[2] = h[k + 1])
<1> DEFINE n == Len(h)
           m == n - k + 1
<1>1. /\ h \in Seq(Nat) /\ n \in Nat \ {0} /\ k \in 1..n
      /\ \A i, j \in 1..n : i < j => h[i] < h[j]
      /\ h[n] = now
      /\ \A i \in 1..n : h[i] \in S /\ h[i] \in Nat
      /\ \A x \in S : h[1] <= x => \E i \in 1..n : h[i] = x
  BY DEF History
<1>2. m \in Nat \ {0} /\ \A i \in 1..m : k + i - 1 \in 1..n
  BY <1>1
<1>3. g \in Seq(Nat) /\ Len(g) = m /\ \A i \in 1..m : g[i] = h[k + i - 1]
  BY <1>1
<1> DEFINE p(i) == k + i - 1
<1>4. /\ \A i \in 1..m : p(i) \in 1..n /\ g[i] = h[p(i)]
      /\ \A i, j \in 1..m : i < j => p(i) < p(j)
      /\ m \in 1..m /\ p(m) = n
  BY <1>1, <1>2, <1>3
<1> HIDE DEF p
<1>5. (\A i, j \in 1..m : i < j => g[i] < g[j]) /\ g[m] = now
  <2> HIDE DEF m
  <2> QED BY <1>1, <1>4
<1>6. \A i \in 1..m : g[i] \in S
  BY <1>1, <1>2, <1>3
<1>7. ASSUME NEW x \in S, g[1] <= x PROVE \E i \in 1..m : g[i] = x
  <2>1. g[1] = h[k] /\ h[k] \in Nat /\ h[1] \in Nat
    BY <1>1, <1>2, <1>3
  <2>2. k = 1 \/ h[1] < h[k]
    <3>1. k = 1 \/ (1 < k /\ 1 \in 1..n)
      BY <1>1
    <3> QED BY <1>1, <3>1
  <2>3. h[1] <= x
    BY <1>7, <2>1, <2>2
  <2>4. PICK i \in 1..n : h[i] = x
    BY <1>1, <2>3
  <2>5. ~(i < k)
    BY <1>1, <1>7, <2>1, <2>4
  <2>6. i - k + 1 \in 1..m /\ k + (i - k + 1) - 1 = i
    BY <1>1, <2>5
  <2> QED BY <1>3, <2>4, <2>6
<1>8. History(g, now, S)
  BY <1>2, <1>3, <1>5, <1>6, <1>7 DEF History
<1>9. g[1] = h[k] /\ (Len(g) >= 2 => g[2] = h[k + 1])
  <2>1. /\ 1 \in 1..m /\ k + 1 - 1 = k /\ k + 2 - 1 = k + 1
        /\ m >= 2 => 2 \in 1..m
    BY <1>1, <1>2
  <2> HIDE DEF m
  <2>2. g[1] = h[k + 1 - 1] /\ (m >= 2 => g[2] = h[k + 2 - 1])
    BY <1>3, <2>1
  <2> QED BY <1>3, <2>1, <2>2
<1> QED BY <1>3, <1>8, <1>9

\* The first entry that is kept, if the entries of the set old are to be dropped.
LEMMA FirstKept ==
  ASSUME NEW n \in Nat \ {0}, NEW old,
         NEW keep, keep = {i \in 1..n : i + 1 >= n \/ i + 1 \notin old}
  PROVE  /\ Min(keep) \in 1..n
         /\ Min(keep) = 1 \/ Min(keep) \in old
         /\ n - Min(keep) + 1 <= 2 \/ Min(keep) + 1 \notin old
<1>1. n \in keep /\ keep \subseteq Nat
  OBVIOUS
<1>2. Min(keep) \in keep /\ \A y \in keep : Min(keep) <= y
  BY <1>1, MinIs
<1> DEFINE k == Min(keep)
<1>3. k \in keep /\ \A y \in keep : k <= y
  BY <1>2
<1> HIDE DEF k
<1>4. k \in 1..n /\ (k + 1 >= n \/ k + 1 \notin old)
  BY <1>3
<1>5. k = 1 \/ k \in old
  <2> SUFFICES ASSUME k # 1 PROVE k \in old
    OBVIOUS
  <2>1. k - 1 \in 1..n /\ k - 1 \notin keep /\ (k - 1) + 1 = k
    BY <1>3, <1>4
  <2> QED BY <2>1
<1> QED BY <1>4, <1>5 DEF k

\* What the two buffers keep.
LEMMA ActuatorKept ==
  ASSUME NEW l \in Loop, NEW S, S \subseteq Nat, NEW h, NEW now, History(h, now, S),
         NEW target \in Int, NEW cut, cut = CutActuator(l, h, target)
  PROVE  /\ History(cut, now, S)
         /\ cut[1] = h[1] \/ cut[1] < target - DeadTime[l]
         /\ Len(cut) <= 2 \/ cut[2] >= target - DeadTime[l]
<1> DEFINE n == Len(h)
           limit == target - DeadTime[l]
           old == {j \in 1..n : h[j] < limit}
           keep == {i \in 1..n : i + 1 >= n \/ ~(h[i + 1] < limit)}
<1>1. cut = SubSeq(h, Min(keep), n)
  BY DEF CutActuator, DropWhile
<1>2. limit \in Int /\ n \in Nat \ {0} /\ \A j \in 1..n : h[j] \in Nat
  BY EngineAssumption DEF History
<1>3. keep = {i \in 1..n : i + 1 >= n \/ i + 1 \notin old}
  BY <1>2
<1> HIDE DEF n, limit
<1>4. /\ Min(keep) \in 1..n
      /\ Min(keep) = 1 \/ Min(keep) \in old
      /\ n - Min(keep) + 1 <= 2 \/ Min(keep) + 1 \notin old
  <2> HIDE DEF keep, old
  <2> QED BY <1>2, <1>3, FirstKept
<1> DEFINE k == Min(keep)
<1> HIDE DEF keep, k
<1>5. /\ k \in 1..n
      /\ k = 1 \/ h[k] < limit
      /\ n - k + 1 <= 2 \/ h[k + 1] >= limit
  <2>1. k \in 1..n /\ (k = 1 \/ k \in old) /\ (n - k + 1 <= 2 \/ k + 1 \notin old)
    BY <1>4 DEF k
  <2>2. n - k + 1 <= 2 \/ k + 1 \in 1..n
    BY <1>2, <2>1
  <2> QED BY <1>2, <2>1, <2>2
<1>6. /\ History(cut, now, S) /\ Len(cut) = n - k + 1
      /\ cut[1] = h[k] /\ (Len(cut) >= 2 => cut[2] = h[k + 1])
  <2>1. cut = SubSeq(h, k, Len(h)) /\ k \in 1..Len(h)
    BY <1>1, <1>5 DEF k, n
  <2>2. PICK j \in 1..Len(h) : j = k
    BY <2>1
  <2>3. cut = SubSeq(h, j, Len(h))
    BY <2>1, <2>2
  <2>4. History(cut, now, S)
    BY <2>3, DropHistory
  <2>5. Len(cut) = Len(h) - j + 1
    BY <2>3, DropHistory
  <2>6. cut[1] = h[j] /\ (Len(cut) >= 2 => cut[2] = h[j + 1])
    BY <2>3, DropHistory
  <2> QED BY <2>2, <2>4, <2>5, <2>6 DEF n
<1> QED BY <1>2, <1>5, <1>6 DEF limit

\* Retention covers the integration step and every delay of the loop's edges.
LEMMA RetentionIs ==
  ASSUME NEW l \in Loop
  PROVE  /\ Retention(l) \in Nat /\ Retention(l) >= Step
         /\ \A e \in Edge : e.source = l => Retention(l) >= e.delay
<1> DEFINE R == {Step} \cup {e.delay : e \in {f \in Edge : f.source = l}}
<1>1. Step \in Nat /\ IsFiniteSet(Edge) /\ \A e \in Edge : e.delay \in Nat
  BY EngineAssumption
<1>2. [e \in Edge |-> e.delay] \in [Edge -> Nat]
  BY <1>1
<1>3. PICK b \in Nat : \A e \in Edge : [x \in Edge |-> x.delay][e] <= b
  BY <1>1, <1>2, FiniteBound
<1>4. \A e \in Edge : e.delay <= b
  BY <1>3
<1>5. R \subseteq Nat /\ R # {} /\ b + Step \in Nat /\ \A x \in R : x <= b + Step
  BY <1>1, <1>4
<1>6. Max(R) \in R /\ \A y \in R : Max(R) >= y
  <2> HIDE DEF R
  <2>1. PICK c \in Int : c = b + Step
    BY <1>5
  <2>2. R \subseteq Int /\ \A x \in R : x <= c
    BY <1>5, <2>1
  <2> QED BY <1>5, <2>2, MaxExists
<1>7. Retention(l) = Max(R)
  BY DEF Retention
<1> QED BY <1>5, <1>6, <1>7

LEMMA ProcessKept ==
  ASSUME NEW l \in Loop, NEW S, S \subseteq Nat, NEW h, NEW now, History(h, now, S),
         NEW t \in Int, NEW cut, cut = CutProcess(l, h, t),
         NEW limit, limit = t - Retention(l)
  PROVE  /\ History(cut, now, S)
         /\ cut[1] = h[1] \/ cut[1] <= limit
         /\ Len(cut) <= 2 \/ cut[2] > limit
<1> DEFINE n == Len(h)
           old == {j \in 1..n : h[j] <= limit}
           keep == {i \in 1..n : i + 1 >= n \/ ~(h[i + 1] <= limit)}
<1>1. cut = SubSeq(h, Min(keep), n)
  BY DEF CutProcess, DropWhile
<1>2. limit \in Int /\ n \in Nat \ {0} /\ \A j \in 1..n : h[j] \in Nat
  BY RetentionIs DEF History
<1>3. keep = {i \in 1..n : i + 1 >= n \/ i + 1 \notin old}
  BY <1>2
<1> HIDE DEF n
<1>4. /\ Min(keep) \in 1..n
      /\ Min(keep) = 1 \/ Min(keep) \in old
      /\ n - Min(keep) + 1 <= 2 \/ Min(keep) + 1 \notin old
  <2> HIDE DEF keep, old
  <2> QED BY <1>2, <1>3, FirstKept
<1> DEFINE k == Min(keep)
<1> HIDE DEF keep, k
<1>5. /\ k \in 1..n
      /\ k = 1 \/ h[k] <= limit
      /\ n - k + 1 <= 2 \/ h[k + 1] > limit
  <2>1. k \in 1..n /\ (k = 1 \/ k \in old) /\ (n - k + 1 <= 2 \/ k + 1 \notin old)
    BY <1>4 DEF k
  <2>2. n - k + 1 <= 2 \/ k + 1 \in 1..n
    BY <1>2, <2>1
  <2> QED BY <1>2, <2>1, <2>2
<1>6. /\ History(cut, now, S) /\ Len(cut) = n - k + 1
      /\ cut[1] = h[k] /\ (Len(cut) >= 2 => cut[2] = h[k + 1])
  <2>1. cut = SubSeq(h, k, Len(h)) /\ k \in 1..Len(h)
    BY <1>1, <1>5 DEF k, n
  <2>2. PICK j \in 1..Len(h) : j = k
    BY <2>1
  <2>3. cut = SubSeq(h, j, Len(h))
    BY <2>1, <2>2
  <2>4. History(cut, now, S)
    BY <2>3, DropHistory
  <2>5. Len(cut) = Len(h) - j + 1
    BY <2>3, DropHistory
  <2>6. cut[1] = h[j] /\ (Len(cut) >= 2 => cut[2] = h[j + 1])
    BY <2>3, DropHistory
  <2> QED BY <2>2, <2>4, <2>5, <2>6 DEF n
<1> QED BY <1>2, <1>5, <1>6 

-----------------------------------------------------------------------------
\* The invariant.

\* A step began at the instant before the last one.
Clock ==
  /\ elapsed \in Nat /\ remaining \in Nat /\ elapsed + remaining <= MaxElapsed
  /\ calling \in BOOLEAN
  /\ began \in Nat /\ began <= elapsed /\ elapsed - began <= Step
  /\ stamps \subseteq 0..MaxElapsed /\ elapsed \in stamps /\ began \in stamps
  /\ \A t \in stamps : t <= began \/ t = elapsed

\* A buffer reaches back to what its next reader asks for, and but for two entries
\* no further than it must.
ActuatorHistory(l, h, from, now, S) ==
  /\ History(h, now, S)
  /\ h[1] = 0 \/ h[1] <= now - DeadTime[l]
  /\ Len(h) <= 2 \/ h[2] >= from - 2 * DeadTime[l]

ProcessHistory(l, h, now, S) ==
  /\ History(h, now, S)
  /\ h[1] = 0 \/ h[1] <= now - Retention(l)
  /\ Len(h) <= 2 \/ h[2] > now - Retention(l)

Buffers ==
  \A l \in Loop :
    /\ ActuatorHistory(l, delay[l], began, elapsed, stamps)
    /\ ProcessHistory(l, process_history[l], elapsed, stamps)

\* The last truth event of a loop told its present state.
Told(last, events, now) ==
  last \in BOOLEAN /\ events \in Nat /\ (last <=> now) /\ (last <=> events % 2 = 1)

Truth ==
  /\ \A l \in Loop : Told(last_active[l], flips[l], Active(l, elapsed))
  /\ Told(last_load, load_flips, LoadChange(elapsed))

\* A timestamp belongs to a sample of its signal and stays before the next one.
Stamped(s, last) ==
  \/ last.at = -1 /\ last.stamp = -1
  \/ /\ last.at \in Nat /\ last.stamp \in Nat /\ last.at <= elapsed
     /\ last.at % Cadence[s] = 0
     /\ last.at <= last.stamp /\ last.stamp < last.at + Cadence[s]

Fresh == \A s \in Signal : Stamped(s, latest[s])

Inv == Clock /\ Buffers /\ DelaysExact /\ Truth /\ Fresh

-----------------------------------------------------------------------------
\* The steps.

LEMMA LoopTypes ==
  /\ Step \in Nat \ {0} /\ Cycle \in Nat \ {0} /\ MaxElapsed \in Nat
  /\ \A l \in Loop : DeadTime[l] \in Nat /\ Onset[l] \in 1..Cycle /\ End[l] \in 1..Cycle
  /\ \A e \in Edge : e.source \in Loop /\ e.delay \in Nat /\ e.delay > 0
  /\ \A s \in Signal : LoopOf[s] \in Loop /\ Cadence[s] \in Nat \ {0}
  /\ LoadWindow.from \in 1..Cycle /\ LoadWindow.to \in 1..Cycle
BY EngineAssumption, ModelAssumption DEF ValidModel

LEMMA StartHistory == History(<<0>>, 0, {0}) /\ <<0>>[1] = 0 /\ Len(<<0>>) = 1
BY DEF History

LEMMA InvInit == Init => Inv
<1> SUFFICES ASSUME Init PROVE Inv
  OBVIOUS
<1>1. Clock
  <2>1. MaxElapsed \in Nat /\ Step \in Nat /\ 0 \in 0..MaxElapsed
    BY LoopTypes
  <2>2. /\ elapsed = 0 /\ remaining = 0 /\ began = 0 /\ calling = FALSE /\ stamps = {0}
    BY DEF Init
  <2>3. stamps \subseteq 0..MaxElapsed /\ elapsed \in stamps /\ began \in stamps
    BY <2>1, <2>2
  <2>4. elapsed + remaining <= MaxElapsed /\ elapsed - began <= Step /\ began <= elapsed
    BY <2>1, <2>2
  <2>5. elapsed \in Nat /\ remaining \in Nat /\ began \in Nat /\ calling \in BOOLEAN
        /\ \A t \in stamps : t = elapsed
    BY <2>2
  <2> QED BY <2>3, <2>4, <2>5 DEF Clock
<1>2. Buffers
  BY StartHistory DEF Init, Buffers, ActuatorHistory, ProcessHistory
<1>3. \A x \in Int : Latest({0}, x) = 0
  BY LatestIs
<1>4. DelaysExact
  BY <1>3, LoopTypes DEF Init, DelaysExact, LatestInstant, Latest
<1>5. 0 % Cycle = 0
  BY LoopTypes
<1>6. ~LoadChange(0) /\ \A l \in Loop : ~Active(l, 0)
  BY <1>5, LoopTypes DEF LoadChange, Active
<1>7. Truth
  <2>1. Told(FALSE, 0, FALSE)
    BY DEF Told
  <2>2. /\ elapsed = 0 /\ last_load = FALSE /\ load_flips = 0
        /\ \A l \in Loop : last_active[l] = FALSE /\ flips[l] = 0
    BY DEF Init
  <2>3. LoadChange(0) = FALSE /\ \A l \in Loop : Active(l, 0) = FALSE
    BY <1>6 DEF LoadChange, Active
  <2> QED BY <2>1, <2>2, <2>3 DEF Truth
<1>8. Fresh
  BY DEF Init, Fresh, Stamped
<1> QED BY <1>1, <1>2, <1>4, <1>7, <1>8 DEF Inv

\* The instants of a step that is taken.
LEMMA StepClock ==
  ASSUME Clock, IntegrationStep
  PROVE  /\ Clock'
         /\ elapsed' \in Nat /\ elapsed < elapsed' /\ began' = elapsed
         /\ stamps' = stamps \cup {elapsed'}
         /\ \A t \in stamps : t <= elapsed
<1> DEFINE dt == Least(remaining, Step)
<1>1. dt \in Nat \ {0} /\ dt <= remaining /\ dt <= Step
  BY LoopTypes DEF Clock, IntegrationStep, Least
<1>2. /\ elapsed' = elapsed + dt /\ began' = elapsed /\ remaining' = remaining - dt
      /\ stamps' = stamps \cup {elapsed + dt} /\ calling' = calling
  BY DEF IntegrationStep
<1> HIDE DEF dt
<1>3. \A t \in stamps : t \in Nat /\ t <= elapsed
  BY DEF Clock
<1>4. elapsed' \in 0..MaxElapsed /\ remaining' \in Nat /\ elapsed' + remaining' <= MaxElapsed
  BY <1>1, <1>2, LoopTypes DEF Clock
<1> QED BY <1>1, <1>2, <1>3, <1>4 DEF Clock

\* One more instant: t is the end of the step that began at now.
LEMMA ActuatorStep ==
  ASSUME NEW l \in Loop, NEW h, NEW S, S \subseteq Nat, NEW from, NEW now \in Nat, NEW t \in Nat,
         now < t, ActuatorHistory(l, h, from, now, S),
         NEW line, line = Append(h, t), NEW target \in Int, target = now - DeadTime[l],
         NEW cut, cut = CutActuator(l, line, target)
  PROVE  ActuatorHistory(l, cut, now, t, S \cup {t})
<1> DEFINE SS == S \cup {t}
<1>1. SS \subseteq Nat /\ DeadTime[l] \in Nat
  BY LoopTypes
<1>2. History(line, t, SS) /\ line[1] = h[1]
  BY AppendHistory DEF ActuatorHistory
<1>3. h[1] \in Nat /\ (h[1] = 0 \/ h[1] <= target)
  BY DEF ActuatorHistory, History
<1> HIDE DEF SS
<1>4. /\ History(cut, t, SS)
      /\ cut[1] = line[1] \/ cut[1] < target - DeadTime[l]
      /\ Len(cut) <= 2 \/ cut[2] >= target - DeadTime[l]
  BY <1>1, <1>2, ActuatorKept
<1>5. cut[1] \in Nat
  BY <1>4 DEF History
<1>6. cut[1] = 0 \/ cut[1] <= t - DeadTime[l]
  <2>1. PICK c \in Nat, b \in Nat, d \in Nat : c = cut[1] /\ b = h[1] /\ d = DeadTime[l]
    BY <1>1, <1>3, <1>5
  <2>2. /\ c = b \/ c < target - d
        /\ b = 0 \/ b <= target
        /\ target = now - d /\ now < t
    BY <1>2, <1>3, <1>4, <2>1
  <2>3. c = 0 \/ c <= t - d
    BY <2>2
  <2> QED BY <2>1, <2>3
<1>7. Len(cut) <= 2 \/ cut[2] >= now - 2 * DeadTime[l]
  <2>1. now - 2 * DeadTime[l] = target - DeadTime[l]
    BY <1>1
  <2> QED BY <1>4, <2>1
<1>8. ActuatorHistory(l, cut, now, t, SS)
  BY <1>4, <1>6, <1>7 DEF ActuatorHistory
<1> QED BY <1>8 DEF SS

LEMMA ProcessStep ==
  ASSUME NEW l \in Loop, NEW h, NEW S, S \subseteq Nat, NEW now \in Nat, NEW t \in Nat,
         now < t, ProcessHistory(l, h, now, S),
         NEW line, line = Append(h, t), NEW cut, cut = CutProcess(l, line, t)
  PROVE  ProcessHistory(l, cut, t, S \cup {t})
<1> DEFINE SS == S \cup {t}
<1>1. SS \subseteq Nat /\ Retention(l) \in Nat
  BY RetentionIs
<1>2. History(line, t, SS) /\ line[1] = h[1]
  BY AppendHistory DEF ProcessHistory
<1>3. h[1] \in Nat /\ (h[1] = 0 \/ h[1] <= now - Retention(l))
  BY DEF ProcessHistory, History
<1> HIDE DEF SS
<1>4. /\ History(cut, t, SS)
      /\ cut[1] = line[1] \/ cut[1] <= t - Retention(l)
      /\ Len(cut) <= 2 \/ cut[2] > t - Retention(l)
  <2>1. cut = CutProcess(l, line, t) /\ History(line, t, SS) /\ t \in Int
    BY <1>2
  <2>2. PICK limit : limit = t - Retention(l)
    OBVIOUS
  <2>3. History(cut, t, SS)
    BY <1>1, <2>1, <2>2, ProcessKept
  <2>4. cut[1] = line[1] \/ cut[1] <= limit
    BY <1>1, <2>1, <2>2, ProcessKept
  <2>5. Len(cut) <= 2 \/ cut[2] > limit
    BY <1>1, <2>1, <2>2, ProcessKept
  <2> QED BY <2>2, <2>3, <2>4, <2>5
<1>5. cut[1] = 0 \/ cut[1] <= t - Retention(l)
  BY <1>1, <1>2, <1>3, <1>4
<1>6. ProcessHistory(l, cut, t, SS)
  BY <1>4, <1>5 DEF ProcessHistory
<1> QED BY <1>6 DEF SS

\* An instant later than the target changes nothing of the answer.
LEMMA LatestLater ==
  ASSUME NEW S, NEW target \in Int, NEW t \in Nat, target < t
  PROVE  Latest(S \cup {t}, target) = Latest(S, target)
<1>1. {x \in S \cup {t} : x <= target} = {x \in S : x <= target}
  OBVIOUS
<1> QED BY <1>1 DEF Latest

LEMMA StepBuffers ==
  ASSUME Clock, Buffers, IntegrationStep
  PROVE  Buffers' /\ DelaysExact'
<1>1. /\ elapsed \in Nat /\ elapsed' \in Nat /\ elapsed < elapsed' /\ began' = elapsed
      /\ stamps' = stamps \cup {elapsed'} /\ stamps \subseteq Nat
  BY StepClock DEF Clock
<1>2. PICK t \in Nat : t = elapsed'
  BY <1>1
<1>3. /\ delayed' = [l \in Loop |-> Lookup(Append(delay[l], t), elapsed - DeadTime[l])]
      /\ delay' = [l \in Loop |-> CutActuator(l, Append(delay[l], t), elapsed - DeadTime[l])]
      /\ coupled' = [e \in Edge |-> Lookup(process_history[e.source], elapsed - e.delay)]
      /\ process_history' = [l \in Loop |-> CutProcess(l, Append(process_history[l], t), t)]
  BY <1>2 DEF IntegrationStep
<1>4. ASSUME NEW l \in Loop
      PROVE  /\ delayed'[l] = Latest(stamps', elapsed - DeadTime[l])
             /\ ActuatorHistory(l, delay'[l], elapsed, t, stamps')
  <2>1. ActuatorHistory(l, delay[l], began, elapsed, stamps)
    BY DEF Buffers
  <2>2. PICK h, line : h = delay[l] /\ line = Append(h, t)
    OBVIOUS
  <2>3. PICK now \in Nat, target \in Int : now = elapsed /\ target = now - DeadTime[l]
    BY <1>1, LoopTypes
  <2>4. PICK cut : cut = CutActuator(l, line, target)
    OBVIOUS
  <2>5. delayed'[l] = Lookup(line, target) /\ delay'[l] = cut
    BY <1>3, <2>2, <2>3, <2>4
  <2>6. now < t /\ stamps' = stamps \cup {t}
    BY <1>1, <1>2, <2>3
  <2>7. ActuatorHistory(l, h, began, now, stamps)
    BY <2>1, <2>2, <2>3
  <2>8. Lookup(line, target) = Latest(stamps', target)
    <3>1. History(h, now, stamps) /\ (h[1] = 0 \/ h[1] <= target)
      BY <2>3, <2>7 DEF ActuatorHistory
    <3>2. History(line, t, stamps') /\ line[1] = h[1]
      BY <2>2, <2>6, <3>1, AppendHistory
    <3>3. stamps' \subseteq Nat
      BY <1>1, <2>6
    <3> QED BY <3>1, <3>2, <3>3, LookupLatest
  <2>9. ActuatorHistory(l, cut, now, t, stamps \cup {t})
    BY <1>1, <2>2, <2>3, <2>4, <2>6, <2>7, ActuatorStep
  <2> QED BY <2>3, <2>5, <2>6, <2>8, <2>9
<1>5. ASSUME NEW l \in Loop
      PROVE  ProcessHistory(l, process_history'[l], t, stamps')
  <2>1. ProcessHistory(l, process_history[l], elapsed, stamps)
    BY DEF Buffers
  <2>2. PICK line : line = Append(process_history[l], t)
    OBVIOUS
  <2>3. process_history'[l] = CutProcess(l, line, t)
    BY <1>3, <2>2
  <2>4. elapsed < t /\ stamps' = stamps \cup {t}
    BY <1>1, <1>2
  <2>5. ProcessHistory(l, process_history'[l], t, stamps \cup {t})
    BY <1>1, <2>1, <2>2, <2>3, <2>4, ProcessStep
  <2> QED BY <2>4, <2>5
<1>6. ASSUME NEW e \in Edge
      PROVE  coupled'[e] = Latest(stamps', elapsed - e.delay)
  <2>1. /\ e.source \in Loop /\ e.delay \in Nat
        /\ Retention(e.source) \in Nat /\ Retention(e.source) >= e.delay
    BY LoopTypes, RetentionIs
  <2>2. PICK h : h = process_history[e.source]
    OBVIOUS
  <2>3. PICK target \in Int : target = elapsed - e.delay
    BY <1>1, <2>1
  <2>4. History(h, elapsed, stamps) /\ (h[1] = 0 \/ h[1] <= elapsed - Retention(e.source))
    BY <2>1, <2>2 DEF Buffers, ProcessHistory
  <2>5. h[1] \in Nat
    BY <2>4 DEF History
  <2>6. h[1] = 0 \/ h[1] <= target
    BY <1>1, <2>1, <2>3, <2>4, <2>5
  <2>7. Lookup(h, target) = Latest(stamps, target)
    BY <1>1, <2>4, <2>6, LookupLatest
  <2>8. Latest(stamps \cup {t}, target) = Latest(stamps, target)
    BY <1>1, <1>2, <2>1, <2>3, LatestLater
  <2> QED BY <1>1, <1>2, <1>3, <2>2, <2>3, <2>7, <2>8
<1>7. Buffers'
  BY <1>1, <1>2, <1>4, <1>5 DEF Buffers
<1>8. DelaysExact'
  BY <1>1, <1>4, <1>6 DEF DelaysExact, LatestInstant, Latest
<1> QED BY <1>7, <1>8

LEMMA ToldStep ==
  ASSUME NEW last, NEW events, NEW now, Told(last, events, now), NEW next \in BOOLEAN,
         NEW more, more = IF next # last THEN events + 1 ELSE events
  PROVE  Told(next, more, next)
<1>1. events \in Nat /\ last \in BOOLEAN /\ (last <=> events % 2 = 1)
  BY DEF Told
<1>2. (events + 1) % 2 = 1 <=> ~(events % 2 = 1)
  BY <1>1
<1>3. more \in Nat /\ (next <=> more % 2 = 1)
  BY <1>1, <1>2
<1> QED BY <1>3 DEF Told

LEMMA StepTruth ==
  ASSUME Truth, IntegrationStep
  PROVE  Truth'
<1>1. /\ last_active' = [l \in Loop |-> Active(l, elapsed')]
      /\ flips' = [l \in Loop |->
           IF last_active'[l] # last_active[l] THEN flips[l] + 1 ELSE flips[l]]
      /\ last_load' = LoadChange(elapsed')
      /\ load_flips' = IF last_load' # last_load THEN load_flips + 1 ELSE load_flips
  BY DEF IntegrationStep, Becomes
<1>2. ASSUME NEW l \in Loop PROVE Told(last_active'[l], flips'[l], Active(l, elapsed'))
  <2>1. Active(l, elapsed') \in BOOLEAN
    BY DEF Active
  <2>2. PICK next \in BOOLEAN : next = Active(l, elapsed')
    BY <2>1
  <2>3. Told(last_active[l], flips[l], Active(l, elapsed))
    BY DEF Truth
  <2>4. last_active'[l] = next
    BY <1>1, <2>2
  <2>5. flips'[l] = IF next # last_active[l] THEN flips[l] + 1 ELSE flips[l]
    BY <1>1, <2>4
  <2> QED BY <2>2, <2>3, <2>4, <2>5, ToldStep
<1>3. Told(last_load', load_flips', LoadChange(elapsed'))
  <2>1. LoadChange(elapsed') \in BOOLEAN
    BY DEF LoadChange
  <2>2. PICK next \in BOOLEAN : next = LoadChange(elapsed')
    BY <2>1
  <2>3. Told(last_load, load_flips, LoadChange(elapsed))
    BY DEF Truth
  <2> QED BY <1>1, <2>2, <2>3, ToldStep
<1> QED BY <1>2, <1>3 DEF Truth

\* Two samples of a signal are a cadence apart.
LEMMA SamplesApart ==
  ASSUME NEW c \in Nat \ {0}, NEW a \in Nat, NEW b \in Nat, a % c = 0, b % c = 0, a < b
  PROVE  a + c <= b
<1>1. a = c * (a \div c) /\ b = c * (b \div c) /\ a \div c \in Nat /\ b \div c \in Nat
  OBVIOUS
<1> DEFINE p == a \div c
           q == b \div c
<1>2. p \in Nat /\ q \in Nat /\ a = c * p /\ b = c * q
  BY <1>1
<1> HIDE DEF p, q
<1>3. p < q
  <2> SUFFICES ASSUME q <= p PROVE FALSE
    BY <1>2
  <2>1. PICK m \in Nat : p = q + m
    BY <1>2
  <2>2. c * p = c * q + c * m /\ c * m \in Nat
    BY <1>2, <2>1
  <2> QED BY <1>2, <2>2
<1>4. PICK m \in Nat : q = p + 1 + m
  BY <1>2, <1>3
<1>5. c * q = c * p + c + c * m /\ c * m \in Nat
  BY <1>2, <1>4
<1> QED BY <1>2, <1>5

\* What a call observes of a signal.
LEMMA Observed ==
  ASSUME Clock, Observe, NEW s \in Signal
  PROVE  \/ latest'[s] = latest[s]
         \/ /\ latest'[s].at = elapsed /\ elapsed % Cadence[s] = 0
            /\ latest'[s].stamp \in Nat
            /\ elapsed <= latest'[s].stamp /\ latest'[s].stamp < elapsed + Cadence[s]
<1>1. elapsed \in Nat /\ Cadence[s] \in Nat \ {0}
  BY LoopTypes DEF Clock
<1> DEFINE due == {x \in Signal : Due(x, elapsed) /\ ~Silent(x, elapsed)}
<1>2. PICK skipped \in SUBSET {x \in due : MayBeSkipped(x, elapsed)},
           shift \in [Signal -> UNION {Shifts(x, elapsed) : x \in Signal}] :
        /\ shift[s] \in Shifts(s, elapsed)
        /\ latest'[s] = IF s \in due \ skipped
                        THEN [at |-> elapsed, stamp |-> elapsed + shift[s]] ELSE latest[s]
  BY DEF Observe
<1> HIDE DEF due
<1>3. CASE s \in due \ skipped
  <2>1. elapsed % Cadence[s] = 0
    <3>1. Due(s, elapsed)
      BY <1>3 DEF due
    <3>2. 0 % Cadence[s] = 0
      BY <1>1
    <3> QED BY <3>1, <3>2 DEF Due
  <2>2. shift[s] \in 0..(Cadence[s] - 1)
    BY <1>1, <1>2, JitterAssumption DEF Shifts
  <2>3. latest'[s].at = elapsed /\ latest'[s].stamp = elapsed + shift[s]
    BY <1>2, <1>3
  <2> QED BY <1>1, <2>1, <2>2, <2>3
<1>4. CASE s \notin due \ skipped
  BY <1>2, <1>4
<1> QED BY <1>3, <1>4

LEMMA InvStep ==
  ASSUME Inv, [Next]_vars
  PROVE  Inv'
<1>1. CASE UNCHANGED vars
  BY <1>1 DEF Inv, vars, buffers, sensors, truth, Clock, Buffers, DelaysExact, LatestInstant,
              Truth, Fresh, Stamped
<1>2. ASSUME NEW seconds \in Calls, Advance(seconds)
      PROVE  Inv'
  <2>1. /\ UNCHANGED <<elapsed, began, buffers, sensors, truth, stamps, latest>>
        /\ calling' = TRUE /\ remaining' = seconds /\ elapsed + seconds \in Time
    BY <1>2 DEF Advance
  <2>2. Clock'
    <3>1. seconds \in Nat /\ elapsed + seconds <= MaxElapsed
      BY <2>1, EngineAssumption DEF Time
    <3> QED BY <2>1, <3>1 DEF Inv, Clock
  <2> QED
    BY <2>1, <2>2 DEF Inv, buffers, truth, Buffers, DelaysExact, LatestInstant, Truth, Fresh, Stamped
<1>3. CASE IntegrationStep
  <2>1. Clock' /\ elapsed < elapsed' /\ elapsed \in Nat /\ elapsed' \in Nat
    BY <1>3, StepClock DEF Inv, Clock
  <2>2. Fresh'
    <3> SUFFICES ASSUME NEW s \in Signal PROVE Stamped(s, latest[s])'
      BY DEF Fresh
    <3>1. latest' = latest /\ Stamped(s, latest[s])
      BY <1>3 DEF IntegrationStep, Inv, Fresh
    <3> QED BY <2>1, <3>1 DEF Stamped
  <2> QED BY <1>3, <2>1, <2>2, StepBuffers, StepTruth DEF Inv
<1>4. CASE Observe
  <2>1. /\ UNCHANGED <<elapsed, remaining, began, buffers, sensors, truth, stamps>>
        /\ calling' = FALSE
    BY <1>4 DEF Observe
  <2>2. Clock'
    BY <2>1 DEF Inv, Clock
  <2>3. Fresh'
    <3> SUFFICES ASSUME NEW s \in Signal PROVE Stamped(s, latest[s])'
      BY DEF Fresh
    <3>1. \/ latest'[s] = latest[s]
          \/ /\ latest'[s].at = elapsed /\ elapsed % Cadence[s] = 0
             /\ latest'[s].stamp \in Nat
             /\ elapsed <= latest'[s].stamp /\ latest'[s].stamp < elapsed + Cadence[s]
      BY <1>4, Observed DEF Inv
    <3>2. Stamped(s, latest[s]) /\ elapsed \in Nat
      BY DEF Inv, Fresh, Clock
    <3> QED BY <2>1, <3>1, <3>2 DEF Stamped
  <2> QED
    BY <2>1, <2>2, <2>3 DEF Inv, buffers, truth, Buffers, DelaysExact, LatestInstant, Truth
<1> QED BY <1>1, <1>2, <1>3, <1>4 DEF Next

-----------------------------------------------------------------------------
\* Theorems.

\* _LoopState's delay line and process history are pruned with every step; no step
\* of advance(), partial ones included, reads another value for it.
THEOREM PruningIsExact == Spec => []DelaysExact
<1>1. Inv => DelaysExact
  BY DEF Inv
<1> QED BY <1>1, InvInit, InvStep, PTL DEF Spec

\* However simulated time is cut into calls of advance(): a truth event is emitted
\* exactly when a scenario, or the load change, begins or ends.
THEOREM TruthIsTold == Spec => []EventsTellTruth
<1>1. Inv => EventsTellTruth
  BY DEF Inv, Truth, Told, EventsTellTruth
<1> QED BY <1>1, InvInit, InvStep, PTL DEF Spec

\* Gaps, skipped samples and shifted timestamps never turn a signal's time back.
THEOREM TimestampsIncrease == Spec => StampsIncrease
<1> DEFINE A == \A s \in Signal :
                  latest'[s].at > latest[s].at => latest'[s].stamp > latest[s].stamp
<1>1. Inv /\ [Next]_vars => [A]_vars
  <2> SUFFICES ASSUME Inv, Next, NEW s \in Signal, latest'[s].at > latest[s].at
               PROVE  latest'[s].stamp > latest[s].stamp
    OBVIOUS
  <2>1. CASE Observe
    <3>1. Stamped(s, latest[s]) /\ elapsed \in Nat /\ Cadence[s] \in Nat \ {0}
      BY LoopTypes DEF Inv, Fresh, Clock
    <3>2. /\ latest'[s].at = elapsed /\ elapsed % Cadence[s] = 0
          /\ latest'[s].stamp \in Nat /\ elapsed <= latest'[s].stamp
      <4>1. latest'[s] # latest[s]
        <5>1. latest[s].at \in Int
          BY <3>1 DEF Stamped
        <5> QED BY <5>1
      <4> QED BY <2>1, <4>1, Observed DEF Inv
    <3>3. CASE latest[s].at = -1 /\ latest[s].stamp = -1
      BY <3>1, <3>2, <3>3
    <3>4. CASE /\ latest[s].at \in Nat /\ latest[s].stamp \in Nat
               /\ latest[s].at % Cadence[s] = 0
               /\ latest[s].stamp < latest[s].at + Cadence[s]
      <4>1. latest[s].at + Cadence[s] <= elapsed
        <5>1. latest[s].at < elapsed
          BY <3>1, <3>2, <3>4
        <5> QED BY <3>1, <3>2, <3>4, <5>1, SamplesApart
      <4> QED BY <3>1, <3>2, <3>4, <4>1
    <3> QED BY <3>1, <3>3, <3>4 DEF Stamped
  <2>2. CASE IntegrationStep \/ \E seconds \in Calls : Advance(seconds)
    <3>1. latest' = latest /\ latest[s].at \in Int
      BY <2>2 DEF IntegrationStep, Advance, Inv, Fresh, Stamped
    <3> QED BY <3>1
  <2> QED BY <2>1, <2>2 DEF Next
<1> QED BY <1>1, InvInit, InvStep, PTL DEF Spec, StampsIncrease

-----------------------------------------------------------------------------
\* Bounded buffers.

\* But for two entries a history is not longer than the instants it must hold.
LEMMA HistoryBound ==
  ASSUME NEW M \in Nat, NEW S, S \subseteq 0..M, NEW h, NEW now, History(h, now, S),
         NEW limit \in Int, Len(h) <= 2 \/ h[2] >= limit,
         NEW T, T = {t \in S : t >= limit}
  PROVE  Len(h) <= 2 + Cardinality(T)
<1> DEFINE n == Len(h)
<1>1. /\ n \in Nat \ {0} /\ \A i \in 1..n : h[i] \in S /\ h[i] \in Nat
      /\ \A i, j \in 1..n : i < j => h[i] < h[j]
  BY DEF History
<1>2. IsFiniteSet(T) /\ Cardinality(T) \in Nat
  <2>1. IsFiniteSet(0..M) /\ T \in SUBSET (0..M)
    <3>1. 0 \in Int /\ M \in Int
      OBVIOUS
    <3> QED BY <3>1, FS_Interval
  <2>2. IsFiniteSet(T)
    BY <2>1, FS_Subset
  <2> QED BY <2>2, FS_CardinalityType
<1> HIDE DEF n
<1>3. CASE n <= 2
  BY <1>1, <1>2, <1>3 DEF n
<1>4. CASE n > 2
  <2> DEFINE f == [i \in 2..n |-> h[i]]
  <2>1. \A i \in 2..n : i \in 1..n /\ h[i] \in T
    <3> SUFFICES ASSUME NEW i \in 2..n PROVE i \in 1..n /\ h[i] \in T
      OBVIOUS
    <3>1. i \in 1..n /\ 2 \in 1..n /\ (i = 2 \/ 2 < i)
      BY <1>1, <1>4
    <3>2. h[2] <= h[i] /\ h[2] >= limit /\ h[2] \in Nat /\ h[i] \in Nat /\ h[i] \in S
      BY <1>1, <1>4, <3>1 DEF n
    <3> QED BY <3>1, <3>2
  <2>2. \A i, j \in 2..n : f[i] = f[j] => i = j
    <3> SUFFICES ASSUME NEW i \in 2..n, NEW j \in 2..n, h[i] = h[j] PROVE i = j
      OBVIOUS
    <3>1. i \in 1..n /\ j \in 1..n /\ (i = j \/ i < j \/ j < i)
      BY <1>1
    <3>2. h[i] \in Nat /\ h[j] \in Nat
      BY <1>1, <3>1
    <3> QED BY <1>1, <3>1, <3>2
  <2>3. f \in Injection(2..n, T)
    BY <2>1, <2>2 DEF Injection, IsInjective
  <2>4. Cardinality(2..n) <= Cardinality(T)
    <3> HIDE DEF f
    <3> QED BY <1>2, <2>3, FS_Injection
  <2>5. Cardinality(2..n) = n - 1
    BY <1>1, <1>4, FS_Interval
  <2> QED BY <1>1, <1>2, <2>4, <2>5 DEF n
<1> QED BY <1>1, <1>3, <1>4

\* The two deques of a loop hold no more than the instants their delays reach back
\* to, and two: an endless run needs no more memory.
THEOREM BuffersStayBounded == Spec => []BuffersBounded
<1>1. Inv => BuffersBounded
  <2> SUFFICES ASSUME Inv, NEW l \in Loop
               PROVE  /\ Len(delay[l]) <= 2 + Cardinality({t \in stamps : t >= began - 2 * DeadTime[l]})
                      /\ Len(process_history[l]) <= 2 + Cardinality({t \in stamps : t > elapsed - Retention(l)})
    BY DEF BuffersBounded
  <2>1. /\ stamps \subseteq 0..MaxElapsed /\ MaxElapsed \in Nat /\ began \in Nat /\ elapsed \in Nat
        /\ DeadTime[l] \in Nat /\ Retention(l) \in Nat
    BY LoopTypes, RetentionIs DEF Inv, Clock
  <2>2. Len(delay[l]) <= 2 + Cardinality({t \in stamps : t >= began - 2 * DeadTime[l]})
    <3>1. PICK limit \in Int : limit = began - 2 * DeadTime[l]
      BY <2>1
    <3> DEFINE h == delay[l]
               T == {t \in stamps : t >= limit}
    <3>2. History(h, elapsed, stamps) /\ (Len(h) <= 2 \/ h[2] >= limit)
      BY <3>1 DEF Inv, Buffers, ActuatorHistory
    <3>3. Len(h) <= 2 + Cardinality(T)
      BY <2>1, <3>1, <3>2, HistoryBound
    <3> QED BY <3>1, <3>3
  <2>3. Len(process_history[l]) <= 2 + Cardinality({t \in stamps : t > elapsed - Retention(l)})
    <3>1. PICK limit \in Int : limit = elapsed - Retention(l) + 1
      BY <2>1
    <3> DEFINE h == process_history[l]
               T == {t \in stamps : t >= limit}
    <3>2. History(h, elapsed, stamps) /\ (Len(h) <= 2 \/ h[2] > elapsed - Retention(l))
      BY <3>1 DEF Inv, Buffers, ProcessHistory
    <3>3. Len(h) <= 2 \/ h[2] >= limit
      <4>1. Len(h) <= 2 \/ h[2] \in Nat
        BY <3>2 DEF History
      <4> QED BY <2>1, <3>1, <3>2, <4>1
    <3>4. Len(h) <= 2 + Cardinality(T)
      BY <2>1, <3>1, <3>2, <3>3, HistoryBound
    <3>5. T = {t \in stamps : t > elapsed - Retention(l)}
      <4>1. \A t \in stamps : t >= limit <=> t > elapsed - Retention(l)
        BY <2>1, <3>1
      <4> QED BY <3>1, <4>1
    <3> QED BY <3>1, <3>4, <3>5
  <2> QED BY <2>2, <2>3
<1> QED BY <1>1, InvInit, InvStep, PTL DEF Spec

-----------------------------------------------------------------------------
\* Frozen measurements.

\* No integration step leaps from one cycle's scenario window into the next one's.
\* The engine does not check this; with cycles of 600 s and more, of which a scenario
\* leaves 52 percent free, every step below 312 s has it.
StepsMeetPauses == \A l \in Loop : Step <= Cycle - End[l] + Onset[l]

\* The last second before the onset in the cycle of t.
BeforeOnset(l, t) == t - (t % Cycle) + Onset[l] - 1

FrozenNow(l, t) == Scenario[l] = "frozen" /\ Active(l, t)

Frost ==
  \A l \in Loop :
    /\ measured[l] \in Nat
    /\ IF FrozenNow(l, began)
       THEN frozen[l] = measured[l] /\ measured[l] = Latest(stamps, BeforeOnset(l, began))
       ELSE frozen[l] = -1 /\ measured[l] = began

\* A time is its cycle and what is left of it.
LEMMA CycleOf ==
  ASSUME NEW c \in Nat \ {0}, NEW t \in Nat
  PROVE  \E q \in Nat : t = c * q + (t % c) /\ t % c \in 0..(c - 1)
<1>1. t \div c \in Nat /\ t = c * (t \div c) + (t % c) /\ t % c \in 0..(c - 1)
  OBVIOUS
<1> QED BY <1>1

LEMMA InCycle ==
  ASSUME NEW c \in Nat \ {0}, NEW q \in Nat, NEW r \in 0..(c - 1)
  PROVE  (c * q + r) % c = r
OBVIOUS

\* Between an instant outside the window and one inside it lies the onset.
LEMMA OnsetBetween ==
  ASSUME NEW c \in Nat \ {0}, NEW on \in 1..c, NEW end \in 1..c,
         NEW b \in Nat, NEW e \in Nat, b <= e,
         on <= e % c, e % c < end, ~(on <= b % c /\ b % c < end)
  PROVE  b <= e - (e % c) + on - 1 /\ e - (e % c) + on - 1 < e
<1>1. PICK q \in Nat : e = c * q + (e % c) /\ e % c \in 0..(c - 1)
  BY CycleOf
<1>2. PICK p \in Nat : p = c * q
  BY <1>1
<1>3. PICK r \in Nat : r = e % c
  BY <1>1
<1>4. e = p + r /\ on <= r /\ r < end /\ r < c
  BY <1>1, <1>2, <1>3
<1>5. b <= p + on - 1
  <2> SUFFICES ASSUME b >= p + on PROVE FALSE
    BY <1>4
  <2>1. b - p \in 0..(c - 1) /\ on <= b - p /\ b - p < end
    BY <1>4
  <2>2. b = c * q + (b - p)
    BY <1>2
  <2>3. b % c = b - p
    BY <2>1, <2>2, InCycle
  <2> QED BY <2>1, <2>3
<1> QED BY <1>3, <1>4, <1>5

\* Instants of the cycles p and q inside the window, no more than a pause apart.
LEMMA SameCycle ==
  ASSUME NEW c \in Nat \ {0}, NEW on \in 1..c, NEW end \in 1..c,
         NEW p \in Nat, NEW q \in Nat, NEW r \in on..(end - 1), NEW s \in on..(end - 1),
         NEW e \in Nat, NEW b \in Nat, e = c * p + r, b = c * q + s,
         b <= e, e - b <= c - end + on
  PROVE  p = q
<1>1. ASSUME NEW m \in Nat, p = q + 1 + m PROVE FALSE
  <2>1. c * p = c * q + c + c * m /\ c * m \in Nat /\ c * q \in Nat
    BY <1>1
  <2>2. PICK x \in Nat, y \in Nat : x = c * q /\ y = c * m
    BY <2>1
  <2>3. e = x + c + y + r /\ b = x + s
    BY <2>1, <2>2
  <2> QED BY <2>3
<1>2. ASSUME NEW m \in Nat, q = p + 1 + m PROVE FALSE
  <2>1. c * q = c * p + c + c * m /\ c * m \in Nat /\ c * p \in Nat
    BY <1>2
  <2>2. PICK x \in Nat, y \in Nat : x = c * p /\ y = c * m
    BY <2>1
  <2>3. b = x + c + y + s /\ e = x + r
    BY <2>1, <2>2
  <2> QED BY <2>3
<1>3. p = q \/ (p - q - 1 \in Nat /\ p = q + 1 + (p - q - 1)) \/ (q - p - 1 \in Nat /\ q = p + 1 + (q - p - 1))
  OBVIOUS
<1> QED BY <1>1, <1>2, <1>3

LEMMA FrostInit == Init => Frost
<1> SUFFICES ASSUME Init, NEW l \in Loop PROVE Frost
  BY DEF Init, Frost
<1>1. 0 % Cycle = 0
  BY LoopTypes
<1>2. \A k \in Loop : ~Active(k, 0)
  BY <1>1, LoopTypes DEF Active
<1> QED BY <1>2 DEF Init, Frost, FrozenNow

\* A step freezes the sensor at the onset, keeps it frozen and frees it at the end.
LEMMA FrostStep ==
  ASSUME StepsMeetPauses, Clock, Frost, IntegrationStep
  PROVE  Frost'
<1> SUFFICES ASSUME NEW l \in Loop
             PROVE  /\ measured'[l] \in Nat
                    /\ IF FrozenNow(l, elapsed)
                       THEN /\ frozen'[l] = measured'[l]
                            /\ measured'[l] = Latest(stamps', BeforeOnset(l, elapsed))
                       ELSE frozen'[l] = -1 /\ measured'[l] = elapsed
  BY StepClock DEF Frost
<1>1. /\ elapsed \in Nat /\ elapsed' \in Nat /\ elapsed < elapsed' /\ began \in Nat
      /\ began <= elapsed /\ elapsed - began <= Step
      /\ stamps' = stamps \cup {elapsed'} /\ stamps \subseteq Nat /\ began \in stamps
      /\ \A t \in stamps : t <= began \/ t = elapsed
  BY StepClock DEF Clock
<1>2. /\ frozen'[l] = Frozen(l, Active(l, elapsed))
      /\ measured'[l] = IF FrozenNow(l, elapsed) THEN frozen'[l] ELSE elapsed
  BY DEF IntegrationStep, FrozenNow
<1>3. CASE ~FrozenNow(l, elapsed)
  BY <1>1, <1>2, <1>3 DEF FrozenNow, Frozen
<1>4. CASE FrozenNow(l, elapsed)
  <2> DEFINE target == BeforeOnset(l, elapsed)
             c == Cycle
             on == Onset[l]
             end == End[l]
  <2>1. /\ c \in Nat \ {0} /\ on \in 1..c /\ end \in 1..c /\ Step \in Nat /\ Step <= c - end + on
        /\ on <= elapsed % c /\ elapsed % c < end
        /\ elapsed % c \in Int
    BY <1>1, <1>4, LoopTypes DEF StepsMeetPauses, FrozenNow, Active
  <2>2. frozen'[l] = (IF frozen[l] = -1 THEN measured[l] ELSE frozen[l]) /\ measured'[l] = frozen'[l]
    BY <1>2, <1>4 DEF Frozen, FrozenNow
  <2>3. target \in Int /\ target < elapsed
    BY <1>1, <2>1 DEF BeforeOnset
  <2>4. Latest(stamps', target) = Latest(stamps, target)
    <3> HIDE DEF target
    <3> QED BY <1>1, <2>3, LatestLater
  <2>5. CASE FrozenNow(l, began)
    <3>1. measured[l] \in Nat /\ frozen[l] = measured[l]
          /\ measured[l] = Latest(stamps, BeforeOnset(l, began))
      BY <2>5 DEF Frost
    <3>2. on <= began % c /\ began % c < end
      BY <2>5 DEF FrozenNow, Active
    <3>3. elapsed - (elapsed % c) = began - (began % c)
      <4>1. elapsed - began <= c - end + on
        BY <1>1, <2>1
      <4> HIDE DEF c, on, end
      <4>2. PICK p \in Nat : elapsed = c * p + (elapsed % c) /\ elapsed % c \in 0..(c - 1)
        BY <1>1, <2>1, CycleOf
      <4>3. PICK q \in Nat : began = c * q + (began % c) /\ began % c \in 0..(c - 1)
        BY <1>1, <2>1, CycleOf
      <4>4. PICK r, s : r = elapsed % c /\ s = began % c
        OBVIOUS
      <4>5. PICK x \in Nat, y \in Nat : x = elapsed /\ y = began
        BY <1>1
      <4>6. r \in on..(end - 1) /\ s \in on..(end - 1)
        BY <2>1, <3>2, <4>2, <4>3, <4>4
      <4>7. x = c * p + r /\ y = c * q + s
        BY <4>2, <4>3, <4>4, <4>5
      <4>8. y <= x /\ x - y <= c - end + on
        BY <1>1, <4>1, <4>5
      <4>9. p = q
        BY <2>1, <4>6, <4>7, <4>8, SameCycle
      <4>10. c * p \in Nat /\ c * p = c * q
        BY <2>1, <4>9
      <4> QED BY <4>2, <4>3, <4>10
    <3>4. BeforeOnset(l, began) = target
      BY <3>3 DEF BeforeOnset
    <3> QED BY <1>4, <2>2, <2>4, <3>1, <3>4
  <2>6. CASE ~FrozenNow(l, began)
    <3>1. frozen[l] = -1 /\ measured[l] = began
      BY <2>6 DEF Frost
    <3>2. ~(on <= began % c /\ began % c < end)
      BY <1>4, <2>6 DEF FrozenNow, Active
    <3>3. began <= target
      <4>1. began <= elapsed - (elapsed % c) + on - 1
        <5> HIDE DEF c, on, end
        <5> QED BY <1>1, <2>1, <3>2, OnsetBetween
      <4> QED BY <4>1 DEF BeforeOnset
    <3>4. Latest(stamps, target) = began
      <4>1. \A t \in stamps : t <= target => t <= began
        BY <1>1, <2>3
      <4> HIDE DEF target
      <4> QED BY <1>1, <2>3, <3>3, <4>1, LatestIs
    <3> QED BY <1>1, <1>4, <2>2, <2>4, <3>1, <3>4
  <2> QED BY <2>5, <2>6
<1> QED BY <1>3, <1>4

LEMMA FrostNext ==
  ASSUME StepsMeetPauses, Inv, Frost, [Next]_vars
  PROVE  Frost'
<1>1. CASE IntegrationStep
  BY <1>1, FrostStep DEF Inv
<1>2. CASE UNCHANGED <<began, sensors, stamps>>
  BY <1>2 DEF Frost, sensors
<1>3. CASE Observe \/ \E seconds \in Calls : Advance(seconds)
  BY <1>2, <1>3 DEF Observe, Advance
<1> QED BY <1>1, <1>2, <1>3 DEF Next, vars

\* If no step leaps over a pause: a frozen sensor shows the last measurement before
\* the onset of its scenario in this cycle, and afterwards a fresh one.
THEOREM FrozenAtOnset ==
  ASSUME StepsMeetPauses
  PROVE  Spec => []FrozenSinceOnset
<1>1. Frost => FrozenSinceOnset
  BY DEF Frost, FrozenSinceOnset, FrozenNow, BeforeOnset, LatestInstant, Latest
<1>2. Inv /\ Frost /\ [Next]_vars => Inv' /\ Frost'
  BY InvStep, FrostNext
<1> QED BY <1>1, <1>2, InvInit, FrostInit, PTL DEF Spec
-----------------------------------------------------------------------------
\* Type correctness: whatever a step reads or shows is the model at an instant it was
\* integrated to.

Maps(f, S) == f = [x \in S |-> f[x]]

Shape ==
  /\ Maps(delay, Loop) /\ Maps(process_history, Loop)
  /\ Maps(delayed, Loop) /\ Maps(coupled, Edge)
  /\ Maps(last_active, Loop) /\ Maps(flips, Loop)
  /\ 0 \in stamps
  /\ measured \in [Loop -> stamps] /\ frozen \in [Loop -> stamps \cup {-1}]

LEMMA ShapeInit == Init => Shape
BY DEF Init, Shape, Maps

LEMMA ShapeStep ==
  ASSUME Inv, Shape, [Next]_vars
  PROVE  Shape'
<1>1. CASE UNCHANGED <<buffers, sensors, truth, stamps>>
  BY <1>1 DEF buffers, sensors, truth, Shape, Maps
<1>2. CASE IntegrationStep
  <2>1. elapsed \in stamps /\ stamps \subseteq stamps'
    BY <1>2, StepClock DEF Inv, Clock
  <2>2. /\ Maps(delay, Loop)' /\ Maps(process_history, Loop)'
        /\ Maps(delayed, Loop)' /\ Maps(coupled, Edge)'
    BY <1>2 DEF IntegrationStep, Maps
  <2>3. Maps(last_active, Loop)' /\ Maps(flips, Loop)'
    BY <1>2 DEF IntegrationStep, Maps
  <2>4. /\ frozen' = [l \in Loop |-> Frozen(l, Active(l, elapsed))]
        /\ measured' = [l \in Loop |->
             IF Scenario[l] = "frozen" /\ Active(l, elapsed) THEN frozen'[l] ELSE elapsed]
    BY <1>2 DEF IntegrationStep
  <2>5. \A l \in Loop : measured[l] \in stamps /\ frozen[l] \in stamps \cup {-1}
    BY DEF Shape
  <2>6. \A l \in Loop : /\ Frozen(l, Active(l, elapsed)) \in stamps' \cup {-1}
                        /\ Scenario[l] = "frozen" /\ Active(l, elapsed) =>
                             Frozen(l, Active(l, elapsed)) \in stamps'
    BY <2>1, <2>5 DEF Frozen
  <2>7. measured' \in [Loop -> stamps'] /\ frozen' \in [Loop -> stamps' \cup {-1}]
    BY <2>1, <2>4, <2>6
  <2>8. 0 \in stamps'
    BY <2>1 DEF Shape
  <2> QED BY <2>2, <2>3, <2>7, <2>8 DEF Shape
<1>3. CASE Observe \/ (\E seconds \in Calls : Advance(seconds)) \/ UNCHANGED vars
  BY <1>1, <1>3 DEF Observe, Advance, vars
<1> QED BY <1>2, <1>3 DEF Next

\* The last instant before a target is an instant.
LEMMA LatestType ==
  ASSUME NEW M \in Nat, NEW S, S \subseteq 0..M, NEW target
  PROVE  Latest(S, target) \in 0..M
<1> DEFINE T == {0} \cup {t \in S : t <= target}
<1>1. 0 \in T /\ \A t \in T : t = 0 \/ t \in S
  OBVIOUS
<1> HIDE DEF T
<1>2. M \in Int /\ T # {} /\ \A t \in T : t \in 0..M
  <2>1. M \in Int /\ 0 \in 0..M
    OBVIOUS
  <2>2. \A t \in S : t \in 0..M
    OBVIOUS
  <2> QED BY <1>1, <2>1, <2>2
<1>3. T \subseteq Int /\ \A t \in T : t <= M
  BY <1>2
<1>4. Max(T) \in T
  BY <1>2, <1>3, MaxExists
<1> QED BY <1>2, <1>4 DEF Latest, T

\* Every value the engine delays, couples or freezes is that of an instant of the
\* simulation, none is missing, and the time left of a call of advance() never is negative.
THEOREM EngineTypes == Spec => []TypeOK
<1>1. ASSUME Inv, Shape PROVE TypeOK
  <2>1. /\ MaxElapsed \in Nat /\ Time = 0..MaxElapsed /\ stamps \subseteq Time
        /\ elapsed \in Time /\ began \in Time /\ remaining \in Time /\ calling \in BOOLEAN
    BY <1>1, LoopTypes DEF Inv, Clock, Time
  <2>2. ASSUME NEW h, NEW now, History(h, now, stamps) PROVE h \in Seq(Time)
    <3>1. h \in Seq(Nat) /\ \A i \in 1..Len(h) : h[i] \in Time
      BY <2>1, <2>2 DEF History
    <3> HIDE DEF Time
    <3> QED BY <3>1
  <2>3. delay \in [Loop -> Seq(Time)] /\ process_history \in [Loop -> Seq(Time)]
    <3>1. \A l \in Loop : delay[l] \in Seq(Time) /\ process_history[l] \in Seq(Time)
      BY <1>1, <2>2 DEF Inv, Buffers, ActuatorHistory, ProcessHistory
    <3> QED BY <1>1, <3>1 DEF Shape, Maps
  <2>4. delayed \in [Loop -> Time] /\ coupled \in [Edge -> Time]
    <3>1. ASSUME NEW l \in Loop PROVE delayed[l] \in Time
      <4>1. began - DeadTime[l] \in Int
        BY <1>1, LoopTypes DEF Inv, Clock
      <4>2. Latest(stamps, began - DeadTime[l]) \in Time
        BY <2>1, <4>1, LatestType
      <4> QED BY <1>1, <4>2 DEF Inv, DelaysExact, LatestInstant, Latest
    <3>2. ASSUME NEW e \in Edge PROVE coupled[e] \in Time
      <4>1. began - e.delay \in Int
        BY <1>1, LoopTypes DEF Inv, Clock
      <4>2. Latest(stamps, began - e.delay) \in Time
        BY <2>1, <4>1, LatestType
      <4> QED BY <1>1, <4>2 DEF Inv, DelaysExact, LatestInstant, Latest
    <3> QED BY <1>1, <3>1, <3>2 DEF Shape, Maps
  <2>5. measured \in [Loop -> Time] /\ frozen \in [Loop -> Time \cup {-1}]
    BY <1>1, <2>1 DEF Shape
  <2>6. /\ last_active \in [Loop -> BOOLEAN] /\ flips \in [Loop -> Nat]
        /\ last_load \in BOOLEAN /\ load_flips \in Nat
    <3>1. \A l \in Loop : last_active[l] \in BOOLEAN /\ flips[l] \in Nat
      BY <1>1 DEF Inv, Truth, Told
    <3> QED BY <1>1, <3>1 DEF Inv, Truth, Told, Shape, Maps
  <2>7. \A s \in Signal : latest[s].at \in Time \cup {-1} /\ latest[s].stamp \in Int
    BY <1>1, <2>1 DEF Inv, Fresh, Stamped, Clock
  <2> QED BY <2>1, <2>3, <2>4, <2>5, <2>6, <2>7 DEF TypeOK
<1> QED BY <1>1, InvInit, InvStep, ShapeInit, ShapeStep, PTL DEF Spec
=============================================================================
