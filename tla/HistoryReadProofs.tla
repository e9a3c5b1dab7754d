--------------------------- MODULE HistoryReadProofs ---------------------------
(***************************************************************************)
(* Proof that the pages of a read with an explicit start follow one        *)
(* another without repeating or skipping a row, for every page size,       *)
(* retention window and cadence, while rows are written and pruned.        *)
(***************************************************************************)
EXTENDS HistoryRead, FiniteSetTheorems, TLAPS

-----------------------------------------------------------------------------
\* Rows in order.

\* Rows before t.
RowsAhead(rows, d, t) == {u \in rows : Ahead(d, u, t)}

LEMMA AheadOrders ==
  ASSUME NEW d \in BOOLEAN, NEW t \in Int, NEW u \in Int
  PROVE  /\ Ahead(d, t, u) \/ t = u \/ Ahead(d, u, t)
         /\ ~(Ahead(d, t, u) /\ Ahead(d, u, t)) /\ ~Ahead(d, t, t)
         /\ \A v \in Int : Ahead(d, t, u) /\ Ahead(d, u, v) => Ahead(d, t, v)
BY DEF Ahead

\* A row has fewer rows before it than any row after it.
LEMMA RankGrows ==
  ASSUME NEW rows, IsFiniteSet(rows), rows \subseteq Int, NEW d \in BOOLEAN,
         NEW t \in rows, NEW u \in rows, Ahead(d, t, u)
  PROVE  /\ Cardinality(RowsAhead(rows, d, t)) \in Nat /\ Cardinality(RowsAhead(rows, d, u)) \in Nat
         /\ Cardinality(RowsAhead(rows, d, t)) < Cardinality(RowsAhead(rows, d, u))
<1> DEFINE T == RowsAhead(rows, d, t)
           U == RowsAhead(rows, d, u)
<1>1. T \subseteq U /\ t \in U /\ t \notin T
  BY AheadOrders DEF RowsAhead
<1>2. T \subseteq rows /\ U \subseteq rows
  BY DEF RowsAhead
<1> HIDE DEF T, U
<1>3. IsFiniteSet(U) /\ IsFiniteSet(T)
  BY <1>2, FS_Subset
<1>4. Cardinality(T) \in Nat /\ Cardinality(U) \in Nat
  BY <1>3, FS_CardinalityType
<1>5. Cardinality(T) <= Cardinality(U) /\ (Cardinality(U) = Cardinality(T) => U = T)
  BY <1>1, <1>3, FS_Subset
<1>6. Cardinality(T) < Cardinality(U)
  BY <1>1, <1>4, <1>5
<1> QED BY <1>4, <1>6 DEF T, U

\* Every number of rows is the number before exactly one of them.
LEMMA RanksAreTaken ==
  ASSUME NEW rows, IsFiniteSet(rows), rows \subseteq Int, NEW d \in BOOLEAN,
         NEW i \in 1..Cardinality(rows)
  PROVE  \E t \in rows : Cardinality(RowsAhead(rows, d, t)) = i - 1
<1> DEFINE n == Cardinality(rows)
           rank == [t \in rows |-> Cardinality(RowsAhead(rows, d, t)) + 1]
<1>1. n \in Nat
  BY FS_CardinalityType
<1>2. ASSUME NEW t \in rows PROVE rank[t] \in 1..n
  <2> DEFINE T == RowsAhead(rows, d, t)
  <2>1. T \subseteq rows /\ t \notin T
    BY AheadOrders DEF RowsAhead
  <2> HIDE DEF T
  <2>2. IsFiniteSet(T) /\ Cardinality(T) <= n /\ (n = Cardinality(T) => rows = T)
    BY <2>1, FS_Subset
  <2>3. Cardinality(T) \in Nat
    BY <2>2, FS_CardinalityType
  <2>4. Cardinality(T) + 1 \in 1..n
    BY <1>1, <2>1, <2>2, <2>3
  <2> QED BY <2>4 DEF T
<1>3. ASSUME NEW t \in rows, NEW u \in rows, rank[t] = rank[u] PROVE t = u
  <2> DEFINE p == Cardinality(RowsAhead(rows, d, t))
             q == Cardinality(RowsAhead(rows, d, u))
  <2>1. p + 1 = q + 1
    BY <1>3
  <2>2. CASE Ahead(d, t, u)
    <3>1. p \in Nat /\ q \in Nat /\ p < q
      BY <2>2, RankGrows
    <3> HIDE DEF p, q
    <3> QED BY <2>1, <3>1
  <2>3. CASE Ahead(d, u, t)
    <3>1. p \in Nat /\ q \in Nat /\ q < p
      BY <2>3, RankGrows
    <3> HIDE DEF p, q
    <3> QED BY <2>1, <3>1
  <2> QED BY <2>2, <2>3, AheadOrders
<1>4. rank \in [rows -> 1..n]
  BY <1>2
<1> HIDE DEF rank
<1>5. rank \in Injection(rows, 1..n)
  BY <1>3, <1>4 DEF Injection, IsInjective
<1>6. IsFiniteSet(1..n) /\ Cardinality(1..n) = n
  BY <1>1, FS_Interval
<1>7. rank \in Surjection(rows, 1..n)
  BY <1>5, <1>6, FS_Injection
<1>8. PICK t \in rows : rank[t] = i
  BY <1>7 DEF Surjection
<1>9. Cardinality(RowsAhead(rows, d, t)) + 1 = i
  BY <1>8 DEF rank
<1>10. Cardinality(RowsAhead(rows, d, t)) \in Nat
  <2>1. RowsAhead(rows, d, t) \subseteq rows
    BY DEF RowsAhead
  <2>2. IsFiniteSet(RowsAhead(rows, d, t))
    BY <2>1, FS_Subset
  <2> QED BY <2>2, FS_CardinalityType
<1> QED BY <1>9, <1>10

\* `Ordered' lists the rows, each once, in the direction of the read.
LEMMA OrderedLists ==
  ASSUME NEW rows, IsFiniteSet(rows), rows \subseteq Int, NEW d \in BOOLEAN
  PROVE  /\ Ordered(rows, d) \in Seq(rows) /\ Len(Ordered(rows, d)) = Cardinality(rows)
         /\ \A i, j \in 1..Len(Ordered(rows, d)) :
              i < j => Ahead(d, Ordered(rows, d)[i], Ordered(rows, d)[j])
         /\ \A t \in rows : \E i \in 1..Len(Ordered(rows, d)) : Ordered(rows, d)[i] = t
<1> DEFINE n == Cardinality(rows)
           s == Ordered(rows, d)
           rank(t) == Cardinality(RowsAhead(rows, d, t))
<1>1. n \in Nat
  BY FS_CardinalityType
<1>2. s = [i \in 1..n |-> CHOOSE t \in rows : rank(t) = i - 1]
  BY DEF Ordered, RowsAhead
<1>3. \A i \in 1..n : s[i] \in rows /\ rank(s[i]) = i - 1
  <2> SUFFICES ASSUME NEW i \in 1..n
               PROVE  s[i] \in rows /\ rank(s[i]) = i - 1
    OBVIOUS
  <2>1. \E t \in rows : rank(t) = i - 1
    BY RanksAreTaken
  <2>2. s[i] = CHOOSE t \in rows : rank(t) = i - 1
    BY <1>2
  <2> HIDE DEF s, rank
  <2> QED BY <2>1, <2>2
<1> HIDE DEF s
<1>4. s \in Seq(rows) /\ Len(s) = n
  BY <1>1, <1>2, <1>3
<1>5. ASSUME NEW i \in 1..n, NEW j \in 1..n, i < j PROVE Ahead(d, s[i], s[j])
  <2>1. s[i] \in rows /\ s[j] \in rows /\ rank(s[i]) = i - 1 /\ rank(s[j]) = j - 1
    BY <1>3
  <2>2. s[i] # s[j]
    BY <1>5, <2>1
  <2>3. ~Ahead(d, s[j], s[i])
    <3> SUFFICES ASSUME Ahead(d, s[j], s[i]) PROVE FALSE
      OBVIOUS
    <3>1. rank(s[j]) < rank(s[i])
      BY <2>1, RankGrows
    <3> HIDE DEF rank
    <3> QED BY <1>5, <2>1, <3>1
  <2> QED BY <2>1, <2>2, <2>3, AheadOrders
<1>6. ASSUME NEW t \in rows PROVE \E i \in 1..n : s[i] = t
  <2> DEFINE T == RowsAhead(rows, d, t)
  <2>1. T \subseteq rows /\ t \notin T
    BY AheadOrders DEF RowsAhead
  <2> HIDE DEF T
  <2>2. IsFiniteSet(T) /\ Cardinality(T) <= n /\ (n = Cardinality(T) => rows = T)
    BY <2>1, FS_Subset
  <2>3. Cardinality(T) \in Nat
    BY <2>2, FS_CardinalityType
  <2>4. PICK i \in 1..n : i = Cardinality(T) + 1
    BY <1>1, <2>1, <2>2, <2>3
  <2>5. s[i] \in rows /\ rank(s[i]) = rank(t)
    BY <1>3, <2>3, <2>4 DEF T
  <2>6. ~Ahead(d, s[i], t)
    <3> SUFFICES ASSUME Ahead(d, s[i], t) PROVE FALSE
      OBVIOUS
    <3>1. rank(s[i]) \in Nat /\ rank(s[i]) < rank(t)
      BY <2>5, RankGrows
    <3> HIDE DEF rank
    <3> QED BY <2>5, <3>1
  <2>7. ~Ahead(d, t, s[i])
    <3> SUFFICES ASSUME Ahead(d, t, s[i]) PROVE FALSE
      OBVIOUS
    <3>1. rank(t) \in Nat /\ rank(t) < rank(s[i])
      BY <2>5, RankGrows
    <3> HIDE DEF rank
    <3> QED BY <2>5, <3>1
  <2> QED BY <2>5, <2>6, <2>7, AheadOrders
<1> QED BY <1>4, <1>5, <1>6 DEF s

-----------------------------------------------------------------------------
\* One page.

\* page and next are an answer to a request for the rows S in direction d.
Answers(S, d, count, page, next) ==
  /\ page \in Seq(S)
  /\ \A i, j \in 1..Len(page) : i < j => Ahead(d, page[i], page[j])
  /\ next # Epoch =>
       /\ next \in S /\ Len(page) # 0
       /\ \A i \in 1..Len(page) : Ahead(d, page[i], next)
       /\ \A t \in S : (\E i \in 1..Len(page) : page[i] = t) \/ t = next \/ Ahead(d, next, t)
  /\ next = Epoch =>
       \A t \in S : \/ \E i \in 1..Len(page) : page[i] = t
                    \/ /\ count > 0 /\ Len(page) >= count
                       /\ \A i \in 1..Len(page) : Ahead(d, page[i], t)
  /\ count > 0 /\ count <= Cap => next = Epoch

LEMMA PageAnswers ==
  ASSUME NEW rows \in SUBSET Stamp, NEW start \in Nat, NEW end \in Nat, NEW count \in Nat,
         NEW found, found = Selected(rows, start, end, count)
  PROVE  Answers(rows \cap Interval(start, end), Descending(start, end), count,
                 Page(found), Continuation(found))
<1> DEFINE S == rows \cap Interval(start, end)
           d == Descending(start, end)
           s == Ordered(S, d)
           size == Least(Len(s), Limit(count))
           page == Page(found)
           next == Continuation(found)
<1>1. Cap \in Nat \ {0} /\ MaxTime \in Nat
  BY ReadAssumption
<1>2. S \subseteq Stamp /\ S \subseteq Int /\ IsFiniteSet(S) /\ Epoch \notin S
  <2>1. IsFiniteSet(Stamp)
    BY <1>1, FS_Interval DEF Stamp
  <2>2. S \subseteq Stamp
    OBVIOUS
  <2>3. IsFiniteSet(S)
    BY <2>1, <2>2, FS_Subset
  <2> QED BY <1>1, <2>2, <2>3 DEF Stamp, Epoch
<1>3. d \in BOOLEAN
  BY DEF Descending
<1> HIDE DEF S, d
<1>4. /\ s \in Seq(S)
      /\ \A i, j \in 1..Len(s) : i < j => Ahead(d, s[i], s[j])
      /\ \A t \in S : \E i \in 1..Len(s) : s[i] = t
  BY <1>2, <1>3, OrderedLists
<1>5. found = SubSeq(s, 1, size)
  BY DEF Selected, S, d
<1> HIDE DEF s
<1>6. Len(s) \in Nat /\ Limit(count) \in Nat \ {0} /\ Limit(count) <= Cap + 1
      /\ (count = 0 => Limit(count) = Cap + 1)
      /\ (count > 0 => Limit(count) = count \/ (Limit(count) = Cap + 1 /\ count > Cap + 1))
      /\ (count > 0 /\ count <= Cap => Limit(count) = count)
  BY <1>1, <1>4 DEF Limit, Least
<1>7. size \in 0..Len(s) /\ size <= Cap + 1 /\ (size = Len(s) \/ size = Limit(count))
      /\ size <= Limit(count)
  BY <1>1, <1>6 DEF Least
<1> HIDE DEF size
<1>8. found \in Seq(S) /\ Len(found) = size /\ \A i \in 1..size : found[i] = s[i]
  BY <1>4, <1>5, <1>6, <1>7
<1>9. /\ page \in Seq(S) /\ Len(page) = Least(size, Cap)
      /\ \A i \in 1..Least(size, Cap) : page[i] = s[i] /\ i \in 1..Len(s)
  <2>1. Least(size, Cap) \in 0..size
    BY <1>1, <1>7 DEF Least
  <2>2. page = SubSeq(found, 1, Least(size, Cap))
    BY <1>8 DEF Page
  <2> HIDE DEF page
  <2> QED BY <1>6, <1>7, <1>8, <2>1, <2>2
<1>10. next = IF size > Cap THEN found[Cap + 1] ELSE Epoch
  BY <1>8 DEF Continuation
<1> HIDE DEF page, next
<1>11. \A i, j \in 1..Len(page) : i < j => Ahead(d, page[i], page[j])
  BY <1>4, <1>9
<1>12. CASE size > Cap
  <2>1. size = Cap + 1 /\ Len(page) = Cap /\ Cap + 1 \in 1..size /\ Cap + 1 \in 1..Len(s)
    BY <1>1, <1>6, <1>7, <1>9, <1>12 DEF Least
  <2>2. next = s[Cap + 1] /\ next \in S /\ next # Epoch
    BY <1>2, <1>4, <1>8, <1>10, <1>12, <2>1
  <2>3. \A i \in 1..Cap : page[i] = s[i] /\ i \in 1..Len(s) /\ i < Cap + 1
    BY <1>1, <1>9, <2>1
  <2>4. \A i \in 1..Len(page) : Ahead(d, page[i], next)
    BY <1>4, <2>1, <2>2, <2>3
  <2>5. ASSUME NEW t \in S
        PROVE  (\E i \in 1..Len(page) : page[i] = t) \/ t = next \/ Ahead(d, next, t)
    <3>1. PICK i \in 1..Len(s) : s[i] = t
      BY <1>4
    <3>2. i \in 1..Cap \/ i = Cap + 1 \/ Cap + 1 < i
      BY <1>1, <1>6
    <3>3. CASE i \in 1..Cap
      BY <2>1, <2>3, <3>1, <3>3
    <3>4. CASE i = Cap + 1
      BY <2>2, <3>1, <3>4
    <3>5. CASE Cap + 1 < i
      BY <1>4, <2>1, <2>2, <3>1, <3>5
    <3> QED BY <3>2, <3>3, <3>4, <3>5
  <2>6. ~(count > 0 /\ count <= Cap)
    BY <1>1, <1>6, <1>7, <2>1
  <2>7. Len(page) # 0
    BY <1>1, <2>1
  <2> QED BY <1>9, <1>11, <2>2, <2>4, <2>5, <2>6, <2>7 DEF Answers, S, d, page, next
<1>13. CASE ~(size > Cap)
  <2>1. next = Epoch /\ Len(page) = size /\ \A i \in 1..size : page[i] = s[i] /\ i \in 1..Len(s)
    BY <1>1, <1>7, <1>9, <1>10, <1>13 DEF Least
  <2>2. ASSUME NEW t \in S, ~ \E i \in 1..Len(page) : page[i] = t
        PROVE  /\ count > 0 /\ Len(page) >= count
               /\ \A i \in 1..Len(page) : Ahead(d, page[i], t)
    <3>1. PICK i \in 1..Len(s) : s[i] = t
      BY <1>4
    <3>2. size < i
      <4> SUFFICES ASSUME i <= size PROVE FALSE
        BY <1>6, <1>7
      <4>1. i \in 1..Len(page) /\ page[i] = t
        BY <1>6, <1>7, <2>1, <3>1
      <4> QED BY <2>2, <4>1
    <3>3. size = Limit(count)
      BY <1>6, <1>7, <3>2
    <3>4. count > 0 /\ size = count
      BY <1>1, <1>6, <1>7, <1>13, <3>3
    <3>5. \A k \in 1..size : k < i
      BY <1>6, <1>7, <3>2
    <3>6. \A k \in 1..size : Ahead(d, s[k], s[i])
      BY <1>4, <2>1, <3>5
    <3>7. Len(page) >= count
      BY <1>7, <2>1, <3>4
    <3> QED BY <2>1, <3>1, <3>4, <3>6, <3>7
  <2> QED BY <1>9, <1>11, <2>1, <2>2 DEF Answers, S, d, page, next
<1> QED BY <1>12, <1>13

-----------------------------------------------------------------------------
\* The next page.

\* A read whose pages keep their direction: with an explicit start, or in one page.
Paged(r) == r.start # Epoch \/ (r.count > 0 /\ r.count <= Cap)

PagedReads == \A r \in Requests : Paged(r)

\* Continuing at a row of the interval cuts off what is ahead of it, and keeps the
\* direction unless that row is the interval's end.
LEMMA Continuing ==
  ASSUME NEW start \in Nat, NEW end \in Nat, start # Epoch, NEW next \in Interval(start, end)
  PROVE  /\ next \in Stamp /\ next # Epoch
         /\ \A t \in Interval(next, end) :
              t \in Interval(start, end) /\ (t = next \/ Ahead(Descending(start, end), next, t))
         /\ \A t \in Interval(start, end) :
              t = next \/ Ahead(Descending(start, end), next, t) => t \in Interval(next, end)
         /\ Descending(next, end) = Descending(start, end) \/ (next = end /\ Interval(next, end) = {end})
<1>1. Stamp \subseteq Nat \ {0} /\ next \in Stamp
  BY ReadAssumption DEF Interval, Stamp
<1>2. next # Epoch
  BY <1>1 DEF Epoch
<1>3. CASE start < end
  <2>1. Descending(start, end) = FALSE /\ start <= next /\ next <= end
    BY <1>1, <1>3 DEF Descending, Interval
  <2>2. \A t \in Interval(next, end) : t \in Stamp /\ next <= t /\ t <= end
    BY <1>1, <2>1 DEF Interval
  <2>3. \A t \in Stamp : start <= t /\ t <= end => t \in Interval(start, end)
    BY DEF Interval
  <2>4. \A t \in Stamp : next <= t /\ t <= end => t \in Interval(next, end)
    BY DEF Interval
  <2>5. \A t \in Interval(start, end) : t \in Stamp /\ start <= t /\ t <= end
    BY <1>1, <1>3 DEF Interval
  <2>6. \A t \in Interval(next, end) : t \in Interval(start, end) /\ (t = next \/ Ahead(FALSE, next, t))
    BY <1>1, <2>1, <2>2, <2>3 DEF Ahead
  <2>7. \A t \in Interval(start, end) : t = next \/ Ahead(FALSE, next, t) => t \in Interval(next, end)
    BY <1>1, <2>1, <2>4, <2>5 DEF Ahead
  <2>8. CASE next < end
    BY <1>1, <1>2, <2>1, <2>6, <2>7, <2>8 DEF Descending
  <2>9. CASE next = end
    <3>1. Interval(next, end) = {end}
      <4>1. end \in Stamp /\ next = end
        BY <1>1, <2>9
      <4>2. end \in Interval(next, end)
        BY <2>4, <4>1
      <4>3. \A t \in Interval(next, end) : t \in Int /\ end <= t /\ t <= end
        BY <1>1, <2>2, <4>1
      <4> QED BY <4>2, <4>3
    <3> QED BY <1>1, <1>2, <2>1, <2>6, <2>7, <2>9, <3>1
  <2> QED BY <1>1, <2>1, <2>8, <2>9
<1>4. CASE ~(start < end)
  <2>1. Descending(start, end) = TRUE /\ end <= next /\ next <= start
    BY <1>1, <1>4 DEF Descending, Interval
  <2>2. \A t \in Interval(next, end) : t \in Stamp /\ end <= t /\ t <= next
    BY <1>1, <2>1 DEF Interval
  <2>3. \A t \in Stamp : end <= t /\ t <= start => t \in Interval(start, end)
    BY DEF Interval
  <2>4. \A t \in Stamp : end <= t /\ t <= next => t \in Interval(next, end)
    BY DEF Interval
  <2>5. \A t \in Interval(start, end) : t \in Stamp /\ end <= t /\ t <= start
    BY <1>1, <1>4 DEF Interval
  <2>6. \A t \in Interval(next, end) : t \in Interval(start, end) /\ (t = next \/ Ahead(TRUE, next, t))
    BY <1>1, <2>1, <2>2, <2>3 DEF Ahead
  <2>7. \A t \in Interval(start, end) : t = next \/ Ahead(TRUE, next, t) => t \in Interval(next, end)
    BY <1>1, <2>1, <2>4, <2>5 DEF Ahead
  <2>8. Descending(next, end) = TRUE
    BY <1>1, <2>1 DEF Descending
  <2> QED BY <1>1, <1>2, <2>1, <2>6, <2>7, <2>8
<1> QED BY <1>3, <1>4

\* What holds of a read: what it got is in order, and everything of its interval that
\* was stored all along is among it or still to come.
Direction == Descending(request.start, EndOf(request.end))
Bounds == Interval(request.start, EndOf(request.end))

Stored == before \cap table \cap Bounds

InOrder == \A i, j \in 1..Len(got) : i < j => Ahead(Direction, got[i], got[j])

\* The next page starts where the client did, or at a row after all it has got.
ToCome ==
  \/ from = request.start /\ got = <<>>
  \/ /\ request.start # Epoch /\ from \in Bounds
     /\ \A i \in 1..Len(got) : Ahead(Direction, got[i], from)
     /\ \A t \in Stored : (\E i \in 1..Len(got) : got[i] = t) \/ t \in Interval(from, EndOf(request.end))

ReadInv ==
  /\ newest \in Nat /\ table \subseteq Stamp /\ before \subseteq Stamp
  /\ \A t \in table \cup before : t <= newest
  /\ phase \in {"idle", "reading", "done"}
  /\ got \in Seq(Stamp)
  /\ IF phase = "idle" THEN got = <<>> ELSE request \in Requests
  /\ InOrder
  /\ phase = "reading" => ToCome
  /\ NothingSkipped

LEMMA RequestTypes ==
  ASSUME PagedReads, request \in Requests
  PROVE  /\ request.start \in Nat /\ request.end \in Nat /\ request.count \in Nat
         /\ EndOf(request.end) \in Nat /\ Direction \in BOOLEAN
         /\ Bounds \subseteq Stamp /\ Stamp \subseteq Int
         /\ request.start # Epoch \/ (request.count > 0 /\ request.count <= Cap)
<1>1. request \in Request /\ Paged(request)
  BY ReadAssumption DEF PagedReads
<1>2. Tomorrow \in Nat
  BY ReadAssumption DEF Tomorrow
<1>3. request.start \in 0..Tomorrow /\ request.end \in 0..Tomorrow /\ request.count \in Nat
  BY <1>1 DEF Request
<1>4. request.start \in Nat /\ request.end \in Nat
  BY <1>2, <1>3
<1>5. EndOf(request.end) \in Nat
  BY <1>2, <1>4 DEF EndOf
<1>6. Bounds \subseteq Stamp /\ Stamp \subseteq Int /\ Direction \in BOOLEAN
  BY ReadAssumption DEF Bounds, Interval, Stamp, Direction, Descending
<1> QED BY <1>1, <1>3, <1>4, <1>5, <1>6 DEF Paged

LEMMA ReadInit == Init => ReadInv
BY DEF Init, ReadInv, InOrder, ToCome, NothingSkipped

\* A row written during a read was not stored before it, and pruning only removes.
LEMMA RecordValueStep ==
  ASSUME ReadInv, NEW gap \in Cadence, RecordValue(gap)
  PROVE  ReadInv'
<1>1. /\ newest' = newest + gap /\ newest' \in Stamp /\ newest \in Nat
      /\ gap \in Nat \ {0} /\ newest' \in Nat /\ newest < newest'
  BY ReadAssumption DEF RecordValue, ReadInv, Stamp
<1>2. table' \subseteq table \cup {newest'}
  BY DEF RecordValue
<1>3. UNCHANGED <<phase, request, from, got, before>>
  BY DEF RecordValue
<1>4. newest' \notin before
  BY <1>1 DEF ReadInv
<1>5. before' \cap table' \subseteq before \cap table
  BY <1>2, <1>3, <1>4
<1>6. Direction' = Direction /\ Bounds' = Bounds /\ Stored' \subseteq Stored
  BY <1>3, <1>5 DEF Direction, Bounds, Stored
<1>7. ToCome => ToCome'
  BY <1>3, <1>6 DEF ToCome
<1>8. NothingSkipped'
  BY <1>3, <1>5 DEF ReadInv, NothingSkipped, Precedes
<1>9. table' \subseteq Stamp /\ before' \subseteq Stamp
  BY <1>1, <1>2, <1>3 DEF ReadInv
<1>10. \A t \in table' \cup before' : t <= newest'
  <2>1. \A t \in table \cup before : t \in Nat /\ t <= newest
    BY ReadAssumption DEF ReadInv, Stamp
  <2> QED BY <1>1, <1>2, <1>3, <2>1
<1>11. InOrder'
  BY <1>3, <1>6 DEF ReadInv, InOrder
<1> QED BY <1>1, <1>3, <1>7, <1>8, <1>9, <1>10, <1>11 DEF ReadInv

LEMMA ReadStep ==
  ASSUME ReadInv, NEW r \in Requests, Read(r)
  PROVE  ReadInv'
BY DEF Read, ReadInv, InOrder, ToCome, NothingSkipped

LEMMA Appended ==
  ASSUME NEW S, NEW g \in Seq(S), NEW p \in Seq(S)
  PROVE  /\ g \o p \in Seq(S) /\ Len(g \o p) = Len(g) + Len(p)
         /\ \A i \in 1..Len(g \o p) :
              \/ i \in 1..Len(g) /\ (g \o p)[i] = g[i]
              \/ i > Len(g) /\ i - Len(g) \in 1..Len(p) /\ (g \o p)[i] = p[i - Len(g)]
         /\ \A i \in 1..Len(g) : i \in 1..Len(g \o p) /\ (g \o p)[i] = g[i]
         /\ \A i \in 1..Len(p) : Len(g) + i \in 1..Len(g \o p) /\ (g \o p)[Len(g) + i] = p[i]
OBVIOUS

\* The rows the next page is taken from.
Coming == table \cap Interval(from, EndOf(request.end))

\* They follow what was got, hold what is still missing, and come in the read's direction.
LEMMA ComingRows ==
  ASSUME PagedReads, ReadInv, phase = "reading"
  PROVE  /\ from \in Nat /\ Coming \subseteq Bounds
         /\ \A t \in Coming : \A i \in 1..Len(got) : Ahead(Direction, got[i], t)
         /\ \A t \in Stored : (\E i \in 1..Len(got) : got[i] = t) \/ t \in Coming
         /\ \A t, u \in Coming :
              Ahead(Descending(from, EndOf(request.end)), t, u) => Ahead(Direction, t, u)
<1>1. request \in Requests /\ ToCome /\ got \in Seq(Stamp)
  BY DEF ReadInv
<1>2. /\ request.start \in Nat /\ EndOf(request.end) \in Nat /\ Direction \in BOOLEAN
      /\ Bounds \subseteq Stamp /\ Stamp \subseteq Int
  BY <1>1, RequestTypes
<1>3. CASE from = request.start /\ got = <<>>
  <2>1. Coming = table \cap Bounds /\ Descending(from, EndOf(request.end)) = Direction
    BY <1>3 DEF Coming, Bounds, Direction
  <2>2. Len(got) = 0
    BY <1>3
  <2> QED BY <1>2, <1>3, <2>1, <2>2 DEF Stored
<1>4. CASE /\ request.start # Epoch /\ from \in Bounds
           /\ \A i \in 1..Len(got) : Ahead(Direction, got[i], from)
           /\ \A t \in Stored : (\E i \in 1..Len(got) : got[i] = t)
                                \/ t \in Interval(from, EndOf(request.end))
  <2> DEFINE end == EndOf(request.end)
  <2>1. /\ from \in Stamp
        /\ \A t \in Interval(from, end) : t \in Bounds /\ (t = from \/ Ahead(Direction, from, t))
        /\ Descending(from, end) = Direction \/ (from = end /\ Interval(from, end) = {end})
    BY <1>2, <1>4, Continuing DEF Bounds, Direction
  <2>2. from \in Nat
    BY <2>1, ReadAssumption DEF Stamp
  <2>3. Coming \subseteq Bounds
    BY <2>1 DEF Coming
  <2>4. ASSUME NEW t \in Coming, NEW i \in 1..Len(got) PROVE Ahead(Direction, got[i], t)
    <3>1. t \in Int /\ from \in Int /\ got[i] \in Int
      <4>1. got[i] \in Stamp
        BY <1>1
      <4>2. t \in Stamp
        BY <1>2, <2>3
      <4> QED BY <1>2, <2>1, <4>1, <4>2
    <3>2. Ahead(Direction, got[i], from) /\ (t = from \/ Ahead(Direction, from, t))
      BY <1>4, <2>1 DEF Coming
    <3> QED BY <1>2, <3>1, <3>2, AheadOrders
  <2>5. \A t \in Stored : (\E i \in 1..Len(got) : got[i] = t) \/ t \in Coming
    BY <1>4 DEF Stored, Coming
  <2>6. ASSUME NEW t \in Coming, NEW u \in Coming, Ahead(Descending(from, end), t, u)
        PROVE  Ahead(Direction, t, u)
    <3>1. CASE Descending(from, end) = Direction
      BY <2>6, <3>1
    <3>2. CASE Interval(from, end) = {end}
      <4>1. t = u /\ t \in Int
        BY <1>2, <2>3, <3>2 DEF Coming
      <4>2. Descending(from, end) \in BOOLEAN
        BY DEF Descending
      <4> QED BY <2>6, <4>1, <4>2, AheadOrders
    <3> QED BY <2>1, <3>1, <3>2
  <2> QED BY <2>2, <2>3, <2>4, <2>5, <2>6
<1> QED BY <1>1, <1>3, <1>4 DEF ToCome

LEMMA NextPageStep ==
  ASSUME PagedReads, ReadInv, NextPage
  PROVE  ReadInv'
<1> DEFINE end == EndOf(request.end)
           found == Selected(table, from, end, request.count)
<1>1. PICK page, next : page = Page(found) /\ next = Continuation(found)
  OBVIOUS
<1>2. /\ phase = "reading" /\ got' = got \o page /\ from' = next
      /\ phase' \in {"reading", "done"}
      /\ next = Epoch => phase' = "done"
      /\ phase' = "done" => next = Epoch \/ (request.count > 0 /\ Len(got') >= request.count)
      /\ UNCHANGED <<table, newest, request, before>>
  <2>1. /\ phase = "reading" /\ got' = got \o Page(found) /\ from' = Continuation(found)
        /\ UNCHANGED <<table, newest, request, before>>
    BY DEF NextPage
  <2>2. phase' \in {"reading", "done"} /\ (Continuation(found) = Epoch => phase' = "done")
    BY DEF NextPage
  <2>3. phase' = "done" =>
          Continuation(found) = Epoch \/ (request.count > 0 /\ Len(got') >= request.count)
    BY DEF NextPage
  <2> HIDE DEF found
  <2> QED BY <1>1, <2>1, <2>2, <2>3
<1>3. request \in Requests /\ got \in Seq(Stamp) /\ InOrder /\ table \in SUBSET Stamp
  BY <1>2 DEF ReadInv
<1>4. /\ request.start \in Nat /\ end \in Nat /\ request.count \in Nat /\ Direction \in BOOLEAN
      /\ Bounds \subseteq Stamp /\ Stamp \subseteq Int
      /\ request.start # Epoch \/ (request.count > 0 /\ request.count <= Cap)
  BY <1>3, RequestTypes
<1>5. /\ from \in Nat /\ Coming \subseteq Bounds
      /\ \A t \in Coming : \A i \in 1..Len(got) : Ahead(Direction, got[i], t)
      /\ \A t \in Stored : (\E i \in 1..Len(got) : got[i] = t) \/ t \in Coming
      /\ \A t, u \in Coming : Ahead(Descending(from, end), t, u) => Ahead(Direction, t, u)
  BY <1>2, ComingRows
<1>6. Answers(Coming, Descending(from, end), request.count, page, next)
  BY <1>1, <1>3, <1>4, <1>5, PageAnswers DEF Coming
<1> HIDE DEF end, found
<1>7. page \in Seq(Coming) /\ page \in Seq(Stamp) /\ \A i \in 1..Len(page) : page[i] \in Coming
  <2>1. page \in Seq(Coming)
    BY <1>6 DEF Answers
  <2>2. Coming \subseteq Stamp
    BY <1>4, <1>5
  <2> HIDE DEF Coming
  <2> QED BY <2>1, <2>2
<1>8. \A i, j \in 1..Len(page) : i < j => Ahead(Direction, page[i], page[j])
  BY <1>5, <1>6, <1>7 DEF Answers
<1>9. next # Epoch =>
        /\ next \in Coming /\ request.start # Epoch
        /\ \A i \in 1..Len(page) : Ahead(Direction, page[i], next)
        /\ \A t \in Coming :
             (\E i \in 1..Len(page) : page[i] = t) \/ t = next \/ Ahead(Direction, next, t)
  BY <1>4, <1>5, <1>6, <1>7 DEF Answers
<1>10. next = Epoch =>
         \A t \in Coming : \/ \E i \in 1..Len(page) : page[i] = t
                           \/ /\ request.count > 0 /\ Len(page) >= request.count
                              /\ \A i \in 1..Len(page) : Ahead(Direction, page[i], t)
  BY <1>5, <1>6, <1>7 DEF Answers
<1>11. /\ got' \in Seq(Stamp) /\ Len(got') = Len(got) + Len(page)
       /\ \A i \in 1..Len(got') :
            \/ i \in 1..Len(got) /\ got'[i] = got[i]
            \/ i > Len(got) /\ i - Len(got) \in 1..Len(page) /\ got'[i] = page[i - Len(got)]
       /\ \A i \in 1..Len(got) : i \in 1..Len(got') /\ got'[i] = got[i]
       /\ \A i \in 1..Len(page) : Len(got) + i \in 1..Len(got') /\ got'[Len(got) + i] = page[i]
  BY <1>2, <1>3, <1>7, Appended
<1>12. \A t : (\E i \in 1..Len(got) : got[i] = t) \/ (\E i \in 1..Len(page) : page[i] = t)
                => \E i \in 1..Len(got') : got'[i] = t
  BY <1>11
<1>13. ASSUME NEW t \in Coming, \A i \in 1..Len(page) : Ahead(Direction, page[i], t)
       PROVE  \A i \in 1..Len(got') : Ahead(Direction, got'[i], t)
  BY <1>5, <1>11, <1>13
<1>14. Len(got) \in Nat /\ Len(page) \in Nat /\ Len(got') \in Nat
  BY <1>3, <1>7, <1>11
<1>15. Direction' = Direction /\ Bounds' = Bounds /\ Stored' = Stored
  BY <1>2 DEF Direction, Bounds, Stored
<1>16. InOrder'
  <2> SUFFICES ASSUME NEW i \in 1..Len(got'), NEW j \in 1..Len(got'), i < j
               PROVE  Ahead(Direction, got'[i], got'[j])
    BY <1>15 DEF InOrder
  <2>1. CASE i \in 1..Len(got) /\ j \in 1..Len(got)
    BY <1>3, <1>11, <2>1 DEF InOrder
  <2>2. CASE i \in 1..Len(got) /\ j \notin 1..Len(got)
    <3>1. got'[i] = got[i] /\ got'[j] \in Coming
      BY <1>7, <1>11, <2>2
    <3> QED BY <1>5, <2>2, <3>1
  <2>3. CASE i \notin 1..Len(got)
    <3>1. i > Len(got) /\ j > Len(got) /\ j \notin 1..Len(got)
      BY <1>11, <1>14, <2>3
    <3>2. /\ i - Len(got) \in 1..Len(page) /\ got'[i] = page[i - Len(got)]
          /\ j - Len(got) \in 1..Len(page) /\ got'[j] = page[j - Len(got)]
      BY <1>11, <2>3, <3>1
    <3>3. i - Len(got) < j - Len(got)
      BY <1>14
    <3> QED BY <1>8, <3>2, <3>3
  <2> QED BY <2>1, <2>2, <2>3
\* After a row that continues the read nothing is missing.
<1>17. ASSUME next # Epoch
       PROVE  /\ next \in Bounds /\ next \in Int /\ request.start # Epoch
              /\ \A i \in 1..Len(got') : Ahead(Direction, got'[i], next)
              /\ \A t \in Stored : \/ \E i \in 1..Len(got') : got'[i] = t
                                   \/ t = next \/ Ahead(Direction, next, t)
  <2>1. next \in Coming /\ next \in Bounds /\ next \in Int /\ request.start # Epoch
    BY <1>4, <1>5, <1>9, <1>17
  <2>2. \A i \in 1..Len(got') : Ahead(Direction, got'[i], next)
    BY <1>9, <1>13, <1>17, <2>1
  <2>3. \A t \in Stored : \/ \E i \in 1..Len(got') : got'[i] = t
                          \/ t = next \/ Ahead(Direction, next, t)
    BY <1>5, <1>9, <1>12, <1>17
  <2> QED BY <2>1, <2>2, <2>3
<1>18. ASSUME phase' = "reading" PROVE ToCome'
  <2>1. next # Epoch
    <3> SUFFICES ASSUME next = Epoch PROVE phase' = "done"
      BY <1>18
    <3> QED BY <1>2
  <2>2. \A t \in Bounds : t = next \/ Ahead(Direction, next, t) => t \in Interval(next, end)
    BY <1>4, <1>17, <2>1, Continuing DEF Bounds, Direction, end
  <2>3. \A t \in Stored : (\E i \in 1..Len(got') : got'[i] = t) \/ t \in Interval(next, end)
    BY <1>17, <2>1, <2>2 DEF Stored
  <2> QED BY <1>2, <1>15, <1>17, <2>1, <2>3 DEF ToCome, end
<1>19. NothingSkipped'
  <2> SUFFICES ASSUME phase' = "done", NEW t \in Stored, ~ \E i \in 1..Len(got') : got'[i] = t
               PROVE  /\ request.count > 0 /\ Len(got') >= request.count
                      /\ \A i \in 1..Len(got') : Ahead(Direction, got'[i], t)
    BY <1>2 DEF NothingSkipped, Precedes, Stored, Bounds, Direction
  <2>1. t \in Coming /\ t \in Int
    BY <1>4, <1>5, <1>12
  <2>2. CASE next = Epoch
    <3>1. /\ request.count > 0 /\ Len(page) >= request.count
          /\ \A i \in 1..Len(page) : Ahead(Direction, page[i], t)
      BY <1>10, <1>12, <2>1, <2>2
    <3>2. Len(got') >= request.count
      BY <1>4, <1>11, <1>14, <3>1
    <3> QED BY <1>13, <2>1, <3>1, <3>2
  <2>3. CASE next # Epoch
    <3>1. request.count > 0 /\ Len(got') >= request.count
      BY <1>2, <2>3
    <3>2. t = next \/ Ahead(Direction, next, t)
      BY <1>17, <2>3
    <3>3. ASSUME NEW i \in 1..Len(got') PROVE Ahead(Direction, got'[i], t)
      <4>1. Ahead(Direction, got'[i], next) /\ next \in Int
        BY <1>17, <2>3
      <4>2. got'[i] \in Int
        <5>1. got'[i] \in Stamp
          BY <1>11
        <5> QED BY <1>4, <5>1
      <4> QED BY <1>4, <2>1, <3>2, <4>1, <4>2, AheadOrders
    <3> QED BY <3>1, <3>3
  <2> QED BY <2>2, <2>3
<1>20. phase' \in {"reading", "done"}
  BY <1>2
<1> QED BY <1>2, <1>3, <1>11, <1>16, <1>18, <1>19, <1>20 DEF ReadInv

LEMMA ReadInvStep ==
  ASSUME PagedReads, ReadInv, [Next]_vars
  PROVE  ReadInv'
<1>1. CASE UNCHANGED vars
  BY <1>1 DEF vars, ReadInv, InOrder, ToCome, NothingSkipped, Precedes, Stored, Bounds, Direction
<1>2. CASE Next
  BY <1>2, RecordValueStep, ReadStep, NextPageStep DEF Next
<1> QED BY <1>1, <1>2

\* docs/opcua-interface.md:46-49: pages follow one another in the order of the read and
\* none repeats a sample, if the client gives a start or wants no more than a page.
THEOREM PagesFollowOneAnother ==
  ASSUME PagedReads
  PROVE  Spec => []NothingRepeated
<1>1. ReadInv => NothingRepeated
  BY DEF ReadInv, InOrder, NothingRepeated, Precedes, Direction
<1>2. ReadInv /\ [Next]_vars => ReadInv'
  BY ReadInvStep
<1> QED BY <1>1, <1>2, ReadInit, PTL DEF Spec

\* docs/opcua-interface.md:46-49: under the same condition a finished read has all that
\* was stored from its beginning to its end, or as many values as it asked for.
THEOREM PagesSkipNothing ==
  ASSUME PagedReads
  PROVE  Spec => []NothingSkipped
<1>1. ReadInv => NothingSkipped
  BY DEF ReadInv
<1>2. ReadInv /\ [Next]_vars => ReadInv'
  BY ReadInvStep
<1> QED BY <1>1, <1>2, ReadInit, PTL DEF Spec
-----------------------------------------------------------------------------
\* Type correctness, of every read.

\* Whatever is asked for, a page has rows of the table and continues at a row of it.
LEMMA PageTypes ==
  ASSUME TypeOK
  PROVE  LET found == Selected(table, from, EndOf(request.end), request.count)
         IN  Page(found) \in Seq(Stamp) /\ Continuation(found) \in Stamp \cup {Epoch}
<1> DEFINE end == EndOf(request.end)
           found == Selected(table, from, end, request.count)
           rows == table \cap Interval(from, end)
<1>1. MaxTime \in Nat /\ Tomorrow \in Nat
  BY ReadAssumption DEF Tomorrow
<1>2. table \in SUBSET Stamp /\ from \in Nat /\ end \in Nat /\ request.count \in Nat
  <2>1. from \in 0..Tomorrow /\ request.end \in 0..Tomorrow /\ request.count \in Nat
    BY DEF TypeOK, Request
  <2> QED BY <1>1, <2>1 DEF TypeOK, EndOf
<1>3. Answers(rows, Descending(from, end), request.count, Page(found), Continuation(found))
  BY <1>2, PageAnswers
<1>4. rows \subseteq Stamp
  BY <1>2
<1> HIDE DEF rows, found
<1>5. Page(found) \in Seq(rows) /\ Continuation(found) \in rows \cup {Epoch}
  BY <1>3 DEF Answers
<1> QED BY <1>4, <1>5 DEF found, end

\* Without a condition on the reads: what a client gets are timestamps of samples, never the
\* Epoch or the tomorrow that stand for a missing bound, and continuations lie between those.
THEOREM ReadTypes == Spec => []TypeOK
<1>1. MaxTime \in Nat /\ Tomorrow \in Nat /\ Stamp \subseteq 0..Tomorrow
      /\ Epoch \in 0..Tomorrow /\ Stamp \subseteq 0..MaxTime
  BY ReadAssumption DEF Tomorrow, Stamp, Epoch
<1>2. Init => TypeOK
  BY <1>1 DEF Init, TypeOK, Request, Epoch
<1>3. ASSUME TypeOK, [Next]_vars PROVE TypeOK'
  <2>1. CASE UNCHANGED vars
    BY <1>3, <2>1 DEF vars, TypeOK
  <2>2. ASSUME NEW gap \in Cadence, RecordValue(gap) PROVE TypeOK'
    <3>1. newest' \in Stamp /\ table' \subseteq table \cup {newest'}
      BY <2>2 DEF RecordValue
    <3> QED BY <1>1, <1>3, <2>2, <3>1 DEF RecordValue, TypeOK
  <2>3. ASSUME NEW r \in Requests, Read(r) PROVE TypeOK'
    <3>1. r \in Request /\ r.start \in 0..Tomorrow
      BY ReadAssumption DEF Request
    <3> QED BY <1>3, <2>3, <3>1 DEF Read, TypeOK
  <2>4. CASE NextPage
    <3> DEFINE found == Selected(table, from, EndOf(request.end), request.count)
    <3>1. Page(found) \in Seq(Stamp) /\ Continuation(found) \in Stamp \cup {Epoch}
      BY <1>3, PageTypes
    <3>2. /\ got' = got \o Page(found) /\ from' = Continuation(found)
          /\ phase' \in {"idle", "reading", "done"}
          /\ UNCHANGED <<table, newest, request, before>>
      BY <2>4 DEF NextPage
    <3> HIDE DEF found
    <3>3. got' \in Seq(Stamp)
      <4>1. got \in Seq(Stamp)
        BY <1>3 DEF TypeOK
      <4> QED BY <3>1, <3>2, <4>1
    <3>4. from' \in 0..Tomorrow
      BY <1>1, <3>1, <3>2
    <3> QED BY <1>3, <3>2, <3>3, <3>4 DEF TypeOK
  <2> QED BY <1>3, <2>1, <2>2, <2>3, <2>4 DEF Next
<1> QED BY <1>2, <1>3, PTL DEF Spec
=============================================================================
