----------------------------- MODULE HistoryRead -----------------------------
(***************************************************************************)
(* Raw history reads of one node: read_node_history (storage.py) answers   *)
(* one bounded page, the OPC UA history manager turns its continuation     *)
(* timestamp into the start of the next request, and the client asks until *)
(* there is no continuation or it has what it wanted.  The real-time loop  *)
(* appends and prunes rows between two pages.                              *)
(*                                                                         *)
(* A row is its source timestamp.  ORDER BY "_Id" is modelled as order by  *)
(* timestamp, which PlantServer's IdOrderIsTimeOrder justifies.            *)
(***************************************************************************)
EXTENDS Integers, Sequences, FiniteSets

CONSTANTS
  Cap,       \* max_history_data_response_size
  Window,    \* retention window, 0 when unbounded
  Cadence,   \* time from one row of the node to its next
  Requests,  \* the reads clients ask for
  MaxTime    \* bound: newest timestamp

\* The null timestamp of a request; rows are stamped 1, 2, ...
Epoch == 0

\* `end' of a request without one: a day from now, after every row.
Tomorrow == MaxTime + 1

Stamp == 1..MaxTime

\* A read: its two bounds and the number of values wanted, 0 for all.
Request == [start : 0..Tomorrow, end : 0..Tomorrow, count : Nat]

ASSUME ReadAssumption ==
  /\ Cap \in Nat \ {0}
  /\ Window \in Nat
  /\ Cadence \subseteq Nat \ {0}
  /\ Requests \subseteq Request
  /\ MaxTime \in Nat

VARIABLES
  table,   \* the node's rows, as the server's connection sees them
  newest,  \* timestamp of the last row written
  phase,   \* "idle", "reading" or "done"
  request, \* the client's read
  from,    \* start of its next page
  got,     \* the values it has received
  before   \* rows in the table when the read began

vars == <<table, newest, phase, request, from, got, before>>

-----------------------------------------------------------------------------
\* read_node_history.

Least(a, b) == IF a <= b THEN a ELSE b

\* Mutant: an interval given backwards is still read forwards.
NeverDescending(start, end) == start = Epoch

\* Reads go backwards when they have no start or start after their end.
Descending(start, end) == start = Epoch \/ ~(start < end)

EndOf(end) == IF end = Epoch THEN Tomorrow ELSE end

Interval(start, end) ==
  {t \in Stamp : start <= t /\ t <= end} \cup {t \in Stamp : end <= t /\ t <= start}

\* Mutant: no look-ahead row, so a full page never has a continuation.
LimitWithoutLookahead(count) == IF count = 0 THEN Cap ELSE Least(count, Cap)

Limit(count) == IF count = 0 THEN Cap + 1 ELSE Least(count, Cap + 1)

\* ORDER BY "_Id", ASC or DESC: t comes before u.
Ahead(descending, t, u) == IF descending THEN t > u ELSE t < u

\* The i-th row has i - 1 rows before it.
Ordered(rows, descending) ==
  [i \in 1..Cardinality(rows) |->
     CHOOSE t \in rows : Cardinality({u \in rows : Ahead(descending, u, t)}) = i - 1]

\* The rows SQLite returns: at most `Limit' of the interval, ordered.
Selected(rows, start, end, count) ==
  LET found == Ordered(rows \cap Interval(start, end), Descending(start, end))
  IN  SubSeq(found, 1, Least(Len(found), Limit(count)))

\* Mutant: the continuation is the last row returned.
ContinuationAtLast(found) == IF Len(found) > Cap THEN found[Cap] ELSE Epoch

\* The first row left out, or Epoch for none.
Continuation(found) == IF Len(found) > Cap THEN found[Cap + 1] ELSE Epoch

Page(found) == SubSeq(found, 1, Least(Len(found), Cap))

-----------------------------------------------------------------------------
Init ==
  /\ table = {} /\ newest = 0
  /\ phase = "idle"
  /\ request = [start |-> Epoch, end |-> Epoch, count |-> 0]
  /\ from = Epoch
  /\ got = <<>>
  /\ before = {}

\* The real-time loop writes the node's next value and prunes.
RecordValue(gap) ==
  /\ newest + gap \in Stamp
  /\ newest' = newest + gap
  /\ table' = {t \in table \cup {newest'} : Window = 0 \/ t >= newest' - Window}
  /\ UNCHANGED <<phase, request, from, got, before>>

\* A client starts a read.
Read(r) ==
  /\ phase = "idle"
  /\ phase' = "reading"
  /\ request' = r
  /\ from' = r.start
  /\ before' = table
  /\ UNCHANGED <<table, newest, got>>

\* One HistoryRead request and its answer.
NextPage ==
  /\ phase = "reading"
  /\ LET found == Selected(table, from, EndOf(request.end), request.count)
         next == Continuation(found)
     IN
       /\ got' = got \o Page(found)
       /\ from' = next
       /\ phase' = IF \/ next = Epoch
                      \/ request.count > 0 /\ Len(got') >= request.count
                   THEN "done" ELSE "reading"
  /\ UNCHANGED <<table, newest, request, before>>

Next ==
  \/ \E gap \in Cadence : RecordValue(gap)
  \/ \E r \in Requests : Read(r)
  \/ NextPage

Spec == Init /\ [][Next]_vars
-----------------------------------------------------------------------------
\* Properties.

TypeOK ==
  /\ table \subseteq Stamp /\ before \subseteq Stamp
  /\ newest \in 0..MaxTime
  /\ phase \in {"idle", "reading", "done"}
  /\ request \in Request
  /\ from \in 0..Tomorrow
  /\ got \in Seq(Stamp)

\* t comes before u in the direction of the client's read.
Precedes(t, u) == Ahead(Descending(request.start, EndOf(request.end)), t, u)

\* docs/opcua-interface.md:46-49: pages follow one another in the order of the
\* read, and none repeats a sample, whatever is written between them.
NothingRepeated ==
  \A i, j \in 1..Len(got) : i < j => Precedes(got[i], got[j])

\* docs/opcua-interface.md:46-49: a finished read has every sample of its
\* interval that was stored all along; a read that asked for a number of values
\* may only lack samples after as many as it asked for.
NothingSkipped ==
  phase = "done" =>
    \A t \in before \cap table \cap Interval(request.start, EndOf(request.end)) :
      \/ \E i \in 1..Len(got) : got[i] = t
      \/ /\ request.count > 0 /\ Len(got) >= request.count
         /\ \A i \in 1..Len(got) : Precedes(got[i], t)
=============================================================================
