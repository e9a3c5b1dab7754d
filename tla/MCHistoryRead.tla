---------------------------- MODULE MCHistoryRead ----------------------------
(***************************************************************************)
(* Pages of two values over up to seven rows of irregular cadence, read    *)
(* forwards, backwards, without an end, and in part.                       *)
(***************************************************************************)
EXTENDS HistoryRead

Counts == {0, 1, 3}

\* Every interval with an explicit start, and the newest values in one page.
PagedRequests ==
  [start : 1..Tomorrow, end : 0..MaxTime, count : Counts]
    \cup [start : {Epoch}, end : 0..MaxTime, count : 1..Cap]

\* A read without a start that needs more than one page.
OpenStartRequests == [start : {Epoch}, end : {Epoch}, count : {0}]
=============================================================================
