------------------------------ MODULE Subsequences ------------------------------
(***************************************************************************)
(* The elements of a list that pass a test, in their order: a list         *)
(* comprehension with a condition.  It is SelectSeq, which is defined by   *)
(* recursion, stated by counting positions so that it can be reasoned      *)
(* about.                                                                  *)
(***************************************************************************)
EXTENDS Integers, FiniteSets

\* The k-th smallest element of a set of integers.
Nth(I, k) == CHOOSE i \in I : Cardinality({j \in I : j <= i}) = k

Filter(s, Test(_)) ==
  LET I == {i \in DOMAIN s : Test(s[i])}
  IN  [k \in 1..Cardinality(I) |-> s[Nth(I, k)]]
=============================================================================
