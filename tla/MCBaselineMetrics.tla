--------------------------- MODULE MCBaselineMetrics ---------------------------
(***************************************************************************)
(* Two loops, a score on each side of the decision boundary and the one on *)
(* it, where the label is still "active".                                  *)
(***************************************************************************)
EXTENDS BaselineMetrics

MCScores == {-1, 0}
=============================================================================
