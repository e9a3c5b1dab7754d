------------------------ MODULE MCDatasetGeneration ------------------------
(***************************************************************************)
(* Two observation files that share a truth file; a frame without any      *)
(* observation, so that datasets of different lengths can have equal data. *)
(***************************************************************************)
EXTENDS DatasetGeneration, TLC

CONSTANTS a, b,       \* signals
          d1, d2, t   \* files

MCObserved == (0 :> {}) @@ (1 :> {a}) @@ (2 :> {}) @@ (3 :> {a, b}) @@ (4 :> {b}) @@ (5 :> {})
=============================================================================
