------------------------- MODULE MCScenarioEvaluation -------------------------
(***************************************************************************)
(* Two primary loops, the second with a window shorter than a frame that   *)
(* falls between two of them and without load change, one numeric suffix   *)
(* slower than MODE, and frames faster than both.                          *)
(***************************************************************************)
EXTENDS ScenarioEvaluation, TLC

CONSTANTS l1, l2

MCCadence == ("PV" :> 8) @@ ("MODE" :> 4)
MCOnset == (l1 :> 7) @@ (l2 :> 15)
MCEnd == (l1 :> 27) @@ (l2 :> 16)
MCLoadWindow == [from |-> 9, to |-> 20]
=============================================================================
