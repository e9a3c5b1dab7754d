---------------------------- MODULE MCControlLoop ----------------------------
(***************************************************************************)
(* The loops of the catalog whose scenario, structure or actuator time the *)
(* controller and the actuator tell apart, with normalized values in       *)
(* twentieths; LIC-306 alone, where its backlash band matters, in two-     *)
(* hundredths.                                                             *)
(***************************************************************************)
EXTENDS ControlLoop, TLC

Catalog(rows) == {[scenario |-> r[1], structure |-> r[2], actuator_time |-> r[3]] : r \in rows}

MCLoops ==
  Catalog({<<"none", "split_range", 7>>, <<"none", "override_selector", 15>>,
           <<"tuning", "feedback_pid", 7>>,
           <<"valve.stiction", "cascade_secondary", 5>>,
           <<"valve.backlash", "inventory_control", 8>>,
           <<"operations.manual", "inventory_control", 8>>,
           <<"operations.manual", "cascade_secondary", 3>>,
           <<"actuator.saturation", "feedback_pid", 5>>,
           <<"actuator.saturation", "override_selector", 7>>})

\* LIC-306.
BacklashLoop == Catalog({<<"valve.backlash", "inventory_control", 8>>})

MCGain == (FALSE :> 3) @@ (TRUE :> 5)
MCIntegralGain == (FALSE :> 1) @@ (TRUE :> 2)

\* Limits of the integral: minus and plus a half.
MCIntegralLower == -10
FineIntegralLower == -100
=============================================================================
