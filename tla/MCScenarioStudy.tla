---------------------------- MODULE MCScenarioStudy ----------------------------
(***************************************************************************)
(* Two development seeds and one of each split, two scenarios and two ways *)
(* a seed but the first may behave: 8 worlds.  Like normal.steady, the     *)
(* scenario "steady" alone has no inactive frame; selected with "fault",   *)
(* each changes the other's values.                                        *)
(***************************************************************************)
EXTENDS ScenarioStudy

Frames(x, steady) ==
  IF steady THEN <<[active |-> TRUE, x |-> x]>>
  ELSE <<[active |-> FALSE, x |-> 3 - x], [active |-> TRUE, x |-> x]>>

MCSeedOrder == <<1, 2, 3, 4>>
MCScenarioOrder == <<"fault", "steady">>
MCWorlds == {w \in [1..4 -> 0..1] : w[1] = 0}
MCSelections == {{"fault"}, {"steady"}, {"fault", "steady"}}
MCRules == [fault |-> {[atLeast |-> TRUE, threshold |-> 1], [atLeast |-> FALSE, threshold |-> 4]},
            steady |-> {[atLeast |-> FALSE, threshold |-> 2]}]
MCEvaluated ==
  [b \in 0..1 |-> [sel \in MCSelections |-> [sc \in sel |->
     IF sc = "fault"
       THEN [metric |-> 2 * b + Cardinality(sel) - 1, window |-> b + Cardinality(sel),
             frames |-> Frames(2 * b, FALSE)]
       ELSE [metric |-> 3 * b, window |-> 3 - 2 * b, frames |-> Frames(b, TRUE)]]]]
=============================================================================
