-------------------------- MODULE MCPlantSimulator --------------------------
(***************************************************************************)
(* Four loops over two scenario cycles: one freezes its sensor, one has  *)
(* irregular timestamps, one loses its data, one is healthy and feeds two  *)
(* others through edges of different delay.  Calls of 5 and 10 seconds cut *)
(* the 2-second integration grid both on and off a step.                   *)
(***************************************************************************)
EXTENDS PlantSimulator, TLC

CONSTANTS steady, icy, ragged, lost

MCEdge == {[source |-> steady, target |-> icy, delay |-> 3],
           [source |-> steady, target |-> lost, delay |-> 7],
           [source |-> lost, target |-> ragged, delay |-> 5]}

MCDeadTime == (steady :> 1) @@ (icy :> 4) @@ (ragged :> 0) @@ (lost :> 9)

MCScenario ==
  (steady :> "none") @@ (icy :> "frozen") @@ (ragged :> "irregular") @@ (lost :> "gap")

MCOnset == (steady :> 5) @@ (icy :> 6) @@ (ragged :> 5) @@ (lost :> 4)
MCEnd == (steady :> 14) @@ (icy :> 15) @@ (ragged :> 16) @@ (lost :> 15)
MCLoadWindow == [from |-> 9, to |-> 13]

MCSignal == {"icy.PV", "ragged.PV", "ragged.MODE", "lost.PV"}
MCLoopOf == ("icy.PV" :> icy) @@ ("ragged.PV" :> ragged)
              @@ ("ragged.MODE" :> ragged) @@ ("lost.PV" :> lost)
MCCadence == ("icy.PV" :> 5) @@ ("ragged.PV" :> 5) @@ ("ragged.MODE" :> 10) @@ ("lost.PV" :> 5)
=============================================================================
