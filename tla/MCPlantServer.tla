---------------------------- MODULE MCPlantServer ----------------------------
(***************************************************************************)
(* A small plant for TLC: signal a is due every frame but falls into a     *)
(* communication gap at GapAt; signal b is due every second frame and its  *)
(* value of frame ShiftAt carries a source timestamp shifted by a second.  *)
(***************************************************************************)
EXTENDS HealthCheck, TLC

CONSTANTS a, b,           \* the signals
          c1, c2,         \* configurations
          GapAt,          \* elapsed time of a's communication gap
          ShiftAt,        \* elapsed time of b's irregular sample
          LegacyElapsed   \* an off-lattice checkpoint of an earlier release

MCObserved ==
  [e \in 0..MaxElapsed |->
     {s \in {a, b} : \/ s = a /\ e % Sample = 0 /\ e # GapAt
                     \/ s = b /\ e % (2 * Sample) = 0}]

MCShift ==
  [s \in {a, b} |-> [e \in 0..MaxElapsed |-> IF s = b /\ e = ShiftAt THEN 1 ELSE 0]]

NewFile == [rows |-> {}, checkpoint |-> {}, last |-> [s \in {a, b} |-> 0]]

LegacyOrigin == [config |-> c1, start |-> -LegacyElapsed]

\* The rows of the last frame on the lattice below the checkpoint.
LegacyFile ==
  LET e == Floor(LegacyElapsed) IN
    [rows |-> {[signal |-> s, origin |-> LegacyOrigin, server |-> e - LegacyElapsed,
                source |-> e - LegacyElapsed + MCShift[s][e], id |-> 1] : s \in MCObserved[e]},
     checkpoint |-> {[origin |-> LegacyOrigin, elapsed |-> LegacyElapsed]},
     last |-> [s \in {a, b} |-> 1]]

MCInitialDatabases == {NewFile, LegacyFile}

MCSkew == {-1, 0}
=============================================================================
