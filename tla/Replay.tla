-------------------------------- MODULE Replay --------------------------------
(***************************************************************************)
(* Restart by replay: OpcUaPlantServer.start (server.py) rebuilds the      *)
(* simulator's state by advancing a new PlantSimulator (engine.py) to the  *)
(* checkpoint, then across the outage to the sampling lattice.             *)
(*                                                                         *)
(* The engine's state is determined by the seed and by the sizes of the    *)
(* integration steps it took, which depend on how the time was cut into    *)
(* calls of advance().  This module asks whether a restart takes the same  *)
(* steps as the process that recorded the rows; PlantServer, where a row   *)
(* is its elapsed time, takes that for granted.                            *)
(***************************************************************************)
EXTENDS Integers, Sequences

CONSTANTS
  Step,        \* integration_step_seconds
  Sample,      \* sample_seconds
  Legacy,      \* checkpoints earlier releases may have left
  BootFrames,  \* frames of a bootstrap
  MaxElapsed   \* bound: simulated seconds

ASSUME ReplayAssumption ==
  /\ Step \in Nat \ {0}
  /\ Sample \in Nat \ {0} /\ Sample % Step = 0
  /\ Legacy \subseteq 0..MaxElapsed
  /\ BootFrames \in Nat /\ MaxElapsed \in Nat

VARIABLES
  pc,          \* "down", "boot", "recovered" (frame not yet recorded), "live", "dead"
  checkpoint,  \* elapsed time of the saved checkpoint, -1 for none
  elapsed,     \* the simulator's elapsed_seconds
  steps,       \* sizes of the steps it has taken
  replayed,    \* the same, when the last replay had reached its checkpoint
  replayed_to, \* that checkpoint
  made         \* made[e]: the steps behind the rows recorded at e

vars == <<pc, checkpoint, elapsed, steps, replayed, replayed_to, made>>

-----------------------------------------------------------------------------
Larger(a, b) == IF a >= b THEN a ELSE b
Smaller(a, b) == IF a <= b THEN a ELSE b

\* The steps of one advance(seconds).
StepSizes(seconds) ==
  [i \in 1..((seconds + Step - 1) \div Step) |-> Smaller(Step, seconds - (i - 1) * Step)]

Floor(t) == (t \div Sample) * Sample
Ceiling(t) == Floor(t + Sample - 1)

\* Mutant: the wall clock is not rounded to the sampling lattice.
ResumeAtWall(c, wall) == Larger(wall, Ceiling(c))

\* resume_elapsed, for a wall clock `wall' seconds after the simulation's start.
ResumeElapsed(c, wall) == Larger(Floor(wall), Ceiling(c))

\* The rows of a frame enter the history.
Recorded(e, taken) == [d \in DOMAIN made \cup {e} |-> IF d = e THEN taken ELSE made[d]]

NothingRecorded == [d \in {} |-> <<>>]

Init ==
  /\ pc = "down"
  /\ checkpoint \in Legacy \cup {-1}
  /\ elapsed = 0
  /\ steps = <<>>
  /\ made = IF checkpoint = -1 THEN NothingRecorded
            ELSE [e \in {checkpoint} |-> StepSizes(checkpoint)]
  /\ replayed = <<>> /\ replayed_to = 0

\* A new simulation, in a new file or after --reset.
Reset ==
  /\ pc = "down"
  /\ pc' = "boot"
  /\ checkpoint' = -1
  /\ made' = NothingRecorded
  /\ UNCHANGED <<elapsed, steps, replayed, replayed_to>>

\* One bootstrap frame, flushed with its batch.
BootFrame ==
  /\ pc = "boot"
  /\ elapsed + Sample <= BootFrames * Sample
  /\ elapsed' = elapsed + Sample
  /\ steps' = steps \o StepSizes(Sample)
  /\ made' = Recorded(elapsed', steps')
  /\ UNCHANGED <<pc, checkpoint, replayed, replayed_to>>

\* The bootstrap's checkpoint is saved.
Seal ==
  /\ pc = "boot"
  /\ elapsed = BootFrames * Sample
  /\ checkpoint' = elapsed
  /\ pc' = "live"
  /\ UNCHANGED <<elapsed, steps, replayed, replayed_to, made>>

\* Mutant: the outage is crossed in one step of its own size.
FastForward(c, resume) == StepSizes(c) \o <<resume - c>>

\* Replay to the checkpoint, then cross the outage.
ReplaySteps(c, resume) == StepSizes(c) \o StepSizes(resume - c)

Restart(wall) ==
  /\ pc = "down"
  /\ checkpoint >= 0
  /\ LET resume == ResumeElapsed(checkpoint, wall) IN
       /\ resume <= MaxElapsed
       /\ elapsed' = resume
       /\ steps' = ReplaySteps(checkpoint, resume)
       /\ pc' = IF resume > checkpoint THEN "recovered" ELSE "live"
  /\ replayed' = StepSizes(checkpoint) /\ replayed_to' = checkpoint
  /\ UNCHANGED <<checkpoint, made>>

\* The current frame after an outage is recorded with its checkpoint.
RecordRecovery ==
  /\ pc = "recovered"
  /\ made' = Recorded(elapsed, steps)
  /\ checkpoint' = elapsed
  /\ pc' = "live"
  /\ UNCHANGED <<elapsed, steps, replayed, replayed_to>>

\* A live frame; if its transaction fails the loop ends.
LiveFrame(commits) ==
  /\ pc = "live"
  /\ elapsed + Sample <= MaxElapsed
  /\ elapsed' = elapsed + Sample
  /\ steps' = steps \o StepSizes(Sample)
  /\ IF commits
     THEN made' = Recorded(elapsed', steps') /\ checkpoint' = elapsed' /\ UNCHANGED pc
     ELSE pc' = "dead" /\ UNCHANGED <<made, checkpoint>>
  /\ UNCHANGED <<replayed, replayed_to>>

\* The process ends.
Die ==
  /\ pc # "down"
  /\ pc' = "down"
  /\ elapsed' = 0
  /\ steps' = <<>>
  /\ UNCHANGED <<checkpoint, replayed, replayed_to, made>>

Next ==
  \/ Reset \/ BootFrame \/ Seal
  \/ \E wall \in 0..MaxElapsed : Restart(wall)
  \/ RecordRecovery
  \/ \E commits \in BOOLEAN : LiveFrame(commits)
  \/ Die

Spec == Init /\ [][Next]_vars
-----------------------------------------------------------------------------
\* Properties.

TypeOK ==
  /\ pc \in {"down", "boot", "recovered", "live", "dead"}
  /\ checkpoint \in -1..MaxElapsed
  /\ elapsed \in 0..MaxElapsed /\ replayed_to \in 0..MaxElapsed
  /\ steps \in Seq(1..Step) /\ replayed \in Seq(1..Step)
  /\ DOMAIN made \subseteq 0..MaxElapsed
  /\ \A e \in DOMAIN made : made[e] \in Seq(1..Step)

\* docs/opcua-interface.md:65: "the deterministic model replays to the
\* checkpoint": the replayed simulator is in the state that made the rows
\* recorded there, not merely at the same elapsed time.
ReplayExact == replayed_to \in DOMAIN made => replayed = made[replayed_to]

\* A recorded value depends on the seed and its elapsed time alone, whatever
\* crashes and outages came before it.  (Nothing is recorded at elapsed time 0,
\* where a simulation without a bootstrap history leaves its checkpoint.)
ValuesDetermined ==
  /\ checkpoint > 0 => checkpoint \in DOMAIN made
  /\ \A e \in DOMAIN made : made[e] = StepSizes(e)
=============================================================================
