-------------------------- MODULE ScenarioEvaluation --------------------------
(***************************************************************************)
(* evaluate_seed (experiments.py) for one scenario: the simulation is      *)
(* advanced frame by frame over one scenario cycle; every frame of every   *)
(* primary loop is labelled active or inactive, its observations are       *)
(* regularized by carrying the last value forward, and both go into the    *)
(* summaries of the phase and into the per-frame samples.                  *)
(*                                                                         *)
(* An observed value is the time it was observed at; what the metrics      *)
(* measure on the values is left out, how many frames each metric counts   *)
(* is kept.  Times are multiples of the integration step.                  *)
(***************************************************************************)
EXTENDS Integers, Sequences, FiniteSets, FiniteSetsExt

CONSTANTS
  Loop,            \* primary_loop_ids of the scenario
  LoadLoop,        \* those whose setpoint the load change moves
  Scenarios,       \* kinds of scenario evaluated
  Numeric,         \* suffixes with numeric values: PV, SP, OP, MVFB
  Cadence,         \* Cadence[c]: nominal_cadence_seconds of a suffix
  Onset, End,      \* Onset[l], End[l]: the loop's scenario window
  LoadWindow,      \* [from, to]: the load change window
  Frame,           \* frame_seconds
  Cycle,           \* scenario_cycle_seconds
  MaxAge,          \* REGULARIZATION_MAX_AGE_SECONDS
  ResponseWindow   \* INITIAL_RESPONSE_WINDOW_SECONDS

Kinds == {"normal.steady", "normal.load_change", "data.gap", "data.irregular_cadence",
          "process.disturbance"}
Suffix == Numeric \cup {"MODE"}
Time == 0..Cycle
None == -1

ASSUME EvaluationAssumption ==
  /\ Scenarios \subseteq Kinds
  /\ IsFiniteSet(Loop) /\ LoadLoop \subseteq Loop
  /\ "MODE" \notin Numeric
  /\ Cadence \in [Suffix -> Nat \ {0}]
  /\ Onset \in [Loop -> 1..Cycle] /\ End \in [Loop -> 1..Cycle]
  /\ LoadWindow \in [from : 1..Cycle, to : 1..Cycle]
  /\ LoadWindow.from < LoadWindow.to /\ \A l \in Loop : Onset[l] < End[l]
  /\ Frame \in Nat \ {0} /\ Cycle \in Nat \ {0} /\ Cycle % Frame = 0
  /\ MaxAge \in Nat /\ ResponseWindow \in Nat

VARIABLES
  scenario,           \* the scenario evaluated
  elapsed,            \* elapsed_seconds of the simulator
  transitions,        \* truth events counted for the scenario
  active_started_at,  \* per loop, None when inactive
  prior_observed,     \* per loop and numeric suffix, None before any value
  prior_observed_at,
  previous_mode,      \* per loop: the last MODE and its time
  phases,             \* per phase: samples, and frames counted by two metrics
  observation_phases, \* per phase: samples, and frames counted as fully missing
  frame_samples

carried == <<prior_observed, prior_observed_at, previous_mode>>
vars == <<scenario, elapsed, transitions, active_started_at, carried,
          phases, observation_phases, frame_samples>>

-----------------------------------------------------------------------------
\* What the simulator shows at time t.

\* _scenario_active and _load_change_active
ScenarioActive(l, t) ==
  scenario # "normal.steady" /\ Onset[l] <= t % Cycle /\ t % Cycle < End[l]
LoadChange(l, t) == l \in LoadLoop /\ LoadWindow.from <= t % Cycle /\ t % Cycle < LoadWindow.to

\* The primary loops: a load change is declared for the loops it moves.
Primary == IF scenario = "normal.load_change" THEN LoadLoop ELSE Loop

\* The activity of l whose changes the simulator reports as truth events.
Injected(l, t) ==
  IF scenario = "normal.load_change" THEN LoadChange(l, t) ELSE ScenarioActive(l, t)

\* Mutant: changes between two frames are compared at the frames only.
SampledEvents(from, to) ==
  Cardinality({l \in Primary : Injected(l, from) # Injected(l, to)})

\* Truth events of the scenario in the integration steps of one frame.
TruthEvents(from, to) ==
  Cardinality({e \in Primary \X ((from + 1)..to) :
                 Injected(e[1], e[2]) # Injected(e[1], e[2] - 1)})

\* Suffixes due at t.
Expected(t) == {c \in Suffix : t % Cadence[c] = 0}

\* The observed suffixes a frame may have.
Observable(l, t) ==
  IF ~ScenarioActive(l, t) \/ scenario \notin {"data.gap", "data.irregular_cadence"}
  THEN {Expected(t)}
  ELSE IF scenario = "data.gap" THEN {{}} ELSE SUBSET Expected(t)

-----------------------------------------------------------------------------
\* _is_active
IsActive(l, t) ==
  CASE scenario = "normal.steady" -> ~LoadChange(l, t)
    [] scenario = "normal.load_change" -> LoadChange(l, t)
    [] OTHER -> ScenarioActive(l, t)

PhaseName(l, t) == IF IsActive(l, t) THEN "active" ELSE "inactive"

\* Mutant: the start of an earlier activation is kept.
StartedOnce(l, t) ==
  IF IsActive(l, t) /\ active_started_at[l] = None THEN t ELSE active_started_at[l]

\* active_started_at after the frame at t.
Started(l, t) ==
  IF ~IsActive(l, t) THEN None
  ELSE IF active_started_at[l] = None THEN t ELSE active_started_at[l]

RegularizedMode(l, t, seen) ==
  IF "MODE" \in seen THEN t
  ELSE IF previous_mode[l].value # None /\ t - previous_mode[l].at <= MaxAge
  THEN previous_mode[l].value ELSE None

RegularizedValue(l, c, t, seen) ==
  IF c \in seen THEN t
  ELSE IF prior_observed_at[l][c] # None /\ t - prior_observed_at[l][c] <= MaxAge
  THEN prior_observed[l][c] ELSE None

\* Mutant: a carried value counts as observed again.
RefreshAge(l, c, t, seen) ==
  IF RegularizedValue(l, c, t, seen) # None THEN t ELSE prior_observed_at[l][c]

\* prior_observed_at after the frame.
ObservedAt(l, c, t, seen) == IF c \in seen THEN t ELSE prior_observed_at[l][c]

Regularized(l, t, seen) ==
  [c \in Suffix |-> IF c = "MODE" THEN RegularizedMode(l, t, seen)
                                  ELSE RegularizedValue(l, c, t, seen)]

\* Suffixes counted by imputed_fraction.
Imputed(t, seen, regularized) == {c \in Suffix \ seen : regularized[c] # None}

Sample(l, t, seen) ==
  [loop |-> l, at |-> t, active |-> IsActive(l, t), observed |-> seen,
   regularized |-> Regularized(l, t, seen),
   imputed |-> Imputed(t, seen, Regularized(l, t, seen))]

TransportDue(t) == Expected(t) # {}

InitialResponse(l, t) ==
  Started(l, t) # None /\ t - Started(l, t) < ResponseWindow

\* The loops whose frame at t belongs to the phase.
InPhase(phase, t) == {l \in Primary : PhaseName(l, t) = phase}

\* _Phase.add for every loop: a metric is counted unless its value is None.
AddPhase(phase, t) ==
  [samples   |-> phases[phase].samples + Cardinality(InPhase(phase, t)),
   transport |-> phases[phase].transport
                   + Cardinality({l \in InPhase(phase, t) : TransportDue(t)}),
   response  |-> phases[phase].response
                   + Cardinality({l \in InPhase(phase, t) : InitialResponse(l, t)})]

\* _ObservationPhase.add for every loop: observed_fraction is len(due) / (len(expected) or 1).
AddObservation(phase, t, seen) ==
  [samples |-> observation_phases[phase].samples + Cardinality(InPhase(phase, t)),
   missing |-> observation_phases[phase].missing
                 + Cardinality({l \in InPhase(phase, t) : seen[l] = {}})]

-----------------------------------------------------------------------------
PhaseNames == {"active", "inactive"}

Init ==
  /\ scenario \in Scenarios
  /\ elapsed = 0 /\ transitions = 0
  /\ active_started_at = [l \in Primary |-> None]
  /\ prior_observed = [l \in Primary |-> [c \in Numeric |-> None]]
  /\ prior_observed_at = [l \in Primary |-> [c \in Numeric |-> None]]
  /\ previous_mode = [l \in Primary |-> [value |-> None, at |-> None]]
  /\ phases = [p \in PhaseNames |-> [samples |-> 0, transport |-> 0, response |-> 0]]
  /\ observation_phases = [p \in PhaseNames |-> [samples |-> 0, missing |-> 0]]
  /\ frame_samples = <<>>

\* The samples of one frame, in the order of the primary loops.
Samples(t, seen) ==
  LET order == CHOOSE s \in [1..Cardinality(Primary) -> Primary] : \A l \in Primary : \E i \in DOMAIN s : s[i] = l
  IN  [i \in DOMAIN order |-> Sample(order[i], t, seen[order[i]])]

FramesLeft == elapsed < Cycle

EvaluateFrame ==
  /\ FramesLeft
  /\ LET t == elapsed + Frame IN
     \E seen \in [Primary -> SUBSET Expected(t)] :
       /\ \A l \in Primary : seen[l] \in Observable(l, t)
       /\ elapsed' = t
       /\ transitions' = transitions + TruthEvents(elapsed, t)
       /\ active_started_at' = [l \in Primary |-> Started(l, t)]
       /\ prior_observed' = [l \in Primary |-> [c \in Numeric |->
            IF c \in seen[l] THEN t ELSE prior_observed[l][c]]]
       /\ prior_observed_at' = [l \in Primary |-> [c \in Numeric |-> ObservedAt(l, c, t, seen[l])]]
       /\ previous_mode' = [l \in Primary |->
            IF "MODE" \in seen[l] THEN [value |-> t, at |-> t] ELSE previous_mode[l]]
       /\ phases' = [p \in PhaseNames |-> AddPhase(p, t)]
       /\ observation_phases' = [p \in PhaseNames |-> AddObservation(p, t, seen)]
       /\ frame_samples' = frame_samples \o Samples(t, seen)
  /\ UNCHANGED scenario

Next == EvaluateFrame

Spec == Init /\ [][Next]_vars
-----------------------------------------------------------------------------
\* Properties.

TypeOK ==
  /\ scenario \in Scenarios /\ elapsed \in Time /\ transitions \in Nat
  /\ active_started_at \in [Primary -> Time \cup {None}]
  /\ prior_observed \in [Primary -> [Numeric -> Time \cup {None}]]
  /\ prior_observed_at \in [Primary -> [Numeric -> Time \cup {None}]]
  /\ previous_mode \in [Primary -> [value : Time \cup {None}, at : Time \cup {None}]]
  /\ phases \in [PhaseNames -> [samples : Nat, transport : Nat, response : Nat]]
  /\ observation_phases \in [PhaseNames -> [samples : Nat, missing : Nat]]
  /\ \A i \in DOMAIN frame_samples : frame_samples[i].regularized \in [Suffix -> Time \cup {None}]

SamplesOf(l) == {frame_samples[i] : i \in {j \in DOMAIN frame_samples : frame_samples[j].loop = l}}

\* docs/scenario-validation.md:153: the last observed value is carried forward for at
\* most MaxAge, never from a later frame nor from another loop, and every carried
\* channel is exposed; the mode obeys the same bound as the numeric channels.
RegularizedCausal ==
  \A l \in Primary : \A s \in SamplesOf(l) : \A c \in Suffix :
    LET fresh == {e.at : e \in {o \in SamplesOf(l) :
                    c \in o.observed /\ o.at <= s.at /\ s.at - o.at <= MaxAge}}
    IN  /\ s.regularized[c] = Max(fresh \cup {None})
        /\ c \in s.imputed <=> fresh # {} /\ c \notin s.observed

\* The first frame of the activation a sample belongs to.
ActivationStart(s) ==
  LET before == {o \in SamplesOf(s.loop) : o.at < s.at /\ ~o.active}
      ended == Max({e.at : e \in before} \cup {None})
  IN  Min({o.at : o \in {e \in SamplesOf(s.loop) : e.active /\ e.at > ended}})

\* The summary of a phase counts exactly its samples; transport metrics leave out the
\* frames with nothing due (docs/scenario-validation.md:241), while the observation
\* summary counts them as missing; the initial response is measured from the onset of each activation, the second one of a cycle included.
PhasesSummarize ==
  \A p \in PhaseNames :
    LET mine == {s \in UNION {SamplesOf(l) : l \in Primary} : s.active <=> p = "active"} IN
      /\ phases[p].samples = Cardinality(mine)
      /\ observation_phases[p].samples = Cardinality(mine)
      /\ observation_phases[p].missing = Cardinality({s \in mine : s.observed = {}})
      /\ phases[p].transport = Cardinality({s \in mine : Expected(s.at) # {}})
      /\ phases[p].response =
           Cardinality({s \in mine : s.active /\ s.at - ActivationStart(s) < ResponseWindow})

\* The transitions reported for a whole cycle are one onset and one end of every
\* primary loop, even of a window that falls between two frames; none for steady
\* operation, which is never injected.
TransitionsComplete ==
  elapsed = Cycle =>
    transitions = IF scenario = "normal.steady" THEN 0 ELSE 2 * Cardinality(Primary)
=============================================================================
