--------------------------- MODULE PlantSimulator ---------------------------
(***************************************************************************)
(* The simulation engine (engine.py): advance() splits a duration into     *)
(* integration steps, each step reads delayed values from bounded buffers  *)
(* and detects scenario transitions, and the call ends with the            *)
(* observations due at its final time.                                     *)
(*                                                                         *)
(* The process equations are abstracted to the instants their inputs were  *)
(* taken at: a buffered value is its time stamp, a measurement is the time *)
(* of the state it measured.  The numbers follow from those instants and   *)
(* the seed.  Times are whole seconds.                                     *)
(***************************************************************************)
EXTENDS Integers, Sequences, FiniteSets, FiniteSetsExt

CONSTANTS
  Loop,        \* control loops
  Edge,        \* coupling edges: [source, target, delay]
  DeadTime,    \* DeadTime[l]: dead_time_seconds
  Scenario,    \* Scenario[l]: the loop's enabled primary scenario, or "none"
  Signal,      \* signals
  LoopOf,      \* LoopOf[s]: the signal's loop
  Cadence,     \* Cadence[s]: nominal_cadence_seconds
  Jitters,     \* shifts an irregular timestamp may get
  Step,        \* integration_step_seconds
  Cycle,       \* scenario_cycle_seconds
  Onset, End,  \* Onset[l], End[l]: the loop's scenario window in each cycle
  LoadWindow,  \* [from, to]: the load change window in each cycle
  Calls,       \* durations advance() is called with
  MaxElapsed   \* bound: simulated seconds

Time == 0..MaxElapsed

ASSUME EngineAssumption ==
  /\ Edge \subseteq [source : Loop, target : Loop, delay : Nat] /\ IsFiniteSet(Edge)
  /\ DeadTime \in [Loop -> Nat]
  /\ Step \in Nat \ {0}
  /\ Cycle \in Nat \ {0}
  /\ Onset \in [Loop -> 1..Cycle] /\ End \in [Loop -> 1..Cycle]
  /\ LoadWindow \in [from : 1..Cycle, to : 1..Cycle]
  /\ LoopOf \in [Signal -> Loop]
  /\ Cadence \in [Signal -> Nat \ {0}]
  /\ Calls \subseteq Nat
  /\ MaxElapsed \in Nat

\* validate_model, which the constructor calls: no coupling acts at once.
ValidModel == \A e \in Edge : e.delay > 0

ASSUME ModelAssumption == ValidModel

\* Irregular timestamps move by less than a sample of their signal: int(1 + 7 f)
\* seconds against cadences of 10 seconds and more.
ASSUME JitterAssumption ==
  \A s \in Signal : Scenario[LoopOf[s]] = "irregular" => Jitters \subseteq 1..(Cadence[s] - 1)

VARIABLES
  elapsed,         \* elapsed_seconds
  calling,         \* inside advance()
  remaining,       \* seconds the call still has to integrate
  began,           \* elapsed_seconds when the last step began
  delay,           \* delay[l]: stamps in the actuator's delay line
  process_history, \* process_history[l]: stamps of the states kept for coupling
  delayed,         \* delayed[l]: stamp of the actuator position the step used
  coupled,         \* coupled[e]: stamp of the source state the step used
  measured,        \* measured[l]: time of the state that measured_pv shows
  frozen,          \* frozen[l]: what frozen_measurement holds, -1 for None
  last_active,     \* _last_active[l]
  last_load,       \* _last_load_change
  flips,           \* flips[l]: truth events emitted for l
  load_flips,      \* load change events emitted
  stamps,          \* every instant the model was integrated to
  latest           \* latest[s]: frame time and timestamp of s's last observation

buffers == <<delay, process_history, delayed, coupled>>
sensors == <<measured, frozen>>
truth == <<last_active, last_load, flips, load_flips>>
vars == <<elapsed, calling, remaining, began, buffers, sensors, truth, stamps, latest>>

-----------------------------------------------------------------------------
\* Scenario schedule.

Least(a, b) == IF a <= b THEN a ELSE b

\* _scenario_active at time t.
Active(l, t) ==
  /\ Scenario[l] # "none"
  /\ Onset[l] <= t % Cycle /\ t % Cycle < End[l]

LoadChange(t) == LoadWindow.from <= t % Cycle /\ t % Cycle < LoadWindow.to

-----------------------------------------------------------------------------
\* Delay buffers: sequences of increasing stamps.

\* The last entry not after `target', or the first one.
Lookup(h, target) == h[Max({1} \cup {i \in 1..Len(h) : h[i] <= target})]

\* Drop leading entries while more than two are left and the second is old.
DropWhile(h, Old(_)) ==
  LET keep == {i \in 1..Len(h) : i + 1 >= Len(h) \/ ~Old(h[i + 1])}
  IN  SubSeq(h, Min(keep), Len(h))

\* Mutant: the delay line is never cut.
CutNothing(l, h, target) == h

CutActuator(l, h, target) == LET Old(t) == t < target - DeadTime[l] IN DropWhile(h, Old)

\* Mutant: only one integration step of the process is retained.
RetentionOfStep(l) == Step

\* _process_history_retention
Retention(l) == Max({Step} \cup {e.delay : e \in {f \in Edge : f.source = l}})

CutProcess(l, h, now) == LET Old(t) == t <= now - Retention(l) IN DropWhile(h, Old)

-----------------------------------------------------------------------------
Init ==
  /\ elapsed = 0 /\ calling = FALSE /\ remaining = 0 /\ began = 0
  /\ delay = [l \in Loop |-> <<0>>]
  /\ process_history = [l \in Loop |-> <<0>>]
  /\ delayed = [l \in Loop |-> 0] /\ coupled = [e \in Edge |-> 0]
  /\ measured = [l \in Loop |-> 0] /\ frozen = [l \in Loop |-> -1]
  /\ last_active = [l \in Loop |-> FALSE] /\ last_load = FALSE
  /\ flips = [l \in Loop |-> 0] /\ load_flips = 0
  /\ stamps = {0}
  /\ latest = [s \in Signal |-> [at |-> -1, stamp |-> -1]]

\* advance(seconds) is called.
Advance(seconds) ==
  /\ ~calling
  /\ elapsed + seconds \in Time
  /\ calling' = TRUE
  /\ remaining' = seconds
  /\ UNCHANGED <<elapsed, began, buffers, sensors, truth, stamps, latest>>

\* Mutant: the frozen measurement survives the end of the scenario.
FrozenKept(l, active) == IF active /\ frozen[l] = -1 THEN measured[l] ELSE frozen[l]

\* frozen_measurement after a step of l.
Frozen(l, active) ==
  IF Scenario[l] = "frozen" /\ active
  THEN IF frozen[l] = -1 THEN measured[l] ELSE frozen[l]
  ELSE -1

\* Mutant: the transition test uses the state before the integration step.
BecomesLate(l, now) == Active(l, began)

\* _last_active after a step that ends at `now'.
Becomes(l, now) == Active(l, now)

\* One integration step of every loop.
IntegrationStep ==
  /\ calling
  /\ remaining > 0
  /\ LET dt == Least(remaining, Step)
         now == elapsed + dt
         line(l) == Append(delay[l], now)
     IN
       /\ elapsed' = now
       /\ began' = elapsed
       /\ remaining' = remaining - dt
       /\ stamps' = stamps \cup {now}
       /\ delayed' = [l \in Loop |-> Lookup(line(l), elapsed - DeadTime[l])]
       /\ delay' = [l \in Loop |-> CutActuator(l, line(l), elapsed - DeadTime[l])]
       /\ coupled' = [e \in Edge |-> Lookup(process_history[e.source], elapsed - e.delay)]
       /\ process_history' =
            [l \in Loop |-> CutProcess(l, Append(process_history[l], now), now)]
       /\ frozen' = [l \in Loop |-> Frozen(l, Active(l, elapsed))]
       /\ measured' = [l \in Loop |->
            IF Scenario[l] = "frozen" /\ Active(l, elapsed) THEN frozen'[l] ELSE elapsed]
       /\ last_active' = [l \in Loop |-> Becomes(l, now)]
       /\ flips' = [l \in Loop |->
            IF last_active'[l] # last_active[l] THEN flips[l] + 1 ELSE flips[l]]
       /\ last_load' = LoadChange(now)
       /\ load_flips' = IF last_load' # last_load THEN load_flips + 1 ELSE load_flips
  /\ UNCHANGED <<calling, latest>>

\* _observations: is s due at t, and what may its timestamp be shifted by?
Due(s, t) == t = 0 \/ t % Cadence[s] = 0

\* Mutant: an irregular timestamp may move past the next sample.
ShiftsPastCadence(s, t) ==
  IF Active(LoopOf[s], t) /\ Scenario[LoopOf[s]] = "irregular"
  THEN {j + Cadence[s] : j \in Jitters} ELSE {0}

Shifts(s, t) ==
  IF Active(LoopOf[s], t) /\ Scenario[LoopOf[s]] = "irregular" THEN Jitters ELSE {0}

Silent(s, t) == Active(LoopOf[s], t) /\ Scenario[LoopOf[s]] \in {"gap", "communication_loss"}

MayBeSkipped(s, t) == Active(LoopOf[s], t) /\ Scenario[LoopOf[s]] = "irregular"

\* The call returns its observations.
Observe ==
  /\ calling
  /\ remaining = 0
  /\ calling' = FALSE
  /\ LET due == {s \in Signal : Due(s, elapsed) /\ ~Silent(s, elapsed)} IN
       \E skipped \in SUBSET {s \in due : MayBeSkipped(s, elapsed)},
          shift \in [Signal -> UNION {Shifts(s, elapsed) : s \in Signal}] :
         /\ \A s \in Signal : shift[s] \in Shifts(s, elapsed)
         /\ latest' = [s \in Signal |->
              IF s \in due \ skipped
              THEN [at |-> elapsed, stamp |-> elapsed + shift[s]] ELSE latest[s]]
  /\ UNCHANGED <<elapsed, remaining, began, buffers, sensors, truth, stamps>>

Next == (\E seconds \in Calls : Advance(seconds)) \/ IntegrationStep \/ Observe

Spec == Init /\ [][Next]_vars
-----------------------------------------------------------------------------
\* Properties.

TypeOK ==
  /\ elapsed \in Time /\ began \in Time /\ remaining \in Time
  /\ calling \in BOOLEAN
  /\ delay \in [Loop -> Seq(Time)] /\ process_history \in [Loop -> Seq(Time)]
  /\ delayed \in [Loop -> Time] /\ coupled \in [Edge -> Time]
  /\ measured \in [Loop -> Time] /\ frozen \in [Loop -> Time \cup {-1}]
  /\ last_active \in [Loop -> BOOLEAN] /\ last_load \in BOOLEAN
  /\ flips \in [Loop -> Nat] /\ load_flips \in Nat
  /\ stamps \subseteq Time
  /\ \A s \in Signal : latest[s].at \in Time \cup {-1} /\ latest[s].stamp \in Int

\* The last instant of the whole simulation not after `target'.
LatestInstant(target) == Max({0} \cup {t \in stamps : t <= target})

\* Pruning the buffers never changes what a step reads from them: a delayed
\* value is the one an unbounded history would give, across partial steps.
DelaysExact ==
  /\ \A l \in Loop : delayed[l] = LatestInstant(began - DeadTime[l])
  /\ \A e \in Edge : coupled[e] = LatestInstant(began - e.delay)

\* The buffers of an endless run stay bounded by what their delays need.
BuffersBounded ==
  \A l \in Loop :
    /\ Len(delay[l]) <= 2 + Cardinality({t \in stamps : t >= began - 2 * DeadTime[l]})
    /\ Len(process_history[l]) <= 2 + Cardinality({t \in stamps : t > elapsed - Retention(l)})

\* The truth events alternate and none is lost or repeated, however the time is
\* cut into calls: an odd number of them means the scenario is active.
EventsTellTruth ==
  /\ \A l \in Loop : Active(l, elapsed) <=> flips[l] % 2 = 1
  /\ LoadChange(elapsed) <=> load_flips % 2 = 1

\* A frozen sensor shows the last measurement before its scenario's onset in
\* this cycle, and a fresh one after it.
FrozenSinceOnset ==
  \A l \in Loop :
    IF Scenario[l] = "frozen" /\ Active(l, began)
    THEN measured[l] = LatestInstant(began - (began % Cycle) + Onset[l] - 1)
    ELSE measured[l] = began

\* The timestamps of a signal increase from frame to frame, gaps, skips and
\* jitter included (what retention and paged reads of its history rely on).
StampsIncrease ==
  [][\A s \in Signal :
       latest'[s].at > latest[s].at => latest'[s].stamp > latest[s].stamp]_vars
=============================================================================
