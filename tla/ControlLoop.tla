------------------------------ MODULE ControlLoop ------------------------------
(***************************************************************************)
(* One control loop of the engine (engine.py, _advance_loop): the PI       *)
(* controller with conditional integration and manual tracking, and the    *)
(* final element with its lag, rate limit, stiction, backlash and capacity *)
(* restriction.                                                            *)
(*                                                                         *)
(* Normalized values are integers: outputs count units of the output, an   *)
(* error of one unit moves the output by the controller's gain.  The       *)
(* process, its noise and the setpoint schedule are the environment, which *)
(* gives any measurement and setpoint at every step.  Mode AUTO stands for *)
(* the normal mode of the loop's structure.                                *)
(***************************************************************************)
EXTENDS Integers

CONSTANTS
  Loops,           \* the catalog's loops: [scenario, structure, actuator_time]
  Measurements,    \* values of measured_pv
  Setpoints,       \* values of setpoint
  ManualOutputs,   \* outputs of the manual schedule
  Lower, Upper,    \* lower_limit, upper_limit
  Bias,            \* the output without error and integral
  IntegralLower, IntegralUpper,
  Gain,            \* Gain[tuned]: output units per unit of error
  IntegralGain,    \* IntegralGain[tuned]: the same, integrated over a step
  HighMeasurement, \* above it the protective selector acts
  Protective,      \* its limit
  SplitLow, SplitHigh, \* the neutral crossover of a split range
  Capacity,        \* what a restricted actuator reaches
  Step,            \* the integration step dt, in the unit of actuator_time
  Travel,          \* the rate limit, per step
  StickBand, BacklashBand

ASSUME LoopAssumption ==
  /\ Loops \subseteq [scenario : STRING, structure : STRING, actuator_time : Nat \ {0}]
  /\ Measurements \subseteq Int /\ Setpoints \subseteq Int
  /\ Lower \in Int /\ Upper \in Int /\ Bias \in Int
  /\ Lower < Bias /\ Bias < Upper
  /\ IntegralLower \in Int /\ IntegralUpper \in Int
  /\ IntegralLower <= 0 /\ 0 <= IntegralUpper
  /\ ManualOutputs \subseteq Lower..Upper
  /\ Gain \in [BOOLEAN -> Nat \ {0}] /\ IntegralGain \in [BOOLEAN -> Nat \ {0}]
  /\ Protective \in Int /\ Protective > Lower /\ Capacity \in Int
  /\ SplitLow \in Lower..Bias /\ SplitHigh \in Bias..Upper
  /\ Step \in Nat \ {0} /\ Travel \in Nat \ {0}
  /\ StickBand \in Nat /\ BacklashBand \in Nat

\* The catalog gives every loop the default limits, which leave the integral no
\* more than the output's own range, and no manual scenario to an override.
ASSUME CatalogAssumption ==
  /\ Lower <= Bias + IntegralLower /\ Bias + IntegralUpper <= Upper
  /\ \A l \in Loops : l.scenario = "operations.manual" => l.structure # "override_selector"

VARIABLES
  loop,                \* the loop
  active,              \* its scenario is active
  mode, setpoint, measured_pv, integral, output, actuator, actuator_stuck,
  backlash_direction, backlash_remaining,
  resting              \* observer: since a reversal, backlash has taken every gap whole

controller == <<active, mode, setpoint, measured_pv, integral, output>>
element == <<actuator, actuator_stuck, backlash_direction, backlash_remaining, resting>>
vars == <<loop, controller, element>>

-----------------------------------------------------------------------------
Smaller(a, b) == IF a <= b THEN a ELSE b
Larger(a, b) == IF a >= b THEN a ELSE b
Bounded(value, low, high) == Smaller(Larger(value, low), high)
Magnitude(n) == IF n < 0 THEN -n ELSE n
Sign(n) == IF n > 0 THEN 1 ELSE IF n < 0 THEN -1 ELSE 0

\* Mutant: a direct-acting controller.
DirectError == measured_pv - setpoint

Error == setpoint - measured_pv

Tuned == loop.scenario = "tuning" /\ active

Proposed == integral + IntegralGain[Tuned'] * Error'

\* The request of the automatic controller before selection and limits.
Requested == Bias + Gain[Tuned'] * Error' + Proposed

\* Mutant: the integral is updated at the limits too.
IntegratesAlways == TRUE

\* Conditional integration: is the request strictly inside the limits?
Integrates == Lower < Requested /\ Requested < Upper

\* The protective minimum selector.
Selected(request) ==
  IF loop.structure = "override_selector" /\ measured_pv' > HighMeasurement
  THEN Smaller(request, Protective) ELSE request

AutomaticIntegral ==
  IF Integrates THEN Bounded(Proposed, IntegralLower, IntegralUpper) ELSE integral

\* Mutant: manual mode leaves the integral alone.
TrackNothing(request) == integral

\* The integral with which the automatic controller would request the manual output.
Track(request) ==
  Bounded(request - Bias - Gain[Tuned'] * Error', IntegralLower, IntegralUpper)

Manual == loop.scenario = "operations.manual" /\ active

Control(manual_output) ==
  /\ mode' = IF Manual' THEN "MAN" ELSE "AUTO"
  /\ integral' = IF Manual' THEN Track(manual_output) ELSE AutomaticIntegral
  /\ output' = Bounded(IF Manual' THEN manual_output ELSE Selected(Requested), Lower, Upper)

\* Position asked of a split range: both valves at half in the crossover.
SplitRange(u) ==
  IF u < SplitLow THEN Lower + ((u - Lower) * (Bias - Lower)) \div (SplitLow - Lower)
  ELSE IF u > SplitHigh THEN Bias + ((u - SplitHigh) * (Upper - Bias)) \div (Upper - SplitHigh)
  ELSE Bias

\* actuator_target
Target ==
  LET wanted == IF loop.structure = "split_range" THEN SplitRange(output) ELSE output
  IN  IF loop.scenario = "actuator.saturation" /\ active
      THEN Smaller(wanted, Capacity) ELSE wanted

\* dt * delta / actuator_time within the rate limit.  A step longer than the actuator's
\* time moves it by more than the gap.  Rounding to whole units makes no move longer,
\* but for the first unit of any move, so that a gap closes.
Move(gap) ==
  LET desired == (Step * Magnitude(gap)) \div loop.actuator_time
  IN  Bounded(Sign(gap) * Larger(desired, 1), -Travel, Travel)

Settle(gap) == actuator' = Bounded(actuator + Move(gap), Lower, Upper)

Sticks(gap) ==
  loop.scenario = "valve.stiction" /\ active' /\ Magnitude(gap) < StickBand

\* Mutant: the direction of what is left of the gap is lost.
LeftUnsigned(gap, consumed) == Magnitude(gap) - consumed

LeftOver(gap, consumed) == Sign(gap) * (Magnitude(gap) - consumed)

\* Backlash: a reversal arms the band, which the gap then consumes.
Backlash(gap) ==
  LET reversed == Sign(gap) # 0 /\ Sign(gap) # backlash_direction
      band == IF reversed THEN BacklashBand ELSE backlash_remaining
      consumed == Smaller(Magnitude(gap), band)
  IN  /\ backlash_direction' = IF reversed THEN Sign(gap) ELSE backlash_direction
      /\ backlash_remaining' = band - consumed
      /\ resting' = /\ consumed = Magnitude(gap)
                    /\ resting \/ (active /\ reversed /\ backlash_direction # 0)
      /\ Settle(LeftOver(gap, consumed))

Actuate ==
  LET gap == Target' - actuator IN
    /\ actuator_stuck' = Sticks(gap)
    /\ IF Sticks(gap)
       THEN UNCHANGED <<actuator, backlash_direction, backlash_remaining, resting>>
       ELSE IF loop.scenario = "valve.backlash" /\ active'
       THEN Backlash(gap)
       ELSE /\ Settle(gap) /\ resting' = FALSE
            /\ UNCHANGED <<backlash_direction, backlash_remaining>>

-----------------------------------------------------------------------------
Init ==
  /\ loop \in Loops
  /\ active = FALSE /\ mode = "AUTO"
  /\ setpoint \in Setpoints \cap Measurements /\ measured_pv = setpoint
  /\ integral = 0 /\ output = Bias
  /\ actuator = Bias /\ actuator_stuck = FALSE
  /\ backlash_direction = 0 /\ backlash_remaining = 0 /\ resting = FALSE

\* One integration step of the loop.
AdvanceLoop(on, measurement, target, manual_output) ==
  /\ UNCHANGED loop
  /\ active' = on
  /\ measured_pv' = measurement
  /\ setpoint' = target
  /\ Control(manual_output)
  /\ Actuate

Next ==
  \E on \in BOOLEAN, measurement \in Measurements, target \in Setpoints,
     manual_output \in ManualOutputs :
    AdvanceLoop(on, measurement, target, manual_output)

Spec == Init /\ [][Next]_vars
-----------------------------------------------------------------------------
\* Properties.

TypeOK ==
  /\ loop \in Loops
  /\ active \in BOOLEAN /\ mode \in {"AUTO", "MAN"}
  /\ setpoint \in Setpoints /\ measured_pv \in Measurements
  /\ integral \in IntegralLower..IntegralUpper
  /\ output \in Lower..Upper /\ actuator \in Lower..Upper
  /\ actuator_stuck \in BOOLEAN /\ resting \in BOOLEAN
  /\ backlash_direction \in -1..1 /\ backlash_remaining \in 0..BacklashBand

\* docs/control-structures.md:12: conditional integration prevents windup at the
\* output limits.  In a loop without a manual scenario the integral alone never
\* saturates the output, so the clamp on the integral is never needed and the
\* controller leaves a limit in the step in which the error changes sign.
NoWindup ==
  loop.scenario # "operations.manual" =>
    Lower < Bias + integral /\ Bias + integral < Upper

\* An automatic controller stands at a limit only while the error asks for it,
\* the return from manual mode included.
LimitsDemanded ==
  mode = "AUTO" =>
    /\ output = Upper => setpoint >= measured_pv
    /\ output = Lower => setpoint <= measured_pv

\* docs/control-structures.md:14: the return from MAN is bumpless: the output moves
\* no more than the error's change and one step of integration account for, unless
\* the tracked integral was cut by its bounds.
Bumpless ==
  [][(mode = "MAN" /\ mode' = "AUTO" /\ IntegralLower < integral /\ integral < IntegralUpper)
       => Magnitude(output' - output)
            <= Gain[FALSE] * Magnitude(Error' - Error) + IntegralGain[FALSE] * Magnitude(Error')]_vars

\* The actuator's new position lies on the way from the old one to the target.
OnTheWay ==
  \/ actuator <= actuator' /\ actuator' <= Target'
  \/ Target' <= actuator' /\ actuator' <= actuator

\* Whatever stiction, backlash, rate limit and split range make of the gap: with an
\* integration step up to the actuator's time the actuator neither leaves nor
\* overshoots the way to its target; up to twice that time it ends no farther from
\* it; with any step an overshoot stays within the travel of one step (engine.py,
\* desired_move and rate_move).
ActuatorApproaches ==
  [][LET before == Magnitude(Target' - actuator)
         after == Magnitude(Target' - actuator')
     IN /\ Step <= loop.actuator_time => OnTheWay
        /\ Step <= 2 * loop.actuator_time => after <= before
        /\ after <= Larger(before, Travel)]_vars

\* docs/control-structures.md:19: "backlash consumes a declared amount of travel
\* after each direction reversal": when the band has taken the whole gap of a
\* reversal, the actuator rests until its target travels on; a gap that stays as it
\* is does not move it.
BacklashTakesTravel ==
  [][resting /\ active' /\ Target' = Target => actuator' = actuator]_vars
=============================================================================
