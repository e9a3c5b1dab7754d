--------------------------- MODULE ControlLoopProofs ---------------------------
(***************************************************************************)
(* For every gain, integral gain, limit, measurement and structure of the  *)
(* loop: conditional integration keeps the controller from winding up,     *)
(* its output is at a limit only on demand, the return from manual mode is *)
(* bumpless, and how near its target a step may leave the actuator.        *)
(***************************************************************************)
EXTENDS ControlLoop, TLAPS

\* The product of a positive gain has the sign of the error.
LEMMA GainSign ==
  ASSUME NEW g \in Nat \ {0}, NEW e \in Int
  PROVE  g * e \in Int /\ (e >= 0 => g * e >= 0) /\ (e <= 0 => g * e <= 0)
OBVIOUS

\* What the controller's invariant is stated over.
ControllerTypes ==
  /\ setpoint \in Int /\ measured_pv \in Int
  /\ integral \in Int
  /\ active \in BOOLEAN

Unwound == ControllerTypes /\ NoWindup

LEMMA UnwoundInit == ASSUME Init PROVE Unwound
<1>1. setpoint \in Int /\ measured_pv \in Int /\ integral = 0 /\ active \in BOOLEAN
  BY LoopAssumption DEF Init
<1>2. Lower < Bias + integral /\ Bias + integral < Upper
  BY <1>1, LoopAssumption
<1> QED
  BY <1>1, <1>2 DEF Unwound, ControllerTypes, NoWindup

\* Cutting at bounds around zero keeps a value between zero and itself.
LEMMA BoundedBetween ==
  ASSUME NEW v \in Int, NEW low \in Int, NEW high \in Int, low <= 0, 0 <= high
  PROVE  /\ Bounded(v, low, high) \in Int
         /\ \/ 0 <= Bounded(v, low, high) /\ Bounded(v, low, high) <= v
            \/ v <= Bounded(v, low, high) /\ Bounded(v, low, high) <= 0
BY DEF Bounded, Smaller, Larger

LEMMA UnwoundStep ==
  ASSUME Unwound, [Next]_vars
  PROVE  Unwound'
<1>1. CASE UNCHANGED vars
  BY <1>1 DEF vars, controller, Unwound, ControllerTypes, NoWindup
<1>2. ASSUME NEW on \in BOOLEAN, NEW measurement \in Measurements,
             NEW target \in Setpoints, NEW manual_output \in ManualOutputs,
             AdvanceLoop(on, measurement, target, manual_output)
      PROVE  Unwound'
  <2> DEFINE g == Gain[Tuned']
             k == IntegralGain[Tuned']
             e == Error'
  <2>1. /\ active' \in BOOLEAN /\ setpoint' \in Int /\ measured_pv' \in Int
        /\ loop' = loop
    BY <1>2, LoopAssumption DEF AdvanceLoop
  <2>2. g \in Nat \ {0} /\ k \in Nat \ {0} /\ e \in Int
    <3>1. Tuned' \in BOOLEAN
      BY <2>1 DEF Tuned
    <3>2. e \in Int
      BY <2>1 DEF Error
    <3> QED
      BY <3>1, <3>2, LoopAssumption
  <2>3. /\ g * e \in Int /\ k * e \in Int
        /\ (e >= 0 => g * e >= 0 /\ k * e >= 0)
        /\ (e <= 0 => g * e <= 0 /\ k * e <= 0)
    <3> HIDE DEF g, k, e
    <3> QED
      BY <2>2, GainSign
  <2>4. /\ integral \in Int /\ Proposed = integral + k * e
        /\ Requested = Bias + g * e + Proposed
    BY DEF Unwound, ControllerTypes, Proposed, Requested
  <2>5. Control(manual_output)
    BY <1>2 DEF AdvanceLoop
  <2> HIDE DEF g, k, e
  <2>6. Lower \in Int /\ Upper \in Int /\ Bias \in Int /\ Lower < Bias /\ Bias < Upper
        /\ IntegralLower \in Int /\ IntegralUpper \in Int
        /\ IntegralLower <= 0 /\ 0 <= IntegralUpper
    BY LoopAssumption
  <2>7. CASE Manual'
    <3>1. integral' = Track(manual_output)
      BY <2>5, <2>7 DEF Control
    <3>2. manual_output \in Int
      BY <2>6, LoopAssumption
    <3>3. Track(manual_output) = Bounded(manual_output - Bias - g * e, IntegralLower, IntegralUpper)
      BY DEF Track, g, e
    <3>4. manual_output - Bias - g * e \in Int
      BY <2>3, <2>6, <3>2
    <3>5. integral' \in Int
      BY <2>6, <3>1, <3>3, <3>4, BoundedBetween
    <3>6. loop'.scenario = "operations.manual"
      BY <2>7 DEF Manual
    <3> QED
      BY <2>1, <3>5, <3>6 DEF Unwound, ControllerTypes, NoWindup
  <2>8. CASE ~Manual'
    <3>1. integral' = AutomaticIntegral
      BY <2>5, <2>8 DEF Control
    <3>2. CASE ~Integrates
      BY <2>1, <2>4, <3>1, <3>2 DEF AutomaticIntegral, Unwound, ControllerTypes, NoWindup
    <3>3. CASE Integrates
      <4> DEFINE i == Bounded(Proposed, IntegralLower, IntegralUpper)
      <4>1. integral' = i
        BY <3>1, <3>3 DEF AutomaticIntegral
      <4>2. Proposed \in Int
        BY <2>3, <2>4
      <4>3. /\ i \in Int
            /\ \/ 0 <= i /\ i <= Proposed
               \/ Proposed <= i /\ i <= 0
        BY <2>6, <4>2, BoundedBetween
      <4>4. Lower < Requested /\ Requested < Upper
        BY <3>3 DEF Integrates
      <4> HIDE DEF i
      <4>5. NoWindup'
        <5> SUFFICES ASSUME loop.scenario # "operations.manual"
                     PROVE  Lower < Bias + i /\ Bias + i < Upper
          BY <2>1, <4>1 DEF NoWindup
        <5>1. Lower < Bias + integral /\ Bias + integral < Upper
          BY DEF Unwound, NoWindup
        <5>2. Lower < Bias + Proposed /\ Bias + Proposed < Upper
          BY <2>2, <2>3, <2>4, <2>6, <4>2, <4>4, <5>1
        <5> QED
          BY <2>6, <4>2, <4>3, <5>2
      <4> QED
        BY <2>1, <4>1, <4>3, <4>5 DEF Unwound, ControllerTypes
    <3> QED
      BY <3>2, <3>3
  <2> QED
    BY <2>7, <2>8
<1> QED
  BY <1>1, <1>2 DEF Next

\* docs/control-structures.md:12: no windup, whatever the process, the noise, the
\* setpoints and the tuning do: the integral of an automatic loop alone never
\* reaches a limit of the output.
THEOREM ConditionalIntegration == Spec => []NoWindup
<1>1. Init => Unwound
  BY UnwoundInit
<1>2. Unwound /\ [Next]_vars => Unwound'
  BY UnwoundStep
<1>3. Unwound => NoWindup
  BY DEF Unwound
<1> QED
  BY <1>1, <1>2, <1>3, PTL DEF Spec

-----------------------------------------------------------------------------
\* The loop's types.

LEMMA ConstantTypes ==
  /\ Lower \in Int /\ Upper \in Int /\ Bias \in Int /\ Lower < Bias /\ Bias < Upper
  /\ IntegralLower \in Int /\ IntegralUpper \in Int
  /\ IntegralLower <= 0 /\ 0 <= IntegralUpper
  /\ Lower <= Bias + IntegralLower /\ Bias + IntegralUpper <= Upper
  /\ Protective \in Int /\ Protective > Lower /\ Capacity \in Int
  /\ SplitLow \in Lower..Bias /\ SplitHigh \in Bias..Upper
  /\ Step \in Nat \ {0} /\ Travel \in Nat \ {0}
  /\ StickBand \in Nat /\ BacklashBand \in Nat
BY LoopAssumption, CatalogAssumption

LEMMA BoundedWithin ==
  ASSUME NEW v \in Int, NEW low \in Int, NEW high \in Int, low <= high
  PROVE  Bounded(v, low, high) \in low..high
BY DEF Bounded, Smaller, Larger

\* What a step over a gap moves before the rate limit: at least a unit, and no more than
\* the gap, or twice the gap, for a step up to the actuator's time, or twice that.
LEMMA DesiredMove ==
  ASSUME NEW m \in Nat \ {0}, NEW k \in Nat \ {0}, NEW t \in Nat \ {0}
  PROVE  /\ Larger((k * m) \div t, 1) \in Nat \ {0}
         /\ k <= t => Larger((k * m) \div t, 1) <= m
         /\ k <= 2 * t => Larger((k * m) \div t, 1) <= 2 * m
<1>1. PICK w \in Nat : w = k * m
  OBVIOUS
<1>2. PICK d \in Int : d = w \div t /\ t * d <= w /\ w < t * d + t
  OBVIOUS
<1>3. ASSUME k <= t PROVE d <= m
  <2> SUFFICES ASSUME d >= m + 1 PROVE FALSE
    OBVIOUS
  <2>1. w <= t * m
    BY <1>1, <1>3
  <2>2. t * d >= t * m + t
    OBVIOUS
  <2> QED BY <1>2, <2>1, <2>2
<1>4. ASSUME k <= 2 * t PROVE d <= 2 * m
  <2> SUFFICES ASSUME d >= 2 * m + 1 PROVE FALSE
    OBVIOUS
  <2>1. w <= (2 * t) * m
    BY <1>1, <1>4
  <2>2. t * d >= t * (2 * m) + t
    OBVIOUS
  <2>3. (2 * t) * m = t * (2 * m)
    OBVIOUS
  <2> QED BY <1>2, <2>1, <2>2, <2>3
<1> QED BY <1>1, <1>2, <1>3, <1>4 DEF Larger

\* A move over a gap: never the wrong way, within the rate limit, and too far only if
\* the step is longer than the actuator's time.
Covers(m, gap) ==
  /\ m \in -Travel..Travel
  /\ gap >= 0 => m >= 0
  /\ gap <= 0 => m <= 0
  /\ Step <= loop.actuator_time => Magnitude(m) <= Magnitude(gap)
  /\ Step <= 2 * loop.actuator_time => Magnitude(m) <= 2 * Magnitude(gap)

LEMMA MoveCovers ==
  ASSUME NEW gap \in Int, loop \in Loops
  PROVE  Covers(Move(gap), gap)
<1>1. loop.actuator_time \in Nat \ {0}
  BY LoopAssumption
<1>2. Travel \in Nat \ {0} /\ Step \in Nat \ {0}
  BY ConstantTypes
<1>3. CASE gap = 0
  <2>1. PICK q \in Int : q = Larger((Step * Magnitude(gap)) \div loop.actuator_time, 1)
    <3>1. Magnitude(gap) = 0
      BY <1>3 DEF Magnitude
    <3>2. \A t \in Nat \ {0} : (Step * 0) \div t = 0
      BY <1>2
    <3> QED BY <1>1, <3>1, <3>2 DEF Larger
  <2>2. Sign(gap) * q = 0
    BY <1>3, <2>1 DEF Sign
  <2>3. Move(gap) = Bounded(0, -Travel, Travel)
    BY <2>1, <2>2 DEF Move
  <2>4. Move(gap) = 0
    BY <1>2, <2>3 DEF Bounded, Smaller, Larger
  <2>5. Magnitude(0) = 0 /\ 0 \in -Travel..Travel
    BY <1>2 DEF Magnitude
  <2> QED BY <1>3, <2>4, <2>5 DEF Covers
<1>4. CASE gap # 0
  <2>1. Magnitude(gap) \in Nat \ {0}
    BY <1>4 DEF Magnitude
  <2>2. PICK q \in Nat \ {0} :
          /\ q = Larger((Step * Magnitude(gap)) \div loop.actuator_time, 1)
          /\ Step <= loop.actuator_time => q <= Magnitude(gap)
          /\ Step <= 2 * loop.actuator_time => q <= 2 * Magnitude(gap)
    BY <1>1, <1>2, <2>1, DesiredMove
  <2>3. PICK c \in Nat : c = Smaller(q, Travel)
    BY <1>2 DEF Smaller
  <2>4. c <= q /\ c <= Travel
    BY <1>2, <2>3 DEF Smaller
  <2>5. Move(gap) = Bounded(Sign(gap) * q, -Travel, Travel)
    BY <2>2, Zenon DEF Move
  <2>6. CASE gap > 0
    <3>1. Move(gap) = c
      BY <1>2, <2>3, <2>5, <2>6 DEF Sign, Bounded, Smaller, Larger
    <3>2. Magnitude(c) = c
      BY DEF Magnitude
    <3>3. c \in -Travel..Travel /\ (gap >= 0 => c >= 0) /\ (gap <= 0 => c <= 0)
      BY <1>2, <2>4, <2>6
    <3>4. /\ Step <= loop.actuator_time => c <= Magnitude(gap)
          /\ Step <= 2 * loop.actuator_time => c <= 2 * Magnitude(gap)
      BY <1>1, <1>2, <2>1, <2>2, <2>4
    <3>5. Covers(c, gap)
      BY <3>2, <3>3, <3>4, Zenon DEF Covers
    <3> QED BY <3>1, <3>5
  <2>7. CASE gap < 0
    <3>1. Move(gap) = -c
      BY <1>2, <2>3, <2>5, <2>7 DEF Sign, Bounded, Smaller, Larger
    <3>2. Magnitude(-c) = c
      BY DEF Magnitude
    <3>3. -c \in -Travel..Travel /\ (gap >= 0 => -c >= 0) /\ (gap <= 0 => -c <= 0)
      BY <1>2, <2>4, <2>7
    <3>4. /\ Step <= loop.actuator_time => c <= Magnitude(gap)
          /\ Step <= 2 * loop.actuator_time => c <= 2 * Magnitude(gap)
      BY <1>1, <1>2, <2>1, <2>2, <2>4
    <3>5. Covers(-c, gap)
      BY <3>2, <3>3, <3>4, Zenon DEF Covers
    <3> QED BY <3>1, <3>5
  <2> QED BY <1>4, <2>6, <2>7
<1> QED BY <1>3, <1>4

\* Moving over a part of a gap covers the gap.
LEMMA PartCovers ==
  ASSUME NEW gap \in Int, NEW part \in Int, loop \in Loops, NEW m, Covers(m, part),
         gap >= 0 => 0 <= part /\ part <= gap,
         gap <= 0 => gap <= part /\ part <= 0
  PROVE  Covers(m, gap)
<1>1. m \in Int /\ loop.actuator_time \in Nat \ {0}
  BY ConstantTypes, LoopAssumption DEF Covers
<1>2. (gap >= 0 => m >= 0) /\ (gap <= 0 => m <= 0)
  BY DEF Covers
<1>3. PICK g \in Nat, p \in Nat, n \in Nat :
        g = Magnitude(gap) /\ p = Magnitude(part) /\ n = Magnitude(m) /\ p <= g
  BY <1>1 DEF Magnitude
<1>4. /\ Step <= loop.actuator_time => n <= g
      /\ Step <= 2 * loop.actuator_time => n <= 2 * g
  BY <1>3 DEF Covers
<1> QED BY <1>2, <1>3, <1>4 DEF Covers

\* What backlash leaves of a gap has its direction and is no longer.
LEMMA LeftOnTheWay ==
  ASSUME NEW gap \in Int, NEW consumed \in 0..Magnitude(gap)
  PROVE  /\ LeftOver(gap, consumed) \in Int
         /\ gap >= 0 => 0 <= LeftOver(gap, consumed) /\ LeftOver(gap, consumed) <= gap
         /\ gap <= 0 => gap <= LeftOver(gap, consumed) /\ LeftOver(gap, consumed) <= 0
BY DEF LeftOver, Magnitude, Sign

LEMMA SplitRangeInt ==
  ASSUME NEW u \in Lower..Upper
  PROVE  SplitRange(u) \in Int
<1>1. CASE u < SplitLow
  <2>1. SplitLow - Lower \in Nat \ {0} /\ u - Lower \in Int /\ Bias - Lower \in Int
    BY <1>1, ConstantTypes
  <2>2. (u - Lower) * (Bias - Lower) \in Int
    BY <2>1
  <2>3. \A m \in Int, n \in Nat \ {0} : m \div n \in Int
    OBVIOUS
  <2>4. ((u - Lower) * (Bias - Lower)) \div (SplitLow - Lower) \in Int
    BY <2>1, <2>2, <2>3
  <2> QED BY <1>1, <2>4, ConstantTypes DEF SplitRange
<1>2. CASE u > SplitHigh
  <2>1. Upper - SplitHigh \in Nat \ {0} /\ u - SplitHigh \in Int /\ Upper - Bias \in Int
    BY <1>2, ConstantTypes
  <2>2. (u - SplitHigh) * (Upper - Bias) \in Int
    BY <2>1
  <2>3. \A m \in Int, n \in Nat \ {0} : m \div n \in Int
    OBVIOUS
  <2>4. ((u - SplitHigh) * (Upper - Bias)) \div (Upper - SplitHigh) \in Int
    BY <2>1, <2>2, <2>3
  <2> QED BY <1>2, <2>4, ConstantTypes DEF SplitRange
<1> QED BY <1>1, <1>2, ConstantTypes DEF SplitRange

Element ==
  /\ actuator \in Lower..Upper
  /\ actuator_stuck \in BOOLEAN /\ resting \in BOOLEAN
  /\ backlash_direction \in -1..1 /\ backlash_remaining \in 0..BacklashBand

\* How near the goal a step leaves the actuator.
Approaches(goal) ==
  /\ Step <= loop.actuator_time =>
       \/ actuator <= actuator' /\ actuator' <= goal
       \/ goal <= actuator' /\ actuator' <= actuator
  /\ Step <= 2 * loop.actuator_time => Magnitude(goal - actuator') <= Magnitude(goal - actuator)
  /\ Magnitude(goal - actuator') <= Larger(Magnitude(goal - actuator), Travel)

\* A move that covers the gap approaches the goal, also when the limits cut it short.
LEMMA SettleApproaches ==
  ASSUME Element, loop \in Loops, NEW goal \in Int, NEW m, Covers(m, goal - actuator),
         actuator' = Bounded(actuator + m, Lower, Upper)
  PROVE  actuator' \in Lower..Upper /\ Approaches(goal)
<1>1. PICK a \in Lower..Upper : a = actuator
  BY DEF Element
<1>2. Lower \in Int /\ Upper \in Int /\ Lower <= Upper /\ Travel \in Nat /\ a \in Int
  BY <1>1, ConstantTypes
<1>3. PICK k \in Int : k = m
  BY <1>2 DEF Covers
<1>4. PICK b \in Lower..Upper : b = actuator'
  <2>1. a + k \in Int
    BY <1>2
  <2> QED BY <1>1, <1>2, <1>3, <2>1, BoundedWithin
<1>5. (k >= 0 => a <= b /\ b <= a + k) /\ (k <= 0 => a + k <= b /\ b <= a)
  BY <1>1, <1>2, <1>3, <1>4 DEF Bounded, Smaller, Larger
<1>6. PICK g \in Int : g = goal - a
  BY <1>2
<1>7. /\ -Travel <= k /\ k <= Travel
      /\ (g >= 0 => k >= 0) /\ (g <= 0 => k <= 0)
      /\ Step <= loop.actuator_time => Magnitude(k) <= Magnitude(g)
      /\ Step <= 2 * loop.actuator_time => Magnitude(k) <= 2 * Magnitude(g)
  BY <1>1, <1>2, <1>3, <1>6 DEF Covers
<1>8. b \in Int /\ goal = a + g
  BY <1>2, <1>6
<1>9. ASSUME Step <= loop.actuator_time
      PROVE  \/ a <= b /\ b <= goal
             \/ goal <= b /\ b <= a
  <2>1. Magnitude(k) <= Magnitude(g)
    BY <1>7, <1>9
  <2> QED BY <1>2, <1>5, <1>7, <1>8, <2>1 DEF Magnitude
<1>10. ASSUME Step <= 2 * loop.actuator_time
       PROVE  Magnitude(goal - b) <= Magnitude(goal - a)
  <2>1. Magnitude(k) <= 2 * Magnitude(g)
    BY <1>7, <1>10
  <2> QED BY <1>2, <1>5, <1>7, <1>8, <2>1 DEF Magnitude
<1>11. Magnitude(goal - b) <= Larger(Magnitude(goal - a), Travel)
  BY <1>2, <1>5, <1>7, <1>8 DEF Magnitude, Larger
<1> QED BY <1>1, <1>4, <1>9, <1>10, <1>11 DEF Approaches

\* The final element, with whatever stiction, backlash and rate limit it has.
LEMMA ActuateStep ==
  ASSUME Element, loop \in Loops, Target' \in Int, active' \in BOOLEAN, active \in BOOLEAN, Actuate
  PROVE  Element' /\ Approaches(Target')
<1>1. actuator \in Lower..Upper /\ actuator \in Int /\ Travel \in Nat
  BY ConstantTypes DEF Element
<1>2. PICK goal \in Int, gap \in Int : goal = Target' /\ gap = goal - actuator
  <2>1. \A goal \in Int : goal - actuator \in Int
    BY <1>1
  <2> QED BY <2>1
<1>3. actuator_stuck' \in BOOLEAN
  BY <1>2 DEF Actuate, Sticks
<1>4. CASE UNCHANGED <<actuator, backlash_direction, backlash_remaining, resting>>
  <2>1. PICK n \in Nat : n = Magnitude(goal - actuator)
    <3>1. goal - actuator \in Int
      BY <1>2
    <3>2. \A k \in Int : Magnitude(k) \in Nat
      BY DEF Magnitude
    <3> QED BY <3>1, <3>2
  <2>2. n <= Larger(n, Travel)
    BY <1>1 DEF Larger
  <2>3. (actuator <= actuator /\ actuator <= goal) \/ (goal <= actuator /\ actuator <= actuator)
    BY <1>1
  <2>4. Approaches(goal)
    BY <1>4, <2>1, <2>2, <2>3 DEF Approaches
  <2> QED BY <1>2, <1>3, <1>4, <2>4 DEF Element
<1>5. CASE Settle(gap) /\ resting' = FALSE /\ UNCHANGED <<backlash_direction, backlash_remaining>>
  <2>1. Covers(Move(gap), gap) /\ actuator' = Bounded(actuator + Move(gap), Lower, Upper)
    BY <1>5, MoveCovers DEF Settle
  <2>2. actuator' \in Lower..Upper /\ Approaches(goal)
    BY <1>2, <2>1, SettleApproaches
  <2> QED BY <1>2, <1>3, <1>5, <2>2 DEF Element
<1>6. CASE Backlash(gap)
  <2> DEFINE reversed == Sign(gap) # 0 /\ Sign(gap) # backlash_direction
  <2>1. PICK band \in 0..BacklashBand :
          band = IF reversed THEN BacklashBand ELSE backlash_remaining
    BY ConstantTypes DEF Element
  <2>2. PICK consumed : consumed = Smaller(Magnitude(gap), band)
    OBVIOUS
  <2>3. consumed \in 0..Magnitude(gap) /\ consumed \in 0..band
    <3>1. band \in Nat /\ Magnitude(gap) \in Nat
      BY <2>1, ConstantTypes DEF Magnitude
    <3> QED BY <2>2, <3>1 DEF Smaller
  <2>4. /\ backlash_direction' = IF reversed THEN Sign(gap) ELSE backlash_direction
        /\ backlash_remaining' = band - consumed
        /\ resting' \in BOOLEAN
        /\ Settle(LeftOver(gap, consumed))
    BY <1>6, <2>1, <2>2 DEF Backlash, Element
  <2>5. PICK part \in Int : /\ part = LeftOver(gap, consumed)
                            /\ gap >= 0 => 0 <= part /\ part <= gap
                            /\ gap <= 0 => gap <= part /\ part <= 0
    BY <2>3, LeftOnTheWay
  <2>6. actuator' \in Lower..Upper /\ Approaches(goal)
    <3>1. actuator' = Bounded(actuator + Move(part), Lower, Upper)
      BY <2>4, <2>5 DEF Settle
    <3> HIDE DEF reversed
    <3>2. Covers(Move(part), gap)
      BY <2>5, MoveCovers, PartCovers
    <3> QED BY <1>2, <3>1, <3>2, SettleApproaches
  <2>7. backlash_remaining' \in 0..BacklashBand
    BY <2>1, <2>3, <2>4, ConstantTypes
  <2>8. backlash_direction' \in -1..1
    BY <1>1, <2>4 DEF Element, Sign
  <2> QED BY <1>2, <1>3, <2>4, <2>6, <2>7, <2>8 DEF Element
<1> QED BY <1>2, <1>4, <1>5, <1>6 DEF Actuate

-----------------------------------------------------------------------------
\* The controller.

\* In manual mode the integral tracks the output.
Tracked ==
  mode = "MAN" =>
    /\ loop.scenario = "operations.manual"
    /\ integral = Bounded(output - Bias - Gain[FALSE] * Error, IntegralLower, IntegralUpper)

LoopInv == TypeOK /\ Tracked /\ LimitsDemanded

LEMMA Inputs ==
  /\ Setpoints \subseteq Int /\ Measurements \subseteq Int /\ ManualOutputs \subseteq Lower..Upper
  /\ Gain \in [BOOLEAN -> Nat \ {0}] /\ IntegralGain \in [BOOLEAN -> Nat \ {0}]
BY LoopAssumption

LEMMA LoopInvInit == Init => LoopInv
<1> SUFFICES ASSUME Init PROVE LoopInv
  OBVIOUS
<1>1. setpoint \in Setpoints /\ measured_pv \in Measurements
  BY DEF Init
<1>2. integral \in IntegralLower..IntegralUpper /\ output \in Lower..Upper
      /\ actuator \in Lower..Upper /\ backlash_remaining \in 0..BacklashBand
  BY ConstantTypes DEF Init
<1>3. TypeOK
  <2>1. mode \in {"AUTO", "MAN"} /\ backlash_direction \in -1..1
    BY DEF Init
  <2>2. loop \in Loops /\ active \in BOOLEAN /\ actuator_stuck \in BOOLEAN /\ resting \in BOOLEAN
    BY DEF Init
  <2> QED BY <1>1, <1>2, <2>1, <2>2 DEF TypeOK
<1>4. output = Bias /\ Bias # Lower /\ Bias # Upper /\ mode = "AUTO"
  BY ConstantTypes DEF Init
<1> QED BY <1>3, <1>4 DEF LoopInv, Tracked, LimitsDemanded

\* What a step's controller computes, with the gains and the error it has.
LEMMA ControlStep ==
  ASSUME LoopInv, active' \in BOOLEAN, setpoint' \in Setpoints, measured_pv' \in Measurements,
         loop' = loop, NEW manual \in ManualOutputs, Control(manual)
  PROVE  \E g \in Nat \ {0}, k \in Nat \ {0}, e \in Int :
           /\ g = Gain[Tuned'] /\ k = IntegralGain[Tuned'] /\ e = Error'
           /\ Requested = Bias + g * e + (integral + k * e)
           /\ Proposed = integral + k * e
           /\ g * e \in Int /\ k * e \in Int
           /\ (e >= 0 => g * e >= 0 /\ k * e >= 0)
           /\ (e <= 0 => g * e <= 0 /\ k * e <= 0)
<1>1. Tuned' \in BOOLEAN
  BY DEF Tuned
<1>2. PICK g \in Nat \ {0}, k \in Nat \ {0} : g = Gain[Tuned'] /\ k = IntegralGain[Tuned']
  BY <1>1, Inputs
<1>3. Error' \in Int
  BY Inputs DEF Error
<1>4. PICK e \in Int : e = Error'
  BY <1>3
<1>5. /\ g * e \in Int /\ k * e \in Int
      /\ (e >= 0 => g * e >= 0 /\ k * e >= 0)
      /\ (e <= 0 => g * e <= 0 /\ k * e <= 0)
  BY GainSign
<1>6. Proposed = integral + k * e /\ Requested = Bias + g * e + (integral + k * e)
  BY <1>2, <1>4 DEF Proposed, Requested
<1> QED BY <1>2, <1>4, <1>5, <1>6

\* Selection and limits: how an output at a limit bounds the request.
LEMMA OutputAtLimit ==
  ASSUME NEW r \in Int, NEW s \in Int, s = r \/ s = Smaller(r, Protective)
  PROVE  /\ Bounded(s, Lower, Upper) = Upper => r >= Upper
         /\ Bounded(s, Lower, Upper) = Lower => r <= Lower
BY ConstantTypes DEF Bounded, Smaller, Larger

\* Clipping a request that differs from an output within the limits keeps the distance.
LEMMA ClippedDistance ==
  ASSUME NEW u \in Lower..Upper, NEW r \in Int, NEW d \in Nat, Magnitude(r - u) <= d
  PROVE  Magnitude(Bounded(r, Lower, Upper) - u) <= d
<1>1. Lower \in Int /\ Upper \in Int /\ Lower < Upper /\ u \in Int /\ Lower <= u /\ u <= Upper
  BY ConstantTypes
<1> QED BY <1>1 DEF Magnitude, Bounded, Smaller, Larger

LEMMA ControllerStep ==
  ASSUME LoopInv, active' \in BOOLEAN, setpoint' \in Setpoints, measured_pv' \in Measurements,
         loop' = loop, NEW manual \in ManualOutputs, Control(manual)
  PROVE  /\ integral' \in IntegralLower..IntegralUpper /\ output' \in Lower..Upper
         /\ mode' \in {"AUTO", "MAN"}
         /\ Tracked' /\ LimitsDemanded'
<1>1. PICK g \in Nat \ {0}, k \in Nat \ {0}, e \in Int :
           /\ g = Gain[Tuned'] /\ k = IntegralGain[Tuned'] /\ e = Error'
           /\ Requested = Bias + g * e + (integral + k * e)
           /\ Proposed = integral + k * e
           /\ g * e \in Int /\ k * e \in Int
           /\ (e >= 0 => g * e >= 0 /\ k * e >= 0)
           /\ (e <= 0 => g * e <= 0 /\ k * e <= 0)
  BY ControlStep
<1>2. integral \in IntegralLower..IntegralUpper /\ integral \in Int /\ manual \in Lower..Upper
  BY ConstantTypes, Inputs DEF LoopInv, TypeOK
<1>3. e = setpoint' - measured_pv' /\ setpoint' \in Int /\ measured_pv' \in Int
  BY <1>1, Inputs DEF Error
<1>4. CASE Manual'
  <2>1. /\ mode' = "MAN"
        /\ integral' = Bounded(manual - Bias - g * e, IntegralLower, IntegralUpper)
        /\ output' = Bounded(manual, Lower, Upper)
    BY <1>1, <1>4 DEF Control, Track
  <2>2. output' = manual
    BY <1>2, <2>1, ConstantTypes DEF Bounded, Smaller, Larger
  <2>3. integral' \in IntegralLower..IntegralUpper
    <3>1. PICK v \in Int : v = manual - Bias - g * e
      BY <1>1, <1>2, ConstantTypes
    <3>2. integral' = Bounded(v, IntegralLower, IntegralUpper)
      BY <2>1, <3>1
    <3>3. IntegralLower \in Int /\ IntegralUpper \in Int /\ IntegralLower <= IntegralUpper
      BY ConstantTypes
    <3>4. Bounded(v, IntegralLower, IntegralUpper) \in IntegralLower..IntegralUpper
      BY <3>3, BoundedWithin
    <3> QED BY <3>2, <3>4
  <2>4. loop'.scenario = "operations.manual" /\ Tuned' = FALSE
    BY <1>4 DEF Manual, Tuned
  <2>5. Tracked'
    BY <1>1, <2>1, <2>2, <2>4 DEF Tracked
  <2>6. LimitsDemanded'
    BY <2>1 DEF LimitsDemanded
  <2> QED BY <1>2, <2>1, <2>2, <2>3, <2>5, <2>6
<1>5. CASE ~Manual'
  <2>1. /\ mode' = "AUTO" /\ integral' = AutomaticIntegral
        /\ output' = Bounded(Selected(Requested), Lower, Upper)
    BY <1>5 DEF Control
  <2>2. PICK r \in Int : r = Requested /\ r = Bias + g * e + (integral + k * e)
    BY <1>1, <1>2, ConstantTypes
  <2>3. PICK s \in Int : s = Selected(Requested) /\ (s = r \/ s = Smaller(r, Protective))
    BY <2>2, ConstantTypes DEF Selected, Smaller
  <2>4. output' \in Lower..Upper
    BY <2>1, <2>3, ConstantTypes, BoundedWithin
  <2>5. integral' \in IntegralLower..IntegralUpper
    <3>1. Proposed \in Int
      BY <1>1, <1>2
    <3>2. Bounded(Proposed, IntegralLower, IntegralUpper) \in IntegralLower..IntegralUpper
      BY <3>1, ConstantTypes, BoundedWithin
    <3> QED BY <1>2, <2>1, <3>2 DEF AutomaticIntegral
  <2>6. Tracked'
    BY <2>1 DEF Tracked
  <2>7. (output' = Upper => r >= Upper) /\ (output' = Lower => r <= Lower)
    BY <2>1, <2>3, OutputAtLimit
  <2>8. Lower <= Bias + integral /\ Bias + integral <= Upper
    BY <1>2, ConstantTypes
  <2>9. (r >= Upper => e >= 0) /\ (r <= Lower => e <= 0)
    <3>1. PICK x \in Int, y \in Int : x = g * e /\ y = k * e
      BY <1>1
    <3>2. r = Bias + x + (integral + y) /\ (e < 0 => x < 0 /\ y < 0) /\ (e > 0 => x > 0 /\ y > 0)
      BY <2>2, <3>1
    <3> QED BY <1>2, <2>8, <3>2, ConstantTypes
  <2>10. LimitsDemanded'
    <3>1. (e >= 0 => setpoint' >= measured_pv') /\ (e <= 0 => setpoint' <= measured_pv')
      <4>1. PICK x \in Int, y \in Int : x = setpoint' /\ y = measured_pv' /\ e = x - y
        BY <1>3
      <4>2. (e >= 0 => x >= y) /\ (e <= 0 => x <= y)
        <5>1. e = x - y
          BY <4>1
        <5> QED BY <5>1
      <4> QED BY <4>1, <4>2
    <3> QED BY <2>7, <2>9, <3>1 DEF LimitsDemanded
  <2> QED BY <2>1, <2>4, <2>5, <2>6, <2>10
<1> QED BY <1>4, <1>5

\* The position asked of the actuator.
LEMMA TargetInt ==
  ASSUME output' \in Lower..Upper
  PROVE  Target' \in Int
<1>1. output' \in Int /\ SplitRange(output') \in Int
  BY ConstantTypes, SplitRangeInt
<1> QED BY <1>1, ConstantTypes DEF Target, Smaller

LEMMA AdvanceStep ==
  ASSUME LoopInv, NEW on \in BOOLEAN, NEW measurement \in Measurements,
         NEW target \in Setpoints, NEW manual \in ManualOutputs,
         AdvanceLoop(on, measurement, target, manual)
  PROVE  LoopInv' /\ Approaches(Target')
<1>1. /\ active' \in BOOLEAN /\ setpoint' \in Setpoints /\ measured_pv' \in Measurements
      /\ active \in BOOLEAN /\ loop' = loop /\ loop \in Loops
      /\ Control(manual) /\ Actuate /\ Element
  BY DEF AdvanceLoop, LoopInv, TypeOK, Element
<1>2. /\ integral' \in IntegralLower..IntegralUpper /\ output' \in Lower..Upper
      /\ mode' \in {"AUTO", "MAN"}
      /\ Tracked' /\ LimitsDemanded'
  BY <1>1, ControllerStep
<1>3. Element' /\ Approaches(Target')
  BY <1>1, <1>2, TargetInt, ActuateStep
<1>4. TypeOK'
  BY <1>1, <1>2, <1>3 DEF TypeOK, Element
<1> QED BY <1>2, <1>3, <1>4 DEF LoopInv

LEMMA LoopInvStep ==
  ASSUME LoopInv, [Next]_vars
  PROVE  LoopInv'
<1>1. CASE UNCHANGED vars
  BY <1>1 DEF vars, controller, element, LoopInv, TypeOK, Tracked, LimitsDemanded, Error
<1>2. CASE Next
  BY <1>2, AdvanceStep DEF Next
<1> QED BY <1>1, <1>2

\* Every value of the loop stays in its range, for all gains, limits and inputs.
THEOREM LoopInRange == Spec => []TypeOK
<1>1. LoopInv => TypeOK
  BY DEF LoopInv
<1> QED BY <1>1, LoopInvInit, LoopInvStep, PTL DEF Spec

\* An automatic controller stands at a limit only while the error asks for it, also
\* after its return from manual mode with whatever integral it tracked there.
THEOREM OutputAnswersError == Spec => []LimitsDemanded
<1>1. LoopInv => LimitsDemanded
  BY DEF LoopInv
<1> QED BY <1>1, LoopInvInit, LoopInvStep, PTL DEF Spec

\* Stiction, backlash, rate limit and restricted capacity slow the actuator down.  Whether
\* it may pass its target depends on the integration step alone, and by how much on the
\* rate limit, for any step and any actuator time (engine.py:443-446).
THEOREM ActuatorStaysNear == Spec => ActuatorApproaches
<1>1. LoopInv /\ [Next]_vars =>
        [LET before == Magnitude(Target' - actuator)
             after == Magnitude(Target' - actuator')
         IN /\ Step <= loop.actuator_time => OnTheWay
            /\ Step <= 2 * loop.actuator_time => after <= before
            /\ after <= Larger(before, Travel)]_vars
  BY AdvanceStep DEF Next, OnTheWay, Approaches
<1> QED BY <1>1, LoopInvInit, LoopInvStep, PTL DEF Spec, ActuatorApproaches

LEMMA Products ==
  ASSUME NEW a \in Int, NEW b \in Int, NEW c \in Int
  PROVE  a * b \in Int /\ a * (b - c) = a * b - a * c
OBVIOUS

LEMMA MagnitudeProduct ==
  ASSUME NEW g \in Nat \ {0}, NEW n \in Int
  PROVE  g * Magnitude(n) \in Nat /\ g * Magnitude(n) = Magnitude(g * n)
<1>1. CASE n < 0
  <2>1. PICK m \in Nat : n = -m
    BY <1>1
  <2>2. g * m \in Nat /\ g * n = -(g * m)
    BY <2>1
  <2>3. Magnitude(n) = m
    BY <1>1, <2>1 DEF Magnitude
  <2> QED BY <2>2, <2>3 DEF Magnitude
<1>2. CASE n >= 0
  <2>1. g * n \in Nat
    BY <1>2
  <2> QED BY <1>2, <2>1 DEF Magnitude
<1> QED BY <1>1, <1>2

LEMMA MagnitudeSum ==
  ASSUME NEW x \in Int, NEW y \in Int
  PROVE  Magnitude(x + y) <= Magnitude(x) + Magnitude(y)
BY DEF Magnitude

\* The first automatic step after manual mode starts from the output it left: the
\* request differs from it by the error's change and one step of integration.
LEMMA ReturnFromManual ==
  ASSUME LoopInv, Next, mode = "MAN", mode' = "AUTO",
         IntegralLower < integral, integral < IntegralUpper
  PROVE  Magnitude(output' - output)
           <= Gain[FALSE] * Magnitude(Error' - Error) + IntegralGain[FALSE] * Magnitude(Error')
<1>1. PICK on \in BOOLEAN, measurement \in Measurements, target \in Setpoints,
           manual \in ManualOutputs : AdvanceLoop(on, measurement, target, manual)
  BY DEF Next
<1>2. /\ active' \in BOOLEAN /\ setpoint' \in Setpoints /\ measured_pv' \in Measurements
      /\ loop' = loop /\ loop \in Loops /\ Control(manual)
  BY <1>1 DEF AdvanceLoop, LoopInv, TypeOK
<1>3. loop.scenario = "operations.manual" /\ loop.structure # "override_selector"
  BY <1>2, CatalogAssumption DEF LoopInv, Tracked
<1>4. ~Manual' /\ Tuned' = FALSE
  BY <1>2, <1>3 DEF Control, Tuned
<1>5. PICK g \in Nat \ {0}, k \in Nat \ {0}, e \in Int :
        /\ g = Gain[FALSE] /\ k = IntegralGain[FALSE] /\ e = Error'
        /\ Requested = Bias + g * e + (integral + k * e)
  BY <1>2, <1>4, ControlStep
<1>6. PICK d \in Int, u \in Lower..Upper, i \in Int : d = Error /\ u = output /\ i = integral
  BY ConstantTypes, Inputs DEF Error, LoopInv, TypeOK
<1>7. i = u - Bias - g * d
  <2>1. g * d \in Int /\ u - Bias - g * d \in Int
    BY <1>6, ConstantTypes
  <2>2. i = Bounded(u - Bias - g * d, IntegralLower, IntegralUpper)
    BY <1>5, <1>6 DEF LoopInv, Tracked
  <2>3. IntegralLower < i /\ i < IntegralUpper
    BY <1>6
  <2> QED BY <2>1, <2>2, <2>3, ConstantTypes DEF Bounded, Smaller, Larger
<1>8. PICK r \in Int : r = Requested /\ r - u = g * (e - d) + k * e
  <2>1. PICK x \in Int, y \in Int, z \in Int : x = g * e /\ y = g * d /\ z = k * e
    <3>1. g * e \in Int /\ g * d \in Int /\ k * e \in Int
      BY Products
    <3> QED BY <3>1
  <2>2. g * (e - d) = x - y
    BY <2>1, Products
  <2>3. Requested = Bias + x + (i + z) /\ i = u - Bias - y /\ u \in Int /\ Bias \in Int
    BY <1>5, <1>6, <1>7, <2>1, ConstantTypes
  <2> QED BY <2>1, <2>2, <2>3
<1>9. output' = Bounded(r, Lower, Upper)
  BY <1>2, <1>3, <1>4, <1>8 DEF Control, Selected
<1>10. PICK b \in Nat : b = g * Magnitude(e - d) + k * Magnitude(e) /\ Magnitude(r - u) <= b
  <2>1. PICK x \in Int, y \in Int : x = g * (e - d) /\ y = k * e
    <3>1. e - d \in Int
      OBVIOUS
    <3>2. g * (e - d) \in Int /\ k * e \in Int
      BY <3>1, Products
    <3> QED BY <3>2
  <2>2. PICK m \in Nat, n \in Nat : m = g * Magnitude(e - d) /\ n = k * Magnitude(e)
                                     /\ m = Magnitude(x) /\ n = Magnitude(y)
    <3>1. e - d \in Int
      OBVIOUS
    <3> QED BY <2>1, <3>1, MagnitudeProduct
  <2>3. r - u = x + y
    BY <1>8, <2>1
  <2>4. Magnitude(r - u) <= m + n
    BY <2>2, <2>3, MagnitudeSum
  <2> QED BY <2>2, <2>4
<1>11. Magnitude(output' - u) <= b
  BY <1>9, <1>10, ClippedDistance
<1> QED BY <1>5, <1>6, <1>10, <1>11

\* docs/control-structures.md:14: the return from MAN is bumpless, in every loop and
\* with every tuning.
THEOREM BumplessTransfer == Spec => Bumpless
<1>1. LoopInv /\ [Next]_vars =>
        [(mode = "MAN" /\ mode' = "AUTO" /\ IntegralLower < integral /\ integral < IntegralUpper)
           => Magnitude(output' - output)
                <= Gain[FALSE] * Magnitude(Error' - Error)
                     + IntegralGain[FALSE] * Magnitude(Error')]_vars
  BY ReturnFromManual
<1> QED BY <1>1, LoopInvInit, LoopInvStep, PTL DEF Spec, Bumpless
=============================================================================
