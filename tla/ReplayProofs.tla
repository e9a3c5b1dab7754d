----------------------------- MODULE ReplayProofs -----------------------------
(***************************************************************************)
(* Proof that a restart reproduces the state behind every recorded row     *)
(* when the checkpoints it may find lie on the integration grid.           *)
(***************************************************************************)
EXTENDS Replay, SequenceTheorems, TLAPS

\* A multiple of the integration step.
OnGrid(t) == t \in Nat /\ \E k \in Nat : t = k * Step

\* Checkpoints of earlier releases lie on the integration grid.
LegacyOnGrid == \A c \in Legacy : OnGrid(c)

-----------------------------------------------------------------------------
\* Arithmetic of the grid.

LEMMA Monotone ==
  ASSUME NEW i \in Nat, NEW j \in Nat, NEW s \in Nat, i <= j
  PROVE  i * s <= j * s
<1> DEFINE d == j - i
<1>1. d \in Nat /\ j = i + d
  OBVIOUS
<1>2. j * s = i * s + d * s
  BY <1>1
<1>3. d * s \in Nat /\ i * s \in Nat
  BY <1>1
<1> QED
  BY <1>2, <1>3

\* The number of steps of advance(t): the least n that covers t.
Steps(t) == (t + Step - 1) \div Step

LEMMA StepsCover ==
  ASSUME NEW t \in Nat
  PROVE  /\ Steps(t) \in Nat
         /\ t <= Steps(t) * Step /\ Steps(t) * Step < t + Step
<1> DEFINE u == t + Step - 1
<1>1. Step \in Nat \ {0} /\ u \in Nat
  BY ReplayAssumption
<1>2. u = Step * (u \div Step) + (u % Step) /\ u % Step \in 0..(Step - 1)
  BY <1>1
<1>3. u \div Step \in Nat
  BY <1>1
<1>4. Step * (u \div Step) = (u \div Step) * Step /\ Step * (u \div Step) \in Int
  BY <1>1, <1>3
<1> QED
  BY <1>1, <1>2, <1>3, <1>4 DEF Steps

\* Whole steps before t add their number to those of t.
LEMMA StepsAdd ==
  ASSUME NEW k \in Nat, NEW t \in Nat
  PROVE  Steps(k * Step + t) = k + Steps(t)
<1> DEFINE n == Steps(t)
           m == Steps(k * Step + t)
<1>1. Step \in Nat \ {0} /\ k * Step \in Nat
  BY ReplayAssumption
<1>2. /\ n \in Nat /\ t <= n * Step /\ n * Step < t + Step
      /\ m \in Nat /\ k * Step + t <= m * Step /\ m * Step < k * Step + t + Step
  <2>1. n \in Nat /\ t <= n * Step /\ n * Step < t + Step
    BY StepsCover
  <2>2. k * Step + t \in Nat
    BY <1>1
  <2>3. m \in Nat /\ k * Step + t <= m * Step /\ m * Step < (k * Step + t) + Step
    BY <2>2, StepsCover
  <2> QED
    BY <1>1, <2>1, <2>3
<1>3. (k + n) * Step = k * Step + n * Step
  BY <1>1, <1>2
<1>4. CASE m < k + n
  <2>1. (m + 1) * Step <= (k + n) * Step
    BY <1>1, <1>2, <1>4, Monotone
  <2>2. (m + 1) * Step = m * Step + Step
    BY <1>1, <1>2
  <2> QED
    BY <1>1, <1>2, <1>3, <2>1, <2>2
<1>5. CASE k + n < m
  <2>1. (k + n + 1) * Step <= m * Step
    BY <1>1, <1>2, <1>5, Monotone
  <2>2. (k + n + 1) * Step = k * Step + n * Step + Step
    BY <1>1, <1>2
  <2> QED
    BY <1>1, <1>2, <2>1, <2>2
<1> QED
  BY <1>2, <1>4, <1>5

LEMMA StepSizesType ==
  ASSUME NEW t \in Nat
  PROVE  /\ StepSizes(t) \in Seq(1..Step)
         /\ Len(StepSizes(t)) = Steps(t)
         /\ \A i \in 1..Steps(t) : StepSizes(t)[i] = Smaller(Step, t - (i - 1) * Step)
<1> DEFINE size(i) == Smaller(Step, t - (i - 1) * Step)
           n == Steps(t)
<1>1. Step \in Nat \ {0} /\ n \in Nat
  BY ReplayAssumption, StepsCover
<1>2. StepSizes(t) = [i \in 1..n |-> size(i)]
  BY DEF StepSizes, Steps
<1>3. ASSUME NEW i \in 1..n
      PROVE  size(i) \in 1..Step
  <2>1. i * Step <= n * Step
    BY <1>1, Monotone
  <2>2. (i - 1) * Step = i * Step - Step /\ i * Step \in Int /\ n * Step \in Int
    BY <1>1
  <2>3. t <= n * Step /\ n * Step < t + Step
    BY StepsCover
  <2>4. t - (i - 1) * Step \in Int /\ t - (i - 1) * Step >= 1
    <3>1. (n - 1) * Step = n * Step - Step /\ (i - 1) * Step <= (n - 1) * Step
      BY <1>1, Monotone
    <3> QED
      BY <1>1, <2>2, <2>3, <3>1
  <2> QED
    BY <1>1, <2>4 DEF Smaller
<1> HIDE DEF size, n
<1>4. StepSizes(t) \in Seq(1..Step) /\ Len(StepSizes(t)) = n
  BY <1>1, <1>2, <1>3
<1>5. \A i \in 1..n : StepSizes(t)[i] = size(i)
  BY <1>2
<1> QED
  BY <1>4, <1>5 DEF size, n

LEMMA ConcatIs ==
  ASSUME NEW S, NEW left \in Seq(S), NEW right \in Seq(S), NEW whole \in Seq(S),
         Len(whole) = Len(left) + Len(right),
         \A i \in 1..Len(left) : left[i] = whole[i],
         \A i \in 1..Len(right) : right[i] = whole[Len(left) + i]
  PROVE  left \o right = whole
<1>1. /\ left \o right \in Seq(S)
      /\ Len(left \o right) = Len(whole)
      /\ \A i \in 1..Len(whole) :
           (left \o right)[i] = IF i <= Len(left) THEN left[i] ELSE right[i - Len(left)]
  BY ConcatProperties
<1>2. Len(left) \in Nat /\ Len(right) \in Nat
  BY LenProperties
<1>3. ASSUME NEW i \in 1..Len(whole)
      PROVE  (left \o right)[i] = whole[i]
  <2>1. CASE i <= Len(left)
    BY <1>1, <1>2, <2>1
  <2>2. CASE i > Len(left)
    <3>1. i - Len(left) \in 1..Len(right) /\ Len(left) + (i - Len(left)) = i
      BY <1>2, <2>2
    <3>2. right[i - Len(left)] = whole[i]
      BY <3>1
    <3> QED
      BY <1>1, <1>2, <2>2, <3>2
  <2> QED
    BY <1>2, <2>1, <2>2
<1> QED
  BY <1>1, <1>3, SeqEqual

\* Time cut at a grid point integrates in the same steps as uncut time.
LEMMA StepSizesSplit ==
  ASSUME NEW a \in Nat, NEW b \in Nat, OnGrid(a)
  PROVE  StepSizes(a) \o StepSizes(b) = StepSizes(a + b)
<1>1. PICK k \in Nat : a = k * Step
  BY DEF OnGrid
<1>2. Step \in Nat \ {0}
  BY ReplayAssumption
<1>3. Steps(0) = 0
  BY <1>2 DEF Steps
<1> DEFINE n == Steps(b)
           left == StepSizes(a)
           right == StepSizes(b)
           whole == StepSizes(a + b)
<1>4. Steps(a) = k /\ Steps(a + b) = k + n /\ n \in Nat
  <2>1. Steps(k * Step + 0) = k + Steps(0)
    BY StepsAdd
  <2>2. Steps(k * Step + b) = k + n
    BY StepsAdd
  <2> QED
    BY <1>1, <1>2, <1>3, <2>1, <2>2, StepsCover
<1>5. /\ left \in Seq(1..Step) /\ Len(left) = k
      /\ \A i \in 1..k : left[i] = Smaller(Step, a - (i - 1) * Step)
  BY <1>4, StepSizesType
<1>6. /\ right \in Seq(1..Step) /\ Len(right) = n
      /\ \A i \in 1..n : right[i] = Smaller(Step, b - (i - 1) * Step)
  BY StepSizesType
<1> DEFINE c == a + b
<1>7. /\ whole \in Seq(1..Step) /\ Len(whole) = k + n
      /\ \A i \in 1..(k + n) : whole[i] = Smaller(Step, c - (i - 1) * Step)
  <2>1. c \in Nat /\ Steps(c) = k + n /\ whole = StepSizes(c)
    BY <1>4
  <2> HIDE DEF c, n, whole
  <2> QED
    BY <2>1, StepSizesType
<1>8. ASSUME NEW i \in 1..k
      PROVE  left[i] = whole[i]
  <2>1. i * Step <= k * Step /\ (i - 1) * Step = i * Step - Step
        /\ i * Step \in Int /\ k * Step \in Int
    BY <1>2, Monotone
  <2>2. left[i] = Smaller(Step, a - (i - 1) * Step)
    BY <1>5
  <2>3. whole[i] = Smaller(Step, c - (i - 1) * Step)
    BY <1>4, <1>7
  <2>4. a - (i - 1) * Step >= Step /\ c - (i - 1) * Step >= Step
    BY <1>1, <1>2, <2>1
  <2>5. (i - 1) * Step \in Int
    BY <1>2
  <2> HIDE DEF left, whole, c
  <2> QED
    BY <1>2, <2>2, <2>3, <2>4, <2>5 DEF Smaller
<1>9. ASSUME NEW i \in 1..n
      PROVE  right[i] = whole[k + i]
  <2>1. (k + i - 1) * Step = k * Step + (i - 1) * Step
        /\ (i - 1) * Step \in Int /\ k * Step \in Int
    BY <1>2, <1>4
  <2>2. b - (i - 1) * Step = c - (k + i - 1) * Step
    BY <1>1, <2>1
  <2>3. whole[k + i] = Smaller(Step, c - (k + i - 1) * Step)
    <3> HIDE DEF whole, c, n
    <3> QED
      BY <1>4, <1>7
  <2>4. right[i] = Smaller(Step, b - (i - 1) * Step)
    BY <1>6
  <2> HIDE DEF right, whole, c
  <2> QED
    BY <2>2, <2>3, <2>4
<1> HIDE DEF n, left, right, whole
<1>10. left \o right = whole
  <2>1. /\ \A i \in 1..Len(left) : left[i] = whole[i]
        /\ \A i \in 1..Len(right) : right[i] = whole[Len(left) + i]
        /\ Len(whole) = Len(left) + Len(right)
    BY <1>5, <1>6, <1>7, <1>8, <1>9
  <2> QED
    BY <1>5, <1>6, <1>7, <2>1, ConcatIs
<1> QED
  BY <1>10 DEF left, right, whole

\* Frames and realigned checkpoints are grid points, not before the checkpoint.
LEMMA SampleOnGrid == Sample \in Nat \ {0} /\ OnGrid(Sample)
<1>1. Sample \in Nat \ {0} /\ Step \in Nat \ {0} /\ Sample % Step = 0
  BY ReplayAssumption
<1>2. Sample = Step * (Sample \div Step) + (Sample % Step) /\ Sample \div Step \in Nat
  BY <1>1
<1> QED
  BY <1>1, <1>2 DEF OnGrid

LEMMA GridAdds ==
  ASSUME NEW a, NEW b, OnGrid(a), OnGrid(b)
  PROVE  OnGrid(a + b)
<1>1. PICK k \in Nat : a = k * Step
  BY DEF OnGrid
<1>2. PICK m \in Nat : b = m * Step
  BY DEF OnGrid
<1>3. a + b = (k + m) * Step /\ a + b \in Nat
  BY <1>1, <1>2, ReplayAssumption DEF OnGrid
<1> QED
  BY <1>3 DEF OnGrid

LEMMA Associative ==
  ASSUME NEW q \in Nat, NEW k \in Nat, NEW s \in Nat
  PROVE  q * (k * s) = (q * k) * s /\ q * k \in Nat /\ (q * k) * s \in Nat
OBVIOUS

LEMMA FloorOnGrid ==
  ASSUME NEW t \in Nat
  PROVE  OnGrid(Floor(t))
<1>1. PICK k \in Nat : Sample = k * Step
  BY SampleOnGrid DEF OnGrid
<1> DEFINE q == t \div Sample
<1>2. q \in Nat /\ Step \in Nat
  BY SampleOnGrid, ReplayAssumption
<1>3. Floor(t) = q * (k * Step)
  BY <1>1 DEF Floor
<1> HIDE DEF q
<1>4. Floor(t) = (q * k) * Step /\ q * k \in Nat /\ Floor(t) \in Nat
  BY <1>2, <1>3, Associative
<1> QED
  BY <1>4 DEF OnGrid

LEMMA ResumeOnGrid ==
  ASSUME NEW c \in Nat, NEW wall \in Nat
  PROVE  OnGrid(ResumeElapsed(c, wall)) /\ ResumeElapsed(c, wall) >= c
<1> DEFINE u == c + Sample - 1
<1>1. u \in Nat /\ Sample \in Nat \ {0}
  BY SampleOnGrid
<1>2. u = Sample * (u \div Sample) + (u % Sample) /\ u % Sample \in 0..(Sample - 1)
  BY <1>1
<1>3. Floor(u) = Sample * (u \div Sample) /\ Floor(u) \in Nat /\ Floor(wall) \in Nat
  BY <1>1, FloorOnGrid DEF Floor, OnGrid
<1>4. Ceiling(c) >= c
  BY <1>1, <1>2, <1>3 DEF Ceiling
<1>5. OnGrid(Floor(wall)) /\ OnGrid(Ceiling(c))
  BY <1>1, FloorOnGrid DEF Ceiling
<1> QED
  BY <1>3, <1>4, <1>5 DEF ResumeElapsed, Larger, Ceiling
-----------------------------------------------------------------------------
\* The inductive invariant: outside a process that failed, the simulator stands
\* at a grid point, having taken the steps of one uncut advance() from zero.

Straight == OnGrid(elapsed) /\ steps = StepSizes(elapsed)

RowsOnGrid == \A e \in DOMAIN made : OnGrid(e) /\ made[e] = StepSizes(e)

CheckpointRecorded ==
  checkpoint \in Int /\ (checkpoint > 0 => checkpoint \in DOMAIN made)

ReplayedStraight ==
  replayed_to \in Nat /\ replayed = StepSizes(replayed_to)

\* A bootstrap starts at zero and records each frame it makes.
BootRecorded ==
  /\ pc = "down" => elapsed = 0
  /\ pc = "boot" => elapsed = 0 \/ elapsed \in DOMAIN made

GridInv ==
  Straight /\ RowsOnGrid /\ CheckpointRecorded /\ ReplayedStraight /\ BootRecorded

LEMMA ZeroStraight == OnGrid(0) /\ StepSizes(0) = <<>>
<1>1. 0 = 0 * Step /\ Step \in Nat \ {0}
  BY ReplayAssumption
<1>2. OnGrid(0)
  BY <1>1 DEF OnGrid
<1>3. Steps(0) = 0
  BY <1>1 DEF Steps
<1>4. StepSizes(0) \in Seq(1..Step) /\ Len(StepSizes(0)) = 0
  BY <1>3, StepSizesType
<1> QED
  BY <1>2, <1>4, EmptySeq

LEMMA GridInit ==
  ASSUME LegacyOnGrid, Init
  PROVE  GridInv
<1>1. Straight /\ ReplayedStraight
  BY ZeroStraight DEF Init, Straight, ReplayedStraight
<1>2. Legacy \subseteq Nat /\ MaxElapsed \in Nat
  BY ReplayAssumption
<1>3. BootRecorded
  BY DEF Init, BootRecorded
<1>4. CASE checkpoint = -1
  <2>1. DOMAIN made = {}
    BY <1>4 DEF Init, NothingRecorded
  <2> QED
    BY <1>1, <1>3, <1>4, <2>1 DEF GridInv, RowsOnGrid, CheckpointRecorded
<1>5. CASE checkpoint \in Legacy
  <2>1. checkpoint \in Nat /\ checkpoint # -1
    BY <1>2, <1>5
  <2>2. made = [e \in {checkpoint} |-> StepSizes(checkpoint)]
    BY <2>1 DEF Init
  <2>3. OnGrid(checkpoint)
    BY <1>5 DEF LegacyOnGrid
  <2>4. RowsOnGrid /\ CheckpointRecorded
    BY <2>1, <2>2, <2>3 DEF RowsOnGrid, CheckpointRecorded
  <2> QED
    BY <1>1, <1>3, <2>4 DEF GridInv
<1> QED
  BY <1>4, <1>5 DEF Init

\* One more frame leaves the simulator straight.
LEMMA FrameStraight ==
  ASSUME Straight, elapsed' = elapsed + Sample, steps' = steps \o StepSizes(Sample)
  PROVE  Straight'
<1>1. OnGrid(elapsed') /\ elapsed \in Nat /\ Sample \in Nat
  BY GridAdds, SampleOnGrid DEF Straight, OnGrid
<1>2. steps' = StepSizes(elapsed + Sample)
  BY <1>1, StepSizesSplit DEF Straight
<1> QED
  BY <1>1, <1>2 DEF Straight

\* Rows recorded by a straight simulator keep the table straight.
LEMMA RecordedOnGrid ==
  ASSUME RowsOnGrid, Straight', made' = Recorded(elapsed', steps')
  PROVE  RowsOnGrid' /\ DOMAIN made' = DOMAIN made \cup {elapsed'}
BY DEF RowsOnGrid, Straight, Recorded

LEMMA RestartStraight ==
  ASSUME GridInv, NEW wall \in 0..MaxElapsed, Restart(wall)
  PROVE  GridInv'
<1>1. checkpoint \in Nat /\ wall \in Nat
  BY ReplayAssumption DEF GridInv, CheckpointRecorded, Restart
<1>2. OnGrid(checkpoint)
  BY <1>1, ZeroStraight DEF GridInv, RowsOnGrid, CheckpointRecorded
<1> DEFINE resume == ResumeElapsed(checkpoint, wall)
           rest == resume - checkpoint
<1>3. OnGrid(resume) /\ resume >= checkpoint
  BY <1>1, ResumeOnGrid
<1>4. rest \in Nat /\ checkpoint + rest = resume
  BY <1>1, <1>3 DEF OnGrid
<1>5. elapsed' = resume /\ steps' = StepSizes(checkpoint) \o StepSizes(rest)
  BY DEF Restart, ReplaySteps
<1>6. steps' = StepSizes(resume)
  <2> HIDE DEF resume, rest
  <2>1. StepSizes(checkpoint) \o StepSizes(rest) = StepSizes(checkpoint + rest)
    BY <1>1, <1>2, <1>4, StepSizesSplit
  <2> QED
    BY <1>4, <1>5, <2>1
<1>7. Straight'
  BY <1>3, <1>5, <1>6 DEF Straight
<1>8. ReplayedStraight'
  BY <1>1 DEF ReplayedStraight, Restart
<1>9. RowsOnGrid' /\ CheckpointRecorded' /\ BootRecorded'
  BY DEF GridInv, RowsOnGrid, CheckpointRecorded, BootRecorded, Restart
<1> QED
  BY <1>7, <1>8, <1>9 DEF GridInv

LEMMA GridStep ==
  ASSUME GridInv, [Next]_vars
  PROVE  GridInv'
<1>1. CASE Reset
  BY <1>1 DEF Reset, NothingRecorded, GridInv, Straight, RowsOnGrid,
              CheckpointRecorded, ReplayedStraight, BootRecorded
<1>2. CASE BootFrame
  <2>1. Straight'
    BY <1>2, FrameStraight DEF BootFrame, GridInv
  <2>2. RowsOnGrid' /\ DOMAIN made' = DOMAIN made \cup {elapsed'}
    BY <1>2, <2>1, RecordedOnGrid DEF BootFrame, GridInv
  <2> QED
    BY <1>2, <2>1, <2>2 DEF BootFrame, GridInv, CheckpointRecorded, ReplayedStraight, BootRecorded
<1>3. CASE Seal
  <2>1. elapsed \in Int /\ (elapsed > 0 => elapsed \in DOMAIN made)
    BY <1>3 DEF Seal, GridInv, BootRecorded, Straight, OnGrid
  <2> QED
    BY <1>3, <2>1 DEF Seal, GridInv, Straight, RowsOnGrid, CheckpointRecorded,
                      ReplayedStraight, BootRecorded
<1>4. ASSUME NEW wall \in 0..MaxElapsed, Restart(wall)
      PROVE  GridInv'
  BY <1>4, RestartStraight
<1>5. CASE RecordRecovery
  <2>1. Straight' /\ elapsed' \in Int
    BY <1>5 DEF RecordRecovery, GridInv, Straight, OnGrid
  <2>2. RowsOnGrid' /\ DOMAIN made' = DOMAIN made \cup {elapsed'}
    BY <1>5, <2>1, RecordedOnGrid DEF RecordRecovery, GridInv
  <2> QED
    BY <1>5, <2>1, <2>2 DEF RecordRecovery, GridInv, CheckpointRecorded, ReplayedStraight, BootRecorded
<1>6. ASSUME NEW commits \in BOOLEAN, LiveFrame(commits)
      PROVE  GridInv'
  <2>1. Straight' /\ elapsed' \in Int
    BY <1>6, FrameStraight DEF LiveFrame, GridInv, Straight, OnGrid
  <2>2. CASE commits
    <3>1. RowsOnGrid' /\ DOMAIN made' = DOMAIN made \cup {elapsed'}
      BY <1>6, <2>1, <2>2, RecordedOnGrid DEF LiveFrame, GridInv
    <3> QED
      BY <1>6, <2>1, <2>2, <3>1
      DEF LiveFrame, GridInv, CheckpointRecorded, ReplayedStraight, BootRecorded
  <2>3. CASE ~commits
    BY <1>6, <2>1, <2>3
    DEF LiveFrame, GridInv, RowsOnGrid, CheckpointRecorded, ReplayedStraight, BootRecorded
  <2> QED
    BY <2>2, <2>3
<1>7. CASE Die
  <2>1. Straight'
    BY <1>7, ZeroStraight DEF Die, Straight
  <2> QED
    BY <1>7, <2>1 DEF Die, GridInv, RowsOnGrid, CheckpointRecorded, ReplayedStraight, BootRecorded
<1>8. CASE UNCHANGED vars
  BY <1>8 DEF vars, GridInv, Straight, RowsOnGrid, CheckpointRecorded, ReplayedStraight, BootRecorded
<1> QED
  BY <1>1, <1>2, <1>3, <1>4, <1>5, <1>6, <1>7, <1>8 DEF Next

\* Whatever crashes and outages came before, every recorded row is the one an
\* uninterrupted simulation makes at that time, and the checkpoint's are there.
THEOREM RowsAreDetermined ==
  ASSUME LegacyOnGrid
  PROVE  Spec => []ValuesDetermined
<1>1. Init => GridInv
  BY GridInit
<1>2. GridInv /\ [Next]_vars => GridInv'
  BY GridStep
<1>3. GridInv => ValuesDetermined
  BY DEF GridInv, RowsOnGrid, CheckpointRecorded, ValuesDetermined
<1> QED
  BY <1>1, <1>2, <1>3, PTL DEF Spec

\* A replay ends in the state that made the rows of its checkpoint
\* (docs/opcua-interface.md:65), when no older release left it off the grid.
THEOREM ReplayIsExact ==
  ASSUME LegacyOnGrid
  PROVE  Spec => []ReplayExact
<1>1. Init => GridInv
  BY GridInit
<1>2. GridInv /\ [Next]_vars => GridInv'
  BY GridStep
<1>3. GridInv => ReplayExact
  BY DEF GridInv, RowsOnGrid, ReplayedStraight, ReplayExact
<1> QED
  BY <1>1, <1>2, <1>3, PTL DEF Spec
-----------------------------------------------------------------------------
\* Type correctness, of checkpoints off the grid too.

\* The bootstrap of a model fits the bound on simulated time.
BootFits == BootFrames * Sample <= MaxElapsed

LEMMA StepsAppended ==
  ASSUME NEW s \in Seq(1..Step), NEW t \in Nat
  PROVE  s \o StepSizes(t) \in Seq(1..Step)
<1>1. StepSizes(t) \in Seq(1..Step)
  BY StepSizesType
<1> QED BY <1>1

\* One more frame of a simulator, recorded or not.
LEMMA FrameTypes ==
  ASSUME TypeOK, elapsed' = elapsed + Sample, elapsed' <= MaxElapsed,
         steps' = steps \o StepSizes(Sample)
  PROVE  elapsed' \in 0..MaxElapsed /\ steps' \in Seq(1..Step)
<1>1. Sample \in Nat /\ elapsed \in Nat /\ MaxElapsed \in Nat
  BY ReplayAssumption DEF TypeOK
<1> QED BY <1>1, StepsAppended DEF TypeOK

LEMMA RowTypes ==
  ASSUME TypeOK, NEW e \in 0..MaxElapsed, NEW taken \in Seq(1..Step), made' = Recorded(e, taken)
  PROVE  /\ DOMAIN made' \subseteq 0..MaxElapsed
         /\ \A d \in DOMAIN made' : made'[d] \in Seq(1..Step)
<1>1. DOMAIN made \subseteq 0..MaxElapsed /\ \A d \in DOMAIN made : made[d] \in Seq(1..Step)
  BY DEF TypeOK
<1>2. made' = [d \in DOMAIN made \cup {e} |-> IF d = e THEN taken ELSE made[d]]
  BY DEF Recorded
<1> QED BY <1>1, <1>2

LEMMA RestartTypes ==
  ASSUME TypeOK, NEW wall \in 0..MaxElapsed, Restart(wall)
  PROVE  TypeOK'
<1> DEFINE resume == ResumeElapsed(checkpoint, wall)
<1>1. checkpoint \in Nat /\ wall \in Nat /\ MaxElapsed \in Nat /\ checkpoint <= MaxElapsed
  BY ReplayAssumption DEF TypeOK, Restart
<1>2. resume \in Nat /\ resume >= checkpoint /\ resume - checkpoint \in Nat
  <2>1. OnGrid(resume) /\ resume >= checkpoint
    BY <1>1, ResumeOnGrid
  <2> HIDE DEF resume
  <2> QED BY <1>1, <2>1 DEF OnGrid
<1>3. /\ resume <= MaxElapsed /\ elapsed' = resume
      /\ steps' = StepSizes(checkpoint) \o StepSizes(resume - checkpoint)
      /\ pc' \in {"recovered", "live"}
      /\ replayed' = StepSizes(checkpoint) /\ replayed_to' = checkpoint
      /\ UNCHANGED <<checkpoint, made>>
  BY DEF Restart, ReplaySteps
<1> HIDE DEF resume
<1>4. StepSizes(checkpoint) \in Seq(1..Step)
  BY <1>1, StepSizesType
<1>5. steps' \in Seq(1..Step)
  BY <1>2, <1>3, <1>4, StepsAppended
<1>6. elapsed' \in 0..MaxElapsed /\ replayed_to' \in 0..MaxElapsed
  BY <1>1, <1>2, <1>3
<1> QED BY <1>3, <1>4, <1>5, <1>6 DEF TypeOK

LEMMA TypeStep ==
  ASSUME BootFits, TypeOK, [Next]_vars
  PROVE  TypeOK'
<1> USE DEF TypeOK
<1>1. CASE UNCHANGED vars
  BY <1>1 DEF vars
<1>2. CASE Reset
  <2>1. checkpoint' \in -1..MaxElapsed /\ DOMAIN made' = {}
    BY <1>2, ReplayAssumption DEF Reset, NothingRecorded
  <2> QED BY <1>2, <2>1 DEF Reset
<1>3. CASE BootFrame
  <2>1. elapsed' \in 0..MaxElapsed /\ steps' \in Seq(1..Step)
    <3>1. /\ elapsed' = elapsed + Sample /\ elapsed + Sample <= BootFrames * Sample
          /\ steps' = steps \o StepSizes(Sample)
      BY <1>3 DEF BootFrame
    <3>2. elapsed' <= MaxElapsed
      <4>1. BootFrames * Sample \in Int /\ Sample \in Nat /\ MaxElapsed \in Nat
        BY ReplayAssumption
      <4> QED BY <3>1, <4>1 DEF BootFits
    <3> HIDE DEF TypeOK
    <3> QED BY <3>1, <3>2, FrameTypes
  <2>2. made' = Recorded(elapsed', steps') /\ UNCHANGED <<pc, checkpoint, replayed, replayed_to>>
    BY <1>3 DEF BootFrame
  <2>3. DOMAIN made' \subseteq 0..MaxElapsed /\ \A d \in DOMAIN made' : made'[d] \in Seq(1..Step)
    <3> HIDE DEF TypeOK
    <3> QED BY <2>1, <2>2, RowTypes
  <2> QED BY <2>1, <2>2, <2>3
<1>4. CASE Seal
  <2>1. checkpoint' \in -1..MaxElapsed
    BY <1>4, ReplayAssumption DEF Seal
  <2> QED BY <1>4, <2>1 DEF Seal
<1>5. ASSUME NEW wall \in 0..MaxElapsed, Restart(wall) PROVE TypeOK'
  <2> HIDE DEF TypeOK
  <2> QED BY <1>5, RestartTypes
<1>6. CASE RecordRecovery
  <2>1. /\ made' = Recorded(elapsed, steps) /\ checkpoint' = elapsed /\ pc' = "live"
        /\ UNCHANGED <<elapsed, steps, replayed, replayed_to>>
    BY <1>6 DEF RecordRecovery
  <2>2. DOMAIN made' \subseteq 0..MaxElapsed /\ \A d \in DOMAIN made' : made'[d] \in Seq(1..Step)
    <3>1. elapsed \in 0..MaxElapsed /\ steps \in Seq(1..Step)
      OBVIOUS
    <3> HIDE DEF TypeOK
    <3> QED BY <2>1, <3>1, RowTypes
  <2>3. checkpoint' \in -1..MaxElapsed
    BY <2>1, ReplayAssumption
  <2> QED BY <2>1, <2>2, <2>3
<1>7. ASSUME NEW commits \in BOOLEAN, LiveFrame(commits) PROVE TypeOK'
  <2>1. elapsed' \in 0..MaxElapsed /\ steps' \in Seq(1..Step)
    <3>1. /\ elapsed' = elapsed + Sample /\ elapsed + Sample <= MaxElapsed
          /\ steps' = steps \o StepSizes(Sample)
      BY <1>7 DEF LiveFrame
    <3> HIDE DEF TypeOK
    <3> QED BY <3>1, FrameTypes
  <2>2. UNCHANGED <<replayed, replayed_to>> /\ pc' \in {"live", "dead"}
    BY <1>7 DEF LiveFrame
  <2>3. CASE commits
    <3>1. made' = Recorded(elapsed', steps') /\ checkpoint' = elapsed'
      BY <1>7, <2>3 DEF LiveFrame
    <3>2. DOMAIN made' \subseteq 0..MaxElapsed /\ \A d \in DOMAIN made' : made'[d] \in Seq(1..Step)
      <4> HIDE DEF TypeOK
      <4> QED BY <2>1, <3>1, RowTypes
    <3>3. checkpoint' \in -1..MaxElapsed
      BY <2>1, <3>1, ReplayAssumption
    <3> QED BY <2>1, <2>2, <3>2, <3>3
  <2>4. CASE ~commits
    <3>1. UNCHANGED <<made, checkpoint>>
      BY <1>7, <2>4 DEF LiveFrame
    <3> QED BY <2>1, <2>2, <3>1
  <2> QED BY <2>3, <2>4
<1>8. CASE Die
  <2>1. elapsed' \in 0..MaxElapsed /\ steps' \in Seq(1..Step)
    BY <1>8, ReplayAssumption DEF Die
  <2> QED BY <1>8, <2>1 DEF Die
<1> QED BY <1>1, <1>2, <1>3, <1>4, <1>5, <1>6, <1>7, <1>8 DEF Next

\* From any checkpoint an older release left, on the grid or off it: no integration step
\* is longer than the model's or empty, in a replay, an outage or a frame, and no process
\* simulates or records past the bound.
THEOREM ReplayTypes ==
  ASSUME BootFits
  PROVE  Spec => []TypeOK
<1>1. Init => TypeOK
  <2> SUFFICES ASSUME Init PROVE TypeOK
    OBVIOUS
  <2>1. MaxElapsed \in Nat /\ 0 \in 0..MaxElapsed /\ -1 \in -1..MaxElapsed
        /\ Legacy \subseteq 0..MaxElapsed /\ Legacy \subseteq -1..MaxElapsed
    BY ReplayAssumption
  <2>2. DOMAIN made \subseteq 0..MaxElapsed /\ \A e \in DOMAIN made : made[e] \in Seq(1..Step)
    <3>1. CASE checkpoint = -1
      <4>1. DOMAIN made = {}
        BY <3>1 DEF Init, NothingRecorded
      <4> QED BY <4>1
    <3>2. CASE checkpoint # -1
      <4>1. checkpoint \in 0..MaxElapsed /\ checkpoint \in Nat
        BY <2>1, <3>2 DEF Init
      <4>2. made = [e \in {checkpoint} |-> StepSizes(checkpoint)]
        BY <3>2 DEF Init
      <4>3. StepSizes(checkpoint) \in Seq(1..Step)
        BY <4>1, StepSizesType
      <4> QED BY <4>1, <4>2, <4>3
    <3> QED BY <3>1, <3>2
  <2>3. steps \in Seq(1..Step) /\ replayed \in Seq(1..Step)
    BY DEF Init
  <2>4. checkpoint \in -1..MaxElapsed /\ elapsed \in 0..MaxElapsed /\ replayed_to \in 0..MaxElapsed
    BY <2>1 DEF Init
  <2> QED BY <2>2, <2>3, <2>4 DEF Init, TypeOK
<1>2. TypeOK /\ [Next]_vars => TypeOK'
  BY TypeStep
<1> QED BY <1>1, <1>2, PTL DEF Spec
=============================================================================
