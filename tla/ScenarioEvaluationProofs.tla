----------------------- MODULE ScenarioEvaluationProofs -----------------------
(***************************************************************************)
(* For every set of loops, cadence, frame, window and pattern of missing   *)
(* observations: regularized values are carried forward causally, the      *)
(* summaries of the two phases count exactly the frames they should, and   *)
(* every transition of a cycle is counted.                                 *)
(***************************************************************************)
EXTENDS ScenarioEvaluation, FiniteSetTheorems, SequenceTheorems, TLAPS

LEMMA MaxIs ==
  ASSUME NEW S, S \subseteq Int, NEW m \in S, \A y \in S : y <= m
  PROVE  Max(S) = m
<1>1. \A x \in S : (\A y \in S : x >= y) => x = m
  OBVIOUS
<1>2. \A y \in S : m >= y
  OBVIOUS
<1> QED BY <1>1, <1>2 DEF Max

LEMMA MinIs ==
  ASSUME NEW S, S \subseteq Int, NEW m \in S, \A y \in S : m <= y
  PROVE  Min(S) = m
<1>1. \A x \in S : (\A y \in S : x =< y) => x = m
  OBVIOUS
<1>2. \A y \in S : m =< y
  OBVIOUS
<1> QED BY <1>1, <1>2 DEF Min

-----------------------------------------------------------------------------
\* The samples so far, and those of the next frame.

Entry == [loop : Loop, at : Nat, active : BOOLEAN, observed : SUBSET Suffix,
          regularized : [Suffix -> Nat \cup {None}], imputed : SUBSET Suffix]

\* Every sample so far, of any loop.
Recorded == {frame_samples[i] : i \in DOMAIN frame_samples}

NextFrame == elapsed + Frame

\* What the loops may have observed of a frame.
Observation == [Primary -> SUBSET Suffix]

NewSamples(seen) == {Sample(l, NextFrame, seen[l]) : l \in Primary}

LEMMA PrimaryLoops ==
  Primary \subseteq Loop /\ IsFiniteSet(Primary) /\ Cardinality(Primary) \in Nat
<1>1. Primary \subseteq Loop /\ IsFiniteSet(Loop)
  BY EvaluationAssumption DEF Primary
<1> QED BY <1>1, FS_Subset, FS_CardinalityType

\* When each suffix of a loop was last observed.
LastAt(l, c) == IF c = "MODE" THEN previous_mode[l].at ELSE prior_observed_at[l][c]

CarriedTypes ==
  /\ prior_observed_at \in [Primary -> [Numeric -> Nat \cup {None}]]
  /\ prior_observed = prior_observed_at
  /\ previous_mode \in [Primary -> [value : Nat \cup {None}, at : Nat \cup {None}]]
  /\ \A l \in Primary : previous_mode[l].value = previous_mode[l].at

Types ==
  /\ elapsed \in Nat
  /\ active_started_at \in [Primary -> Nat \cup {None}]
  /\ CarriedTypes
  /\ frame_samples \in Seq(Entry)

\* A frame carries a value as long as its age is within the bound.
LEMMA RegularizedIs ==
  ASSUME Types, NEW l \in Primary, NEW t \in Nat, NEW S \in SUBSET Suffix, NEW c \in Suffix
  PROVE  /\ LastAt(l, c) \in Nat \cup {None}
         /\ Regularized(l, t, S)[c] =
              IF c \in S THEN t
              ELSE IF LastAt(l, c) # None /\ t - LastAt(l, c) <= MaxAge THEN LastAt(l, c) ELSE None
<1>1. CASE c = "MODE"
  BY <1>1 DEF Types, CarriedTypes, LastAt, Regularized, RegularizedMode
<1>2. CASE c # "MODE"
  <2>1. c \in Numeric
    BY <1>2 DEF Suffix
  <2>2. prior_observed[l][c] = prior_observed_at[l][c] /\ prior_observed_at[l][c] \in Nat \cup {None}
    BY <2>1 DEF Types, CarriedTypes
  <2> QED BY <1>2, <2>2 DEF LastAt, Regularized, RegularizedValue
<1> QED BY <1>1, <1>2

\* The sample of a frame.
LEMMA SampleIs ==
  ASSUME Types, NEW l \in Primary, NEW t \in Nat, NEW S \in SUBSET Suffix
  PROVE  /\ Sample(l, t, S) \in Entry
         /\ Sample(l, t, S).loop = l /\ Sample(l, t, S).at = t
         /\ Sample(l, t, S).active = IsActive(l, t)
         /\ Sample(l, t, S).observed = S
         /\ Sample(l, t, S).regularized = Regularized(l, t, S)
         /\ Sample(l, t, S).imputed = {c \in Suffix \ S : Regularized(l, t, S)[c] # None}
<1>1. Regularized(l, t, S) \in [Suffix -> Nat \cup {None}]
  <2>1. \A c \in Suffix : Regularized(l, t, S)[c] \in Nat \cup {None}
    BY RegularizedIs
  <2> QED BY <2>1 DEF Regularized
<1>2. IsActive(l, t) \in BOOLEAN
  BY DEF IsActive, LoadChange, ScenarioActive
<1>3. l \in Loop
  BY PrimaryLoops
<1> QED BY <1>1, <1>2, <1>3 DEF Sample, Entry, Imputed

\* Every primary loop has its place in the order of a frame's samples.
LEMMA SamplesRange ==
  ASSUME Types, NEW seen \in Observation
  PROVE  /\ Samples(NextFrame, seen) \in Seq(Entry)
         /\ {Samples(NextFrame, seen)[i] : i \in DOMAIN Samples(NextFrame, seen)} = NewSamples(seen)
<1> DEFINE n == Cardinality(Primary)
           Covers(s) == \A l \in Primary : \E i \in DOMAIN s : s[i] = l
           order == CHOOSE s \in [1..n -> Primary] : Covers(s)
<1>1. n \in Nat
  BY PrimaryLoops
<1>2. \E s \in [1..n -> Primary] : Covers(s)
  <2>1. ExistsBijection(1..n, Primary)
    BY PrimaryLoops, FS_CardinalityType
  <2> QED BY <2>1 DEF ExistsBijection, Bijection, Surjection
<1>3. order \in [1..n -> Primary] /\ Covers(order)
  <2> HIDE DEF Covers
  <2> QED BY <1>2
<1>4. Samples(NextFrame, seen) = [i \in DOMAIN order |-> Sample(order[i], NextFrame, seen[order[i]])]
  BY DEF Samples
<1> HIDE DEF order, n
<1>5. NextFrame \in Nat
  BY EvaluationAssumption DEF NextFrame, Types
<1>6. \A i \in 1..n : Sample(order[i], NextFrame, seen[order[i]]) \in Entry
  <2> TAKE i \in 1..n
  <2>1. order[i] \in Primary /\ seen[order[i]] \in SUBSET Suffix
    BY <1>3 DEF Observation
  <2> QED BY <2>1, <1>5, SampleIs
<1>7. Samples(NextFrame, seen) \in Seq(Entry)
  BY <1>1, <1>3, <1>4, <1>6
<1>8. {Samples(NextFrame, seen)[i] : i \in DOMAIN Samples(NextFrame, seen)}
        = {Sample(order[i], NextFrame, seen[order[i]]) : i \in 1..n}
  BY <1>3, <1>4
<1>9. {Sample(order[i], NextFrame, seen[order[i]]) : i \in 1..n} = NewSamples(seen)
  <2>1. ASSUME NEW l \in Primary PROVE \E i \in 1..n : order[i] = l
    BY <1>3
  <2> QED BY <1>3, <2>1 DEF NewSamples
<1> QED BY <1>7, <1>8, <1>9

-----------------------------------------------------------------------------
\* One frame.

\* The frame in which `seen' was observed.
AddFrame(seen) ==
  /\ scenario' = scenario /\ elapsed' = NextFrame
  /\ transitions' = transitions + TruthEvents(elapsed, NextFrame)
  /\ active_started_at' = [l \in Primary |-> Started(l, NextFrame)]
  /\ prior_observed' = [l \in Primary |-> [c \in Numeric |->
       IF c \in seen[l] THEN NextFrame ELSE prior_observed[l][c]]]
  /\ prior_observed_at' = [l \in Primary |-> [c \in Numeric |->
       ObservedAt(l, c, NextFrame, seen[l])]]
  /\ previous_mode' = [l \in Primary |->
       IF "MODE" \in seen[l] THEN [value |-> NextFrame, at |-> NextFrame] ELSE previous_mode[l]]
  /\ phases' = [p \in PhaseNames |-> AddPhase(p, NextFrame)]
  /\ observation_phases' = [p \in PhaseNames |-> AddObservation(p, NextFrame, seen)]
  /\ frame_samples' = frame_samples \o Samples(NextFrame, seen)

LEMMA FrameIs == EvaluateFrame => \E seen \in Observation : AddFrame(seen)
<1> SUFFICES ASSUME EvaluateFrame PROVE \E seen \in Observation : AddFrame(seen)
  OBVIOUS
<1>1. PICK seen \in [Primary -> SUBSET Expected(NextFrame)] : AddFrame(seen)
  BY DEF EvaluateFrame, AddFrame, NextFrame
<1>2. seen \in Observation
  BY DEF Observation, Expected
<1> QED BY <1>1, <1>2

\* What a frame does to the loops and to the samples.
LEMMA FrameStep ==
  ASSUME Types, NEW seen \in Observation, AddFrame(seen)
  PROVE  /\ NextFrame \in Nat /\ elapsed \in Nat /\ elapsed < NextFrame /\ elapsed' = NextFrame
         /\ Primary' = Primary
         /\ Types'
         /\ Recorded' = Recorded \cup NewSamples(seen)
         /\ \A l \in Primary : \A c \in Suffix :
              LastAt(l, c)' = IF c \in seen[l] THEN NextFrame ELSE LastAt(l, c)
<1>1. NextFrame \in Nat /\ elapsed \in Nat /\ elapsed < NextFrame /\ elapsed' = NextFrame
  BY EvaluationAssumption DEF Types, AddFrame, NextFrame
<1>2. Primary' = Primary
  BY DEF AddFrame, Primary
<1>3. CarriedTypes'
  <2>1. prior_observed_at' \in [Primary -> [Numeric -> Nat \cup {None}]]
    BY <1>1 DEF AddFrame, Types, CarriedTypes, ObservedAt
  <2>2. prior_observed' = prior_observed_at'
    BY DEF AddFrame, Types, CarriedTypes, ObservedAt
  <2>3. /\ previous_mode' \in [Primary -> [value : Nat \cup {None}, at : Nat \cup {None}]]
        /\ \A l \in Primary : previous_mode'[l].value = previous_mode'[l].at
    BY <1>1 DEF AddFrame, Types, CarriedTypes
  <2> QED BY <1>2, <2>1, <2>2, <2>3 DEF CarriedTypes
<1>4. active_started_at' \in [Primary -> Nat \cup {None}]
  <2>1. \A l \in Primary : Started(l, NextFrame) \in Nat \cup {None}
    BY <1>1 DEF Started, Types
  <2> QED BY <2>1 DEF AddFrame
<1>5. /\ frame_samples' \in Seq(Entry)
      /\ Recorded' = Recorded \cup NewSamples(seen)
  <2> DEFINE new == Samples(NextFrame, seen)
  <2>1. new \in Seq(Entry) /\ {new[i] : i \in DOMAIN new} = NewSamples(seen)
    BY SamplesRange
  <2>2. frame_samples \in Seq(Entry) /\ frame_samples' = frame_samples \o new
    BY DEF Types, AddFrame
  <2> HIDE DEF new
  <2> DEFINE all == frame_samples \o new
  <2>3. all \in Seq(Entry)
    BY <2>1, <2>2
  <2>4. \A i \in DOMAIN all : all[i] \in {frame_samples[k] : k \in DOMAIN frame_samples}
                                          \cup {new[k] : k \in DOMAIN new}
    <3> TAKE i \in DOMAIN all
    <3>1. CASE i \in 1..Len(frame_samples)
      BY <2>1, <2>2, <3>1
    <3>2. CASE i > Len(frame_samples)
      <4>1. i - Len(frame_samples) \in DOMAIN new /\ all[i] = new[i - Len(frame_samples)]
        BY <2>1, <2>2, <3>2
      <4> QED BY <4>1
    <3> QED BY <2>1, <2>2, <3>1, <3>2
  <2>5. \A k \in DOMAIN frame_samples : k \in DOMAIN all /\ all[k] = frame_samples[k]
    BY <2>1, <2>2
  <2>6. \A k \in DOMAIN new : k + Len(frame_samples) \in DOMAIN all /\ all[k + Len(frame_samples)] = new[k]
    BY <2>1, <2>2
  <2>7. {all[i] : i \in DOMAIN all} = {frame_samples[k] : k \in DOMAIN frame_samples} \cup {new[k] : k \in DOMAIN new}
    <3> HIDE DEF all
    <3> QED BY <2>4, <2>5, <2>6
  <2> QED BY <2>1, <2>2, <2>3, <2>7 DEF Recorded
<1>6. ASSUME NEW l \in Primary, NEW c \in Suffix
      PROVE  LastAt(l, c)' = IF c \in seen[l] THEN NextFrame ELSE LastAt(l, c)
  BY DEF AddFrame, LastAt, ObservedAt, Suffix
<1>7. Types'
  BY <1>1, <1>2, <1>3, <1>4, <1>5 DEF Types
<1> QED BY <1>1, <1>2, <1>5, <1>6, <1>7

-----------------------------------------------------------------------------
\* Carrying values forward.

\* No sample is from the future.
Dated == \A s \in Recorded : s.at <= elapsed

\* LastAt is the time of the last sample in which the loop's suffix was observed.
Remembered ==
  \A l \in Primary : \A c \in Suffix :
    /\ \A s \in SamplesOf(l) : c \in s.observed => s.at <= LastAt(l, c)
    /\ LastAt(l, c) # None => \E s \in SamplesOf(l) : c \in s.observed /\ s.at = LastAt(l, c)

\* The times at which a sample of A shows c, at most MaxAge before t.
Fresh(A, c, t) == {e.at : e \in {o \in A : c \in o.observed /\ o.at <= t /\ t - o.at <= MaxAge}}

\* RegularizedCausal for one sample of those of its loop.
Causal(A, s, c) ==
  /\ s.regularized[c] = Max(Fresh(A, c, s.at) \cup {None})
  /\ c \in s.imputed <=> Fresh(A, c, s.at) # {} /\ c \notin s.observed

LEMMA CausalIs == RegularizedCausal <=> \A l \in Primary : \A s \in SamplesOf(l) : \A c \in Suffix : Causal(SamplesOf(l), s, c)
BY DEF RegularizedCausal, Causal, Fresh

LEMMA SamplesOfIs == \A l : SamplesOf(l) = {s \in Recorded : s.loop = l}
BY DEF SamplesOf, Recorded

LEMMA SamplesAreEntries ==
  ASSUME Types
  PROVE  Recorded \subseteq Entry /\ \A l \in Primary : SamplesOf(l) \subseteq Entry
<1>1. Recorded \subseteq Entry
  <2>1. frame_samples \in Seq(Entry)
    BY DEF Types
  <2> QED BY <2>1 DEF Recorded
<1> QED BY <1>1, SamplesOfIs

\* A frame adds one sample to every primary loop, later than all before.
LEMMA OneSampleMore ==
  ASSUME Types, Dated, NEW seen \in Observation, AddFrame(seen), NEW l \in Primary
  PROVE  /\ SamplesOf(l)' = SamplesOf(l) \cup {Sample(l, NextFrame, seen[l])}
         /\ Sample(l, NextFrame, seen[l]) \in Entry
         /\ SamplesOf(l) \subseteq Entry /\ SamplesOf(l)' \subseteq Entry
         /\ \A s \in SamplesOf(l) : s.at < NextFrame
<1>1. /\ NextFrame \in Nat /\ elapsed \in Nat /\ elapsed < NextFrame
      /\ Recorded' = Recorded \cup NewSamples(seen)
  BY FrameStep
<1>2. \A k \in Primary : Sample(k, NextFrame, seen[k]) \in Entry /\ Sample(k, NextFrame, seen[k]).loop = k
  <2> TAKE k \in Primary
  <2>1. seen[k] \in SUBSET Suffix
    BY DEF Observation
  <2> QED BY <1>1, <2>1, SampleIs
<1>3. SamplesOf(l) = {s \in Recorded : s.loop = l} /\ SamplesOf(l)' = {s \in Recorded' : s.loop = l}
  BY SamplesOfIs DEF SamplesOf, Recorded
<1>4. SamplesOf(l)' = SamplesOf(l) \cup {Sample(l, NextFrame, seen[l])}
  BY <1>1, <1>2, <1>3 DEF NewSamples
<1>5. SamplesOf(l) \subseteq Entry
  BY SamplesAreEntries
<1>6. \A s \in SamplesOf(l) : s.at < NextFrame
  <2> TAKE s \in SamplesOf(l)
  <2>1. s.at \in Nat /\ s.at <= elapsed
    BY <1>3, <1>5 DEF Entry, Dated
  <2> QED BY <1>1, <2>1
<1> QED BY <1>2, <1>4, <1>5, <1>6

\* An older sample stays causal: nothing that comes later is fresh for it.
LEMMA CausalStays ==
  ASSUME NEW A \in SUBSET Entry, NEW n \in Entry, \A o \in A : o.at < n.at, NEW s \in A, NEW c
  PROVE  Causal(A, s, c) <=> Causal(A \cup {n}, s, c)
<1>1. s.at \in Nat /\ n.at \in Nat /\ s.at < n.at
  BY DEF Entry
<1>2. Fresh(A \cup {n}, c, s.at) = Fresh(A, c, s.at)
  <2>1. ~(n.at <= s.at)
    BY <1>1
  <2> QED BY <2>1 DEF Fresh
<1> QED BY <1>2 DEF Causal

\* The sample of a new frame is causal.
LEMMA CausalSample ==
  ASSUME Types, Remembered, NEW l \in Primary, NEW t \in Nat, NEW S \in SUBSET Suffix,
         SamplesOf(l) \subseteq Entry, \A o \in SamplesOf(l) : o.at < t, NEW c \in Suffix
  PROVE  Causal(SamplesOf(l) \cup {Sample(l, t, S)}, Sample(l, t, S), c)
<1> DEFINE A == SamplesOf(l)
           n == Sample(l, t, S)
           last == LastAt(l, c)
           f == Fresh(A \cup {n}, c, t)
<1> SUFFICES Causal(A \cup {n}, n, c)
  OBVIOUS
<1>1. /\ n \in Entry /\ n.at = t /\ n.observed = S
      /\ n.regularized = Regularized(l, t, S)
      /\ n.imputed = {d \in Suffix \ S : Regularized(l, t, S)[d] # None}
  BY SampleIs
<1>2. /\ last \in Nat \cup {None}
      /\ n.regularized[c] = IF c \in S THEN t
                            ELSE IF last # None /\ t - last <= MaxAge THEN last ELSE None
  BY <1>1, RegularizedIs
<1>3. /\ \A o \in A : c \in o.observed => o.at <= last
      /\ last # None => \E o \in A : c \in o.observed /\ o.at = last
  BY DEF Remembered
<1>4. \A o \in A : o.at \in Nat /\ o.at < t
  BY DEF Entry
<1>5. MaxAge \in Nat
  BY EvaluationAssumption
<1> HIDE DEF A, n, last
<1>6. f \subseteq Nat /\ f \cup {None} \subseteq Int
  BY <1>1, <1>4 DEF Fresh, None
<1>7. CASE c \in S
  <2>1. t \in f
    BY <1>1, <1>5, <1>7 DEF Fresh
  <2>2. \A x \in f \cup {None} : x <= t
    BY <1>1, <1>4 DEF Fresh, None
  <2>3. Max(f \cup {None}) = t
    <3> HIDE DEF f
    <3> QED BY <1>6, <2>1, <2>2, MaxIs
  <2>4. c \notin n.imputed
    BY <1>1, <1>7
  <2> QED BY <1>1, <1>2, <1>7, <2>3, <2>4 DEF Causal
<1>8. CASE c \notin S /\ last # None /\ t - last <= MaxAge
  <2>1. last \in f
    <3>1. PICK o \in A : c \in o.observed /\ o.at = last
      BY <1>3, <1>8
    <3> QED BY <1>4, <1>8, <3>1 DEF Fresh
  <2>2. \A x \in f \cup {None} : x <= last
    BY <1>1, <1>2, <1>3, <1>8 DEF Fresh, None
  <2>3. Max(f \cup {None}) = last
    <3> HIDE DEF f
    <3> QED BY <1>6, <2>1, <2>2, MaxIs
  <2>4. c \in n.imputed
    BY <1>1, <1>2, <1>8
  <2> QED BY <1>1, <1>2, <1>8, <2>1, <2>3, <2>4 DEF Causal
<1>9. CASE c \notin S /\ ~(last # None /\ t - last <= MaxAge)
  <2>1. f = {}
    <3>1. ASSUME NEW o \in A, c \in o.observed, t - o.at <= MaxAge PROVE FALSE
      <4>1. o.at <= last /\ o.at \in Nat
        BY <1>3, <1>4, <3>1
      <4>2. last # None
        BY <1>2, <4>1 DEF None
      <4>3. last \in Nat /\ t - last <= MaxAge
        BY <1>2, <1>5, <3>1, <4>1, <4>2
      <4> QED BY <1>9, <4>2, <4>3
    <3> QED BY <1>1, <1>9, <3>1 DEF Fresh
  <2>2. Max(f \cup {None}) = None
    <3> HIDE DEF f
    <3>1. \A x \in {None} : x <= None
      BY DEF None
    <3>2. f \cup {None} = {None}
      BY <2>1
    <3>3. {None} \subseteq Int
      BY DEF None
    <3> QED BY <3>1, <3>2, <3>3, MaxIs
  <2>3. n.regularized[c] = None /\ c \notin n.imputed
    BY <1>1, <1>2, <1>9
  <2> QED BY <1>1, <2>1, <2>2, <2>3 DEF Causal
<1> QED BY <1>7, <1>8, <1>9

CausalInv == Types /\ Dated /\ Remembered /\ RegularizedCausal

LEMMA CausalInit == ASSUME Init PROVE CausalInv
<1>1. Types
  BY DEF Init, Types, CarriedTypes, None
<1>2. Recorded = {}
  BY DEF Init, Recorded
<1>3. \A l \in Primary : SamplesOf(l) = {}
  BY <1>2, SamplesOfIs
<1>4. Dated
  BY <1>2 DEF Dated
<1>5. \A l \in Primary : \A c \in Suffix : LastAt(l, c) = None
  BY DEF Init, LastAt, Suffix
<1>6. Remembered /\ RegularizedCausal
  BY <1>3, <1>5 DEF Remembered, RegularizedCausal
<1> QED BY <1>1, <1>4, <1>6 DEF CausalInv

LEMMA DatedStep ==
  ASSUME Types, Dated, NEW seen \in Observation, AddFrame(seen)
  PROVE  Dated'
<1>1. /\ NextFrame \in Nat /\ elapsed \in Nat /\ elapsed < NextFrame /\ elapsed' = NextFrame
      /\ Recorded' = Recorded \cup NewSamples(seen)
  BY FrameStep
<1>2. \A s \in Recorded : s.at \in Nat /\ s.at <= elapsed
  BY SamplesAreEntries DEF Entry, Dated
<1>3. \A k \in Primary : Sample(k, NextFrame, seen[k]).at = NextFrame
  BY <1>1, SampleIs DEF Observation
<1>4. \A s \in Recorded' : s.at <= elapsed'
  BY <1>1, <1>2, <1>3 DEF NewSamples
<1> QED BY <1>4 DEF Dated, Recorded

LEMMA RememberedStep ==
  ASSUME Types, Dated, Remembered, NEW seen \in Observation, AddFrame(seen)
  PROVE  Remembered'
<1>1. /\ NextFrame \in Nat /\ Primary' = Primary
      /\ \A l \in Primary : \A c \in Suffix :
           LastAt(l, c)' = IF c \in seen[l] THEN NextFrame ELSE LastAt(l, c)
  BY FrameStep
<1>2. SUFFICES ASSUME NEW l \in Primary, NEW c \in Suffix
               PROVE /\ \A s \in SamplesOf(l)' : c \in s.observed => s.at <= LastAt(l, c)'
                     /\ LastAt(l, c)' # None =>
                          \E s \in SamplesOf(l)' : c \in s.observed /\ s.at = LastAt(l, c)'
  BY <1>1 DEF Remembered, SamplesOf, LastAt
<1> DEFINE n == Sample(l, NextFrame, seen[l])
<1>3. seen[l] \in SUBSET Suffix
  BY DEF Observation
<1>4. n.observed = seen[l] /\ n.at = NextFrame
  BY <1>1, <1>3, SampleIs
<1>5. /\ SamplesOf(l)' = SamplesOf(l) \cup {n}
      /\ \A s \in SamplesOf(l) : s.at < NextFrame /\ s.at \in Nat
  BY OneSampleMore DEF Entry
<1>6. /\ \A s \in SamplesOf(l) : c \in s.observed => s.at <= LastAt(l, c)
      /\ LastAt(l, c) # None => \E s \in SamplesOf(l) : c \in s.observed /\ s.at = LastAt(l, c)
  BY DEF Remembered
<1>7. LastAt(l, c)' = IF c \in seen[l] THEN NextFrame ELSE LastAt(l, c)
  BY <1>1
<1> HIDE DEF n
<1>8. CASE c \in seen[l]
  BY <1>1, <1>4, <1>5, <1>7, <1>8
<1>9. CASE c \notin seen[l]
  BY <1>4, <1>5, <1>6, <1>7, <1>9
<1> QED BY <1>8, <1>9

LEMMA CausalFrame ==
  ASSUME CausalInv, NEW seen \in Observation, AddFrame(seen)
  PROVE  CausalInv'
<1>1. Types /\ Dated /\ Remembered /\ RegularizedCausal
  BY DEF CausalInv
<1>2. Types' /\ Primary' = Primary /\ NextFrame \in Nat
  BY <1>1, FrameStep
<1>3. RegularizedCausal'
  <2>1. SUFFICES ASSUME NEW l \in Primary
                 PROVE  \A s \in SamplesOf(l)' : \A c \in Suffix : Causal(SamplesOf(l)', s, c)
    BY <1>2 DEF RegularizedCausal, Causal, Fresh, SamplesOf
  <2> DEFINE n == Sample(l, NextFrame, seen[l])
  <2>2. seen[l] \in SUBSET Suffix
    BY DEF Observation
  <2>3. /\ SamplesOf(l)' = SamplesOf(l) \cup {n} /\ n \in Entry /\ SamplesOf(l) \subseteq Entry
        /\ \A s \in SamplesOf(l) : s.at < NextFrame
    BY <1>1, OneSampleMore
  <2>4. n.at = NextFrame
    BY <1>1, <1>2, <2>2, SampleIs
  <2>5. ASSUME NEW c \in Suffix PROVE Causal(SamplesOf(l) \cup {n}, n, c)
    BY <1>1, <1>2, <2>2, <2>3, CausalSample
  <2> HIDE DEF n
  <2>6. ASSUME NEW c \in Suffix, NEW s \in SamplesOf(l) PROVE Causal(SamplesOf(l) \cup {n}, s, c)
    <3>1. Causal(SamplesOf(l), s, c)
      BY <1>1, CausalIs
    <3>2. SamplesOf(l) \in SUBSET Entry /\ \A o \in SamplesOf(l) : o.at < n.at
      BY <2>3, <2>4
    <3> QED BY <2>3, <3>1, <3>2, CausalStays
  <2> QED BY <2>3, <2>5, <2>6
<1>4. Dated' /\ Remembered'
  BY <1>1, DatedStep, RememberedStep
<1> QED BY <1>2, <1>3, <1>4 DEF CausalInv

LEMMA CausalStutter ==
  ASSUME CausalInv, UNCHANGED vars
  PROVE  CausalInv'
<1>1. /\ scenario' = scenario /\ elapsed' = elapsed /\ active_started_at' = active_started_at
      /\ prior_observed' = prior_observed /\ prior_observed_at' = prior_observed_at
      /\ previous_mode' = previous_mode /\ frame_samples' = frame_samples
  BY DEF vars, carried
<1>2. Primary' = Primary /\ Recorded' = Recorded
  BY <1>1 DEF Primary, Recorded
<1>3. \A l : SamplesOf(l)' = SamplesOf(l)
  BY <1>1 DEF SamplesOf
<1>4. Types'
  BY <1>1, <1>2 DEF CausalInv, Types, CarriedTypes
<1>5. Dated'
  BY <1>1, <1>2 DEF CausalInv, Dated
<1>6. Remembered'
  BY <1>1, <1>2, <1>3 DEF CausalInv, Remembered, LastAt
<1>7. RegularizedCausal'
  BY <1>2, <1>3 DEF CausalInv, RegularizedCausal
<1> QED BY <1>4, <1>5, <1>6, <1>7 DEF CausalInv

LEMMA CausalStep == CausalInv /\ [Next]_vars => CausalInv'
<1>1. ASSUME CausalInv, EvaluateFrame PROVE CausalInv'
  BY <1>1, FrameIs, CausalFrame
<1> QED BY <1>1, CausalStutter DEF Next

\* Regularization is causal (RegularizedCausal): for every pattern of observations, a
\* sample shows the last value of its own loop that is not too old, or none, and marks
\* exactly the carried ones.
THEOREM ValuesCarriedCausally == Spec => []RegularizedCausal
<1>1. Init => CausalInv
  BY CausalInit
<1>2. CausalInv => RegularizedCausal
  BY DEF CausalInv
<1> QED BY <1>1, <1>2, CausalStep, PTL DEF Spec

-----------------------------------------------------------------------------
\* The start of an activation.

\* Of the samples A of a loop, those of the activation of s begin at a, after the
\* inactive sample at e or after none.
StartsAfter(A, s, a, e) ==
  /\ e \in {o.at : o \in {q \in A : q.at < s.at /\ ~q.active}} \cup {None}
  /\ \A o \in A : o.at < s.at /\ ~o.active => o.at <= e
  /\ a \in {o.at : o \in {q \in A : q.active /\ q.at > e}}
  /\ \A o \in A : o.active /\ o.at > e => a <= o.at

\* ActivationStart over the samples A of a loop.
StartIn(A, s) ==
  LET ended == Max({o.at : o \in {q \in A : q.at < s.at /\ ~q.active}} \cup {None})
  IN  Min({o.at : o \in {q \in A : q.active /\ q.at > ended}})

LEMMA ActivationStartIs == \A s : ActivationStart(s) = StartIn(SamplesOf(s.loop), s)
BY DEF ActivationStart, StartIn

LEMMA StartInIs ==
  ASSUME NEW A \in SUBSET Entry, NEW s, NEW a, NEW e, StartsAfter(A, s, a, e)
  PROVE  StartIn(A, s) = a
<1> DEFINE ended == {o.at : o \in {q \in A : q.at < s.at /\ ~q.active}} \cup {None}
           begun == {o.at : o \in {q \in A : q.active /\ q.at > e}}
<1>1. \A o \in A : o.at \in Int
  BY DEF Entry
<1>2. ended \subseteq Int /\ begun \subseteq Int
  BY <1>1 DEF None
<1>3. e \in ended /\ \A x \in ended : x <= e
  <2>1. e \in ended /\ \A o \in A : o.at < s.at /\ ~o.active => o.at <= e
    BY DEF StartsAfter
  <2>2. None <= e
    <3>1. \A o \in A : o.at \in Nat
      BY DEF Entry
    <3> QED BY <2>1, <3>1 DEF None
  <2> QED BY <2>1, <2>2
<1>4. Max(ended) = e
  <2> HIDE DEF ended
  <2> QED BY <1>2, <1>3, MaxIs
<1>5. a \in begun /\ \A x \in begun : a <= x
  BY DEF StartsAfter
<1>6. Min(begun) = a
  <2> HIDE DEF begun
  <2> QED BY <1>2, <1>5, MinIs
<1>7. StartIn(A, s) = Min({o.at : o \in {q \in A : q.active /\ q.at > Max(ended)}})
  BY DEF StartIn
<1> QED BY <1>4, <1>6, <1>7

\* A later sample does not change where an activation begins.
LEMMA StartStays ==
  ASSUME NEW A \in SUBSET Entry, NEW n \in Entry, \A o \in A : o.at < n.at,
         NEW s \in A, s.active, NEW a, NEW e, StartsAfter(A, s, a, e)
  PROVE  StartsAfter(A \cup {n}, s, a, e)
<1>1. \A o \in A \cup {n} : o.at \in Nat
  BY DEF Entry
<1>2. e \in Nat \cup {None}
  BY <1>1 DEF StartsAfter
<1>3. a <= s.at /\ e < s.at /\ a \in Nat /\ e \in Int
  <2>1. e < s.at
    BY <1>1, <1>2 DEF StartsAfter, None
  <2> QED BY <1>1, <1>2, <2>1 DEF StartsAfter, None
<1>4. s.at < n.at
  OBVIOUS
<1>5. e \in {o.at : o \in {q \in A \cup {n} : q.at < s.at /\ ~q.active}} \cup {None}
  BY DEF StartsAfter
<1>6. \A o \in A \cup {n} : o.at < s.at /\ ~o.active => o.at <= e
  BY <1>1, <1>4 DEF StartsAfter
<1>7. a \in {o.at : o \in {q \in A \cup {n} : q.active /\ q.at > e}}
  BY DEF StartsAfter
<1>8. \A o \in A \cup {n} : o.active /\ o.at > e => a <= o.at
  BY <1>1, <1>3, <1>4 DEF StartsAfter
<1> QED BY <1>5, <1>6, <1>7, <1>8 DEF StartsAfter

\* The activation a loop is in, if active_started_at says so; e is its last sample
\* out of an activation, None before any.
Activation(A, a, e) ==
  /\ e \in {o.at : o \in {q \in A : ~q.active}} \cup {None}
  /\ IF a = None
     THEN \A o \in A : o.at <= e
     ELSE /\ e < a
          /\ \E o \in A : o.active /\ o.at = a
          /\ \A o \in A : o.at > e => o.active /\ a <= o.at

Activations == \A l \in Primary : \E e : Activation(SamplesOf(l), active_started_at[l], e)

\* The next sample n enters an activation, continues it or ends it.
LEMMA ActivationStep ==
  ASSUME NEW A \in SUBSET Entry, NEW n \in Entry, \A o \in A : o.at < n.at,
         NEW a \in Nat \cup {None}, NEW e, Activation(A, a, e),
         NEW b, b = IF ~n.active THEN None ELSE IF a = None THEN n.at ELSE a
  PROVE  /\ \E f : Activation(A \cup {n}, b, f)
         /\ n.active => StartsAfter(A \cup {n}, n, b, e)
<1>1. \A o \in A \cup {n} : o.at \in Nat /\ o.active \in BOOLEAN
  BY DEF Entry
<1>2. e \in Nat \cup {None} /\ (e # None => e < n.at) /\ n.at # None
  BY <1>1 DEF Activation, None
<1>3. CASE ~n.active
  <2>1. b = None
    BY <1>3
  <2>2. Activation(A \cup {n}, b, n.at)
    BY <1>1, <1>3, <2>1 DEF Activation
  <2> QED BY <1>3, <2>2
<1>4. CASE n.active /\ a = None
  <2>1. b = n.at /\ b # None /\ e < b
    BY <1>1, <1>2, <1>4 DEF None
  <2>2. \A o \in A : ~(o.at > e)
    BY <1>1, <1>2, <1>4 DEF Activation, None
  <2>3. e \in {o.at : o \in {q \in A \cup {n} : ~q.active}} \cup {None}
    BY DEF Activation
  <2>4. Activation(A \cup {n}, b, e)
    BY <1>1, <1>4, <2>1, <2>2, <2>3 DEF Activation
  <2>5. StartsAfter(A \cup {n}, n, b, e)
    BY <1>1, <1>2, <1>4, <2>1, <2>2 DEF StartsAfter, Activation, None
  <2> QED BY <2>4, <2>5
<1>5. CASE n.active /\ a # None
  <2>1. b = a /\ b # None /\ e < b /\ b \in Nat /\ b < n.at
    <3>1. \E o \in A : o.active /\ o.at = a
      BY <1>5 DEF Activation
    <3> QED BY <1>5, <3>1 DEF Activation
  <2>2. \A o \in A : o.at > e => o.active /\ b <= o.at
    BY <1>5, <2>1 DEF Activation
  <2>3. e \in {o.at : o \in {q \in A : ~q.active}} \cup {None}
    BY DEF Activation
  <2>4. \E o \in A : o.active /\ o.at = b
    BY <1>5, <2>1 DEF Activation
  <2>5. Activation(A \cup {n}, b, e)
    <3>1. \A o \in A \cup {n} : o.at > e => o.active /\ b <= o.at
      BY <1>1, <1>5, <2>1, <2>2
    <3> QED BY <2>1, <2>3, <2>4, <3>1 DEF Activation
  <2>6. StartsAfter(A \cup {n}, n, b, e)
    <3>1. e \in {o.at : o \in {q \in A \cup {n} : q.at < n.at /\ ~q.active}} \cup {None}
      BY <2>3
    <3>2. \A o \in A \cup {n} : o.at < n.at /\ ~o.active => o.at <= e
      BY <1>1, <1>2, <2>2 DEF None
    <3>3. b \in {o.at : o \in {q \in A \cup {n} : q.active /\ q.at > e}}
      BY <2>1, <2>4
    <3>4. \A o \in A \cup {n} : o.active /\ o.at > e => b <= o.at
      BY <1>1, <2>1, <2>2
    <3> QED BY <3>1, <3>2, <3>3, <3>4 DEF StartsAfter
  <2> QED BY <2>5, <2>6
<1> QED BY <1>1, <1>3, <1>4, <1>5

-----------------------------------------------------------------------------
\* Counting.

\* Every sample of the primary loops.
AllSamples == UNION {SamplesOf(l) : l \in Primary}

\* A frame adds one sample for every loop counted.
LEMMA CountMore ==
  ASSUME Types, NEW seen \in Observation, NEW T, IsFiniteSet(T), \A o \in T : o.at < NextFrame,
         NEW L \in SUBSET Primary
  PROVE  LET N == {Sample(l, NextFrame, seen[l]) : l \in L}
         IN  /\ IsFiniteSet(T \cup N)
             /\ Cardinality(T \cup N) = Cardinality(T) + Cardinality(L)
<1> DEFINE Of(l) == Sample(l, NextFrame, seen[l])
           N == {Of(l) : l \in L}
           f == [l \in L |-> Of(l)]
<1>1. NextFrame \in Nat
  BY EvaluationAssumption DEF NextFrame, Types
<1>2. \A l \in L : Of(l).loop = l /\ Of(l).at = NextFrame
  BY <1>1, SampleIs DEF Observation
<1> HIDE DEF Of
<1>3. IsFiniteSet(L)
  BY PrimaryLoops, FS_Subset
<1>4. f \in Bijection(L, N)
  <2>1. f \in Injection(L, N)
    BY <1>2 DEF Injection, IsInjective
  <2>2. f \in Surjection(L, N)
    BY DEF Surjection
  <2> QED BY <2>1, <2>2 DEF Bijection
<1>5. IsFiniteSet(N) /\ Cardinality(N) = Cardinality(L)
  <2>1. ExistsBijection(L, N)
    BY <1>4 DEF ExistsBijection
  <2> HIDE DEF N
  <2> QED BY <1>3, <2>1, FS_Bijection
<1>6. T \cap N = {}
  <2>1. \A o \in N : o.at = NextFrame
    BY <1>2
  <2> HIDE DEF N
  <2> QED BY <1>1, <2>1
<1> HIDE DEF N
<1>7. Cardinality(T \cup N) = Cardinality(T) + Cardinality(N) - Cardinality(T \cap N)
  BY <1>5, FS_Union
<1>8. Cardinality(T) \in Nat /\ Cardinality(N) \in Nat /\ Cardinality(T \cap N) = 0
  BY <1>5, <1>6, FS_EmptySet, FS_CardinalityType
<1>9. IsFiniteSet(T \cup N) /\ Cardinality(T \cup N) = Cardinality(T) + Cardinality(L)
  BY <1>5, <1>7, <1>8, FS_Union
<1> QED BY <1>9 DEF N, Of

\* The samples of a phase.
Mine(p) == {s \in AllSamples : s.active <=> p = "active"}

\* The initial response of a sample is measured.
Responds(s) == s.active /\ s.at - ActivationStart(s) < ResponseWindow

LEMMA SummaryIs ==
  PhasesSummarize <=>
    \A p \in PhaseNames :
      /\ phases[p].samples = Cardinality(Mine(p))
      /\ observation_phases[p].samples = Cardinality(Mine(p))
      /\ observation_phases[p].missing = Cardinality({s \in Mine(p) : s.observed = {}})
      /\ phases[p].transport = Cardinality({s \in Mine(p) : Expected(s.at) # {}})
      /\ phases[p].response = Cardinality({s \in Mine(p) : Responds(s)})
BY DEF PhasesSummarize, Mine, Responds, AllSamples

\* Every active sample belongs to an activation.
Belonging ==
  \A l \in Primary : \A s \in SamplesOf(l) :
    s.active => \E a, e : StartsAfter(SamplesOf(l), s, a, e)

SummaryInv ==
  /\ Types /\ Dated /\ IsFiniteSet(AllSamples)
  /\ Activations /\ Belonging /\ PhasesSummarize

\* The sample of a loop in the next frame, its activation, and the older samples.
LEMMA NextSample ==
  ASSUME SummaryInv, NEW seen \in Observation, AddFrame(seen), NEW l \in Primary
  PROVE  LET n == Sample(l, NextFrame, seen[l])
         IN  /\ \E f : Activation(SamplesOf(l)', active_started_at'[l], f)
             /\ n.active => \E e : StartsAfter(SamplesOf(l)', n, active_started_at'[l], e)
             /\ \A s \in SamplesOf(l) : s.active =>
                  \E a, e : StartsAfter(SamplesOf(l), s, a, e) /\ StartsAfter(SamplesOf(l)', s, a, e)
<1> DEFINE n == Sample(l, NextFrame, seen[l])
           A == SamplesOf(l)
<1>1. Types /\ Dated
  BY DEF SummaryInv
<1>2. /\ SamplesOf(l)' = A \cup {n} /\ n \in Entry /\ A \in SUBSET Entry
      /\ \A s \in A : s.at < NextFrame
  BY <1>1, OneSampleMore
<1>3. NextFrame \in Nat
  BY <1>1, FrameStep
<1>4. n.at = NextFrame /\ n.active = IsActive(l, NextFrame) /\ n.active \in BOOLEAN
  <2>1. seen[l] \in SUBSET Suffix
    BY DEF Observation
  <2>2. n.at = NextFrame /\ n.active = IsActive(l, NextFrame)
    BY <1>1, <1>3, <2>1, SampleIs
  <2>3. n.active \in BOOLEAN
    BY <1>2 DEF Entry
  <2> QED BY <2>2, <2>3
<1>5. active_started_at'[l] =
        IF ~n.active THEN None ELSE IF active_started_at[l] = None THEN n.at ELSE active_started_at[l]
  BY <1>4 DEF AddFrame, Started
<1>6. active_started_at[l] \in Nat \cup {None}
  BY <1>1 DEF Types
<1>7. PICK e : Activation(A, active_started_at[l], e)
  BY DEF SummaryInv, Activations
<1> HIDE DEF n, A
<1>8. \A s \in A : s.at < n.at
  BY <1>2, <1>4
<1>9. /\ \E f : Activation(A \cup {n}, active_started_at'[l], f)
      /\ n.active => StartsAfter(A \cup {n}, n, active_started_at'[l], e)
  BY <1>2, <1>5, <1>6, <1>7, <1>8, ActivationStep
<1>10. ASSUME NEW s \in A, s.active
       PROVE  \E a, d : StartsAfter(A, s, a, d) /\ StartsAfter(A \cup {n}, s, a, d)
  <2>1. PICK a, d : StartsAfter(A, s, a, d)
    BY <1>10 DEF SummaryInv, Belonging, A
  <2>2. StartsAfter(A \cup {n}, s, a, d)
    BY <1>2, <1>8, <1>10, <2>1, StartStays
  <2> QED BY <2>1, <2>2
<1> QED BY <1>2, <1>9, <1>10 DEF n, A

\* ActivationStart of the older samples and of the new ones.
LEMMA StartsKept ==
  ASSUME SummaryInv, NEW seen \in Observation, AddFrame(seen), NEW l \in Primary
  PROVE  /\ \A s \in SamplesOf(l) : s.active => ActivationStart(s)' = ActivationStart(s)
         /\ \A n : n = Sample(l, NextFrame, seen[l]) /\ n.active =>
              ActivationStart(n)' = Started(l, NextFrame)
<1> DEFINE new == Sample(l, NextFrame, seen[l])
<1>0. PICK n : n = new
  OBVIOUS
<1>1. /\ SamplesOf(l)' = SamplesOf(l) \cup {n} /\ n \in Entry
      /\ SamplesOf(l) \in SUBSET Entry /\ SamplesOf(l)' \in SUBSET Entry
  BY <1>0, OneSampleMore DEF SummaryInv
<1>2. n.loop = l /\ \A s \in SamplesOf(l) : s.loop = l
  <2>1. NextFrame \in Nat /\ seen[l] \in SUBSET Suffix /\ Types
    BY FrameStep DEF SummaryInv, Observation
  <2> QED BY <1>0, <2>1, SampleIs, SamplesOfIs
<1>3. \A s : ActivationStart(s)' = StartIn(SamplesOf(s.loop)', s)
  BY DEF ActivationStart, StartIn
<1>4. active_started_at'[l] = Started(l, NextFrame)
  BY DEF AddFrame
<1>5. /\ n.active => \E e : StartsAfter(SamplesOf(l)', n, active_started_at'[l], e)
      /\ \A s \in SamplesOf(l) : s.active =>
           \E a, e : StartsAfter(SamplesOf(l), s, a, e) /\ StartsAfter(SamplesOf(l)', s, a, e)
  BY <1>0, NextSample
<1>6. ASSUME NEW s \in SamplesOf(l), s.active PROVE ActivationStart(s)' = ActivationStart(s)
  <2>1. PICK a, e : StartsAfter(SamplesOf(l), s, a, e) /\ StartsAfter(SamplesOf(l)', s, a, e)
    BY <1>5, <1>6
  <2>2. StartIn(SamplesOf(l), s) = a
    BY <1>1, <2>1, StartInIs
  <2>3. StartIn(SamplesOf(l)', s) = a
    BY <1>1, <2>1, StartInIs
  <2> QED BY <1>2, <1>3, <2>2, <2>3, ActivationStartIs
<1>7. ASSUME n.active PROVE ActivationStart(n)' = Started(l, NextFrame)
  <2>1. PICK e : StartsAfter(SamplesOf(l)', n, active_started_at'[l], e)
    BY <1>5, <1>7
  <2>2. StartIn(SamplesOf(l)', n) = active_started_at'[l]
    BY <1>1, <2>1, StartInIs
  <2> QED BY <1>2, <1>3, <1>4, <2>2
<1> QED BY <1>0, <1>6, <1>7

\* The samples of a phase after a frame, and those among them that a metric counts.
LEMMA PhaseGrows ==
  ASSUME SummaryInv, NEW seen \in Observation, AddFrame(seen), NEW p \in PhaseNames
  PROVE  LET New(L) == {Sample(l, NextFrame, seen[l]) : l \in L}
             mine == InPhase(p, NextFrame)
         IN  /\ Mine(p)' = Mine(p) \cup New(mine)
             /\ {s \in Mine(p)' : s.observed = {}}
                  = {s \in Mine(p) : s.observed = {}} \cup New({l \in mine : seen[l] = {}})
             /\ {s \in Mine(p)' : Expected(s.at) # {}}
                  = {s \in Mine(p) : Expected(s.at) # {}} \cup New({l \in mine : TransportDue(NextFrame)})
             /\ {s \in Mine(p)' : Responds(s)'}
                  = {s \in Mine(p) : Responds(s)} \cup New({l \in mine : InitialResponse(l, NextFrame)})
<1> DEFINE Of(l) == Sample(l, NextFrame, seen[l])
           New(L) == {Of(l) : l \in L}
           mine == InPhase(p, NextFrame)
<1>1. Types /\ Dated /\ NextFrame \in Nat /\ Primary' = Primary
  BY FrameStep DEF SummaryInv
<1>2. \A l \in Primary :
        /\ Of(l).at = NextFrame /\ Of(l).observed = seen[l] /\ Of(l).active = IsActive(l, NextFrame)
        /\ Of(l).active \in BOOLEAN
  <2> TAKE l \in Primary
  <2>1. seen[l] \in SUBSET Suffix
    BY DEF Observation
  <2>2. Of(l) \in Entry
    BY <1>1, OneSampleMore
  <2>3. Of(l).active \in BOOLEAN
    BY <2>2 DEF Entry
  <2> QED BY <1>1, <2>1, <2>3, SampleIs
<1>3. AllSamples' = AllSamples \cup New(Primary)
  <2>1. \A l \in Primary : SamplesOf(l)' = SamplesOf(l) \cup {Of(l)}
    BY <1>1, OneSampleMore
  <2>2. AllSamples' = UNION {SamplesOf(l)' : l \in Primary}
    BY <1>1 DEF AllSamples
  <2> HIDE DEF Of
  <2> QED BY <2>1, <2>2 DEF AllSamples
<1>4. \A l \in Primary : (Of(l).active <=> p = "active") <=> l \in mine
  <2> TAKE l \in Primary
  <2>1. IsActive(l, NextFrame) \in BOOLEAN
    BY <1>2
  <2>2. l \in mine <=> PhaseName(l, NextFrame) = p
    BY DEF InPhase
  <2>3. p = "active" \/ p = "inactive"
    BY DEF PhaseNames
  <2> HIDE DEF Of, mine
  <2>4. PhaseName(l, NextFrame) = IF IsActive(l, NextFrame) THEN "active" ELSE "inactive"
    BY DEF PhaseName
  <2>5. Of(l).active = IsActive(l, NextFrame)
    BY <1>2
  <2>6. CASE IsActive(l, NextFrame)
    BY <2>2, <2>3, <2>4, <2>5, <2>6
  <2>7. CASE ~IsActive(l, NextFrame)
    BY <2>2, <2>3, <2>4, <2>5, <2>7
  <2> QED BY <2>6, <2>7
<1>5. \A l \in Primary : \A n : n = Of(l) => (Responds(n)' <=> InitialResponse(l, NextFrame))
  <2> SUFFICES ASSUME NEW l \in Primary, NEW n, n = Of(l)
               PROVE  Responds(n)' <=> InitialResponse(l, NextFrame)
    OBVIOUS
  <2>1. n.active => ActivationStart(n)' = Started(l, NextFrame)
    BY StartsKept
  <2>2. Responds(n)' <=> n.active /\ NextFrame - ActivationStart(n)' < ResponseWindow
    BY <1>2 DEF Responds
  <2>3. n.active <=> Started(l, NextFrame) # None
    BY <1>1, <1>2 DEF Started, Types, None
  <2> HIDE DEF Of
  <2> QED BY <2>1, <2>2, <2>3 DEF InitialResponse
<1>6. \A s \in AllSamples : Responds(s)' <=> Responds(s)
  <2> TAKE s \in AllSamples
  <2>1. PICK l \in Primary : s \in SamplesOf(l)
    BY DEF AllSamples
  <2>2. s.active => ActivationStart(s)' = ActivationStart(s)
    BY <2>1, StartsKept
  <2> QED BY <2>2 DEF Responds
<1>7. mine \subseteq Primary
  BY DEF InPhase
<1> HIDE DEF Of, mine
<1>8. Mine(p)' = Mine(p) \cup New(mine)
  <2>1. Mine(p)' = {s \in AllSamples' : s.active <=> p = "active"}
    BY DEF Mine
  <2> QED BY <1>3, <1>4, <1>7, <2>1 DEF Mine
<1>9. {s \in Mine(p)' : s.observed = {}}
        = {s \in Mine(p) : s.observed = {}} \cup New({l \in mine : seen[l] = {}})
  BY <1>2, <1>7, <1>8
<1>10. {s \in Mine(p)' : Expected(s.at) # {}}
         = {s \in Mine(p) : Expected(s.at) # {}} \cup New({l \in mine : TransportDue(NextFrame)})
  BY <1>2, <1>7, <1>8 DEF TransportDue
<1>11. {s \in Mine(p)' : Responds(s)'}
         = {s \in Mine(p) : Responds(s)} \cup New({l \in mine : InitialResponse(l, NextFrame)})
  <2>1. \A s \in Mine(p) : Responds(s)' <=> Responds(s)
    BY <1>6 DEF Mine
  <2>2. \A l \in mine : \A n : n = Of(l) => (Responds(n)' <=> InitialResponse(l, NextFrame))
    BY <1>5, <1>7
  <2> QED BY <1>8, <2>1, <2>2
<1> QED BY <1>8, <1>9, <1>10, <1>11 DEF Of, mine

\* One more frame is counted in both summaries as its samples are.
LEMMA CountsStep ==
  ASSUME SummaryInv, NEW seen \in Observation, AddFrame(seen)
  PROVE  IsFiniteSet(AllSamples') /\ PhasesSummarize'
<1>1. Types /\ Dated /\ NextFrame \in Nat /\ Primary' = Primary /\ IsFiniteSet(AllSamples)
  BY FrameStep DEF SummaryInv
<1>2. \A s \in AllSamples : s.at < NextFrame
  BY <1>1, OneSampleMore DEF AllSamples
<1>3. ASSUME NEW T \in SUBSET AllSamples, NEW L \in SUBSET Primary
      PROVE  LET N == {Sample(l, NextFrame, seen[l]) : l \in L}
             IN  IsFiniteSet(T \cup N) /\ Cardinality(T \cup N) = Cardinality(T) + Cardinality(L)
  <2>1. IsFiniteSet(T) /\ \A o \in T : o.at < NextFrame
    BY <1>1, <1>2, FS_Subset
  <2> QED BY <1>1, <2>1, CountMore
<1>4. IsFiniteSet(AllSamples')
  <2>1. AllSamples' = AllSamples \cup {Sample(l, NextFrame, seen[l]) : l \in Primary}
    <3>1. \A l \in Primary : SamplesOf(l)' = SamplesOf(l) \cup {Sample(l, NextFrame, seen[l])}
      BY <1>1, OneSampleMore
    <3>2. AllSamples' = UNION {SamplesOf(l)' : l \in Primary}
      BY <1>1 DEF AllSamples
    <3> QED BY <3>1, <3>2 DEF AllSamples
  <2> QED BY <1>3, <2>1
<1>5. ASSUME NEW p \in PhaseNames
      PROVE  /\ phases'[p].samples = Cardinality(Mine(p)')
             /\ observation_phases'[p].samples = Cardinality(Mine(p)')
             /\ observation_phases'[p].missing = Cardinality({s \in Mine(p)' : s.observed = {}})
             /\ phases'[p].transport = Cardinality({s \in Mine(p)' : Expected(s.at) # {}})
             /\ phases'[p].response = Cardinality({s \in Mine(p)' : Responds(s)'})
  <2> DEFINE mine == InPhase(p, NextFrame)
  <2>1. Mine(p) \in SUBSET AllSamples /\ mine \in SUBSET Primary
    BY DEF Mine, InPhase
  <2>2. /\ phases[p].samples = Cardinality(Mine(p))
        /\ observation_phases[p].samples = Cardinality(Mine(p))
        /\ observation_phases[p].missing = Cardinality({s \in Mine(p) : s.observed = {}})
        /\ phases[p].transport = Cardinality({s \in Mine(p) : Expected(s.at) # {}})
        /\ phases[p].response = Cardinality({s \in Mine(p) : Responds(s)})
    BY SummaryIs DEF SummaryInv
  <2>3. /\ phases'[p].samples = phases[p].samples + Cardinality(mine)
        /\ phases'[p].transport = phases[p].transport
             + Cardinality({l \in mine : TransportDue(NextFrame)})
        /\ phases'[p].response = phases[p].response
             + Cardinality({l \in mine : InitialResponse(l, NextFrame)})
    BY DEF AddFrame, AddPhase
  <2>4. /\ observation_phases'[p].samples = observation_phases[p].samples + Cardinality(mine)
        /\ observation_phases'[p].missing = observation_phases[p].missing
             + Cardinality({l \in mine : seen[l] = {}})
    BY DEF AddFrame, AddObservation
  <2> HIDE DEF mine
  <2>5. Cardinality(Mine(p)') = Cardinality(Mine(p)) + Cardinality(mine)
    <3>1. Mine(p)' = Mine(p) \cup {Sample(l, NextFrame, seen[l]) : l \in mine}
      BY PhaseGrows DEF mine
    <3> QED BY <1>3, <2>1, <3>1
  <2>6. Cardinality({s \in Mine(p)' : s.observed = {}})
          = Cardinality({s \in Mine(p) : s.observed = {}}) + Cardinality({l \in mine : seen[l] = {}})
    <3> DEFINE T == {s \in Mine(p) : s.observed = {}}
               L == {l \in mine : seen[l] = {}}
    <3>1. {s \in Mine(p)' : s.observed = {}} = T \cup {Sample(l, NextFrame, seen[l]) : l \in L}
      BY PhaseGrows DEF mine
    <3>2. T \in SUBSET AllSamples /\ L \in SUBSET Primary
      BY <2>1
    <3> HIDE DEF T, L
    <3>3. Cardinality(T \cup {Sample(l, NextFrame, seen[l]) : l \in L}) = Cardinality(T) + Cardinality(L)
      BY <1>3, <3>2
    <3> QED BY <3>1, <3>3 DEF T, L
  <2>7. Cardinality({s \in Mine(p)' : Expected(s.at) # {}})
          = Cardinality({s \in Mine(p) : Expected(s.at) # {}})
              + Cardinality({l \in mine : TransportDue(NextFrame)})
    <3> DEFINE T == {s \in Mine(p) : Expected(s.at) # {}}
               L == {l \in mine : TransportDue(NextFrame)}
    <3>1. {s \in Mine(p)' : Expected(s.at) # {}} = T \cup {Sample(l, NextFrame, seen[l]) : l \in L}
      BY PhaseGrows DEF mine
    <3>2. T \in SUBSET AllSamples /\ L \in SUBSET Primary
      BY <2>1
    <3> HIDE DEF T, L
    <3>3. Cardinality(T \cup {Sample(l, NextFrame, seen[l]) : l \in L}) = Cardinality(T) + Cardinality(L)
      BY <1>3, <3>2
    <3> QED BY <3>1, <3>3 DEF T, L
  <2>8. Cardinality({s \in Mine(p)' : Responds(s)'})
          = Cardinality({s \in Mine(p) : Responds(s)})
              + Cardinality({l \in mine : InitialResponse(l, NextFrame)})
    <3> DEFINE T == {s \in Mine(p) : Responds(s)}
               L == {l \in mine : InitialResponse(l, NextFrame)}
    <3>1. {s \in Mine(p)' : Responds(s)'} = T \cup {Sample(l, NextFrame, seen[l]) : l \in L}
      BY PhaseGrows DEF mine
    <3>2. T \in SUBSET AllSamples /\ L \in SUBSET Primary
      BY <2>1
    <3> HIDE DEF T, L
    <3>3. Cardinality(T \cup {Sample(l, NextFrame, seen[l]) : l \in L}) = Cardinality(T) + Cardinality(L)
      BY <1>3, <3>2
    <3> QED BY <3>1, <3>3 DEF T, L
  <2> QED BY <2>2, <2>3, <2>4, <2>5, <2>6, <2>7, <2>8
<1>6. PhasesSummarize'
  BY <1>5 DEF PhasesSummarize, Mine, Responds, AllSamples
<1> QED BY <1>4, <1>6

LEMMA SummaryFrame ==
  ASSUME SummaryInv, NEW seen \in Observation, AddFrame(seen)
  PROVE  SummaryInv'
<1>1. Types /\ Dated /\ Types' /\ Primary' = Primary
  BY FrameStep DEF SummaryInv
<1>2. Dated'
  BY <1>1, DatedStep
<1>3. IsFiniteSet(AllSamples') /\ PhasesSummarize'
  BY CountsStep
<1>4. ASSUME NEW l \in Primary PROVE \E f : Activation(SamplesOf(l)', active_started_at'[l], f)
  BY NextSample
<1>5. Activations'
  BY <1>1, <1>4 DEF Activations, Activation, SamplesOf
<1>6. ASSUME NEW l \in Primary, NEW s \in SamplesOf(l)', s.active
      PROVE  \E a, e : StartsAfter(SamplesOf(l)', s, a, e)
  <2>1. s \in SamplesOf(l) \/ s = Sample(l, NextFrame, seen[l])
    BY <1>1, <1>6, OneSampleMore
  <2>2. CASE s \in SamplesOf(l)
    <3>1. \E a, e : StartsAfter(SamplesOf(l), s, a, e) /\ StartsAfter(SamplesOf(l)', s, a, e)
      BY <1>6, <2>2, NextSample
    <3> QED BY <3>1
  <2>3. CASE s = Sample(l, NextFrame, seen[l])
    <3>1. \E e : StartsAfter(SamplesOf(l)', s, active_started_at'[l], e)
      BY <1>6, <2>3, NextSample
    <3> QED BY <3>1
  <2> QED BY <2>1, <2>2, <2>3
<1>7. Belonging'
  BY <1>1, <1>6 DEF Belonging, StartsAfter, SamplesOf
<1> QED BY <1>1, <1>2, <1>3, <1>5, <1>7 DEF SummaryInv, AllSamples, SamplesOf

LEMMA SummaryInit == ASSUME Init PROVE SummaryInv
<1>1. Types /\ Dated
  BY CausalInit DEF CausalInv
<1>2. \A l \in Primary : SamplesOf(l) = {}
  BY SamplesOfIs DEF Init, Recorded
<1>3. AllSamples = {} /\ IsFiniteSet(AllSamples)
  <2>1. AllSamples = {}
    BY <1>2 DEF AllSamples
  <2> QED BY <2>1, FS_EmptySet
<1>4. Activations
  <2>1. \A l \in Primary : active_started_at[l] = None
    BY DEF Init
  <2>2. \A l \in Primary : Activation(SamplesOf(l), active_started_at[l], None)
    BY <1>2, <2>1 DEF Activation
  <2> QED BY <2>2 DEF Activations
<1>5. Belonging
  BY <1>2 DEF Belonging
<1>6. PhasesSummarize
  <2> SUFFICES ASSUME NEW p \in PhaseNames
               PROVE  /\ phases[p].samples = Cardinality(Mine(p))
                      /\ observation_phases[p].samples = Cardinality(Mine(p))
                      /\ observation_phases[p].missing = Cardinality({s \in Mine(p) : s.observed = {}})
                      /\ phases[p].transport = Cardinality({s \in Mine(p) : Expected(s.at) # {}})
                      /\ phases[p].response = Cardinality({s \in Mine(p) : Responds(s)})
    BY SummaryIs
  <2>1. Mine(p) = {}
    BY <1>3 DEF Mine
  <2>2. /\ {s \in Mine(p) : s.observed = {}} = {} /\ {s \in Mine(p) : Expected(s.at) # {}} = {}
        /\ {s \in Mine(p) : Responds(s)} = {}
    BY <2>1
  <2>3. /\ phases[p].samples = 0 /\ phases[p].transport = 0 /\ phases[p].response = 0
        /\ observation_phases[p].samples = 0 /\ observation_phases[p].missing = 0
    BY DEF Init
  <2>4. Cardinality({}) = 0
    BY FS_EmptySet
  <2> QED BY <2>1, <2>2, <2>3, <2>4
<1> QED BY <1>1, <1>3, <1>4, <1>5, <1>6 DEF SummaryInv

LEMMA SummaryStutter ==
  ASSUME SummaryInv, UNCHANGED vars
  PROVE  SummaryInv'
<1>1. /\ scenario' = scenario /\ elapsed' = elapsed /\ active_started_at' = active_started_at
      /\ prior_observed' = prior_observed /\ prior_observed_at' = prior_observed_at
      /\ previous_mode' = previous_mode /\ frame_samples' = frame_samples
      /\ phases' = phases /\ observation_phases' = observation_phases
  BY DEF vars, carried
<1>2. Primary' = Primary /\ Recorded' = Recorded /\ \A l : SamplesOf(l)' = SamplesOf(l)
  BY <1>1 DEF Primary, Recorded, SamplesOf
<1>3. AllSamples' = AllSamples
  BY <1>2 DEF AllSamples
<1>4. Types'
  BY <1>1, <1>2 DEF SummaryInv, Types, CarriedTypes
<1>5. Dated'
  BY <1>1, <1>2 DEF SummaryInv, Dated
<1>6. Activations'
  BY <1>1, <1>2 DEF SummaryInv, Activations
<1>7. Belonging'
  BY <1>2 DEF SummaryInv, Belonging
<1>8. \A s : ActivationStart(s)' = ActivationStart(s)
  BY <1>2 DEF ActivationStart
<1>9. PhasesSummarize'
  <2>1. ASSUME NEW p \in PhaseNames
        PROVE  /\ phases'[p].samples = Cardinality(Mine(p)')
               /\ observation_phases'[p].samples = Cardinality(Mine(p)')
               /\ observation_phases'[p].missing = Cardinality({s \in Mine(p)' : s.observed = {}})
               /\ phases'[p].transport = Cardinality({s \in Mine(p)' : Expected(s.at) # {}})
               /\ phases'[p].response = Cardinality({s \in Mine(p)' : Responds(s)'})
    <3>1. Mine(p)' = Mine(p)
      BY <1>3 DEF Mine
    <3>2. {s \in Mine(p)' : Responds(s)'} = {s \in Mine(p) : Responds(s)}
      BY <1>8, <3>1 DEF Responds
    <3>3. /\ phases[p].samples = Cardinality(Mine(p))
          /\ observation_phases[p].samples = Cardinality(Mine(p))
          /\ observation_phases[p].missing = Cardinality({s \in Mine(p) : s.observed = {}})
          /\ phases[p].transport = Cardinality({s \in Mine(p) : Expected(s.at) # {}})
          /\ phases[p].response = Cardinality({s \in Mine(p) : Responds(s)})
      BY SummaryIs DEF SummaryInv
    <3> QED BY <1>1, <3>1, <3>2, <3>3
  <2> QED BY <2>1 DEF PhasesSummarize, Mine, Responds, AllSamples
<1> QED BY <1>3, <1>4, <1>5, <1>6, <1>7, <1>9 DEF SummaryInv

LEMMA SummaryStep == SummaryInv /\ [Next]_vars => SummaryInv'
<1>1. ASSUME SummaryInv, EvaluateFrame PROVE SummaryInv'
  BY <1>1, FrameIs, SummaryFrame
<1> QED BY <1>1, SummaryStutter DEF Next

\* The summaries count what they should (PhasesSummarize): for every set of loops and
\* windows, a phase's summary has exactly the frames of the phase, and its initial
\* response those within the window after the start of their own activation.
THEOREM SummariesCount == Spec => []PhasesSummarize
<1>1. Init => SummaryInv
  BY SummaryInit
<1>2. SummaryInv => PhasesSummarize
  BY DEF SummaryInv
<1> QED BY <1>1, <1>2, SummaryStep, PTL DEF Spec

-----------------------------------------------------------------------------
\* Transitions.

\* The transitions of the primary loops up to an instant.
Changes(T) == {e \in Primary \X (1..T) : Injected(e[1], e[2]) # Injected(e[1], e[2] - 1)}

TransitionInv == elapsed \in Nat /\ transitions = Cardinality(Changes(elapsed))

LEMMA TransitionInit == ASSUME Init PROVE TransitionInv
<1>1. elapsed = 0 /\ transitions = 0
  BY DEF Init
<1>2. Changes(elapsed) = {}
  BY <1>1 DEF Changes
<1> QED BY <1>1, <1>2, FS_EmptySet DEF TransitionInv

LEMMA TransitionStep == TransitionInv /\ [Next]_vars => TransitionInv'
<1>1. ASSUME TransitionInv, EvaluateFrame PROVE TransitionInv'
  <2>1. PICK t \in Nat : /\ t = elapsed + Frame /\ t > elapsed /\ elapsed' = t
                         /\ transitions' = transitions + TruthEvents(elapsed, t)
                         /\ scenario' = scenario
    BY <1>1, EvaluationAssumption DEF EvaluateFrame, TransitionInv
  <2> DEFINE old == Changes(elapsed)
             new == {e \in Primary \X ((elapsed + 1)..t) : Injected(e[1], e[2]) # Injected(e[1], e[2] - 1)}
  <2>2. elapsed \in Nat /\ transitions = Cardinality(old) /\ TruthEvents(elapsed, t) = Cardinality(new)
    BY <1>1 DEF TransitionInv, TruthEvents
  <2>3. Changes(t) = old \cup new
    <3>1. 1..t = (1..elapsed) \cup ((elapsed + 1)..t)
      BY <2>1, <2>2
    <3>2. Primary \X (1..t) = (Primary \X (1..elapsed)) \cup (Primary \X ((elapsed + 1)..t))
      BY <3>1
    <3> QED BY <3>2 DEF Changes
  <2>4. old \cap new = {}
    <3>1. \A e \in old : e[2] \in 1..elapsed
      BY DEF Changes
    <3>2. \A e \in new : e[2] \in (elapsed + 1)..t
      OBVIOUS
    <3>3. ~\E u : u \in 1..elapsed /\ u \in (elapsed + 1)..t
      BY <2>1, <2>2
    <3> QED BY <3>1, <3>2, <3>3
  <2>5. IsFiniteSet(old) /\ IsFiniteSet(new)
    <3>1. IsFiniteSet(1..elapsed) /\ IsFiniteSet((elapsed + 1)..t)
      BY <2>1, <2>2, FS_Interval
    <3>2. IsFiniteSet(Primary \X (1..elapsed)) /\ IsFiniteSet(Primary \X ((elapsed + 1)..t))
      BY <3>1, PrimaryLoops, FS_Product
    <3>3. old \subseteq Primary \X (1..elapsed) /\ new \subseteq Primary \X ((elapsed + 1)..t)
      BY DEF Changes
    <3> QED BY <3>2, <3>3, FS_Subset
  <2> HIDE DEF old, new
  <2>6. Cardinality(old \cup new) = Cardinality(old) + Cardinality(new)
    <3>1. Cardinality(old \cap new) = 0
      BY <2>4, FS_EmptySet
    <3>2. Cardinality(old) \in Nat /\ Cardinality(new) \in Nat
      BY <2>5, FS_CardinalityType
    <3>3. Cardinality(old \cup new) = Cardinality(old) + Cardinality(new) - Cardinality(old \cap new)
      BY <2>5, FS_Union
    <3> QED BY <3>1, <3>2, <3>3
  <2>7. Changes(elapsed)' = Changes(t)
    BY <2>1 DEF Changes, Primary, Injected, LoadChange, ScenarioActive
  <2>8. transitions' = Cardinality(Changes(t)) /\ elapsed' \in Nat
    BY <2>1, <2>2, <2>3, <2>6
  <2> QED BY <2>7, <2>8 DEF TransitionInv
<1>2. ASSUME TransitionInv, UNCHANGED vars PROVE TransitionInv'
  <2>1. scenario' = scenario /\ elapsed' = elapsed /\ transitions' = transitions
    BY <1>2 DEF vars
  <2>2. Changes(elapsed)' = Changes(elapsed)
    BY <2>1 DEF Changes, Primary, Injected, LoadChange, ScenarioActive
  <2> QED BY <1>2, <2>1, <2>2 DEF TransitionInv
<1> QED BY <1>1, <1>2 DEF Next

\* A window of the cycle is entered once and left once, its end included.
LEMMA WindowEdges ==
  ASSUME NEW c \in Nat \ {0}, NEW on \in 1..c, NEW off \in 1..c, on < off, NEW u \in 1..c
  PROVE  ~((on <= u % c /\ u % c < off) <=> (on <= (u - 1) % c /\ (u - 1) % c < off))
           <=> u = on \/ u = off
<1>1. (u - 1) % c = u - 1
  OBVIOUS
<1>2. CASE u < c
  <2>1. u % c = u
    BY <1>2
  <2> QED BY <1>1, <2>1
<1>3. CASE u = c
  <2>1. u % c = 0
    BY <1>3
  <2> QED BY <1>1, <1>3, <2>1
<1> QED BY <1>2, <1>3

\* The pairs of a set with the values of a function on it.
LEMMA GraphCount ==
  ASSUME NEW S, IsFiniteSet(S), NEW f
  PROVE  LET g == {<<x, f[x]>> : x \in S} IN IsFiniteSet(g) /\ Cardinality(g) = Cardinality(S)
<1> DEFINE g == {<<x, f[x]>> : x \in S}
           h == [x \in S |-> <<x, f[x]>>]
<1>1. h \in Injection(S, g) /\ h \in Surjection(S, g)
  BY DEF Injection, IsInjective, Surjection
<1>2. ExistsBijection(S, g)
  BY <1>1 DEF ExistsBijection, Bijection
<1> HIDE DEF g
<1>3. IsFiniteSet(g) /\ Cardinality(g) = Cardinality(S)
  BY <1>2, FS_Bijection
<1> QED BY <1>3 DEF g

\* The ends of the window in which a loop is injected.
WindowFrom == [l \in Primary |-> IF scenario = "normal.load_change" THEN LoadWindow.from ELSE Onset[l]]
WindowTo == [l \in Primary |-> IF scenario = "normal.load_change" THEN LoadWindow.to ELSE End[l]]

LEMMA CycleChanges ==
  ASSUME scenario # "normal.steady"
  PROVE  Cardinality(Changes(Cycle)) = 2 * Cardinality(Primary)
<1> DEFINE ons == {<<l, WindowFrom[l]>> : l \in Primary}
           offs == {<<l, WindowTo[l]>> : l \in Primary}
<1>1. ASSUME NEW l \in Primary
      PROVE  WindowFrom[l] \in 1..Cycle /\ WindowTo[l] \in 1..Cycle /\ WindowFrom[l] < WindowTo[l]
  BY PrimaryLoops, EvaluationAssumption DEF WindowFrom, WindowTo
<1>2. ASSUME NEW l \in Primary, NEW t
      PROVE  Injected(l, t) = (WindowFrom[l] <= t % Cycle /\ t % Cycle < WindowTo[l])
  BY DEF Injected, LoadChange, ScenarioActive, WindowFrom, WindowTo, Primary
<1>3. ASSUME NEW l \in Primary, NEW u \in 1..Cycle
      PROVE  Injected(l, u) # Injected(l, u - 1) <=> u = WindowFrom[l] \/ u = WindowTo[l]
  <2>1. Cycle \in Nat \ {0}
    BY EvaluationAssumption
  <2>2. ~((WindowFrom[l] <= u % Cycle /\ u % Cycle < WindowTo[l])
            <=> (WindowFrom[l] <= (u - 1) % Cycle /\ (u - 1) % Cycle < WindowTo[l]))
          <=> u = WindowFrom[l] \/ u = WindowTo[l]
    BY <1>1, <2>1, WindowEdges
  <2> QED BY <1>2, <2>2
<1>4. Changes(Cycle) = ons \cup offs
  BY <1>1, <1>3 DEF Changes
<1>5. ons \cap offs = {}
  BY <1>1
<1>6. /\ IsFiniteSet(ons) /\ Cardinality(ons) = Cardinality(Primary)
      /\ IsFiniteSet(offs) /\ Cardinality(offs) = Cardinality(Primary)
  BY PrimaryLoops, GraphCount
<1> HIDE DEF ons, offs
<1>7. Cardinality(ons \cup offs) = Cardinality(ons) + Cardinality(offs) - Cardinality(ons \cap offs)
  BY <1>6, FS_Union
<1>8. Cardinality(ons \cap offs) = 0
  BY <1>5, FS_EmptySet
<1> QED BY <1>4, <1>6, <1>7, <1>8, PrimaryLoops

\* A cycle has all its transitions (TransitionsComplete): for every set of loops,
\* frame and window, even one that falls between two frames.
THEOREM TransitionsAreCounted == Spec => []TransitionsComplete
<1>1. Init => TransitionInv
  BY TransitionInit
<1>2. TransitionInv => TransitionsComplete
  <2> SUFFICES ASSUME TransitionInv, elapsed = Cycle
               PROVE  transitions = IF scenario = "normal.steady" THEN 0 ELSE 2 * Cardinality(Primary)
    BY DEF TransitionsComplete
  <2>1. transitions = Cardinality(Changes(Cycle))
    BY DEF TransitionInv
  <2>2. CASE scenario = "normal.steady"
    <3>1. Changes(Cycle) = {}
      BY <2>2 DEF Changes, Injected, ScenarioActive
    <3> QED BY <2>1, <2>2, <3>1, FS_EmptySet
  <2>3. CASE scenario # "normal.steady"
    BY <2>1, <2>3, CycleChanges
  <2> QED BY <2>2, <2>3
<1> QED BY <1>1, <1>2, TransitionStep, PTL DEF Spec
-----------------------------------------------------------------------------
\* Type correctness: no time is outside the cycle.

\* A cycle of whole frames that has not ended has room for the next one.
LEMMA FrameLeft ==
  ASSUME NEW n \in Nat, NEW s \in Nat \ {0}, NEW d \in Nat, d % s = 0, n * s < d
  PROVE  (n + 1) * s <= d
<1>1. d = s * (d \div s) /\ d \div s \in Nat
  OBVIOUS
<1> DEFINE q == d \div s
<1>2. q \in Nat /\ d = s * q
  BY <1>1
<1> HIDE DEF q
<1>3. n < q
  <2> SUFFICES ASSUME q <= n PROVE FALSE
    BY <1>2
  <2>1. PICK m \in Nat : n = q + m
    BY <1>2
  <2>2. n * s = s * q + m * s /\ m * s \in Nat
    BY <1>2, <2>1
  <2> QED BY <1>2, <2>2
<1>4. PICK m \in Nat : q = n + 1 + m
  BY <1>2, <1>3
<1>5. s * q = (n + 1) * s + m * s /\ m * s \in Nat
  BY <1>2, <1>4
<1> QED BY <1>2, <1>5

Moment == 0..elapsed

Dates == [Suffix -> Moment \cup {None}]

Counts ==
  /\ phases \in [PhaseNames -> [samples : Nat, transport : Nat, response : Nat]]
  /\ observation_phases \in [PhaseNames -> [samples : Nat, missing : Nat]]

\* Frames end with the cycle, and nothing is dated after the last of them.
WithinCycle ==
  /\ Types /\ scenario \in Scenarios /\ transitions \in Nat /\ Counts
  /\ elapsed <= Cycle /\ \E n \in Nat : elapsed = n * Frame
  /\ \A l \in Primary : active_started_at[l] \in Moment \cup {None}
  /\ \A l \in Primary : \A c \in Suffix : LastAt(l, c) \in Moment \cup {None}
  /\ \A s \in Recorded : s.regularized \in Dates

LEMMA WithinInit == ASSUME Init PROVE WithinCycle
<1>1. Types
  BY CausalInit DEF CausalInv
<1>2. Recorded = {}
  BY DEF Init, Recorded
<1>3. \A l \in Primary : \A c \in Suffix : LastAt(l, c) = None
  BY DEF Init, LastAt, Suffix
<1>4. \A l \in Primary : active_started_at[l] = None
  BY DEF Init
<1>5. elapsed <= Cycle /\ elapsed = 0 * Frame /\ transitions \in Nat /\ scenario \in Scenarios
  BY EvaluationAssumption DEF Init
<1>6. Counts
  BY DEF Init, Counts
<1> QED BY <1>1, <1>2, <1>3, <1>4, <1>5, <1>6 DEF WithinCycle

LEMMA PrimarySubsets ==
  ASSUME NEW L \in SUBSET Primary
  PROVE  Cardinality(L) \in Nat
BY PrimaryLoops, FS_Subset, FS_CardinalityType

LEMMA CountsGrow ==
  ASSUME Counts, NEW seen, AddFrame(seen)
  PROVE  Counts'
<1>1. ASSUME NEW p \in PhaseNames
      PROVE  AddPhase(p, NextFrame) \in [samples : Nat, transport : Nat, response : Nat]
  <2>1. /\ Cardinality(InPhase(p, NextFrame)) \in Nat
        /\ Cardinality({l \in InPhase(p, NextFrame) : TransportDue(NextFrame)}) \in Nat
        /\ Cardinality({l \in InPhase(p, NextFrame) : InitialResponse(l, NextFrame)}) \in Nat
    <3>1. \A L \in SUBSET Primary : Cardinality(L) \in Nat
      BY PrimarySubsets
    <3>2. InPhase(p, NextFrame) \in SUBSET Primary
      BY DEF InPhase
    <3> QED BY <3>1, <3>2
  <2>2. phases[p] \in [samples : Nat, transport : Nat, response : Nat]
    BY DEF Counts
  <2> QED BY <2>1, <2>2 DEF AddPhase
<1>2. ASSUME NEW p \in PhaseNames
      PROVE  AddObservation(p, NextFrame, seen) \in [samples : Nat, missing : Nat]
  <2>1. /\ Cardinality(InPhase(p, NextFrame)) \in Nat
        /\ Cardinality({l \in InPhase(p, NextFrame) : seen[l] = {}}) \in Nat
    <3>1. \A L \in SUBSET Primary : Cardinality(L) \in Nat
      BY PrimarySubsets
    <3>2. InPhase(p, NextFrame) \in SUBSET Primary
      BY DEF InPhase
    <3> QED BY <3>1, <3>2
  <2>2. observation_phases[p] \in [samples : Nat, missing : Nat]
    BY DEF Counts
  <2> QED BY <2>1, <2>2 DEF AddObservation
<1> QED BY <1>1, <1>2 DEF AddFrame, Counts

LEMMA EventsAreCounted ==
  ASSUME NEW from \in Nat, NEW to \in Nat
  PROVE  TruthEvents(from, to) \in Nat
<1> DEFINE all == Primary \X ((from + 1)..to)
<1>1. IsFiniteSet(all)
  <2>1. IsFiniteSet((from + 1)..to)
    BY FS_Interval
  <2> QED BY <2>1, PrimaryLoops, FS_Product
<1>2. \A L \in SUBSET all : Cardinality(L) \in Nat
  BY <1>1, FS_Subset, FS_CardinalityType
<1> QED BY <1>2 DEF TruthEvents

LEMMA WithinFrame ==
  ASSUME WithinCycle, FramesLeft, NEW seen \in Observation, AddFrame(seen), UNCHANGED scenario
  PROVE  WithinCycle'
<1>1. /\ NextFrame \in Nat /\ elapsed \in Nat /\ elapsed < NextFrame /\ elapsed' = NextFrame
      /\ Primary' = Primary /\ Types /\ Types'
      /\ Recorded' = Recorded \cup NewSamples(seen)
      /\ \A l \in Primary : \A c \in Suffix :
           LastAt(l, c)' = IF c \in seen[l] THEN NextFrame ELSE LastAt(l, c)
  BY FrameStep DEF WithinCycle
<1>2. Moment' = 0..NextFrame /\ Moment \subseteq Moment' /\ NextFrame \in Moment'
  BY <1>1 DEF Moment
<1>3. NextFrame <= Cycle /\ \E n \in Nat : NextFrame = n * Frame
  <2>1. PICK n \in Nat : elapsed = n * Frame
    BY DEF WithinCycle
  <2>2. Frame \in Nat \ {0} /\ Cycle \in Nat /\ Cycle % Frame = 0 /\ n * Frame < Cycle
    BY <2>1, EvaluationAssumption DEF FramesLeft
  <2>3. (n + 1) * Frame = n * Frame + Frame
    BY <2>2
  <2>4. (n + 1) * Frame <= Cycle
    BY <2>2, FrameLeft
  <2> QED BY <2>1, <2>3, <2>4 DEF NextFrame
<1>4. transitions' \in Nat
  <2>1. TruthEvents(elapsed, NextFrame) \in Nat
    BY <1>1, EventsAreCounted
  <2>2. transitions \in Nat /\ transitions' = transitions + TruthEvents(elapsed, NextFrame)
    BY DEF AddFrame, WithinCycle
  <2> QED BY <2>1, <2>2
<1>5. ASSUME NEW l \in Primary PROVE active_started_at'[l] \in Moment' \cup {None}
  <2>1. active_started_at'[l] \in {None, NextFrame, active_started_at[l]}
    BY DEF AddFrame, Started
  <2> QED BY <1>2, <2>1 DEF WithinCycle
<1>6. ASSUME NEW l \in Primary, NEW c \in Suffix PROVE LastAt(l, c)' \in Moment' \cup {None}
  <2>1. LastAt(l, c) \in Moment \cup {None}
    BY DEF WithinCycle
  <2>2. LastAt(l, c)' \in {NextFrame, LastAt(l, c)}
    BY <1>1
  <2> QED BY <1>2, <2>1, <2>2
<1>7. ASSUME NEW l \in Primary PROVE Sample(l, NextFrame, seen[l]).regularized \in Dates'
  <2>1. seen[l] \in SUBSET Suffix
    BY DEF Observation
  <2>2. \A c \in Suffix : Regularized(l, NextFrame, seen[l])[c] \in {NextFrame, LastAt(l, c), None}
    BY <1>1, <2>1, RegularizedIs
  <2>3. \A c \in Suffix : Regularized(l, NextFrame, seen[l])[c] \in Moment' \cup {None}
    BY <1>2, <2>2 DEF WithinCycle
  <2>4. Sample(l, NextFrame, seen[l]).regularized = Regularized(l, NextFrame, seen[l])
    BY <1>1, <2>1, SampleIs
  <2> QED BY <2>3, <2>4 DEF Regularized, Dates
<1>8. \A s \in Recorded' : s.regularized \in Dates'
  <2>1. \A s \in NewSamples(seen) : s.regularized \in Dates'
    BY <1>7 DEF NewSamples
  <2>2. Dates \subseteq Dates'
    BY <1>2 DEF Dates
  <2> QED BY <1>1, <2>1, <2>2 DEF WithinCycle
<1>9. Counts'
  BY CountsGrow DEF WithinCycle
<1> QED BY <1>1, <1>3, <1>4, <1>5, <1>6, <1>8, <1>9 DEF WithinCycle

LEMMA WithinStep == WithinCycle /\ [Next]_vars => WithinCycle'
<1>1. ASSUME WithinCycle, EvaluateFrame PROVE WithinCycle'
  <2>1. FramesLeft /\ UNCHANGED scenario
    BY <1>1 DEF EvaluateFrame
  <2> QED BY <1>1, <2>1, FrameIs, WithinFrame
<1>2. ASSUME WithinCycle, UNCHANGED vars PROVE WithinCycle'
  <2>1. /\ scenario' = scenario /\ elapsed' = elapsed /\ active_started_at' = active_started_at
        /\ prior_observed' = prior_observed /\ prior_observed_at' = prior_observed_at
        /\ previous_mode' = previous_mode /\ frame_samples' = frame_samples
        /\ transitions' = transitions
        /\ phases' = phases /\ observation_phases' = observation_phases
    BY <1>2 DEF vars, carried
  <2>2. Primary' = Primary /\ Recorded' = Recorded /\ Moment' = Moment /\ Dates' = Dates
    BY <2>1 DEF Primary, Recorded, Moment, Dates
  <2>3. Types'
    BY <1>2, <2>1, <2>2 DEF WithinCycle, Types, CarriedTypes
  <2> QED BY <1>2, <2>1, <2>2, <2>3 DEF WithinCycle, Counts, LastAt
<1> QED BY <1>1, <1>2 DEF Next

\* The evaluation ends with the cycle: whatever is observed, every activation, carried
\* value and sample is dated within it, or not at all.
THEOREM EvaluationTypes == Spec => []TypeOK
<1>1. ASSUME WithinCycle PROVE TypeOK
  <2>1. elapsed \in Time /\ Moment \subseteq Time
    BY <1>1, EvaluationAssumption DEF WithinCycle, Types, Moment, Time
  <2>2. active_started_at \in [Primary -> Time \cup {None}]
    BY <1>1, <2>1 DEF WithinCycle, Types
  <2>3. /\ prior_observed_at \in [Primary -> [Numeric -> Time \cup {None}]]
        /\ prior_observed \in [Primary -> [Numeric -> Time \cup {None}]]
    <3>1. /\ prior_observed_at \in [Primary -> [Numeric -> Nat \cup {None}]]
          /\ prior_observed = prior_observed_at
      BY <1>1 DEF WithinCycle, Types, CarriedTypes
    <3>2. \A l \in Primary : \A c \in Numeric : prior_observed_at[l][c] \in Time \cup {None}
      <4>1. \A c \in Numeric : c \in Suffix /\ c # "MODE"
        BY EvaluationAssumption DEF Suffix
      <4> QED BY <1>1, <2>1, <4>1 DEF WithinCycle, LastAt
    <3> QED BY <3>1, <3>2
  <2>4. previous_mode \in [Primary -> [value : Time \cup {None}, at : Time \cup {None}]]
    <3>1. /\ previous_mode \in [Primary -> [value : Nat \cup {None}, at : Nat \cup {None}]]
          /\ \A l \in Primary : previous_mode[l].value = previous_mode[l].at
      BY <1>1 DEF WithinCycle, Types, CarriedTypes
    <3>2. \A l \in Primary : previous_mode[l].at \in Time \cup {None}
      <4>1. "MODE" \in Suffix
        BY DEF Suffix
      <4> QED BY <1>1, <2>1, <4>1 DEF WithinCycle, LastAt
    <3> QED BY <3>1, <3>2
  <2>5. \A i \in DOMAIN frame_samples : frame_samples[i].regularized \in [Suffix -> Time \cup {None}]
    <3>1. Dates \subseteq [Suffix -> Time \cup {None}]
      BY <2>1 DEF Dates
    <3> QED BY <1>1, <3>1 DEF WithinCycle, Recorded
  <2> QED BY <1>1, <2>1, <2>2, <2>3, <2>4, <2>5 DEF WithinCycle, TypeOK, Counts
<1>2. Init => WithinCycle
  BY WithinInit
<1> QED BY <1>1, <1>2, WithinStep, PTL DEF Spec
=============================================================================
