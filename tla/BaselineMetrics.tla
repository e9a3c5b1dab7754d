---------------------------- MODULE BaselineMetrics ----------------------------
(***************************************************************************)
(* The frame baseline's scores (experiments.py): onset detection with      *)
(* persistence (_temporal_detection_metrics), false alarms, and the        *)
(* ranking of loops at each instant (_localization_metrics).               *)
(*                                                                         *)
(* The code computes them at the end of a study from the whole list of     *)
(* records.  The model gives the list a frame at a time and compares the   *)
(* code's result on every prefix with an online detector that sees each    *)
(* frame once and keeps a few counters.                                    *)
(***************************************************************************)
EXTENDS Integers, Sequences, FiniteSets, FiniteSetsExt, SequencesExt, Subsequences

CONSTANTS
  Loops,        \* number of loops, which are numbered in the order of their names
  Scores,       \* values of the active score
  Persistence,  \* DETECTION_PERSISTENCE_FRAMES
  TopK,         \* LOCALIZATION_K
  MaxFrames     \* bound: frames of a study

Loop == 1..Loops

ASSUME MetricsAssumption ==
  /\ Loops \in Nat \ {0}
  /\ Scores \subseteq Int
  /\ Persistence \in Nat \ {0} /\ TopK \in Nat \ {0} /\ MaxFrames \in Nat

VARIABLES
  records,  \* the study's records: [loop, at, active, score]
  run,      \* online: per loop, active predictions in a row in this activation
  onset,    \* online: time of the onset waiting for its detection, -1 for none
  was,      \* online: the loop was active in the last frame
  onsets,   \* online: onsets seen
  found     \* online: detected onsets with their delay

online == <<run, onset, was, onsets, found>>
metricsVars == <<records, online>>

-----------------------------------------------------------------------------
\* The label of the nearer centroid; at equal distance the first label, "active".
Predicted(r) == r.score >= 0

\* The records of one group, in time order.
Group(l) == Filter(records, LAMBDA r : r.loop = l)

\* Indices of the frames at which a loop becomes active; the first frame is none.
OnsetsOf(s) == {i \in 2..Len(s) : s[i].active /\ ~s[i - 1].active}

\* Mutant: confirmation may use predictions from before the onset.
FirstConfirmationEarly(i) == i

\* The first frame whose last Persistence predictions lie in the activation.
FirstConfirmation(i) == i + Persistence - 1

\* Frames at which onset i is confirmed: in its activation, after active predictions.
Confirmations(s, i) ==
  {j \in FirstConfirmation(i)..Len(s) :
     /\ \A k \in i..j : s[k].active
     /\ \A k \in (j - Persistence + 1)..j : k \in DOMAIN s /\ Predicted(s[k])}

\* Mutant: the last confirmation of an activation counts.
LastConfirmation(s, i) == Max(Confirmations(s, i))

Confirmation(s, i) == Min(Confirmations(s, i))

\* Detected onsets and their delays.
Delays(l) ==
  LET s == Group(l) IN
    {[loop |-> l, onset |-> s[i].at, delay |-> s[Confirmation(s, i)].at - s[i].at] :
       i \in {o \in OnsetsOf(s) : Confirmations(s, o) # {}}}

-----------------------------------------------------------------------------
\* Candidates of one instant.
Candidates(t) == {records[i] : i \in {j \in DOMAIN records : records[j].at = t}}

\* Mutant: the lowest score ranks first.
BeforeAscending(r, o) == r.score < o.score \/ (r.score = o.score /\ r.loop < o.loop)

\* Descending score; the name breaks ties.
Before(r, o) == r.score > o.score \/ (r.score = o.score /\ r.loop < o.loop)

Ranked(candidates) == CHOOSE s \in SetToSeqs(candidates) : IsSorted(s, Before)

Relevant(s) == {i \in DOMAIN s : s[i].active}

\* The addends of precision_sum, found / rank: one per hit.
Precisions(s) ==
  {[loop |-> s[i].loop, found |-> Cardinality({k \in 1..i : s[k].active}), rank |-> i] :
     i \in Relevant(s)}

Selected(s) == SubSeq(s, 1, Min({TopK, Len(s)}))

\* precision_at_k and recall_at_k over Len(Selected) and the number of relevant loops.
SelectedRelevant(s) == Cardinality(Relevant(Selected(s)))

-----------------------------------------------------------------------------
MetricsInit ==
  /\ records = <<>>
  /\ run = [l \in Loop |-> 0] /\ onset = [l \in Loop |-> -1]
  /\ was = [l \in Loop |-> TRUE]
  /\ onsets = 0 /\ found = {}

\* The run of active predictions and the pending onset after a frame of l.
Begins(r) == r.active /\ ~was[r.loop]
RunAfter(r) ==
  IF ~r.active \/ ~Predicted(r) THEN 0
  ELSE IF Begins(r) THEN 1 ELSE run[r.loop] + 1
PendingAfter(r) == IF ~r.active THEN -1 ELSE IF Begins(r) THEN r.at ELSE onset[r.loop]
Detects(r) == PendingAfter(r) >= 0 /\ RunAfter(r) >= Persistence

\* Frames so far: each has a record of every loop, the last loop last.
Elapsed == IF records = <<>> THEN 0 ELSE records[Len(records)].at + 1

\* The records of one frame of the evaluated seed.
AddFrame(frame) ==
  /\ Elapsed < MaxFrames
  /\ records' = records \o frame
  /\ run' = [l \in Loop |-> RunAfter(frame[l])]
  /\ was' = [l \in Loop |-> frame[l].active]
  /\ onset' = [l \in Loop |-> IF Detects(frame[l]) THEN -1 ELSE PendingAfter(frame[l])]
  /\ onsets' = onsets + Cardinality({l \in Loop : Begins(frame[l])})
  /\ found' = found \cup {[loop |-> l, onset |-> PendingAfter(frame[l]),
                           delay |-> Elapsed - PendingAfter(frame[l])] :
                            l \in {d \in Loop : Detects(frame[d])}}

Frames ==
  {[l \in Loop |-> [loop |-> l, at |-> Elapsed, active |-> active[l], score |-> score[l]]] :
     active \in [Loop -> BOOLEAN], score \in [Loop -> Scores]}

MetricsNext == \E frame \in Frames : AddFrame(frame)

MetricsSpec == MetricsInit /\ [][MetricsNext]_metricsVars
-----------------------------------------------------------------------------
\* Properties.

TypeOK ==
  /\ \A i \in DOMAIN records :
       records[i] \in [loop : Loop, at : 0..MaxFrames, active : BOOLEAN, score : Scores]
  /\ run \in [Loop -> 0..MaxFrames] /\ onset \in [Loop -> -1..MaxFrames]
  /\ was \in [Loop -> BOOLEAN] /\ onsets \in Nat
  /\ found \cup UNION {Delays(l) : l \in Loop}
       \subseteq [loop : Loop, onset : 0..MaxFrames, delay : (Persistence - 1)..MaxFrames]

\* docs/scenario-validation.md:134: "an onset requires three consecutive active
\* predictions": the onsets, the detected ones and their delays are those of an
\* online detector that restarts its count at every onset and never looks ahead.
DetectionAgrees ==
  /\ UNION {Delays(l) : l \in Loop} = found
  /\ onsets = Cardinality(UNION {{l} \X OnsetsOf(Group(l)) : l \in Loop})

\* Average precision as it is defined: each relevant loop has the share of relevant
\* loops among those scored no worse, ties broken by name alone; and the first
\* TopK are those with fewer than TopK before them.
LocalizationAgrees ==
  \A i \in DOMAIN records :
    LET c == Candidates(records[i].at)
        top(r) == {o \in c : o.score > r.score \/ (o.score = r.score /\ o.loop <= r.loop)}
        s == Ranked(c)
    IN  /\ Precisions(s) =
             {[loop |-> r.loop, found |-> Cardinality({o \in top(r) : o.active}),
               rank |-> Cardinality(top(r))] : r \in {r \in c : r.active}}
        /\ SelectedRelevant(s) = Cardinality({r \in c : r.active /\ Cardinality(top(r)) <= TopK})

\* A frame added later neither withdraws nor changes a detection.
DetectionCausal ==
  [][UNION {Delays(l) : l \in Loop} \subseteq UNION {Delays(l)' : l \in Loop}]_metricsVars
=============================================================================
