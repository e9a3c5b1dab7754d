-------------------------- MODULE DatasetGeneration --------------------------
(***************************************************************************)
(* generate_dataset (dataset.py): an observation file, a hidden-truth file *)
(* and a manifest that links both by digest (contracts.py), written in     *)
(* place, one job after the other, by processes that may die anywhere.     *)
(*                                                                         *)
(* A file is the sequence of its rows, and a digest is the content it was  *)
(* taken from.  The streams are buffered: between open and close a file    *)
(* holds any prefix of what was written.  The simulator is deterministic   *)
(* in the seed and the frame length, which with its time name a row.       *)
(* Times are whole seconds; module FrameCount has the rounding of float    *)
(* sums.                                                                   *)
(***************************************************************************)
EXTENDS Integers, Sequences, FiniteSets, SequencesExt, Functions

CONSTANTS
  Seed, Duration, SampleSeconds,  \* the arguments a job chooses from
  Step,        \* integration_step_seconds
  DataPath,    \* observation files; each has a manifest beside it
  TruthPath,   \* hidden-truth files, which jobs may share
  Observed,    \* Observed[e]: signals with an observation at elapsed time e
  MaxRuns      \* bound: jobs started

Elapsed == DOMAIN Observed

ASSUME DatasetAssumption ==
  /\ Duration \subseteq Nat \ {0} /\ SampleSeconds \subseteq Nat \ {0}
  /\ Step \in Nat \ {0} /\ MaxRuns \in Nat
  /\ DataPath \cap TruthPath = {}
  /\ \A d \in Duration, f \in SampleSeconds : 0..(d + f) \subseteq Elapsed
  /\ \A e \in Elapsed : IsFiniteSet(Observed[e])

Job == [seed : Seed, duration : Duration, sample : SampleSeconds,
        data : DataPath, truth : TruthPath, linked : BOOLEAN]

VARIABLES
  file,      \* the rows each path holds on disk
  manifest,  \* manifest[p]: the readable manifest beside p, if any
  runs,      \* jobs started so far
  pc,        \* where the process is
  job,       \* its arguments; linked: a manifest is asked for
  elapsed,   \* simulated time
  written,   \* rows written to the two streams, flushed or not
  frames,    \* frame_count
  report     \* dataset_manifest

vars == <<file, manifest, runs, pc, job, elapsed, written, frames, report>>

PC == {"idle", "open_data", "open_truth", "frames", "close_data", "digest",
       "open_manifest", "write_manifest", "done"}

-----------------------------------------------------------------------------
\* Rows of one frame.  A frame always has a truth row.
DataRows(j, e) ==
  [i \in 1..Cardinality(Observed[e]) |->
     <<j.seed, j.sample, e, SetToSeq(Observed[e])[i]>>]
TruthRow(j, e) == <<j.seed, j.sample, e>>

\* The arguments generate_dataset accepts before it touches a file.
Divisible(j) == j.sample >= Step /\ j.sample % Step = 0 /\ j.duration % j.sample = 0

\* validate_dataset_manifest, as far as it constrains the generated manifest.
Accepted(r) == r.end = r.duration /\ r.frames >= 1 /\ r.sample % Step = 0

Init ==
  /\ file = [p \in DataPath \cup TruthPath |-> <<>>]
  /\ manifest = [p \in DataPath |-> {}]
  /\ runs = 0 /\ pc = "idle"
  /\ job \in Job
  /\ elapsed = 0 /\ written = [data |-> <<>>, truth |-> <<>>]
  /\ frames = 0 /\ report = {}

\* The process's memory is gone.
Forget ==
  /\ pc' = "idle"
  /\ elapsed' = 0 /\ written' = [data |-> <<>>, truth |-> <<>>]
  /\ frames' = 0 /\ report' = {}

-----------------------------------------------------------------------------
Begin(j) ==
  /\ pc = "idle" /\ runs < MaxRuns
  /\ runs' = runs + 1
  /\ job' = j
  /\ pc' = IF Divisible(j) THEN "open_data" ELSE "idle"
  /\ UNCHANGED <<file, manifest, elapsed, written, frames, report>>

\* Mutant: open(..., "a").
OpenAppending ==
  /\ pc = "open_data"
  /\ written' = [written EXCEPT !.data = file[job.data]]
  /\ pc' = "open_truth"
  /\ UNCHANGED <<file, manifest, runs, job, elapsed, frames, report>>

\* open(..., "w") truncates the file of an earlier job.
OpenData ==
  /\ pc = "open_data"
  /\ file' = [file EXCEPT ![job.data] = <<>>]
  /\ pc' = "open_truth"
  /\ UNCHANGED <<manifest, runs, job, elapsed, written, frames, report>>

OpenTruth ==
  /\ pc = "open_truth"
  /\ file' = [file EXCEPT ![job.truth] = <<>>]
  /\ pc' = "frames"
  /\ UNCHANGED <<manifest, runs, job, elapsed, written, frames, report>>

MoreFrames == elapsed < job.duration

WriteFrame ==
  /\ pc = "frames" /\ MoreFrames
  /\ elapsed' = elapsed + job.sample
  /\ frames' = frames + 1
  /\ written' = [data |-> written.data \o DataRows(job, elapsed'),
                 truth |-> Append(written.truth, TruthRow(job, elapsed'))]
  /\ UNCHANGED <<file, manifest, runs, pc, job, report>>

\* A stream hands some of its buffer to the file.
Drain(p, rows) ==
  /\ pc = "frames"
  /\ \E n \in (Len(file[p]) + 1)..Len(rows) :
       file' = [file EXCEPT ![p] = SubSeq(rows, 1, n)]
  /\ UNCHANGED <<manifest, runs, pc, job, elapsed, written, frames, report>>

\* Mutant: the digests are taken inside the with block.
LeaveOpen ==
  /\ pc = "frames" /\ ~MoreFrames
  /\ pc' = "close_data"
  /\ UNCHANGED <<file, manifest, runs, job, elapsed, written, frames, report>>

\* The with block closes the streams, the truth stream first.
CloseTruth ==
  /\ pc = "frames" /\ ~MoreFrames
  /\ file' = [file EXCEPT ![job.truth] = written.truth]
  /\ pc' = "close_data"
  /\ UNCHANGED <<manifest, runs, job, elapsed, written, frames, report>>

CloseData ==
  /\ pc = "close_data"
  /\ file' = [file EXCEPT ![job.data] = written.data]
  /\ pc' = "digest"
  /\ UNCHANGED <<manifest, runs, job, elapsed, written, frames, report>>

\* The manifest's digests are read back from the two files.
BuildManifest ==
  /\ pc = "digest"
  /\ report' = {[seed |-> job.seed, duration |-> job.duration, sample |-> job.sample,
                 end |-> elapsed, frames |-> frames, observations |-> Len(written.data),
                 data |-> [path |-> job.data, digest |-> file[job.data]],
                 truth |-> [path |-> job.truth, digest |-> file[job.truth]]]}
  /\ pc' = IF job.linked THEN "open_manifest" ELSE "done"
  /\ UNCHANGED <<file, manifest, runs, job, elapsed, written, frames>>

\* Mutant: the manifest of an earlier job is kept.
KeepManifest ==
  /\ pc = "open_manifest"
  /\ \A r \in report : Accepted(r)
  /\ pc' = IF manifest[job.data] = {} THEN "write_manifest" ELSE "done"
  /\ UNCHANGED <<file, manifest, runs, job, elapsed, written, frames, report>>

\* write_dataset_manifest: write_bytes empties the file, then fills it.
OpenManifest ==
  /\ pc = "open_manifest"
  /\ \A r \in report : Accepted(r)
  /\ manifest' = [manifest EXCEPT ![job.data] = {}]
  /\ pc' = "write_manifest"
  /\ UNCHANGED <<file, runs, job, elapsed, written, frames, report>>

WriteManifest ==
  /\ pc = "write_manifest"
  /\ manifest' = [manifest EXCEPT ![job.data] = report]
  /\ pc' = "done"
  /\ UNCHANGED <<file, runs, job, elapsed, written, frames, report>>

Return ==
  /\ pc = "done"
  /\ Forget
  /\ UNCHANGED <<file, manifest, runs, job>>

\* The process is killed, or a write raises; nothing is undone.
Interrupted ==
  /\ pc \notin {"idle", "done"}
  /\ Forget
  /\ UNCHANGED <<file, manifest, runs, job>>

Next ==
  \/ \E j \in Job : Begin(j)
  \/ OpenData \/ OpenTruth
  \/ WriteFrame
  \/ Drain(job.data, written.data) \/ Drain(job.truth, written.truth)
  \/ CloseTruth \/ CloseData
  \/ BuildManifest \/ OpenManifest \/ WriteManifest
  \/ Return \/ Interrupted

Spec == Init /\ [][Next]_vars
-----------------------------------------------------------------------------
\* Properties.

\* The frame times of a whole dataset, and its rows.
Times(r) == [i \in 1..(r.duration \div r.sample) |-> i * r.sample]
AllTruth(r) == [i \in DOMAIN Times(r) |-> TruthRow(r, Times(r)[i])]
AllData(r) == FlattenSeq([i \in DOMAIN Times(r) |-> DataRows(r, Times(r)[i])])

\* What a reader can verify: both files have the digests the manifest names.
Verifies(r) == file[r.data.path] = r.data.digest /\ file[r.truth.path] = r.truth.digest

Manifests == UNION Range(manifest)

TypeOK ==
  /\ \A p \in DataPath : Cardinality(manifest[p]) <= 1
  /\ runs \in 0..MaxRuns /\ pc \in PC /\ job \in Job
  /\ elapsed \in 0..job.duration /\ frames \in Nat
  /\ Cardinality(report) <= 1

\* A dataset that verifies is whole: every frame of its interval and nothing
\* else, in both files, whatever jobs were interrupted or written over it.
VerifiedIsWhole ==
  \A r \in Manifests : Verifies(r) =>
    /\ file[r.truth.path] = AllTruth(r)
    /\ file[r.data.path] = AllData(r)
    /\ r.frames = Len(AllTruth(r)) /\ r.observations = Len(AllData(r))

\* When generate_dataset returns, the manifest on disk is its own and verifies.
ReturnedVerifies ==
  pc = "done" /\ job.linked =>
    \E r \in manifest[job.data] : r \in report /\ Verifies(r)

\* docs/contracts.md:37-39: identical runs have identical manifests, but for the
\* artifact names.
Reproducible ==
  \A r, q \in Manifests :
    r.seed = q.seed /\ r.duration = q.duration /\ r.sample = q.sample =>
      /\ r.data.digest = q.data.digest /\ r.truth.digest = q.truth.digest
      /\ r.frames = q.frames /\ r.observations = q.observations
=============================================================================
