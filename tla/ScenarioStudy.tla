----------------------------- MODULE ScenarioStudy -----------------------------
(***************************************************************************)
(* The two studies over the fixed seed partitions (experiments.py):        *)
(* run_scenario_study and run_isolation_matrix.  A job evaluates its tasks *)
(* in this process or in a pool of worker processes, fits the nearest-     *)
(* centroid baselines on the development seeds, and overwrites one         *)
(* manifest in place.  A worker may raise or die, the write may fail, and  *)
(* the whole process may be killed.                                        *)
(*                                                                         *)
(* evaluate_seed is a function of its arguments (module ScenarioEvaluation *)
(* follows one such call); Evaluated gives its outcome.  A sample has one  *)
(* feature, which standardization cannot reorder, and statistics are kept  *)
(* as the exact sums they are computed from.                               *)
(***************************************************************************)
EXTENDS Integers, Sequences, FiniteSets, FiniteSetsExt, SequencesExt, Functions, Subsequences

CONSTANTS
  SeedOrder,      \* the seeds, partition after partition
  Development, Validation, HeldOut,   \* SEED_PARTITIONS
  ScenarioOrder,  \* the scenarios of PREREGISTERED_RULES, sorted
  Rules,          \* per scenario, its rules [atLeast, threshold]
  Worlds,         \* how the seeds may turn out: seed -> behavior
  Evaluated,      \* behavior -> selection -> scenario -> [metric, window, frames]
  Selections,     \* the selections --scenario is given
  MaxJobs,        \* bound: workers of a pool
  MaxRaised,      \* bound: evaluations of a job that raise
  MaxStudies      \* bound: jobs started

Seeds == ToSet(SeedOrder)
Scenarios == ToSet(ScenarioOrder)
Splits == {Validation, HeldOut}

ASSUME StudyAssumption ==
  /\ SeedOrder \in Seq(Seeds) /\ SeedOrder[1] \in Development
  /\ ScenarioOrder \in Seq(Scenarios) /\ IsInjective(SeedOrder) /\ IsInjective(ScenarioOrder)
  /\ Seeds = UNION ({Development} \cup Splits)
  /\ Development # {} /\ Development \cap UNION Splits = {} /\ Validation \cap HeldOut = {}
  /\ Selections \subseteq SUBSET Scenarios \ {{}}
  /\ MaxJobs \in Nat \ {0} /\ {MaxRaised, MaxStudies} \subseteq Nat

VARIABLES
  world,     \* how each seed behaves
  pc,        \* idle, evaluate, drain, open, write
  job,       \* the job's arguments: [kind, selection, frames, jobs]
  next,      \* the next task of the queue
  last,      \* the last task that is not cancelled
  running,   \* tasks in a worker
  finished,  \* tasks whose result is waiting
  failed,    \* tasks whose exception is waiting
  results,   \* results taken so far
  manifest,  \* the document to write
  files,     \* per kind of study, its output file
  studies    \* jobs started

pool == <<next, last, running, finished, failed>>
vars == <<world, pc, job, pool, results, manifest, files, studies>>

-----------------------------------------------------------------------------
\* The seeds or, in the matrix, the pairs of a scenario and a seed, scenario first.
TasksOf(j) ==
  LET n == Len(SeedOrder)
  IN IF j.kind = "study"
     THEN [i \in 1..n |-> [seed |-> SeedOrder[i], selection |-> j.selection]]
     ELSE [i \in 1..(Len(ScenarioOrder) * n) |->
             [seed |-> SeedOrder[((i - 1) % n) + 1],
              selection |-> {ScenarioOrder[((i - 1) \div n) + 1]}]]

InOrder(S) == SelectSeq(ScenarioOrder, LAMBDA sc : sc \in S)

Passes(rule, actual) == IF rule.atLeast THEN actual >= rule.threshold ELSE actual <= rule.threshold

\* validate_scenario_results: the rules of the selected scenarios that fail.
Failures(outcome) ==
  {f \in UNION {{sc} \X Rules[sc] : sc \in DOMAIN outcome} :
     ~Passes(f[2], outcome[f[1]].metric)}

Result(w, task, frames) ==
  LET outcome == Evaluated[w[task.seed]][task.selection]
  IN [seed |-> task.seed,
      scenarios |-> [sc \in task.selection |->
                       [metric |-> outcome[sc].metric, window |-> outcome[sc].window]],
      failures |-> Failures(outcome),
      frame_samples |-> IF frames
        THEN FlattenSeq([k \in DOMAIN InOrder(task.selection) |->
                           outcome[InOrder(task.selection)[k]].frames])
        ELSE <<>>]

\* An evaluation gives the scenarios it was asked for, and some frames if it collects them.
ASSUME EvaluationAssumption ==
  \A w \in Worlds, seed \in Seeds :
    /\ \A sel \in Selections \cup {{sc} : sc \in Scenarios} : DOMAIN Evaluated[w[seed]][sel] = sel
    /\ \A sel \in Selections :
         Result(w, [seed |-> seed, selection |-> sel], TRUE).frame_samples # <<>>

\* result.pop("frame_samples").
Stripped(rs) == [i \in DOMAIN rs |-> [rs[i] EXCEPT !.frame_samples = <<>>]]

-----------------------------------------------------------------------------
\* Samples of the seeds in S: per scenario window, or per frame.
WindowSamples(rs, S) ==
  FlattenSeq([i \in DOMAIN rs |->
    IF rs[i].seed \notin S THEN <<>>
    ELSE LET order == InOrder(DOMAIN rs[i].scenarios)
         IN [k \in DOMAIN order |-> [label |-> order[k], x |-> rs[i].scenarios[order[k]].window]]])

FrameSamples(rs, S) ==
  FlattenSeq([i \in DOMAIN rs |->
    IF rs[i].seed \notin S THEN <<>>
    ELSE [k \in DOMAIN rs[i].frame_samples |->
            [label |-> IF rs[i].frame_samples[k].active THEN "active" ELSE "inactive",
             x |-> rs[i].frame_samples[k].x]]])

\* Mutant: the baselines are fitted on every seed.
FitSeedsAll == Seeds

\* The seeds the baselines are fitted on.
FitSeeds == Development

Of(samples, label) == SelectSeq(samples, LAMBDA s : s.label = label)
Total(samples) == FoldLeft(LAMBDA sum, s : sum + s.x, 0, samples)
Distance(x, samples) == LET d == x * Len(samples) - Total(samples) IN IF d < 0 THEN -d ELSE d

\* x is at least as near to the centroid of a as to that of b.
Nearer(x, a, b) == Distance(x, a) * Len(b) <= Distance(x, b) * Len(a)

\* The first of the labels whose centroid is nearest.
Predict(training, labels, x) ==
  labels[Min({i \in DOMAIN labels :
                \A k \in DOMAIN labels : Nearer(x, Of(training, labels[i]), Of(training, labels[k]))})]

Confusion(training, labels, samples) ==
  [actual \in ToSet(labels), predicted \in ToSet(labels) |->
     Cardinality({i \in DOMAIN samples : /\ samples[i].label = actual
                                         /\ Predict(training, labels, samples[i].x) = predicted})]

FrameLabels == <<"active", "inactive">>

\* An average over no frame, or a rate per no inactive time: the code divides by zero.
FrameBaselinesRaise(rs) ==
  /\ rs[1].frame_samples # <<>>
  /\ \/ \E label \in ToSet(FrameLabels) : Of(FrameSamples(rs, FitSeeds), label) = <<>>
     \/ \E S \in Splits : Of(FrameSamples(rs, S), "inactive") = <<>>

FrameBaselines(rs) ==
  IF rs[1].frame_samples = <<>> THEN <<>>
  ELSE [S \in Splits |-> Confusion(FrameSamples(rs, FitSeeds), FrameLabels, FrameSamples(rs, S))]

WindowBaselines(rs) ==
  LET labels == InOrder(DOMAIN rs[1].scenarios)
  IN IF Len(labels) < 2 THEN <<>>
     ELSE [S \in Splits |-> Confusion(WindowSamples(rs, FitSeeds), labels, WindowSamples(rs, S))]

\* The confidence interval of a metric is a function of these sums.
Interval(values) ==
  [count |-> Len(values), sum |-> FoldLeft(+, 0, values),
   squares |-> FoldLeft(LAMBDA sum, v : sum + v * v, 0, values)]

Statistics(rs) ==
  [sc \in DOMAIN rs[1].scenarios |-> Interval([i \in DOMAIN rs |-> rs[i].scenarios[sc].metric])]

\* Mutant: the statistics of the matrix take the development seeds only.
RunsOfDevelopment(rs, sc) ==
  Filter(rs, LAMBDA r : sc \in DOMAIN r.scenarios /\ r.seed \in Development)

\* The runs of one scenario of the matrix.
RunsOf(rs, sc) == Filter(rs, LAMBDA r : sc \in DOMAIN r.scenarios)

MatrixStatistics(rs) == [sc \in Scenarios |-> Statistics(RunsOf(rs, sc))[sc]]

\* Mutant: the frame samples are dropped before the baselines are fitted.
FrameReportStripped(j, rs) == IF j.frames THEN FrameBaselines(Stripped(rs)) ELSE <<>>

FrameReport(j, rs) == IF j.frames THEN FrameBaselines(rs) ELSE <<>>

\* The document; the number of workers is not part of it.
Manifest(j, rs) ==
  [kind |-> j.kind, selection |-> j.selection,
   results |-> Stripped(rs),
   statistics |-> IF j.kind = "study" THEN Statistics(rs) ELSE MatrixStatistics(rs),
   windows |-> IF j.kind = "study" THEN WindowBaselines(rs) ELSE <<>>,
   frames |-> FrameReport(j, rs),
   failed_runs |-> Filter([i \in DOMAIN rs |-> [seed |-> rs[i].seed, failures |-> rs[i].failures]],
                          LAMBDA r : r.failures # {}),
   passed |-> \A i \in DOMAIN rs : rs[i].failures = {}]

-----------------------------------------------------------------------------
Jobs == [kind : {"study"}, selection : Selections, frames : BOOLEAN, jobs : 1..MaxJobs]
          \cup [kind : {"matrix"}, selection : {Scenarios}, frames : {FALSE}, jobs : 1..MaxJobs]

Missing == [state |-> "missing"]
Torn == [state |-> "torn"]
Empty == <<>>

Init ==
  /\ world \in Worlds
  /\ pc = "idle" /\ job = [kind |-> "none"]
  /\ next = 1 /\ last = 0 /\ running = {} /\ finished = {} /\ failed = {}
  /\ results = <<>> /\ manifest = Empty
  /\ files = [kind \in {"study", "matrix"} |-> Missing]
  /\ studies = 0

\* The process ends, with whatever it was doing.
Stop ==
  /\ pc' = "idle" /\ job' = [kind |-> "none"]
  /\ next' = 1 /\ last' = 0 /\ running' = {} /\ finished' = {} /\ failed' = {}
  /\ results' = <<>> /\ manifest' = Empty

\* Every task is submitted at once.
Begin ==
  /\ pc = "idle" /\ studies < MaxStudies
  /\ job' \in Jobs
  /\ pc' = "evaluate" /\ studies' = studies + 1
  /\ last' = Len(TasksOf(job'))
  /\ UNCHANGED <<world, next, running, finished, failed, results, manifest, files>>

\* A worker takes the oldest task; without a pool the caller evaluates one
\* task after the other and stops at the first exception.
Claim ==
  /\ next <= last /\ Cardinality(running) < job.jobs
  /\ job.jobs = 1 => next = Len(results) + 1
  /\ running' = running \cup {next} /\ next' = next + 1
  /\ UNCHANGED <<world, pc, job, last, finished, failed, results, manifest, files, studies>>

Finish(i) ==
  /\ i \in running
  /\ running' = running \ {i} /\ finished' = finished \cup {i}
  /\ UNCHANGED <<world, pc, job, next, last, failed, results, manifest, files, studies>>

\* The evaluation raises; the pool hands the exception to the caller.
Raise(i) ==
  /\ i \in running /\ Cardinality(failed) < MaxRaised
  /\ running' = running \ {i} /\ failed' = failed \cup {i}
  /\ UNCHANGED <<world, pc, job, next, last, finished, results, manifest, files, studies>>

\* A worker process dies: the pool is broken and every unfinished task fails.
PoolBreaks ==
  /\ job.kind # "none" /\ job.jobs > 1 /\ running # {}
  /\ running' = {} /\ failed' = failed \cup running \cup (next..last)
  /\ next' = last + 1
  /\ UNCHANGED <<world, pc, job, last, finished, results, manifest, files, studies>>

\* Mutant: results are taken as they complete.
TakenNextAny == finished

\* executor.map yields in the order of its arguments.
TakenNext == {Len(results) + 1}

Take(i) ==
  /\ pc = "evaluate" /\ i \in TakenNext \cap finished
  /\ results' = Append(results, Result(world, TasksOf(job)[i], job.frames))
  /\ finished' = finished \ {i}
  /\ UNCHANGED <<world, pc, job, next, last, running, failed, manifest, files, studies>>

Prefetched == IF job.jobs = 1 THEN 0 ELSE job.jobs + 1

\* The next result is an exception: the tasks no worker was handed are cancelled,
\* and the pool is shut down, which waits for the others.
Cancel ==
  /\ pc = "evaluate" /\ Len(results) + 1 \in failed
  /\ pc' = "drain"
  /\ last' \in (next - 1)..Min({last, next - 1 + Prefetched})
  /\ UNCHANGED <<world, job, next, running, finished, failed, results, manifest, files, studies>>

\* Mutant: the shutdown also waits for somebody to take the finished results.
IsDrainedWaiting == running = {} /\ next > last /\ finished = {}

IsDrained == running = {} /\ next > last

Drained == pc = "drain" /\ IsDrained /\ Stop /\ UNCHANGED <<world, files, studies>>

\* All results are there.  The frame baselines may raise; nothing was written then.
Assemble ==
  /\ pc = "evaluate" /\ Len(results) = Len(TasksOf(job))
  /\ IF job.frames /\ FrameBaselinesRaise(results)
       THEN Stop
       ELSE /\ pc' = "open" /\ manifest' = Manifest(job, results)
            /\ UNCHANGED <<job, pool, results>>
  /\ UNCHANGED <<world, files, studies>>

\* write_bytes truncates the file, or fails to open it.
OpenOutput ==
  /\ pc = "open"
  /\ \/ /\ files' = [files EXCEPT ![job.kind] = Torn]
        /\ pc' = "write" /\ UNCHANGED <<job, pool, results, manifest>>
     \/ Stop /\ UNCHANGED files
  /\ UNCHANGED <<world, studies>>

WriteOutput ==
  /\ pc = "write" /\ Stop
  /\ \/ files' = [files EXCEPT ![job.kind] =
                    [state |-> "whole", wanted |-> job.frames, manifest |-> manifest]]
     \/ UNCHANGED files
  /\ UNCHANGED <<world, studies>>

Kill == pc # "idle" /\ Stop /\ UNCHANGED <<world, files, studies>>

Next ==
  \/ Begin \/ Claim \/ PoolBreaks
  \/ \E i \in running : Finish(i) \/ Raise(i)
  \/ \E i \in finished : Take(i)
  \/ Cancel \/ Drained \/ Assemble \/ OpenOutput \/ WriteOutput \/ Kill

\* A worker evaluates its task to an end, and the caller goes on when it can.
Fairness ==
  /\ WF_vars(Claim) /\ WF_vars(\E i \in running : Finish(i) \/ Raise(i))
  /\ WF_vars(\E i \in finished : Take(i)) /\ WF_vars(Cancel)
  /\ WF_vars(Drained) /\ WF_vars(Assemble) /\ WF_vars(OpenOutput) /\ WF_vars(WriteOutput)

Spec == Init /\ [][Next]_vars /\ Fairness

-----------------------------------------------------------------------------
Whole(kind) == files[kind].state = "whole"

\* What one evaluation after the other gives.
InSequence(w, j) ==
  Manifest(j, [i \in 1..Len(TasksOf(j)) |-> Result(w, TasksOf(j)[i], j.frames)])

\* A manifest that gets to the disk is the one a sequential evaluation of the
\* same arguments writes: neither the number of workers nor the order in which
\* they finish, nor an earlier failed job, shows in it (executor.map, the
\* replayed digest).
ScheduleFree ==
  [][\A kind \in DOMAIN files : files'[kind] # files[kind] /\ Whole(kind)' =>
       files'[kind].manifest = InSequence(world, job)]_vars

\* The report of a split depends on the development seeds and on the split's
\* own: were the seeds of the other split to behave otherwise, it would be the
\* same (_baseline_samples, _frame_baseline_samples).
NoLeak ==
  pc = "open" =>
    \A S \in Splits : \A w \in Worlds :
      LET rs == [i \in DOMAIN TasksOf(job) |-> Result(w, TasksOf(job)[i], job.frames)]
      IN (\A s \in Development \cup S : w[s] = world[s]) =>
           /\ manifest.windows # <<>> => manifest.windows[S] = WindowBaselines(rs)[S]
           /\ manifest.frames # <<>> /\ ~FrameBaselinesRaise(rs)
                => manifest.frames[S] = FrameBaselines(rs)[S]

\* The matrix and a study of one scenario in isolation, written by different
\* code at different times, agree on the scenario's statistics and failed runs,
\* and the matrix passes only if that study does.
MatrixAgrees ==
  Whole("matrix") /\ Whole("study") =>
    LET m == files["matrix"].manifest  s == files["study"].manifest
    IN \A sc \in Scenarios : s.selection = {sc} =>
         /\ m.statistics[sc] = s.statistics[sc]
         /\ Filter(m.failed_runs, LAMBDA r : \E f \in r.failures : f[1] = sc) = s.failed_runs
         /\ m.passed => s.passed

\* The frames of every seed are kept in memory until the baselines are fitted
\* and reach no file: a study that was asked for frame baselines has them.
FramesStayInMemory ==
  \A kind \in DOMAIN files : Whole(kind) =>
    LET m == files[kind].manifest
    IN /\ m.frames # <<>> <=> files[kind].wanted
       /\ \A i \in DOMAIN m.results : m.results[i].frame_samples = <<>>

\* A job ends, whatever its workers and its writes do: with a failed task the
\* pool drains, with a dead worker nobody waits for it.
StudyEnds == pc # "idle" ~> pc = "idle"
=============================================================================
