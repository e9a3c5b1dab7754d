# Specifications of the OPC UA process plant simulator

TLA+ modules, TLC configurations and TLAPS proofs about
`process-lens-opcua-simulator`: a deterministic plant simulator that is served
live over OPC UA with a persistent history, and evaluated offline by scenario
studies and generated datasets. Source paths below are relative to
`src/src/process_lens_opcua_simulator/`.

## 1. Inventory

| Component | State | Operations | Modelled in |
|---|---|---|---|
| Plant server (`server.py`) | OPC node values, heartbeat, simulator, real-time task, buffered bootstrap rows | `start`, `_prepare_history`, `_flush`, `_write_frame`, `_realtime_loop`, `stop` | `PlantServer` |
| Historian (`storage.py`) | one table per signal, one-row checkpoint table, an open transaction | `save_node_values`, `save_checkpoint`, `has_historical_values`, commit, rollback, retention | `PlantServer`, abstractly `Historian` |
| History reads (`storage.py`, asyncua) | a read in progress: position, values received | `read_node_history`, continuation, next page | `HistoryRead` |
| Restart by replay (`server.py` over `engine.py`) | integration steps taken, checkpoint, recorded rows | bootstrap, restart, live frame, kill | `Replay` |
| Engine: time and sensing (`engine.py`) | elapsed time, delay lines, process history, last transition states, frozen measurements | `advance`, `_observations` | `PlantSimulator` |
| Engine: control (`engine.py`) | mode, integral, output, actuator, stiction and backlash state | `_advance_loop` | `ControlLoop` |
| Scenario evaluation (`experiments.py`) | phase summaries, carried values, activation start, frame samples | `evaluate_seed` | `ScenarioEvaluation` |
| Frame baseline metrics (`experiments.py`) | list of frame records | `_temporal_detection_metrics`, `_localization_metrics` | `BaselineMetrics` |
| Dataset generation (`dataset.py`, `contracts.py`) | two files, a manifest, stream buffers | `generate_dataset`, `write_dataset_manifest` | `DatasetGeneration`; the frame loop in rounded floats: `FrameCount` |
| Studies, baseline fits, statistics, rules (`experiments.py`, `cli.py`) | task queue, workers, results, a manifest file per study | `run_scenario_study`, `run_isolation_matrix` | `ScenarioStudy` |
| Health check (`healthcheck.py`) | none; reads the server's heartbeat | `_check` | `HealthCheck`, on top of `PlantServer` |
| Contracts, catalog, profiles | none | one-shot validation | not modelled |
| Model graph (`model.py`) | none | `validate_model` | as an assumption of `PlantSimulator` |
| Command line (`cli.py`) | none | parsing, dispatch | the two studies' dispatch, in `ScenarioStudy` |

**How they interact.** `cli serve` starts one process with one asyncio event
loop. `start` opens the SQLite file, decides between bootstrap and resume,
drives the simulator through `advance`, publishes a frame to the OPC nodes and
starts the real-time task. From then on the task, the asyncua server's client
requests (live values and history reads, on the writer's own SQLite connection)
and `stop` interleave at every `await`. A restart knows only the file: the
checkpoint, from which the simulator is rebuilt by replay. `generate` and the
studies use the same engine in a batch process, the studies in a pool of worker
processes, and leave files behind. The health check is another client of the
server, in a process of its own.

**What is hard.** Kills, failing commits and cancellation between any two
awaits; one transaction that spans the writes of a frame; restarts with another
configuration, another retention or a wall clock behind the checkpoint; replay
that must take the same floating-point steps; reads paged over a table that
grows at one end and shrinks at the other; bounded buffers that must not change
what is read from them; transitions between two samples; overwritten files whose
manifest outlives them; workers that finish in any order, raise or die. `PROJECT.json` lists each at its line under "hazards".

**What makes each component correct.**

- Server and historian: the committed database is always one that a restart can
  trust, whatever was interrupted; what clients see and what is recorded agree;
  simulated time stays near the clock; publication goes on.
- History reads: pages in order, nothing twice, nothing lost.
- Replay: the same rows at the same elapsed time, in every process.
- Engine: pruning and call boundaries are invisible; control stays within limits
  without windup and bumps.
- Evaluation and metrics: causal, complete, and each frame counted once.
- Datasets: what verifies is whole.
- Studies: what is written does not depend on the pool, fits do not see the seeds
  they are scored on, two ways to the same number agree, and a job ends.
- Health check: a loop that has died is reported in bounded time.

## 2. Modules

`Historian` is the abstract specification: a set of rows and at most one
checkpoint, which is bootstrapped, sealed, advanced frame by frame, pruned at
its old end, or cleared. It knows no process, no transaction and no clock.

`PlantServer` is one process after another on one database file. `txn` is the
database as the server's connection sees it, `db` what is committed; a commit
copies one to the other, and `Exit` (kill, failed start, stop) drops the
transaction. Each action is the code between two awaits that matter:
`Start`/`Reject`/`BeginBootstrap`/`Resume` are the decisions of `start` (a resumed
simulator has this process's configuration and the checkpoint's start, as in
`server.py:172-177`; only `Compatible` makes that the checkpoint's simulation),
`BootstrapFrame`, `BootstrapDone`, `Flush`, `FlushCommit`, `SealBootstrap` the
cold bootstrap, `BeginFrame`, `WriteHeartbeat`, `PublishValue`, `SaveValue`,
`FrameCheckpoint`, `CommitFrame`, `EndUnrecorded` a frame, and `LoopDies`, `StartFails`,
`PrepareFails`, `Stop`, `Crash` what interrupts them. The simulator is
deterministic, so its state is its elapsed time and a row's value is its origin
and time. `PlantServer` implements `Historian` with `rows` and `checkpoint`
taken from `db` (property `ImplementsHistorian`). A value is served by
`PublishValue` (the OPC node) and saved by `SaveValue` (its table): a client can
read either in between, and a history read, which shares the connection, sees
`txn` (`OpenRowsAreServed`).

`HealthCheck` extends `PlantServer` by the probe, an operator on its state: the
endpoint answers and the heartbeat's source timestamp is at most `MaxAge` off the
prober's clock, in either direction.

`HistoryRead` is one client's read of one node against a table that is being
appended to and pruned. `read_node_history` is translated; the paging of the
asyncua server and client around it is modelled from its use and marked
external. A row is its timestamp, which the order result of `PlantServer`
(`IdOrderIsTimeOrder`) justifies.

`Replay` looks below the assumption of `PlantServer` that a simulator is its
elapsed time: it records the sizes of the integration steps, which is what a
replay could get wrong.

`PlantSimulator` is `advance`: `Advance` opens a call, `IntegrationStep` is one
step with delayed reads, buffer pruning and transition detection, `Observe` ends
the call with the observations due. Values are the instants they were taken at,
so "the delayed value is right" is an equation between times.

`ControlLoop` is `_advance_loop` for one loop, one action per integration step:
mode, error, integral, output, target, stiction or backlash, actuator. Numbers
are integers; the process is an arbitrary environment. A loop is its scenario, its
structure and its actuator's time; `Step` is the integration step, which may be
shorter or longer than that time. `resting` is an observer: since a reversal the
backlash has taken every gap whole, so the actuator has not moved.

`ScenarioEvaluation` is the frame loop of `evaluate_seed` for a scenario and its
primary loops. What is counted is kept, what is measured on the values is not.

`BaselineMetrics` computes the code's metrics on every prefix of a study, which
grows by a frame with one record of every loop; the variables `run`, `onset`,
`was`, `onsets` and `found` are an online detector that the code does not have,
against which the metrics are compared. Loops are numbered in the order of their
names. A group of the code is a filtered list: `Filter` (module `Subsequences`) is
the list comprehension, defined by counting positions because the library's
recursive `SelectSeq` cannot be reasoned about; `Ranked` is `sorted`, a list of the
candidates in which none is out of order.

`DatasetGeneration` is `generate_dataset` with buffered files. A digest is the
content it was taken from. A job that is killed or raises leaves whatever part
of the buffers had reached the disk; the next job truncates and overwrites.

`FrameCount` is the `while` loop of `generate_dataset` alone, with `elapsed` a
double: three digits of base 2^21 hold it exactly, and `Rounded` rounds a sum to
53 bits, ties to even. The states of the run agree bit by bit with CPython's.

`ScenarioStudy` is one study or matrix job after another. `Begin` submits all
tasks; `Claim`, `Finish`, `Raise` and `PoolBreaks` are the workers, or, for one
job, the sequential loop; `Take` is the caller's place in `executor.map`;
`Cancel` and `Drained` the way out when a result is an exception; `Assemble`
fits the baselines, pops the frame samples and builds the manifest, or raises;
`OpenOutput` truncates and `WriteOutput` writes the file; `Kill` may come
anywhere. What `evaluate_seed` returns is a constant, `Evaluated`: the variable
`world` says how each seed behaves, so "the fit did not see this seed" is a
comparison of two worlds. A sample has one feature: dividing it by a scale does
not change which centroid is nearer, and nearness is compared by cross-multiplying,
without fractions. A confidence interval is represented by the sums it is computed from.

`MCPlantServer`, `MCHistoryRead`, `MCPlantSimulator`, `MCControlLoop`,
`MCScenarioEvaluation`, `MCBaselineMetrics`, `MCDatasetGeneration`, `MCFrameCount`
and `MCScenarioStudy` give the constants their values for TLC. `Replay` needs no
definitions and is checked directly. The theorems are in `PlantServerProofs`
(server and health check), `ReplayProofs`, `HistoryReadProofs`,
`PlantSimulatorProofs`, `ControlLoopProofs`, `ScenarioEvaluationProofs`,
`DatasetGenerationProofs` and `ExperimentProofs` (`BaselineMetrics` and
`ScenarioStudy`, which share their lemmas about lists). The operators commented
"Mutant" are plausible mistakes; each property is known to fail when the definition
after it is replaced by one.

## 3. Runs

| Run | Question | Distinct states |
|---|---|---|
| `server` | safety, refinement and liveness of server and historian, with the health check | 167,193 |
| `history_pages` | order and completeness of paged reads | 174,610 |
| `open_start_read` | reads without a start (violated) | |
| `simulator` | buffers, events, frozen sensor, timestamps | 13,794 |
| `replay` | same steps in every process | 2,258 |
| `control_loop` | windup, limits, bumpless return, actuator | 10,611 |
| `backlash_travel` | the declared backlash travel (violated) | |
| `evaluation` | labels, carried values, summaries, transitions | 1,568 |
| `baseline` | detection and ranking | 69,905 |
| `dataset` | verification of generated datasets | 172,316 |
| `frame_count` | the number of frames of a dataset (violated) | |
| `study` | pool, partitions, agreement of studies, end of jobs | 249,096 |

`server` checks the type invariant `TypeOK`. The `TypeOK` of the other modules is not
among the runs' properties; each of them is proved (section 4).

**What the violations show.**

- `open_start_read`: `docs/opcua-interface.md:49` promises continuation "without
  repeating or skipping the boundary sample". A read without a start is served
  in descending order, but the continuation timestamp becomes the start of the
  next request, and the second page runs forwards again over samples the client
  has. Reads with a start, in both directions, keep the promise
  (`history_pages`).
- `backlash_travel`: `docs/control-structures.md:19` says backlash consumes a
  declared amount of travel after a reversal. The code takes the backlash from the
  gap between target and actuator in every step, whether or not the target has
  moved. The run has LIC-306 with an output in 200 units, a band of 7 and the 5 s
  step of the stress profile: a reversal leaves a gap of 5, which is taken whole,
  and 2 of the band remain. In the next step nothing has changed, the 2 are taken
  from the same gap of 5, and the actuator moves. The target has travelled 5 since
  the reversal. `BacklashTakesTravel` asks only that the actuator rest while its
  target stands still after a gap was taken whole.
- `frame_count`: `docs/contracts.md:55` says that frames and duration are exact
  multiples, "preventing silent partial or rounded steps". For 20 s in frames of
  0.1 s the loop makes 200 frames; for 100 s the sum of 1000 frames is 1.4e-12 s
  short, more than the 1e-12 the loop condition allows, and a 1001st frame of
  that length follows.

Seen while modelling, and not stated as a property of a run:

- `docs/scenario-validation.md:241` calls the denominator of missing data
  cadence-aware. That holds for the phase metrics; the observation summaries
  record 0 for a frame in which nothing was due. `PhasesSummarize` states both.
- `docs/scientific-model.md:53` calls the actuator first order. The code's explicit
  step moves it by `dt * delta / actuator_time` (`engine.py:443`), which is more than
  the gap if the step is longer than the actuator's time, and any positive step is
  accepted (`engine.py:175`): SIC-404 has 3 s (`model.py:108`), the stress profile
  steps by 5 s, and where the rate limit does not bind the actuator passes its
  target. `ActuatorApproaches` states what holds for each length of the step.
- `README.md:136` of the repository offers `--scenario` once for an isolated
  scenario. With `normal.steady` alone no load change is enabled and every frame is
  active (`experiments.py:372`): when all seeds are evaluated the default frame
  baselines average over no inactive frame (`experiments.py:1181`), raise, and
  nothing is written. `--skip-frame-baselines` avoids it. `Assemble` has this exit;
  no property of a run is about it, and `StudyEnds` is not, since the job does end.
- An empty phase has all metrics zero, so a rule with `<=` passes without a sample
  (`data.gap` with very long frames).
- `validate-scenarios` and `validate-isolation-matrix` exit with 0 whatever
  `passed` says (`cli.py:222`, `cli.py:243`).
- After a restart, nodes of signals that were not due since show the value they
  were created with, with good status (`server.py:258`).
- The manifest validator compares loop models and scenario parameters with the
  built-in ones, but couplings and runtime profiles only by their shape.

**Bounds, and why they are enough.**

- Server: two signals of different cadence, one with a gap and one with a
  shifted timestamp, two configurations, histories of none or three samples,
  flushes of two rows, a clock that is right or a second slow, a new file or an
  off-lattice legacy one; three starts, six real and twelve simulated seconds.
  Three starts allow an interrupted bootstrap, a refusal or reset, and a resume
  across an outage, in every order; six rows per signal cross the retention
  boundary. The theorems remove these bounds for what they prove. `MaxAge` is one
  second, less than a sample, so that a probe can fail between two frames as
  well as after a death.
- Reads: pages of two values, seven rows, retention of four seconds, all
  intervals and directions, 0, 1 or 3 values wanted: up to three pages, with
  appends and prunes between them. Requests without a start are kept to one page
  here, since `open_start_read` is about the others.
- Engine: two scenario cycles, four loops with dead times from zero to longer
  than a call, edges of three delays, calls of 0, 5 and 10 seconds over a grid
  of 2, so that calls end on and off the grid.
- Replay: a grid of 2, frames of 4, eight frames; legacy checkpoints on and off
  the frame lattice but on the grid. Off the grid (a sample period that was not a
  multiple of the step, in an earlier release) the replay's last step is cut
  where the recording process did not cut it and its values differ; the current
  release cannot create such a checkpoint.
- Control: output range of twenty units, both signs of the error, all structures
  and scenarios that the code of the controller and final element tells apart.
  A step of 8 s meets the catalog's actuator times of 3, 5, 7, 8 and 15 s: shorter
  than the time, equal to it, longer, and more than twice as long. The built-in
  profiles step by up to 5 s, the code accepts any. `backlash_travel` has the
  step, actuator time, band and rate limit of LIC-306 under the stress profile.
- Evaluation: frames faster than both cadences, a window shorter than a frame,
  overlapping load change and scenario windows, carry age of four frames.
- Baseline: two loops, four frames, persistence two; a score on the boundary.
- Dataset: three jobs over two observation files and one truth file, intervals of
  two and three seconds, frames of one and two, a frame without observations.
- Study: two development seeds and one per split, two scenarios selected alone
  and together, eight worlds, one or two workers, two jobs, one evaluation that
  raises per job. Two workers let the second overtake a slow first by the whole
  queue of eight tasks of the matrix; two jobs let a failed or killed one follow
  a whole manifest, and a matrix follow the isolated study it must agree with.
  One raise suffices: the first exception in order ends the job.

`CHECK_DEADLOCK FALSE` is set where a behaviour ends at its bounds (time, starts,
jobs, frames).

**Fairness.** `server`: weak fairness of preparation, of the frame's writes and of
the next iteration is what asyncio gives a coroutine that is ready; weak fairness
of `Tick` is the passing of time. `study`: weak fairness of the workers, of the
caller and of the file system; an evaluation that has begun ends, since it is a
finite computation. Failures, kills, `stop` and starts are never fair. `FramesKeepComing` speaks of
frames that still fit the model's time bounds.

## 4. Proofs

The runs check small instances; the theorems hold for every value of the
constants that meets the named assumptions of the modules.

**Server, historian and health check (`PlantServerProofs`).**

- `TypeCorrect`, `InvHolds`, `DatabaseTrusted`, `PruningIsRetention` and
  `Refinement`. The database alone is not inductive: that a commit is sound depends
  on what the open transaction holds, and that on where the process is. `Inv`
  therefore has, besides the types and the soundness of `db`, one conjunct per
  phase: outside a transaction `txn` equals `db`; during the bootstrap the buffered
  rows are the frames since the last flush, of this origin, none past `elapsed`;
  during a frame `txn` is `db` plus the rows of the values written so far, less
  what retention removed; at the commit its checkpoint is `elapsed`. `AppendFrame`
  (a frame appended to a sound database leaves it sound), `ResumeNotBefore` (a
  resume never precedes the checkpoint), `ResumedOrigin` (what a process resumes is
  the simulation of the checkpoint, because it compared the configuration) and
  `LaterStamp` (source timestamps increase) carry the argument; there is one lemma per action. The refinement
  needs, in addition, that only five actions change `db`.
- What clients see, each by an invariant relative to `Inv`. `ServedFramesAligned`:
  `Aligned` puts `elapsed` on the sampling lattice from the resume on, where
  `Ceiling` lifts an off-lattice checkpoint. `NoMixedFrames`: `Heart` says which
  values of the running frame are still to be published. `ReadsSeeServedValues`
  and `ServedValuesRecorded`: `Committed` follows from `Inv`'s description of the
  transaction, since what the commit copies is the frame that was published.
  `RetentionKept`: `Retained` says of each value written in the running frame that
  nothing older than the window is left of its signal, so that a shorter window
  after a restart is covered signal by signal. `LeadIsBounded`: `Lead` accounts for
  the sample that each start may add, phase by phase, and for the clock with which
  the process started; `DeathsAreReported` follows from it.
- The assumptions are those of `PlantServer`: positive sample, deterministic
  observations, irregular timestamps that stay behind the next sample
  (`StampsIncrease`, which the run `simulator` checks and `TimestampsIncrease`
  proves of the engine), and a sealed or empty file to begin with.
- The proof attempt of `DeathIsReported` corrected the property: it used to grant
  the heartbeat the error of any one clock, which fails for a set `Skew` of widely
  different errors. It now waits for the largest, and holds for every set.

**Replay (`ReplayProofs`).** `StepSizesSplit` (cutting a duration at a grid multiple
does not change its steps), from which `RowsAreDetermined` and `ReplayIsExact`
follow by the invariant `GridInv`: checkpoint, elapsed time and all recorded rows
lie on the integration grid, and the simulator has taken exactly the steps of its
elapsed time. Both assume `LegacyOnGrid`. `ReplayTypes` does not: from any legacy
checkpoint, every integration step is positive and at most the model's. It assumes
`BootFits`, that the bootstrap fits the bound `MaxElapsed`.

**History reads (`HistoryReadProofs`).** `PagesFollowOneAnother` and `PagesSkipNothing`
for every page size, window and cadence. `ReadInv` says that the rows the next
request will find are those of the original interval that come after everything
received (`ToCome`); a page moves its rows from one side to the other
(`PageAnswers`), the look-ahead row becomes the start of the rest (`Continuing`),
and rows appended or pruned in between stay on their side. `OrderedLists` says what
the ordered query returns: the number of rows ahead of a row is an injection into
the positions, hence onto them. The module orders rows by rank instead of by the
library's sort, which the provers cannot expand. Both theorems assume `PagedReads`:
every read has an explicit start or wants at most a page. That is not a
convenience: without it they are false, which the run `open_start_read` shows.
`ReadTypes` holds without it: also a read with an open start gets timestamps of
samples only.

**Engine (`PlantSimulatorProofs`).**

- `PruningIsExact` and `BuffersStayBounded`: for each buffer an invariant that it is
  a suffix of the instants so far, whose first entry is the initial one or old
  enough for every read to come; so the newest entry not after a target is the same
  in the buffer and in the full history. Least counterexamples take the place of
  induction: the first position of a buffer where something fails is the least of
  a set of naturals (`LeastNat`).
- `TruthIsTold`: the last activity remembered is that at `elapsed`, and flips are
  counted when it differs.
- `FrozenAtOnset`: during an activation the frozen value is that of the last
  instant before this cycle's onset. It assumes `StepsMeetPauses`: no integration
  step is longer than the inactive part of a cycle. `engine.py:175` asks only for a
  positive step; a longer one (from 312 s with the shortest cycle, 600 s) goes from
  one activation into the next, and the first frozen measurement is shown again.
  Built-in profiles use steps of one and five seconds.
- `TimestampsIncrease`: a shift is less than the time to the next sample.
- `EngineTypes`: the buffers hold instants by the invariant of `PruningIsExact`, so a
  delayed read has a value (`LatestType`); `Shape` adds the ranges of what was read.

**Control (`ControlLoopProofs`).**

- `ConditionalIntegration`: a proposed integral is only accepted when the output it
  requests together with the proportional action lies strictly inside the limits.
  The proportional action has the sign of the error, as the integral's change has:
  if the change is towards a limit, so is the proportional action, and the integral
  alone stays inside; if it is away from it, the old integral was inside already.
  The bounds on the integral only move it towards zero.
- `LoopInRange`, `OutputAnswersError`, `ActuatorStaysNear` and
  `BumplessTransfer` share the invariant `LoopInv`: the types, `Tracked` (in manual
  mode the integral tracks the output, but for its bounds) and `LimitsDemanded`. For
  the actuator, `Covers` says how far a move may go over a gap: the whole gap if the
  step is no longer than the actuator's time, twice the gap up to twice that time, the
  rate limit always. `Move` covers the gap it is given (`MoveCovers`), what backlash
  leaves of a gap is a part of it (`LeftOnTheWay`, `PartCovers`), and settling with a
  move that covers the gap is what `ActuatorApproaches` says (`SettleApproaches`).
- They use `CatalogAssumption`: the bounds of the integral do not reach beyond the
  output limits (`model.py:28-33`), and a loop with a manual scenario has no
  protective selector (`catalog/loops.csv`).

**Evaluation (`ScenarioEvaluationProofs`).**

- `ValuesCarriedCausally`: the invariant `Remembered` says that the time kept for a
  loop's suffix is that of the last sample in which it was observed; a frame adds one
  sample per loop, later than all before, so older samples stay causal
  (`CausalStays`) and the new one is (`CausalSample`).
- `SummariesCount`: an invariant for each loop's activation (`Activations`: where it
  began and which inactive sample precedes it) and one for every active sample
  (`Belonging`); a later sample does not move the start of an earlier activation
  (`StartStays`). The rest is counting disjoint sets (`CountMore`, `PhaseGrows`).
- `TransitionsAreCounted`: the transitions are the size of a set of pairs of loop
  and instant; over a whole cycle it has two for each loop (`WindowEdges`), an end at
  the cycle's last instant included.
- `EvaluationTypes`: the last frame is the cycle's last instant (`FrameLeft`), so all
  that is dated lies within it (`WithinCycle`).
- The assumption is that windows are not empty: 24 % to 72 % and 45 % to 68 % of the
  cycle (`engine.py:242`, `engine.py:293`).

**Datasets (`DatasetGenerationProofs`).** `VerifiedDatasetsAreWhole`,
`ReturnedDatasetsVerify` and `DatasetsAreReproducible`. `Inv` describes the streams
while they are written (frame by frame, what was written is what the frames up to
`elapsed` give), what is closed, what was reported, and, for every manifest on the
disk, that its digests are those of whole files (`ManifestsWhole`). The last does not
mention the files on the disk: whatever has been overwritten or cut since, a digest
is equal only to the content it was taken from. `DatasetTypes` adds that a path never
has two manifests (`Single`): the only step that writes one replaces what was there.

**Frame baseline (`ExperimentProofs`).**

- `DetectionIsOnline`: the inductive invariant `MetricsInv`. `DetectionAgrees` alone
  says nothing of the detector's counters, so `Tracks` adds, for each loop, that
  `run` is the number of hits in a row at the end of its group, `onset` the one onset
  whose activation goes on without a confirmation, and `was` the last label; `Grid`
  says that the records are full frames, so that the group of a loop is one record
  per frame (`ColumnIsGroup`). When a frame is added, each group grows by its last
  record (`DetectorStep`): an earlier onset keeps its first confirmation, the
  pending one is confirmed exactly when `run` reaches `Persistence` (`ConfirmsNow`),
  and no other changes (`Decides`). `DetectionsAgree` and `DetectionsStay` follow,
  the second because a group's new delays contain its old ones. `DetectionTypes`: a
  confirmation needs `Persistence` hits from the onset on, so no delay is shorter than
  `Persistence - 1` frames and none longer than the study (`DelayTypes`, `Sized`).
- `RankingIsDefined`: among the records of an instant, `Before` is a strict linear
  order, since no two have the same loop; the number of records not behind one is
  its rank, and distinct records have distinct ranks that fill `1..n` (`Ranks`). So
  a sorted list exists, and any has each record at its rank (`SortedRanks`,
  `RankedIs`); without this, `CHOOSE` in `Ranked` would say nothing.
- Both proofs rest on lemmas about `Nth` and `Filter`: an increasing list of a set of
  integers is its enumeration (`NthIs`), and every finite set has one
  (`NthEnumerates`). Counting takes the place of induction over the list.

**Studies (`ExperimentProofs`).**

- `PoolIsSequential`, that is `ScheduleFree` for all worlds, jobs and pool sizes:
  `PoolInv` says that the results taken so far are those of the first tasks and that
  the document at hand is made from all of them; the sets of running, finished and
  failed tasks do not occur in it, because `Take` is the only step that adds a result
  and takes the next one in order.
- `SplitsDoNotLeak`: the reports of a split read only results of that split and of
  the development seeds. `FramesReachNoFile`: the document is assembled from results
  whose frames were popped after the fit.
- `MatrixAgreesWithStudies`: `WrittenInv` says that each whole file holds the
  document of some job of its kind, however long ago it was written. The matrix is a
  table with a row per scenario and a column per seed (`CellOf`, `CellAt`), so the
  runs the code picks for a scenario are one row of it, which has the outcomes of
  the isolated study (`RowIsStudy`); the statistics are the same sums
  (`RunsOfRow`), and picking the failed runs of the scenario out of the failed runs of
  the matrix is picking the failed runs of the row (`AtTwice`, `FailedOfRow`).
- They assume that an evaluation gives the scenarios it was asked for
  (`experiments.py:430-434`) and some frames if it collects them, and that the first
  seed is a development seed (`experiments.py:22-26`).

**Only model-checked.**

- Liveness (`StartSettles`, `FramesKeepComing`, `StudyEnds`): fairness and `ENABLED`
  are outside the proof system. All other properties of the passing runs are
  theorems.
- `FrameCount`, whose run is a violation, and the other properties that do not hold:
  `BacklashTakesTravel`, and `NothingRepeated` for reads without a start.

## 5. Not modelled

- Floating point, but for `FrameCount`: times and values are integers. The engine's
  own sums of steps (`engine.py:481`) are exact for steps that are binary
  fractions or whole seconds, as in all built-in profiles; the study's means and
  deviations are sums.
- Process equations, noise and pseudo-random draws, whose results the models
  take as arbitrary or as functions of time.
- OPC UA sessions, subscriptions and security; the address space is built once.
- Catalog, benchmark-manifest and profile validation: stateless functions over
  complete documents, one field after the other.
- Ablation views, accuracy, F1 and loop localization inside a study: functions of
  the confusion matrix and of the records `BaselineMetrics` follows.
- Two processes on one database or one dataset path; one path given for both
  dataset files.

## 6. Plan

The modules are complete for what this document calls modelled. Every safety,
action and refinement property of the passing runs is a theorem, and so is the type
invariant of every module that has one. What is left are abstract specifications: a
page-free read that `HistoryRead` implements, and an unbuffered delay that
`PlantSimulator` implements.
