----------------------------- MODULE PlantServer -----------------------------
(***************************************************************************)
(* OpcUaPlantServer (server.py) and the SQLite historian it writes         *)
(* (storage.py): start with or without --reset, cold bootstrap, restart    *)
(* from a checkpoint across an outage, the real-time publication loop, and *)
(* everything that can interrupt them.                                     *)
(*                                                                         *)
(* Time is counted in seconds.  `now' is the event loop's monotonic clock; *)
(* the wall clock is read as now + d for some d in Skew.  The simulator is *)
(* deterministic in (seed, elapsed time), so its state is `elapsed' and    *)
(* the frame it emits is Observed[elapsed]: the signals with an            *)
(* observation at that time, each stamped Shift[s][elapsed] seconds late.  *)
(*                                                                         *)
(* The database is what survives a crash; `txn' is what the server's       *)
(* connection sees: the database with the open transaction applied.        *)
(***************************************************************************)
EXTENDS Integers, FiniteSets

CONSTANTS
  Signal,         \* the catalog's signals
  Config,         \* server configurations a checkpoint pins (seed, steps, cycle...)
  Sample,         \* sample_seconds
  Spans,          \* history_hours an operator may choose, in seconds
  FlushLimit,     \* values buffered before a bootstrap flush (100_000 in the code)
  Skew,           \* errors of the wall clock when it is read
  Observed,       \* Observed[e]: signals with an observation at elapsed time e
  Shift,          \* Shift[s][e]: how far s's source timestamp is shifted at e
  InitialDatabases, \* what earlier releases may have left in the file
  MaxElapsed,     \* bound: simulated seconds
  MaxNow,         \* bound: real seconds
  MaxStarts       \* bound: process starts

Elapsed == 0..MaxElapsed

Origin == [config : Config, start : Int]

Row == [signal : Signal, origin : Origin, server : Int, source : Int, id : Nat]

Checkpoint == [origin : Origin, elapsed : Elapsed]

\* The tables of the database file.  `last' is the newest _Id of each table.
Database == [rows : SUBSET Row, checkpoint : SUBSET Checkpoint, last : [Signal -> Nat]]

EmptyDatabase == [rows |-> {}, checkpoint |-> {}, last |-> [s \in Signal |-> 0]]

ASSUME TimeAssumption ==
  /\ Sample \in Nat \ {0}
  /\ Spans \subseteq Nat
  /\ Skew \subseteq Int /\ 0 \in Skew
  /\ MaxElapsed \in Nat
  /\ MaxNow \in Nat
  /\ MaxStarts \in Nat

ASSUME SimulatorAssumption ==
  /\ Observed \in [Elapsed -> SUBSET Signal]
  /\ Shift \in [Signal -> [Elapsed -> Nat]]

\* Irregular cadence shifts a timestamp by less than the signal's own cadence,
\* so the source timestamps of one signal increase from frame to frame.
ASSUME StampsIncrease ==
  \A s \in Signal : \A d, e \in Elapsed :
    d < e /\ s \in Observed[d] /\ s \in Observed[e]
      => d + Shift[s][d] < e + Shift[s][e]

-----------------------------------------------------------------------------
\* What a historian database must satisfy to be trusted by a restart.

\* The simulated time a checkpoint has reached, as a timestamp.
Reached(c) == c.origin.start + c.elapsed

\* The checkpoint table holds at most one row.
OneCheckpoint(b) == \A c, d \in b.checkpoint : c = d

\* A row is an observation its simulation made, at the row's server time.
Genuine(r) ==
  LET e == r.server - r.origin.start IN
    /\ e \in Elapsed
    /\ r.signal \in Observed[e]
    /\ r.source = r.server + Shift[r.signal][e]

OneSimulation(b) ==
  /\ \A r, q \in b.rows : r.origin = q.origin
  /\ \A r \in b.rows, c \in b.checkpoint : r.origin = c.origin

CheckpointCovers(b) == \A r \in b.rows, c \in b.checkpoint : r.server <= Reached(c)

\* Distinct rows of a signal have distinct _Id and source timestamps, in the
\* same order.
IdOrderIsTimeOrder(b) ==
  \A r, q \in b.rows :
    r.signal = q.signal /\ r # q =>
      \/ r.id < q.id /\ r.source < q.source
      \/ q.id < r.id /\ q.source < r.source

\* A frame that has a row has the rows of all its signals, less those that
\* retention removed when the signal's next value came.
WholeFrames(b) ==
  \A r \in b.rows : \A s \in Observed[r.server - r.origin.start] :
    \E q \in b.rows : q.signal = s /\ q.server >= r.server

SoundDatabase(b) ==
  /\ b \in Database
  /\ OneCheckpoint(b)
  /\ \A r \in b.rows : Genuine(r) /\ r.id <= b.last[r.signal]
  /\ OneSimulation(b)
  /\ CheckpointCovers(b)
  /\ IdOrderIsTimeOrder(b)
  /\ WholeFrames(b)

\* Earlier releases left no file, or a sealed one whose checkpoint may lie off
\* the sampling lattice, but not ahead of the clock.
ASSUME InitialAssumption ==
  \A b \in InitialDatabases :
    /\ SoundDatabase(b)
    /\ b.checkpoint = {} => b.rows = {}
    /\ \A c \in b.checkpoint : Reached(c) <= 0

-----------------------------------------------------------------------------
VARIABLES
  now,        \* the event loop's clock
  starts,     \* process starts so far
  db,         \* the committed database
  txn,        \* the database as the server's connection sees it
  pc,         \* where the server process is
  kind,       \* the frame being written: "boot", "resume" or "live"
  recorded,   \* _write_frame's history argument
  config,     \* this process's configuration
  span,       \* this process's history_hours, in seconds
  origin,     \* the simulator's configuration and start_at
  elapsed,    \* the simulator's elapsed_seconds
  pending,    \* bootstrap rows not yet flushed
  todo,       \* signals of the frame still to be written
  begun,      \* when the real-time iteration started
  heartbeat,  \* frame time of the OPC heartbeat node, -1 before the first
  shown       \* frame time of each OPC node's value, -1 before the first

data == <<db, txn>>
run == <<config, span, origin, elapsed>>
frame == <<kind, recorded, todo>>
opc == <<heartbeat, shown>>
vars == <<now, starts, data, pc, frame, run, pending, begun, opc>>

FramePC == {"heartbeat", "values", "commit"}

PC == FramePC \cup {"down", "open", "bootstrap", "flush", "flush_commit", "seal",
                    "ready", "sleep", "dead"}

\* Clients can connect once server.start() has returned.
Serving == pc \in {"ready", "sleep", "dead"} \/ (pc \in FramePC /\ kind = "live")

-----------------------------------------------------------------------------
\* Pure helpers.

Larger(a, b) == IF a >= b THEN a ELSE b

Floor(t) == (t \div Sample) * Sample

\* Mutant: a restart keeps the checkpoint's own time (releases before 0.3.5).
CeilingMissing(t) == t

Ceiling(t) == Floor(t + Sample - 1)

\* Where a restart resumes, given the checkpoint and the wall clock.
ResumeElapsed(c, wall) ==
  Larger(Floor(Larger(wall - c.origin.start, 0)), Ceiling(c.elapsed))

\* The row that the current frame holds for s, numbered after those of d.
RowOf(d, s, o, e) ==
  [signal |-> s, origin |-> o, server |-> o.start + e,
   source |-> o.start + e + Shift[s][e], id |-> d.last[s] + 1]

\* Mutant: retention stays deferred after the bootstrap.
ExpiredNever(rows, r, window) == {}

\* Mutant: the boundary row is deleted too.
ExpiredAtBoundary(rows, r, window) ==
  IF window = 0 THEN {}
  ELSE {q \in rows : q.signal = r.signal /\ q.source <= r.source - window}

\* Rows of r's table that retention removes once r is inserted (0: unbounded).
Expired(rows, r, window) ==
  IF window = 0 THEN {}
  ELSE {q \in rows : q.signal = r.signal /\ q.source < r.source - window}

\* save_node_values for one observation.
SaveNodeValue(d, r, window) ==
  [d EXCEPT !.rows = (@ \cup {r}) \ Expired(@, r, window),
            !.last = [@ EXCEPT ![r.signal] = r.id]]

\* Mutant: ON CONFLICT DO NOTHING keeps the first checkpoint.
SaveCheckpointOnce(d, o, e) ==
  IF d.checkpoint = {} THEN [d EXCEPT !.checkpoint = {[origin |-> o, elapsed |-> e]}] ELSE d

\* Mutant: the frame's timestamp is saved where its elapsed time belongs.
SaveTimestamp(d, o, e) ==
  [d EXCEPT !.checkpoint = {[origin |-> o, elapsed |-> o.start + e]}]

\* save_checkpoint: the table's single row is replaced.
SaveCheckpoint(d, o, e) ==
  [d EXCEPT !.checkpoint = {[origin |-> o, elapsed |-> e]}]

\* has_historical_values
HasHistoricalValues(d) == d.rows # {}

-----------------------------------------------------------------------------
Init ==
  /\ now = 0
  /\ starts = 0
  /\ db \in InitialDatabases
  /\ txn = db
  /\ pc = "down"
  /\ kind = "boot" /\ recorded = FALSE /\ todo = {}
  /\ config \in Config /\ span \in Spans
  /\ origin = [config |-> config, start |-> 0] /\ elapsed = 0
  /\ pending = {}
  /\ begun = 0
  /\ heartbeat = -1 /\ shown = [s \in Signal |-> -1]

\* The process ends: its memory is gone, and closing the connection drops the
\* open transaction.
Exit ==
  /\ pc' = "down"
  /\ txn' = db
  /\ kind' = "boot" /\ recorded' = FALSE /\ todo' = {}
  /\ pending' = {}
  /\ elapsed' = 0
  /\ begun' = 0
  /\ heartbeat' = -1 /\ shown' = [s \in Signal |-> -1]
  /\ UNCHANGED <<now, starts, db, config, span, origin>>

\* A real second passes.
Tick ==
  /\ now < MaxNow
  /\ now' = now + 1
  /\ UNCHANGED <<starts, data, pc, frame, run, pending, begun, opc>>

-----------------------------------------------------------------------------
\* start(): open the database, then decide between bootstrap and resume.

\* The process starts; --reset unlinks the file before it is opened.
Start(c, h, reset) ==
  /\ pc = "down"
  /\ starts < MaxStarts
  /\ starts' = starts + 1
  /\ config' = c /\ span' = h
  /\ db' = IF reset THEN EmptyDatabase ELSE db
  /\ txn' = db'
  /\ pc' = "open"
  /\ UNCHANGED <<now, frame, origin, elapsed, pending, begun, opc>>

\* Mutant: the configuration of a checkpoint is not compared.
CompatibleAlways(c) == TRUE

Compatible(c) == c.origin.config = config

\* Mutant: a checkpoint of another configuration is not refused.
RefusedUnsealed == txn.checkpoint = {} /\ HasHistoricalValues(txn)

\* Rows without a checkpoint, or a checkpoint of another configuration.
Refused ==
  \/ txn.checkpoint = {} /\ HasHistoricalValues(txn)
  \/ \E c \in txn.checkpoint : ~Compatible(c)

Reject == pc = "open" /\ Refused /\ Exit

\* No checkpoint and no rows: the simulation starts history_hours ago.
BeginBootstrap(d) ==
  /\ pc = "open"
  /\ txn.checkpoint = {} /\ ~HasHistoricalValues(txn)
  /\ origin' = [config |-> config, start |-> now + d - span]
  /\ elapsed' = 0
  /\ IF span > 0
     THEN pc' = "bootstrap" /\ UNCHANGED todo
     ELSE pc' = "heartbeat" /\ todo' = Observed[0]
  /\ kind' = "boot" /\ recorded' = FALSE
  /\ UNCHANGED <<now, starts, data, config, span, pending, begun, opc>>

\* Mutant: the frame of a restart is always recorded.
RecordedAlways(c, resume) == TRUE

\* resumed_after_gap
Recorded(c, resume) == resume > c.elapsed

\* A simulator of this process's configuration, started when the checkpoint's was,
\* replays to the checkpoint and crosses the outage.  One current frame is written,
\* which is recorded only if simulated time moved.
Resume(d) ==
  /\ pc = "open"
  /\ \E c \in txn.checkpoint :
       LET resume == ResumeElapsed(c, now + d) IN
         /\ Compatible(c)
         /\ resume \in Elapsed
         /\ origin' = [config |-> config, start |-> c.origin.start]
         /\ elapsed' = resume
         /\ recorded' = Recorded(c, resume)
         /\ todo' = Observed[resume]
  /\ kind' = "resume"
  /\ pc' = "heartbeat"
  /\ UNCHANGED <<now, starts, data, config, span, pending, begun, opc>>

-----------------------------------------------------------------------------
\* _prepare_history() of a new simulation.

MoreFrames == elapsed + Sample <= span

\* One simulated frame joins the buffer, without touching the database.
BootstrapFrame ==
  /\ pc = "bootstrap"
  /\ MoreFrames
  /\ LET e == elapsed + Sample IN
       /\ e \in Elapsed
       /\ elapsed' = e
       /\ pending' = pending \cup {RowOf(txn, s, origin, e) : s \in Observed[e]}
       /\ txn' = [txn EXCEPT !.last =
                    [s \in Signal |-> IF s \in Observed[e] THEN @[s] + 1 ELSE @[s]]]
  /\ pc' = IF Cardinality(pending') >= FlushLimit THEN "flush" ELSE "bootstrap"
  /\ UNCHANGED <<now, starts, db, frame, config, span, origin, begun, opc>>

\* The final flush.
BootstrapDone ==
  /\ pc = "bootstrap"
  /\ ~MoreFrames
  /\ pc' = "flush"
  /\ UNCHANGED <<now, starts, data, frame, run, pending, begun, opc>>

\* _flush(): insert what is pending, without retention...
Flush ==
  /\ pc = "flush"
  /\ txn' = [txn EXCEPT !.rows = @ \cup pending]
  /\ pc' = "flush_commit"
  /\ UNCHANGED <<now, starts, db, frame, run, pending, begun, opc>>

\* ... and commit; after the last flush the current values are published.
FlushCommit ==
  /\ pc = "flush_commit"
  /\ db' = txn
  /\ pending' = {}
  /\ IF MoreFrames
     THEN pc' = "bootstrap" /\ UNCHANGED todo
     ELSE pc' = "heartbeat" /\ todo' = Observed[elapsed]
  /\ UNCHANGED <<now, starts, txn, kind, recorded, run, begun, opc>>

\* The bootstrap is complete: its checkpoint is saved in a commit of its own.
SealBootstrap ==
  /\ pc = "seal"
  /\ db' = SaveCheckpoint(txn, origin, elapsed)
  /\ txn' = db'
  /\ pc' = "ready"
  /\ UNCHANGED <<now, starts, frame, run, pending, begun, opc>>

\* An exception while preparing: _flush rolls back, start() raises, cli exits.
PrepareFails ==
  /\ pc \in {"flush", "flush_commit", "seal"}
  /\ Exit

-----------------------------------------------------------------------------
\* _realtime_loop() and _write_frame().

\* Mutant: the loop does not sleep.
IterationAtOnce == pc \in {"ready", "sleep"}

\* Mutant: the loop sleeps before its first frame, and nothing wakes it.
IterationAfterSleep == pc = "sleep" /\ now >= begun + Sample

\* An iteration starts at least one sample period after the previous one did.
IterationDue == pc = "ready" \/ (pc = "sleep" /\ now >= begun + Sample)

BeginFrame ==
  /\ IterationDue
  /\ elapsed + Sample \in Elapsed
  /\ elapsed' = elapsed + Sample
  /\ begun' = now
  /\ kind' = "live" /\ recorded' = TRUE /\ todo' = Observed[elapsed']
  /\ pc' = "heartbeat"
  /\ UNCHANGED <<now, starts, data, config, span, origin, pending, opc>>

\* What follows a completely written frame.
AfterFrame ==
  pc' = CASE kind = "boot" -> "seal"
          [] kind = "resume" -> "ready"
          [] kind = "live" -> "sleep"

\* Mutant: the heartbeat shows the frame before.
HeartbeatLate == elapsed - Sample

HeartbeatTime == elapsed

WriteHeartbeat ==
  /\ pc = "heartbeat"
  /\ heartbeat' = HeartbeatTime
  /\ pc' = "values"
  /\ UNCHANGED <<now, starts, data, frame, run, pending, begun, shown>>

\* Mutant: the row is saved without the node having been written.
PublishedOrNot == todo

\* The signals whose OPC node shows this frame but whose row is not saved yet:
\* at most one at a time.
Published == {s \in todo : shown[s] = elapsed}

\* One observation: the OPC node first...
PublishValue(s) ==
  /\ pc = "values"
  /\ s \in todo /\ Published = {}
  /\ shown' = [shown EXCEPT ![s] = elapsed]
  /\ todo' = IF recorded THEN todo ELSE todo \ {s}
  /\ UNCHANGED <<now, starts, data, pc, kind, recorded, run, pending, begun, heartbeat>>

\* ... then, in a recorded frame, its history table.
SaveValue(s) ==
  /\ pc = "values" /\ recorded
  /\ s \in Published
  /\ todo' = todo \ {s}
  /\ txn' = SaveNodeValue(txn, RowOf(txn, s, origin, elapsed), span)
  /\ UNCHANGED <<now, starts, db, pc, kind, recorded, run, pending, begun, opc>>

\* An unrecorded frame ends with its last value.
EndUnrecorded ==
  /\ pc = "values"
  /\ todo = {}
  /\ ~recorded
  /\ AfterFrame
  /\ UNCHANGED <<now, starts, data, frame, run, pending, begun, opc>>

\* A recorded frame adds its checkpoint to the same transaction...
FrameCheckpoint ==
  /\ pc = "values"
  /\ todo = {}
  /\ recorded
  /\ txn' = SaveCheckpoint(txn, origin, elapsed)
  /\ pc' = "commit"
  /\ UNCHANGED <<now, starts, db, frame, run, pending, begun, opc>>

\* ... and commits it.
CommitFrame ==
  /\ pc = "commit"
  /\ db' = txn
  /\ AfterFrame
  /\ UNCHANGED <<now, starts, txn, frame, run, pending, begun, opc>>

\* An exception inside _write_frame: roll back and raise.  The real-time task
\* dies while the endpoint keeps serving.
LoopDies ==
  /\ pc \in FramePC
  /\ kind = "live"
  /\ txn' = db
  /\ pc' = "dead"
  /\ UNCHANGED <<now, starts, db, frame, run, pending, begun, opc>>

\* The same exception before the endpoint is up ends the process.
StartFails ==
  /\ pc \in FramePC
  /\ kind # "live"
  /\ Exit

\* stop(): cancel the task wherever it is, close the endpoint and the database.
Stop == Serving /\ Exit

\* The process is killed.
Crash == pc # "down" /\ Exit

-----------------------------------------------------------------------------
StartStep ==
  \E c \in Config, h \in Spans, reset \in BOOLEAN : Start(c, h, reset)

Prepare ==
  \/ Reject
  \/ \E d \in Skew : BeginBootstrap(d) \/ Resume(d)
  \/ BootstrapFrame \/ BootstrapDone \/ Flush \/ FlushCommit \/ SealBootstrap

WriteFrame ==
  \/ WriteHeartbeat
  \/ \E s \in Signal : PublishValue(s) \/ SaveValue(s)
  \/ EndUnrecorded \/ FrameCheckpoint \/ CommitFrame

Failure == PrepareFails \/ LoopDies \/ StartFails \/ Stop \/ Crash

Next == Tick \/ StartStep \/ Prepare \/ BeginFrame \/ WriteFrame \/ Failure

Spec == Init /\ [][Next]_vars

\* The event loop runs every ready coroutine, and time passes.
Fairness ==
  /\ WF_vars(Tick)
  /\ WF_vars(Prepare)
  /\ WF_vars(BeginFrame)
  /\ WF_vars(WriteFrame)

FairSpec == Spec /\ Fairness
-----------------------------------------------------------------------------
\* Properties.

TypeOK ==
  /\ now \in 0..MaxNow /\ starts \in 0..MaxStarts
  /\ db \in Database /\ txn \in Database
  /\ pc \in PC
  /\ kind \in {"boot", "resume", "live"} /\ recorded \in BOOLEAN
  /\ todo \subseteq Signal
  /\ config \in Config /\ span \in Spans /\ origin \in Origin /\ elapsed \in Elapsed
  /\ pending \subseteq Row
  /\ begun \in 0..MaxNow
  /\ heartbeat \in Elapsed \cup {-1}
  /\ shown \in [Signal -> Elapsed \cup {-1}]

\* Whatever crashed or failed, the committed database is one a restart can
\* trust: one simulation, whole frames, no row past the checkpoint, no
\* duplicated value, _Id order equal to time order (what read_node_history's
\* ORDER BY "_Id" relies on).
DatabaseSound == SoundDatabase(db)

\* After each iteration of the real-time loop, what OPC clients see is what
\* the history holds and what a restart would resume from.
ServedIsRecorded ==
  pc = "sleep" =>
    /\ db.checkpoint = {[origin |-> origin, elapsed |-> elapsed]}
    /\ \A s \in Observed[elapsed] :
         /\ shown[s] = elapsed
         /\ \E r \in db.rows : r.signal = s /\ r.server = origin.start + elapsed

\* Clients never see a value newer than the heartbeat, and see mixed frames
\* only while one is being written or after the loop died.
HeartbeatLeadsValues ==
  /\ \A s \in Signal : shown[s] <= heartbeat
  /\ Serving /\ pc \notin {"values", "dead"} =>
       \A s \in Observed[heartbeat] : shown[s] = heartbeat

\* History reads share the server's connection and see rows before they are
\* committed.  Such a row is always a value of the current frame that live
\* clients already see, and none is left once a frame has ended or failed.
OpenRowsAreServed ==
  Serving =>
    \A r \in txn.rows \ db.rows :
      /\ pc \in FramePC
      /\ r.server = origin.start + elapsed
      /\ heartbeat = elapsed /\ shown[r.signal] = elapsed

\* A completed live frame leaves no value of its signals outside retention.
RetentionHolds ==
  pc = "sleep" /\ span > 0 =>
    \A s \in Observed[elapsed] : \A r \in db.rows :
      r.signal = s => r.source >= origin.start + elapsed + Shift[s][elapsed] - span

\* Every frame the endpoint serves lies on the sampling lattice, whatever
\* checkpoint the process resumed from.
FramesAligned == Serving => elapsed % Sample = 0

\* Simulated time runs ahead of the wall clock by at most one sample per
\* process start (and one for the realignment of an old checkpoint).
LeadBounded ==
  \A c \in db.checkpoint : \E d \in Skew : Reached(c) <= now + d + (starts + 1) * Sample

\* A row leaves the history only by reset, or because a value of its signal
\* newer by more than the retention window has arrived.
PruneStep ==
  \A r \in db.rows \ db'.rows :
    \/ db' = EmptyDatabase
    \/ \E q \in db'.rows : q.signal = r.signal /\ r.source < q.source - span

PruneOnlyExpired == [][PruneStep]_vars

\* The historian seen from outside: see Historian.tla.
H == INSTANCE Historian WITH rows <- db.rows, checkpoint <- db.checkpoint

ImplementsHistorian == H!Spec

\* start() settles: the endpoint comes up or the process is gone.
StartSettles == pc = "open" ~> pc \in {"ready", "down"}

\* The real-time loop keeps writing frames, and finishes each, until it dies or
\* the process ends, for as long as the model's bounds leave room for a frame.
FramesKeepComing ==
  /\ pc \in {"ready", "sleep"} /\ begun + Sample <= MaxNow /\ elapsed + Sample <= MaxElapsed
       ~> pc \in {"heartbeat", "dead", "down"}
  /\ pc \in FramePC ~> pc \notin FramePC
=============================================================================
