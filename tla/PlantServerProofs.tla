-------------------------- MODULE PlantServerProofs --------------------------
(***************************************************************************)
(* Proofs about the server and its health check for every plant, sampling  *)
(* period, retention window and wall-clock error: type correctness,        *)
(* soundness of the committed database, the implementation of Historian,   *)
(* and what clients see: live values, history reads, frame times, the lead *)
(* of simulated time and the report of a dead loop.                        *)
(***************************************************************************)
EXTENDS HealthCheck, TLAPS

-----------------------------------------------------------------------------
\* Type correctness.

LEMMA RowOfType ==
  ASSUME NEW d \in Database, NEW s \in Signal, NEW o \in Origin, NEW e \in Elapsed
  PROVE  RowOf(d, s, o, e) \in Row
<1>1. Shift[s][e] \in Nat /\ d.last[s] \in Nat /\ o.start \in Int /\ e \in Int
  BY SimulatorAssumption, TimeAssumption DEF Database, Origin, Elapsed
<1> QED
  BY <1>1 DEF RowOf, Row

LEMMA SaveNodeValueType ==
  ASSUME NEW d \in Database, NEW r \in Row, NEW w
  PROVE  SaveNodeValue(d, r, w) \in Database
<1>1. (d.rows \cup {r}) \ Expired(d.rows, r, w) \subseteq Row
  BY DEF Database
<1>2. [d.last EXCEPT ![r.signal] = r.id] \in [Signal -> Nat]
  BY DEF Database, Row
<1> QED
  BY <1>1, <1>2 DEF SaveNodeValue, Database

LEMMA SaveCheckpointType ==
  ASSUME NEW d \in Database, NEW o \in Origin, NEW e \in Elapsed
  PROVE  SaveCheckpoint(d, o, e) \in Database
BY DEF SaveCheckpoint, Database, Checkpoint

LEMMA EmptyDatabaseSound == SoundDatabase(EmptyDatabase)
BY DEF SoundDatabase, EmptyDatabase, Database, OneCheckpoint, OneSimulation,
       CheckpointCovers, IdOrderIsTimeOrder, WholeFrames

LEMMA ExitType == TypeOK /\ Exit => TypeOK'
<1> SUFFICES ASSUME TypeOK, Exit PROVE TypeOK'
  OBVIOUS
<1>1. /\ now' \in 0..MaxNow /\ starts' \in 0..MaxStarts /\ pc' \in PC
      /\ db' \in Database /\ txn' \in Database
  BY DEF TypeOK, Exit, PC
<1>2. kind' \in {"boot", "resume", "live"} /\ recorded' \in BOOLEAN
  BY DEF Exit
<1>3. todo' \subseteq Signal /\ pending' \subseteq Row
  BY DEF Exit
<1>4. elapsed' \in Elapsed /\ begun' \in 0..MaxNow
  BY TimeAssumption DEF Exit, Elapsed
<1>5. config' \in Config /\ span' \in Spans /\ origin' \in Origin
  BY DEF TypeOK, Exit
<1>6. heartbeat' \in Elapsed \cup {-1} /\ shown' \in [Signal -> Elapsed \cup {-1}]
  BY DEF Exit
<1> QED
  BY <1>1, <1>2, <1>3, <1>4, <1>5, <1>6 DEF TypeOK

LEMMA InitType == Init => TypeOK
<1> SUFFICES ASSUME Init PROVE TypeOK
  OBVIOUS
<1>1. db \in Database
  BY InitialAssumption DEF Init, SoundDatabase
<1>2. /\ now \in 0..MaxNow /\ starts \in 0..MaxStarts /\ pc \in PC
      /\ elapsed \in Elapsed /\ begun \in 0..MaxNow
  BY TimeAssumption DEF Init, PC, Elapsed
<1>3. /\ kind \in {"boot", "resume", "live"} /\ recorded \in BOOLEAN
      /\ todo \subseteq Signal /\ pending \subseteq Row
  BY DEF Init
<1>4. config \in Config /\ span \in Spans /\ origin \in Origin
  BY DEF Init, Origin
<1>5. heartbeat \in Elapsed \cup {-1} /\ shown \in [Signal -> Elapsed \cup {-1}]
  BY DEF Init
<1> QED
  BY <1>1, <1>2, <1>3, <1>4, <1>5 DEF Init, TypeOK

\* A process resumes only a simulation of its own configuration, so the origin that
\* it builds is the checkpoint's.
LEMMA ResumedOrigin ==
  ASSUME NEW c, c.origin \in Origin, Compatible(c)
  PROVE  [config |-> config, start |-> c.origin.start] = c.origin
BY DEF Compatible, Origin

LEMMA NextType == TypeOK /\ [Next]_vars => TypeOK'
<1> SUFFICES ASSUME TypeOK, [Next]_vars PROVE TypeOK'
  OBVIOUS
<1> USE DEF TypeOK
<1>1. CASE Tick
  BY <1>1, TimeAssumption DEF Tick, data, frame, run, opc
<1>2. ASSUME NEW c \in Config, NEW h \in Spans, NEW reset \in BOOLEAN, Start(c, h, reset)
      PROVE  TypeOK'
  <2>1. EmptyDatabase \in Database
    BY EmptyDatabaseSound DEF SoundDatabase
  <2> QED
    BY <1>2, <2>1, TimeAssumption DEF Start, frame, opc, PC
<1>3. CASE Reject
  BY <1>3, ExitType DEF Reject
<1>4. ASSUME NEW d \in Skew, BeginBootstrap(d)
      PROVE  TypeOK'
  <2>1. now + d - span \in Int /\ 0 \in Elapsed
    BY TimeAssumption DEF Elapsed
  <2>2. origin' \in Origin /\ elapsed' \in Elapsed
    BY <1>4, <2>1 DEF BeginBootstrap, Origin
  <2>3. pc' \in PC /\ todo' \subseteq Signal /\ kind' \in {"boot", "resume", "live"}
    BY <1>4, <2>1, SimulatorAssumption DEF BeginBootstrap, PC, FramePC
  <2>4. recorded' \in BOOLEAN
    BY <1>4 DEF BeginBootstrap
  <2> QED
    BY <1>4, <2>2, <2>3, <2>4 DEF BeginBootstrap, data, opc
<1>5. ASSUME NEW d \in Skew, Resume(d)
      PROVE  TypeOK'
  <2>1. PICK c \in txn.checkpoint :
          /\ Compatible(c)
          /\ ResumeElapsed(c, now + d) \in Elapsed
          /\ origin' = [config |-> config, start |-> c.origin.start]
          /\ elapsed' = ResumeElapsed(c, now + d)
          /\ recorded' = Recorded(c, ResumeElapsed(c, now + d))
          /\ todo' = Observed[ResumeElapsed(c, now + d)]
    BY <1>5 DEF Resume
  <2>2. c.origin \in Origin /\ recorded' \in BOOLEAN
    BY <2>1 DEF Database, Checkpoint, Recorded
  <2>3. origin' \in Origin
    BY <2>1, <2>2, ResumedOrigin
  <2> QED
    BY <1>5, <2>1, <2>2, <2>3, SimulatorAssumption DEF Resume, data, opc, PC, FramePC
<1>6. CASE BootstrapFrame
  <2> DEFINE e == elapsed + Sample
  <2>1. e \in Elapsed /\ elapsed' = e
    BY <1>6 DEF BootstrapFrame
  <2>2. Observed[e] \subseteq Signal
    BY <2>1, SimulatorAssumption
  <2>3. pending' \subseteq Row
    BY <1>6, <2>1, <2>2, RowOfType DEF BootstrapFrame
  <2>4. [s \in Signal |-> IF s \in Observed[e] THEN txn.last[s] + 1 ELSE txn.last[s]]
          \in [Signal -> Nat]
    BY DEF Database
  <2>5. txn' \in Database
    BY <1>6, <2>4 DEF BootstrapFrame, Database
  <2> QED
    BY <1>6, <2>1, <2>3, <2>5 DEF BootstrapFrame, frame, opc, PC
<1>7. CASE BootstrapDone
  BY <1>7 DEF BootstrapDone, data, frame, run, opc, PC
<1>8. CASE Flush
  <2>1. txn' \in Database
    BY <1>8 DEF Flush, Database
  <2> QED
    BY <1>8, <2>1 DEF Flush, frame, run, opc, PC
<1>9. CASE FlushCommit
  BY <1>9, SimulatorAssumption DEF FlushCommit, run, opc, PC, FramePC
<1>10. CASE SealBootstrap
  BY <1>10, SaveCheckpointType DEF SealBootstrap, frame, run, opc, PC
<1>11. CASE PrepareFails
  BY <1>11, ExitType DEF PrepareFails
<1>12. CASE BeginFrame
  BY <1>12, SimulatorAssumption DEF BeginFrame, data, opc, PC, FramePC
<1>13. CASE WriteHeartbeat
  BY <1>13 DEF WriteHeartbeat, HeartbeatTime, data, frame, run, PC, FramePC
<1>14a. ASSUME NEW s \in Signal, PublishValue(s)
        PROVE  TypeOK'
  <2>1. shown' \in [Signal -> Elapsed \cup {-1}] /\ todo' \subseteq Signal
    BY <1>14a DEF PublishValue
  <2> QED
    BY <1>14a, <2>1 DEF PublishValue, data, run, PC
<1>14b. ASSUME NEW s \in Signal, SaveValue(s)
        PROVE  TypeOK'
  <2>1. txn' \in Database
    BY <1>14b, RowOfType, SaveNodeValueType DEF SaveValue
  <2> QED
    BY <1>14b, <2>1 DEF SaveValue, run, opc, PC
<1>15. CASE EndUnrecorded
  BY <1>15 DEF EndUnrecorded, AfterFrame, data, frame, run, opc, PC
<1>16. CASE FrameCheckpoint
  BY <1>16, SaveCheckpointType DEF FrameCheckpoint, frame, run, opc, PC, FramePC
<1>17. CASE CommitFrame
  BY <1>17 DEF CommitFrame, AfterFrame, frame, run, opc, PC
<1>18. CASE LoopDies
  BY <1>18 DEF LoopDies, frame, run, opc, PC
<1>19. CASE StartFails
  BY <1>19, ExitType DEF StartFails
<1>20. CASE Stop
  BY <1>20, ExitType DEF Stop
<1>21. CASE Crash
  BY <1>21, ExitType DEF Crash
<1>22. CASE UNCHANGED vars
  BY <1>22 DEF vars, data, frame, run, opc
<1> QED
  BY <1>1, <1>2, <1>3, <1>4, <1>5, <1>6, <1>7, <1>8, <1>9, <1>10, <1>11, <1>12, <1>13,
     <1>14a, <1>14b, <1>15, <1>16, <1>17, <1>18, <1>19, <1>20, <1>21, <1>22
  DEF Next, StartStep, Prepare, WriteFrame, Failure

\* Every variable of the server keeps its type.
THEOREM TypeCorrect == Spec => []TypeOK
BY InitType, NextType, PTL DEF Spec

-----------------------------------------------------------------------------
\* The inductive invariant behind DatabaseSound.  It says, for each place the
\* process can be in, how the connection's view differs from the database.

\* A new simulation is being prepared: nothing is sealed yet.
Booting == pc \in {"bootstrap", "flush", "flush_commit", "seal"} \/ (pc \in FramePC /\ kind = "boot")

\* The process runs on a sealed history.
Sealed == pc \in {"ready", "sleep", "dead"} \/ (pc \in FramePC /\ kind # "boot")

\* No transaction is open.
TxnClosed ==
  \/ pc \in {"down", "open", "heartbeat", "seal", "ready", "sleep", "dead"}
  \/ pc \in FramePC /\ ~recorded
  => txn = db

\* The database once the buffered bootstrap rows are flushed.
Buffered == [txn EXCEPT !.rows = @ \cup pending]

\* What a bootstrap has made so far is a sound, unsealed database of its own
\* simulation, no later than its current frame.
BootInv ==
  Booting =>
    /\ ~recorded /\ kind = "boot"
    /\ db.checkpoint = {} /\ txn.checkpoint = {}
    /\ db.rows \subseteq txn.rows
    /\ SoundDatabase(Buffered)
    /\ \A r \in Buffered.rows : r.origin = origin /\ r.server <= origin.start + elapsed
    /\ pc \notin {"bootstrap", "flush"} => pending \subseteq txn.rows

Here == [origin |-> origin, elapsed |-> elapsed]

\* The sealed history belongs to this simulation, is behind a frame being
\* recorded, and level with the simulator otherwise.
SealedInv ==
  Sealed =>
    /\ \E c \in db.checkpoint : c.origin = origin
    /\ pc \in {"ready", "sleep"} => db.checkpoint = {Here}
    /\ pc \in FramePC /\ ~recorded => db.checkpoint = {Here}
    /\ pc \in FramePC /\ recorded => \A c \in db.checkpoint : c.elapsed < elapsed
    /\ pc \in FramePC /\ kind = "live" => recorded

\* The row of signal s in the frame being written.
InFrame(r) == r.server = origin.start + elapsed

\* The rows of the open transaction: the database's, less what the frame's
\* values have expired, plus the frame's values.
FrameRows ==
  /\ \A r \in txn.rows :
       Genuine(r) /\ r.id <= txn.last[r.signal] /\ r.origin = origin
  /\ IdOrderIsTimeOrder(txn)
  /\ \A r \in txn.rows : r \in db.rows \/ (InFrame(r) /\ r.signal \notin todo)
  /\ \A s \in Observed[elapsed] \ todo : \E r \in txn.rows : r.signal = s /\ InFrame(r)
  /\ \A r \in txn.rows : r \in db.rows =>
       \A s \in Observed[r.server - origin.start] :
         \E q \in txn.rows : q.signal = s /\ q.server >= r.server
  /\ \A r \in db.rows \ txn.rows :
       /\ r.signal \notin todo
       /\ \E q \in txn.rows : q.signal = r.signal /\ r.source < q.source - span

FrameInv ==
  pc \in {"values", "commit"} /\ recorded =>
    /\ FrameRows
    /\ pc = "values" => todo \subseteq Observed[elapsed] /\ txn.checkpoint = db.checkpoint
    /\ pc = "commit" => todo = {} /\ txn.checkpoint = {Here}

HeartbeatInv == pc = "heartbeat" => todo = Observed[elapsed]

Inv ==
  /\ TypeOK
  /\ SoundDatabase(db)
  /\ TxnClosed
  /\ BootInv
  /\ SealedInv
  /\ FrameInv
  /\ HeartbeatInv
  /\ pc = "commit" => recorded
  /\ pc \notin {"bootstrap", "flush", "flush_commit"} => pending = {}

-----------------------------------------------------------------------------
\* Facts about rows and about the two ways of adding them.

LEMMA RowOfFields ==
  ASSUME NEW d \in Database, NEW s \in Signal, NEW o \in Origin, NEW e \in Elapsed,
         s \in Observed[e]
  PROVE  LET r == RowOf(d, s, o, e) IN
           /\ r \in Row
           /\ r.signal = s /\ r.origin = o /\ r.server = o.start + e
           /\ r.source = o.start + e + Shift[s][e] /\ r.id = d.last[s] + 1
           /\ Genuine(r)
<1> DEFINE r == RowOf(d, s, o, e)
<1>1. r \in Row
  BY RowOfType
<1>2. /\ r.signal = s /\ r.origin = o /\ r.server = o.start + e
      /\ r.source = o.start + e + Shift[s][e] /\ r.id = d.last[s] + 1
  BY DEF RowOf
<1>3. o.start \in Int /\ e \in Int
  BY TimeAssumption DEF Origin, Elapsed
<1>4. r.server - r.origin.start = e
  BY <1>2, <1>3
<1>5. Genuine(r)
  BY <1>2, <1>4 DEF Genuine
<1> QED
  BY <1>1, <1>2, <1>5

\* An observation of a later frame carries a later source timestamp.
LEMMA LaterStamp ==
  ASSUME NEW r \in Row, Genuine(r), NEW e \in Elapsed, r.signal \in Observed[e],
         r.server < r.origin.start + e
  PROVE  r.source < r.origin.start + e + Shift[r.signal][e]
<1> DEFINE d == r.server - r.origin.start
           s == r.signal
<1>1. /\ d \in Elapsed /\ s \in Observed[d] /\ r.source = r.server + Shift[s][d]
      /\ s \in Signal /\ r.origin.start \in Int /\ r.server \in Int
  BY DEF Genuine, Row, Origin
<1>2. d \in Int /\ e \in Int
  BY <1>1, TimeAssumption DEF Elapsed
<1>3. d < e
  BY <1>1, <1>2
<1>4. d + Shift[s][d] < e + Shift[s][e]
  BY <1>1, <1>3, StampsIncrease
<1>5. Shift[s][d] \in Nat /\ Shift[s][e] \in Nat
  BY <1>1, SimulatorAssumption
<1>6. r.source = r.origin.start + d + Shift[s][d]
  BY <1>1, <1>2, <1>5
<1> QED
  BY <1>1, <1>2, <1>4, <1>5, <1>6

\* A bootstrap frame appended to a sound unsealed database leaves it sound.
LEMMA AppendFrame ==
  ASSUME NEW b \in Database, NEW d \in Database, NEW b2 \in Database,
         NEW o \in Origin, NEW e \in Elapsed,
         SoundDatabase(b), b.checkpoint = {}, b2.checkpoint = {}, d.last = b.last,
         \A r \in b.rows : r.origin = o /\ r.server < o.start + e,
         b2.rows = b.rows \cup {RowOf(d, s, o, e) : s \in Observed[e]},
         \A s \in Signal : b2.last[s] = IF s \in Observed[e] THEN b.last[s] + 1 ELSE b.last[s]
  PROVE  /\ SoundDatabase(b2)
         /\ \A r \in b2.rows : r.origin = o /\ r.server <= o.start + e
<1> DEFINE N == {RowOf(d, s, o, e) : s \in Observed[e]}
<1>1. Observed[e] \subseteq Signal /\ e \in Int /\ o.start \in Int
  BY SimulatorAssumption, TimeAssumption DEF Elapsed, Origin
<1>2. ASSUME NEW r \in N
      PROVE  /\ r \in Row /\ r.signal \in Observed[e] /\ r.origin = o
             /\ r.server = o.start + e
             /\ r.source = o.start + e + Shift[r.signal][e]
             /\ r.id = b.last[r.signal] + 1 /\ Genuine(r)
  <2>1. PICK s \in Observed[e] : r = RowOf(d, s, o, e)
    OBVIOUS
  <2> QED
    BY <1>1, <2>1, RowOfFields
<1>3. ASSUME NEW r \in b.rows
      PROVE  /\ r \in Row /\ Genuine(r) /\ r.id <= b.last[r.signal]
             /\ r.signal \in Signal /\ r.id \in Nat /\ r.server \in Int
             /\ r.origin = o /\ r.server < o.start + e
  BY DEF SoundDatabase, Database, Row
<1>4. \A s \in Signal : b.last[s] \in Nat /\ b2.last[s] \in Nat
  BY DEF Database
<1>5. OneCheckpoint(b2) /\ CheckpointCovers(b2)
  BY DEF OneCheckpoint, CheckpointCovers
<1>6. OneSimulation(b2)
  BY <1>2, <1>3 DEF OneSimulation
<1>7. \A r \in b2.rows : Genuine(r) /\ r.id <= b2.last[r.signal]
  <2>1. ASSUME NEW r \in b.rows PROVE Genuine(r) /\ r.id <= b2.last[r.signal]
    BY <1>3, <1>4
  <2>2. ASSUME NEW r \in N PROVE Genuine(r) /\ r.id <= b2.last[r.signal]
    BY <1>1, <1>2, <1>4
  <2> QED
    BY <2>1, <2>2
<1>8. IdOrderIsTimeOrder(b2)
  <2>1. ASSUME NEW r \in b.rows, NEW q \in N, r.signal = q.signal
        PROVE  r.id < q.id /\ r.source < q.source
    <3>1. r.source < q.source
      BY <1>2, <1>3, <2>1, LaterStamp
    <3>2. r.id < q.id
      BY <1>2, <1>3, <1>4, <2>1
    <3> QED
      BY <3>1, <3>2
  <2>2. ASSUME NEW r \in N, NEW q \in N, r.signal = q.signal
        PROVE  r = q
    BY <2>2 DEF RowOf
  <2>3. ASSUME NEW r \in b.rows, NEW q \in b.rows, r.signal = q.signal, r # q
        PROVE  \/ r.id < q.id /\ r.source < q.source
               \/ q.id < r.id /\ q.source < r.source
    BY <2>3 DEF SoundDatabase, IdOrderIsTimeOrder
  <2> QED
    BY <2>1, <2>2, <2>3 DEF IdOrderIsTimeOrder
<1>9. WholeFrames(b2)
  <2>1. ASSUME NEW r \in b.rows, NEW s \in Observed[r.server - r.origin.start]
        PROVE  \E q \in b2.rows : q.signal = s /\ q.server >= r.server
    BY DEF SoundDatabase, WholeFrames
  <2>2. ASSUME NEW r \in N, NEW s \in Observed[r.server - r.origin.start]
        PROVE  \E q \in b2.rows : q.signal = s /\ q.server >= r.server
    <3>1. s \in Observed[e] /\ r.server = o.start + e
      BY <1>1, <1>2
    <3>2. RowOf(d, s, o, e) \in N /\ RowOf(d, s, o, e).signal = s
          /\ RowOf(d, s, o, e).server = o.start + e
      BY <3>1 DEF RowOf
    <3> QED
      BY <1>1, <3>1, <3>2
  <2> QED
    BY <2>1, <2>2 DEF WholeFrames
<1>10. \A r \in b2.rows : r.origin = o /\ r.server <= o.start + e
  BY <1>1, <1>2, <1>3
<1> QED
  BY <1>5, <1>6, <1>7, <1>8, <1>9, <1>10 DEF SoundDatabase

\* Realigning a checkpoint never takes the simulation back.
LEMMA ResumeNotBefore ==
  ASSUME NEW c \in Checkpoint, NEW w \in Int
  PROVE  ResumeElapsed(c, w) >= c.elapsed
<1> DEFINE t == c.elapsed + Sample - 1
<1>1. c.elapsed \in Nat /\ Sample \in Nat \ {0} /\ c.origin.start \in Int
  BY TimeAssumption DEF Checkpoint, Elapsed, Origin
<1>2. t \in Nat
  BY <1>1
<1>3. t = Sample * (t \div Sample) + (t % Sample) /\ t % Sample \in 0..(Sample - 1)
  BY <1>1, <1>2
<1>4. t \div Sample \in Int
  BY <1>1, <1>2
<1>5. Ceiling(c.elapsed) = Sample * (t \div Sample)
  BY <1>1, <1>2, <1>4 DEF Ceiling, Floor
<1>6. Sample * (t \div Sample) \in Int
  BY <1>1, <1>4
<1>7. Ceiling(c.elapsed) >= c.elapsed
  BY <1>1, <1>3, <1>5, <1>6
<1> DEFINE u == Larger(w - c.origin.start, 0)
<1>8. u \in Nat
  BY <1>1 DEF Larger
<1>9. Floor(u) \in Int
  BY <1>1, <1>8 DEF Floor
<1> QED
  BY <1>1, <1>5, <1>6, <1>7, <1>9 DEF ResumeElapsed, Larger

\* Inserting one value of the current frame keeps FrameRows.
LEMMA SaveValueKeepsFrame ==
  ASSUME TypeOK, TypeOK', SoundDatabase(db), SealedInv, FrameInv, Sealed,
         NEW s \in Signal, SaveValue(s)
  PROVE  FrameRows' /\ txn'.checkpoint = db.checkpoint /\ todo' \subseteq Observed[elapsed]
<1> DEFINE new == RowOf(txn, s, origin, elapsed)
           gone == Expired(txn.rows, new, span)
<1>1. /\ pc = "values" /\ recorded /\ s \in todo /\ todo' = todo \ {s}
      /\ txn' = SaveNodeValue(txn, new, span)
      /\ UNCHANGED <<db, pc, kind, recorded, config, span, origin, elapsed>>
  BY DEF SaveValue, Published, run
<1>2. FrameRows /\ todo \subseteq Observed[elapsed] /\ txn.checkpoint = db.checkpoint
  BY <1>1 DEF FrameInv
<1>3. /\ txn \in Database /\ db \in Database /\ origin \in Origin /\ elapsed \in Elapsed
      /\ span \in Nat /\ elapsed \in Int /\ origin.start \in Int
  BY TimeAssumption DEF TypeOK, Origin, Elapsed
<1>4. /\ new \in Row /\ new.signal = s /\ new.origin = origin
      /\ new.server = origin.start + elapsed
      /\ new.source = origin.start + elapsed + Shift[s][elapsed]
      /\ new.id = txn.last[s] + 1 /\ Genuine(new)
  BY <1>1, <1>2, <1>3, RowOfFields
<1>5. /\ new.source \in Int /\ new.id \in Nat /\ txn.last[s] \in Nat /\ new.server \in Int
  BY <1>3, <1>4 DEF Row, Database
<1>6. /\ txn'.rows = (txn.rows \cup {new}) \ gone
      /\ txn'.last = [txn.last EXCEPT ![s] = new.id]
      /\ txn'.checkpoint = txn.checkpoint
  BY <1>1, <1>3, <1>4 DEF SaveNodeValue, Database
<1>7. new \in txn'.rows
  BY <1>3, <1>4, <1>5, <1>6 DEF Expired
<1>8. ASSUME NEW r \in gone
      PROVE  r \in txn.rows /\ r.signal = s /\ r.source < new.source - span
  BY <1>4 DEF Expired
<1>9. ASSUME NEW r \in txn.rows
      PROVE  /\ r \in Row /\ Genuine(r) /\ r.id <= txn.last[r.signal] /\ r.origin = origin
             /\ r.signal \in Signal /\ r.server \in Int /\ r.source \in Int /\ r.id \in Nat
             /\ r \in db.rows \/ (r.server = origin.start + elapsed /\ r.signal \notin todo)
  BY <1>2, <1>3 DEF FrameRows, InFrame, Database, Row
\* The database's rows precede the frame being written.
<1>10. ASSUME NEW r \in db.rows
       PROVE  r.server < origin.start + elapsed /\ r \in Row /\ r.origin = origin
  <2>1. PICK c \in db.checkpoint : c.origin = origin
    BY DEF SealedInv
  <2>2. c.elapsed < elapsed /\ c.elapsed \in Int
    BY <1>1, <1>3, <2>1, TimeAssumption DEF SealedInv, FramePC, Database, Checkpoint, Elapsed
  <2>3. r.server <= origin.start + c.elapsed /\ r.origin = origin
    BY <2>1 DEF SoundDatabase, CheckpointCovers, Reached, OneSimulation
  <2>4. r \in Row /\ r.server \in Int
    BY <1>3 DEF Database, Row
  <2> QED
    BY <1>3, <2>2, <2>3, <2>4
<1>11. ASSUME NEW r \in txn.rows, r.signal = s
       PROVE  r.id < new.id /\ r.source < new.source /\ r \in db.rows
  <2>1. r \in db.rows
    BY <1>1, <1>9, <1>11
  <2>2. r.server < r.origin.start + elapsed
    BY <1>9, <1>10, <2>1
  <2>3. r.source < r.origin.start + elapsed + Shift[s][elapsed]
    BY <1>1, <1>2, <1>3, <1>9, <1>11, <2>2, LaterStamp
  <2> QED
    BY <1>4, <1>5, <1>9, <1>11, <2>1, <2>3
<1>12. \A r \in txn'.rows :
         Genuine(r) /\ r.id <= txn'.last[r.signal] /\ r.origin = origin
  <2>1. \A t \in Signal : txn.last[t] \in Nat
    BY <1>3 DEF Database
  <2>2. ASSUME NEW r \in txn.rows
        PROVE  Genuine(r) /\ r.id <= txn'.last[r.signal] /\ r.origin = origin
    <3>1. CASE r.signal = s
      BY <1>3, <1>4, <1>5, <1>6, <1>9, <1>11, <3>1 DEF Database
    <3>2. CASE r.signal # s
      BY <1>3, <1>6, <1>9, <3>2 DEF Database
    <3> QED
      BY <3>1, <3>2
  <2>3. new.id <= txn'.last[new.signal]
    BY <1>3, <1>4, <1>5, <1>6 DEF Database
  <2> QED
    BY <1>4, <1>6, <2>2, <2>3
<1>13. IdOrderIsTimeOrder(txn')
  BY <1>2, <1>4, <1>6, <1>11 DEF IdOrderIsTimeOrder, FrameRows
<1>14. \A r \in txn'.rows : r \in db.rows \/ (r.server = origin.start + elapsed /\ r.signal \notin todo')
  BY <1>1, <1>4, <1>6, <1>9
<1>15. ASSUME NEW t \in Observed[elapsed] \ todo'
       PROVE  \E r \in txn'.rows : r.signal = t /\ r.server = origin.start + elapsed
  <2>1. CASE t = s
    BY <1>4, <1>7, <2>1
  <2>2. CASE t # s
    <3>1. PICK r \in txn.rows : r.signal = t /\ r.server = origin.start + elapsed
      BY <1>1, <1>2, <2>2 DEF FrameRows, InFrame
    <3>2. r \notin gone
      BY <1>8, <2>2, <3>1
    <3> QED
      BY <1>6, <3>1, <3>2
  <2> QED
    BY <2>1, <2>2
<1>16. ASSUME NEW r \in txn'.rows, r \in db.rows, NEW t \in Observed[r.server - origin.start]
       PROVE  \E q \in txn'.rows : q.signal = t /\ q.server >= r.server
  <2>1. r.server < origin.start + elapsed /\ r.server \in Int
    BY <1>10, <1>16 DEF Row
  <2>2. CASE t = s
    BY <1>3, <1>4, <1>5, <1>7, <2>1, <2>2
  <2>3. CASE t # s
    <3>1. r \in txn.rows
      BY <1>4, <1>5, <1>6, <1>16, <2>1, <1>3
    <3>2. PICK q \in txn.rows : q.signal = t /\ q.server >= r.server
      BY <1>2, <1>16, <3>1 DEF FrameRows
    <3>3. q \notin gone
      BY <1>8, <2>3, <3>2
    <3> QED
      BY <1>6, <3>2, <3>3
  <2> QED
    BY <2>2, <2>3
<1>17. ASSUME NEW r \in db.rows \ txn'.rows
       PROVE  /\ r.signal \notin todo'
              /\ \E q \in txn'.rows : q.signal = r.signal /\ r.source < q.source - span
  <2>1. CASE r \in txn.rows
    <3>1. r \in gone
      BY <1>6, <1>17, <2>1
    <3> QED
      BY <1>1, <1>4, <1>7, <1>8, <3>1
  <2>2. CASE r \notin txn.rows
    <3>1. r.signal \notin todo
      BY <1>2, <1>17, <2>2 DEF FrameRows
    <3>2. PICK q \in txn.rows : q.signal = r.signal /\ r.source < q.source - span
      BY <1>2, <1>17, <2>2 DEF FrameRows
    <3>3. q \notin gone
      BY <1>1, <1>8, <3>1, <3>2
    <3> QED
      BY <1>1, <1>6, <3>1, <3>2, <3>3
  <2> QED
    BY <2>1, <2>2
<1>18. FrameRows'
  BY <1>1, <1>12, <1>13, <1>14, <1>15, <1>16, <1>17 DEF FrameRows, InFrame
<1> QED
  BY <1>1, <1>2, <1>6, <1>18

-----------------------------------------------------------------------------
\* The invariant holds initially and every step preserves it.

LEMMA InitInv == Init => Inv
<1> SUFFICES ASSUME Init PROVE Inv
  OBVIOUS
<1>1. TypeOK
  BY InitType
<1>2. SoundDatabase(db)
  BY InitialAssumption DEF Init
<1>3. pc = "down" /\ txn = db /\ pending = {}
  BY DEF Init
<1> QED
  BY <1>1, <1>2, <1>3 DEF Inv, TxnClosed, BootInv, Booting, SealedInv, Sealed, FrameInv,
     HeartbeatInv, FramePC

\* Wherever the process ends, the committed database is what is left.
LEMMA ExitInv == TypeOK /\ SoundDatabase(db) /\ Exit => Inv'
<1> SUFFICES ASSUME TypeOK, SoundDatabase(db), Exit PROVE Inv'
  OBVIOUS
<1>1. TypeOK'
  BY ExitType
<1>2. SoundDatabase(db)'
  BY DEF Exit
<1>3. pc' = "down" /\ txn' = db' /\ pending' = {}
  BY DEF Exit
<1> QED
  BY <1>1, <1>2, <1>3 DEF Inv, TxnClosed, BootInv, Booting, SealedInv, Sealed, FrameInv,
     HeartbeatInv, FramePC

\* A database with no pending rows is its own buffered state.
LEMMA NothingBuffered ==
  ASSUME txn \in Database, pending = {}
  PROVE  Buffered = txn
BY DEF Buffered, Database

LEMMA StartInv ==
  ASSUME Inv, NEW c \in Config, NEW h \in Spans, NEW reset \in BOOLEAN, Start(c, h, reset)
  PROVE  Inv'
<1>1. TypeOK'
  <2>1. StartStep
    BY DEF StartStep
  <2> QED
    BY <2>1, NextType DEF Inv, Next
<1>2. SoundDatabase(db')
  BY EmptyDatabaseSound DEF Inv, Start
<1>3. pc' = "open" /\ txn' = db' /\ pending' = {}
  BY DEF Inv, Start
<1> QED
  BY <1>1, <1>2, <1>3 DEF Inv, TxnClosed, BootInv, Booting, SealedInv, Sealed, FrameInv,
     HeartbeatInv, FramePC

LEMMA BeginBootstrapInv ==
  ASSUME Inv, NEW d \in Skew, BeginBootstrap(d)
  PROVE  Inv'
<1>1. TypeOK'
  <2>1. Prepare
    BY DEF Prepare
  <2> QED
    BY <2>1, NextType DEF Inv, Next
<1>2. /\ txn' = txn /\ db' = db /\ txn = db /\ pending' = {} /\ txn.checkpoint = {} /\ txn.rows = {}
      /\ SoundDatabase(db) /\ ~recorded' /\ kind' = "boot" /\ elapsed' = 0
  BY DEF Inv, BeginBootstrap, TxnClosed, data, HasHistoricalValues
<1>3. Buffered' = txn
  BY <1>1, <1>2, NothingBuffered DEF TypeOK, Buffered, Database
<1>4. pc' = "bootstrap" \/ (pc' = "heartbeat" /\ todo' = Observed[elapsed'])
  BY <1>2 DEF BeginBootstrap
<1>5. BootInv'
  BY <1>2, <1>3 DEF BootInv
<1> QED
  BY <1>1, <1>2, <1>4, <1>5 DEF Inv, TxnClosed, SealedInv, Sealed, FrameInv, HeartbeatInv, FramePC

LEMMA ResumeInv ==
  ASSUME Inv, NEW d \in Skew, Resume(d)
  PROVE  Inv'
<1>1. TypeOK'
  <2>1. Prepare
    BY DEF Prepare
  <2> QED
    BY <2>1, NextType DEF Inv, Next
<1>2. /\ txn' = txn /\ db' = db /\ txn = db /\ pending' = {} /\ SoundDatabase(db)
      /\ pc' = "heartbeat" /\ kind' = "resume"
  BY DEF Inv, Resume, TxnClosed, data
<1>3. PICK c \in db.checkpoint :
        /\ Compatible(c)
        /\ ResumeElapsed(c, now + d) \in Elapsed
        /\ origin' = [config |-> config, start |-> c.origin.start]
        /\ elapsed' = ResumeElapsed(c, now + d)
        /\ recorded' = Recorded(c, ResumeElapsed(c, now + d))
        /\ todo' = Observed[ResumeElapsed(c, now + d)]
  BY <1>2 DEF Resume
<1>4. /\ c \in Checkpoint /\ now + d \in Int
      /\ origin' = c.origin
  BY <1>3, ResumedOrigin, TimeAssumption DEF Inv, TypeOK, Database, Checkpoint
<1>5. elapsed' >= c.elapsed /\ elapsed' \in Int /\ c.elapsed \in Int
  BY <1>3, <1>4, ResumeNotBefore, TimeAssumption DEF Elapsed, Checkpoint
<1>6. db.checkpoint = {c}
  BY <1>2, <1>3 DEF SoundDatabase, OneCheckpoint
<1>7. c = [origin |-> c.origin, elapsed |-> c.elapsed]
  BY <1>4 DEF Checkpoint
<1>8. recorded' <=> elapsed' > c.elapsed
  BY <1>3 DEF Recorded
<1>9. ~recorded' => db'.checkpoint = {Here}'
  BY <1>2, <1>3, <1>4, <1>5, <1>6, <1>7, <1>8 DEF Here
<1>10. recorded' => \A b \in db'.checkpoint : b.elapsed < elapsed'
  BY <1>2, <1>5, <1>6, <1>8
<1>11. SealedInv'
  BY <1>2, <1>3, <1>4, <1>9, <1>10 DEF SealedInv
<1> QED
  BY <1>1, <1>2, <1>3, <1>11 DEF Inv, TxnClosed, BootInv, Booting, FrameInv, HeartbeatInv, FramePC

LEMMA BootstrapFrameInv ==
  ASSUME Inv, BootstrapFrame
  PROVE  Inv'
<1> DEFINE e == elapsed + Sample
<1>1. TypeOK'
  BY NextType DEF Inv, Next, Prepare
<1>2. /\ pc = "bootstrap" /\ e \in Elapsed /\ elapsed' = e
      /\ pending' = pending \cup {RowOf(txn, s, origin, e) : s \in Observed[e]}
      /\ txn' = [txn EXCEPT !.last =
                   [s \in Signal |-> IF s \in Observed[e] THEN @[s] + 1 ELSE @[s]]]
      /\ UNCHANGED <<db, kind, recorded, todo, origin>>
      /\ pc' \in {"bootstrap", "flush"}
  BY DEF BootstrapFrame, frame
<1>3. /\ txn \in Database /\ txn' \in Database /\ pending' \subseteq Row /\ pending \subseteq Row
      /\ origin \in Origin /\ elapsed \in Int /\ origin.start \in Int
  BY <1>1, TimeAssumption DEF Inv, TypeOK, Elapsed, Origin
<1>4. /\ txn'.rows = txn.rows /\ txn'.checkpoint = txn.checkpoint
      /\ \A s \in Signal : txn'.last[s] = IF s \in Observed[e] THEN txn.last[s] + 1 ELSE txn.last[s]
  BY <1>2, <1>3 DEF Database
<1>5. /\ SoundDatabase(Buffered) /\ txn.checkpoint = {} /\ db.checkpoint = {}
      /\ ~recorded /\ kind = "boot" /\ db.rows \subseteq txn.rows
      /\ \A r \in Buffered.rows : r.origin = origin /\ r.server <= origin.start + elapsed
  BY <1>2 DEF Inv, BootInv, Booting
<1>6. /\ Buffered \in Database /\ Buffered.rows = txn.rows \cup pending
      /\ Buffered.checkpoint = {} /\ Buffered.last = txn.last
  BY <1>3, <1>5 DEF Buffered, Database
<1>7. /\ Buffered' \in Database /\ Buffered'.rows = txn.rows \cup pending'
      /\ Buffered'.checkpoint = {} /\ Buffered'.last = txn'.last
  BY <1>3, <1>4, <1>5 DEF Buffered, Database
<1>8. ASSUME NEW r \in Buffered.rows
      PROVE  r.origin = origin /\ r.server < origin.start + e
  <2>1. r.server \in Int
    BY <1>6 DEF Database, Row
  <2> QED
    BY <1>3, <1>5, <2>1, TimeAssumption
<1>9. Buffered'.rows = Buffered.rows \cup {RowOf(txn, s, origin, e) : s \in Observed[e]}
  BY <1>2, <1>6, <1>7
<1>10. /\ SoundDatabase(Buffered')
       /\ \A r \in Buffered'.rows : r.origin = origin /\ r.server <= origin.start + e
  <2>1. \A s \in Signal :
          Buffered'.last[s] = IF s \in Observed[e] THEN Buffered.last[s] + 1 ELSE Buffered.last[s]
    BY <1>4, <1>6, <1>7
  <2>2. PICK b \in Database, b2 \in Database, d \in Database, o \in Origin, x \in Elapsed :
           b = Buffered /\ b2 = Buffered' /\ d = txn /\ o = origin /\ x = e
    BY <1>2, <1>3, <1>6, <1>7
  <2> HIDE DEF e
  <2>3. SoundDatabase(b) /\ b.checkpoint = {} /\ b2.checkpoint = {} /\ d.last = b.last
    BY <1>5, <1>6, <1>7, <2>2
  <2>4. \A r \in b.rows : r.origin = o /\ r.server < o.start + x
    BY <1>8, <2>2
  <2>5. b2.rows = b.rows \cup {RowOf(d, s, o, x) : s \in Observed[x]}
    BY <1>9, <2>2
  <2>6. \A s \in Signal : b2.last[s] = IF s \in Observed[x] THEN b.last[s] + 1 ELSE b.last[s]
    BY <2>1, <2>2
  <2>7. /\ SoundDatabase(b2)
        /\ \A r \in b2.rows : r.origin = o /\ r.server <= o.start + x
    BY <2>3, <2>4, <2>5, <2>6, AppendFrame
  <2> QED
    BY <2>2, <2>7
<1>11. BootInv'
  BY <1>2, <1>4, <1>5, <1>10 DEF BootInv, FramePC
<1> QED
  BY <1>1, <1>2, <1>11 DEF Inv, TxnClosed, SealedInv, Sealed, FrameInv, HeartbeatInv, FramePC

\* The buffered rows are inserted; the buffered database does not change.
LEMMA FlushInv ==
  ASSUME Inv, Flush
  PROVE  Inv'
<1>1. TypeOK'
  BY NextType DEF Inv, Next, Prepare
<1>2. /\ pc = "flush" /\ pc' = "flush_commit"
      /\ txn' = [txn EXCEPT !.rows = @ \cup pending]
      /\ UNCHANGED <<db, kind, recorded, todo, origin, elapsed, pending>>
  BY DEF Flush, frame, run
<1>3. txn \in Database /\ txn' \in Database
  BY <1>1 DEF Inv, TypeOK
<1>4. txn'.rows = txn.rows \cup pending /\ txn'.checkpoint = txn.checkpoint
  BY <1>2, <1>3 DEF Database
<1>5. Buffered' = Buffered
  BY <1>2, <1>3, <1>4 DEF Buffered, Database
<1>6. BootInv'
  BY <1>2, <1>4, <1>5 DEF Inv, BootInv, Booting, FramePC
<1> QED
  BY <1>1, <1>2, <1>6 DEF Inv, TxnClosed, SealedInv, Sealed, FrameInv, HeartbeatInv, FramePC

LEMMA FlushCommitInv ==
  ASSUME Inv, FlushCommit
  PROVE  Inv'
<1>1. TypeOK'
  BY NextType DEF Inv, Next, Prepare
<1>2. /\ pc = "flush_commit" /\ db' = txn /\ pending' = {}
      /\ UNCHANGED <<txn, kind, recorded, origin, elapsed>>
      /\ pc' = "bootstrap" \/ (pc' = "heartbeat" /\ todo' = Observed[elapsed])
  BY DEF FlushCommit, run
<1>3. /\ SoundDatabase(Buffered) /\ txn.checkpoint = {} /\ pending \subseteq txn.rows
      /\ \A r \in Buffered.rows : r.origin = origin /\ r.server <= origin.start + elapsed
  BY <1>2 DEF Inv, BootInv, Booting
<1>4. Buffered = txn /\ Buffered' = txn
  BY <1>1, <1>2, <1>3 DEF Inv, TypeOK, Buffered, Database
<1>5. ~recorded' /\ kind' = "boot"
  BY <1>2 DEF Inv, BootInv, Booting
<1>6. BootInv'
  BY <1>2, <1>3, <1>4, <1>5 DEF BootInv
<1> QED
  BY <1>1, <1>2, <1>3, <1>4, <1>5, <1>6
  DEF Inv, TxnClosed, SealedInv, Sealed, FrameInv, HeartbeatInv, FramePC

\* What saving a checkpoint over rows of the same simulation leaves sound.
LEMMA SealSound ==
  ASSUME NEW b \in Database, NEW o \in Origin, NEW e \in Elapsed, SoundDatabase(b),
         \A r \in b.rows : r.origin = o /\ r.server <= o.start + e
  PROVE  SoundDatabase(SaveCheckpoint(b, o, e))
<1> DEFINE d == SaveCheckpoint(b, o, e)
<1>1. /\ d \in Database /\ d.rows = b.rows /\ d.last = b.last
      /\ d.checkpoint = {[origin |-> o, elapsed |-> e]}
  BY SaveCheckpointType DEF SaveCheckpoint, Database
<1>2. OneCheckpoint(d) /\ OneSimulation(d) /\ CheckpointCovers(d)
  BY <1>1 DEF SoundDatabase, OneCheckpoint, OneSimulation, CheckpointCovers, Reached
<1>3. IdOrderIsTimeOrder(d) /\ WholeFrames(d)
  BY <1>1 DEF SoundDatabase, IdOrderIsTimeOrder, WholeFrames
<1> QED
  BY <1>1, <1>2, <1>3 DEF SoundDatabase

LEMMA SealBootstrapInv ==
  ASSUME Inv, SealBootstrap
  PROVE  Inv'
<1>1. TypeOK'
  BY NextType DEF Inv, Next, Prepare
<1>2. /\ pc = "seal" /\ pc' = "ready" /\ db' = SaveCheckpoint(txn, origin, elapsed) /\ txn' = db'
      /\ UNCHANGED <<kind, recorded, todo, origin, elapsed, pending>>
  BY DEF SealBootstrap, frame, run
<1>3. /\ txn = db /\ pending = {} /\ SoundDatabase(db) /\ txn \in Database
      /\ origin \in Origin /\ elapsed \in Elapsed
      /\ \A r \in Buffered.rows : r.origin = origin /\ r.server <= origin.start + elapsed
  BY <1>2 DEF Inv, TypeOK, TxnClosed, BootInv, Booting
<1>4. Buffered = txn
  BY <1>3, NothingBuffered
<1>5. SoundDatabase(db')
  BY <1>2, <1>3, <1>4, SealSound
<1>6. db'.checkpoint = {Here}'
  BY <1>2, <1>3 DEF SaveCheckpoint, Here, Database
<1>7. SealedInv'
  BY <1>2, <1>6 DEF SealedInv, Here, FramePC
<1> QED
  BY <1>1, <1>2, <1>3, <1>5, <1>7 DEF Inv, TxnClosed, BootInv, Booting, FrameInv, HeartbeatInv, FramePC

LEMMA BeginFrameInv ==
  ASSUME Inv, BeginFrame
  PROVE  Inv'
<1>1. TypeOK'
  BY NextType DEF Inv, Next
<1>2. /\ pc \in {"ready", "sleep"} /\ pc' = "heartbeat" /\ kind' = "live" /\ recorded'
      /\ elapsed' = elapsed + Sample /\ todo' = Observed[elapsed']
      /\ UNCHANGED <<db, txn, origin, pending>>
  BY DEF BeginFrame, IterationDue, data
<1>3. db.checkpoint = {Here} /\ txn = db /\ pending = {} /\ SoundDatabase(db)
  BY <1>2 DEF Inv, SealedInv, Sealed, TxnClosed
<1>4. \E c \in db'.checkpoint : c.origin = origin'
  BY <1>2, <1>3 DEF Here
<1>5. \A c \in db'.checkpoint : c.elapsed < elapsed'
  BY <1>2, <1>3, TimeAssumption DEF Here, Inv, TypeOK, Elapsed
<1>6. SealedInv'
  BY <1>2, <1>4, <1>5 DEF SealedInv
<1> QED
  BY <1>1, <1>2, <1>3, <1>6 DEF Inv, TxnClosed, BootInv, Booting, FrameInv, HeartbeatInv, FramePC

\* Steps that leave the two databases, the simulator and the buffer alone.
Quiet == UNCHANGED <<db, txn, kind, recorded, span, origin, elapsed, pending>>

LEMMA QuietBuffer == Quiet => Buffered' = Buffered /\ Here' = Here
BY DEF Quiet, Buffered, Here

\* When a recorded frame starts, nothing of it is in the transaction yet.
LEMMA WriteHeartbeatInv ==
  ASSUME Inv, WriteHeartbeat
  PROVE  Inv'
<1>1. TypeOK'
  BY NextType DEF Inv, Next, WriteFrame
<1>2. /\ pc = "heartbeat" /\ pc' = "values" /\ todo' = todo /\ todo = Observed[elapsed]
      /\ Quiet /\ txn = db /\ SoundDatabase(db)
  BY DEF Inv, WriteHeartbeat, Quiet, data, frame, run, TxnClosed, HeartbeatInv
<1>3. BootInv' /\ SealedInv'
  BY <1>2, QuietBuffer DEF Inv, BootInv, Booting, SealedInv, Sealed, FramePC, Quiet
<1>4. ASSUME recorded PROVE FrameRows'
  <2>1. PICK c \in db.checkpoint : c.origin = origin
    BY <1>2, <1>4 DEF Inv, SealedInv, Sealed, BootInv, Booting, FramePC
  <2>2. \A r \in txn.rows : r.origin = origin
    BY <1>2, <2>1 DEF SoundDatabase, OneSimulation
  <2> QED
    BY <1>2, <2>2 DEF FrameRows, SoundDatabase, WholeFrames, Quiet
<1>5. FrameInv'
  BY <1>2, <1>4 DEF FrameInv, Quiet
<1> QED
  BY <1>1, <1>2, <1>3, <1>5 DEF Inv, TxnClosed, HeartbeatInv, FramePC, Quiet

\* Publishing a value leaves the transaction alone.
LEMMA PublishValueInv ==
  ASSUME Inv, NEW s \in Signal, PublishValue(s)
  PROVE  Inv'
<1>1. TypeOK'
  <2>1. WriteFrame
    BY DEF WriteFrame
  <2> QED
    BY <2>1, NextType DEF Inv, Next
<1>2. /\ pc = "values" /\ pc' = "values"
      /\ todo' \subseteq todo /\ (recorded => todo' = todo)
      /\ Quiet
  BY DEF PublishValue, Quiet, data, run
<1>3. BootInv' /\ SealedInv'
  BY <1>2, QuietBuffer DEF Inv, BootInv, Booting, SealedInv, Sealed, FramePC, Quiet
<1>4. CASE recorded
  <2>1. FrameRows /\ todo \subseteq Observed[elapsed] /\ txn.checkpoint = db.checkpoint
    BY <1>2, <1>4 DEF Inv, FrameInv
  <2>2. FrameRows'
    BY <1>2, <1>4, <2>1 DEF FrameRows, InFrame, Quiet
  <2>3. FrameInv'
    BY <1>2, <1>4, <2>1, <2>2 DEF FrameInv, Quiet
  <2> QED
    BY <1>1, <1>2, <1>3, <1>4, <2>3 DEF Inv, TxnClosed, HeartbeatInv, Quiet
<1>5. CASE ~recorded
  BY <1>1, <1>2, <1>3, <1>5
  DEF Inv, TxnClosed, FrameInv, HeartbeatInv, Quiet
<1> QED
  BY <1>4, <1>5

LEMMA SaveValueInv ==
  ASSUME Inv, NEW s \in Signal, SaveValue(s)
  PROVE  Inv'
<1>1. TypeOK'
  <2>1. WriteFrame
    BY DEF WriteFrame
  <2> QED
    BY <2>1, NextType DEF Inv, Next
<1>2. /\ pc = "values" /\ pc' = "values" /\ recorded
      /\ UNCHANGED <<db, kind, recorded, span, origin, elapsed, pending>>
  BY DEF SaveValue, run
<1>3. Sealed /\ ~Booting
  BY <1>2 DEF Inv, BootInv, Booting, Sealed, FramePC
<1>4. FrameRows' /\ txn'.checkpoint = db.checkpoint /\ todo' \subseteq Observed[elapsed]
  BY <1>1, <1>3, SaveValueKeepsFrame DEF Inv
<1>5. FrameInv'
  BY <1>2, <1>4 DEF FrameInv
<1>6. SealedInv'
  BY <1>2, <1>3 DEF Inv, SealedInv, Sealed, FramePC, Here
<1>7. ~Booting'
  BY <1>2, <1>3 DEF Booting, FramePC
<1> QED
  BY <1>1, <1>2, <1>5, <1>6, <1>7 DEF Inv, TxnClosed, BootInv, HeartbeatInv

LEMMA EndUnrecordedInv ==
  ASSUME Inv, EndUnrecorded
  PROVE  Inv'
<1>1. TypeOK'
  BY NextType DEF Inv, Next, WriteFrame
<1>2. /\ pc = "values" /\ ~recorded /\ todo' = todo /\ Quiet /\ AfterFrame
  BY DEF EndUnrecorded, Quiet, data, frame, run
<1>3. txn = db
  BY <1>2 DEF Inv, TxnClosed, FramePC
<1>4. kind \in {"boot", "resume", "live"}
  BY DEF Inv, TypeOK
<1>5. CASE kind = "boot"
  <2>1. pc' = "seal"
    BY <1>2, <1>5 DEF AfterFrame
  <2>2. BootInv'
    BY <1>2, <1>5, <2>1, QuietBuffer DEF Inv, BootInv, Booting, FramePC, Quiet
  <2> QED
    BY <1>1, <1>2, <1>3, <2>1, <2>2
    DEF Inv, TxnClosed, SealedInv, Sealed, FrameInv, HeartbeatInv, FramePC, Quiet
<1>6. CASE kind = "resume"
  <2>1. pc' = "ready"
    BY <1>2, <1>6 DEF AfterFrame
  <2>2. SealedInv'
    BY <1>2, <1>6, <2>1, QuietBuffer DEF Inv, SealedInv, Sealed, FramePC, Quiet
  <2> QED
    BY <1>1, <1>2, <1>3, <2>1, <2>2
    DEF Inv, TxnClosed, BootInv, Booting, FrameInv, HeartbeatInv, FramePC, Quiet
<1>7. CASE kind = "live"
  BY <1>2, <1>7 DEF Inv, SealedInv, Sealed, FramePC
<1> QED
  BY <1>4, <1>5, <1>6, <1>7

LEMMA FrameCheckpointInv ==
  ASSUME Inv, FrameCheckpoint
  PROVE  Inv'
<1>1. TypeOK'
  BY NextType DEF Inv, Next, WriteFrame
<1>2. /\ pc = "values" /\ pc' = "commit" /\ todo = {} /\ todo' = {} /\ recorded /\ recorded'
      /\ txn' = SaveCheckpoint(txn, origin, elapsed)
      /\ UNCHANGED <<db, kind, span, origin, elapsed, pending>>
  BY DEF FrameCheckpoint, frame, run
<1>3. FrameRows
  BY <1>2 DEF Inv, FrameInv
<1>4. txn'.rows = txn.rows /\ txn'.last = txn.last /\ txn'.checkpoint = {Here'}
  BY <1>2 DEF Inv, TypeOK, Database, SaveCheckpoint, Here
<1>5. FrameRows'
  BY <1>2, <1>3, <1>4 DEF FrameRows, InFrame, IdOrderIsTimeOrder
<1>6. FrameInv'
  BY <1>2, <1>4, <1>5 DEF FrameInv
<1>7. SealedInv' /\ ~Booting'
  BY <1>2 DEF Inv, BootInv, Booting, SealedInv, Sealed, FramePC, Here
<1> QED
  BY <1>1, <1>2, <1>6, <1>7 DEF Inv, TxnClosed, BootInv, HeartbeatInv, FramePC

\* What a recorded frame is about to commit is sound.
LEMMA CommitSound ==
  ASSUME Inv, pc = "commit"
  PROVE  /\ SoundDatabase(txn) /\ txn.checkpoint = {Here} /\ Sealed /\ recorded /\ todo = {}
         /\ FrameRows
<1>1. /\ FrameRows /\ todo = {} /\ txn.checkpoint = {Here} /\ recorded
  BY DEF Inv, FrameInv
<1>2. Sealed
  BY <1>1 DEF Inv, BootInv, Booting, Sealed, FramePC
<1>3. PICK c \in db.checkpoint : c.origin = origin
  BY <1>2 DEF Inv, SealedInv
<1>4. c.elapsed < elapsed
  BY <1>1, <1>2, <1>3 DEF Inv, SealedInv, FramePC
<1>5. /\ c.elapsed \in Int /\ elapsed \in Int /\ origin.start \in Int
      /\ txn \in Database /\ db \in Database
  BY <1>3, TimeAssumption DEF Inv, TypeOK, Database, Checkpoint, Origin, Elapsed
<1>6. ASSUME NEW r \in txn.rows
      PROVE  /\ r.server \in Int /\ r.server <= origin.start + elapsed /\ r.origin = origin
             /\ r \in db.rows \/ r.server = origin.start + elapsed
  <2>1. r.server \in Int
    BY <1>5 DEF Database, Row
  <2>2. r \in db.rows => r.server <= origin.start + c.elapsed
    BY <1>3 DEF Inv, SoundDatabase, CheckpointCovers, Reached
  <2>3. /\ r.origin = origin
        /\ r \in db.rows \/ r.server = origin.start + elapsed
    BY <1>1 DEF FrameRows, InFrame
  <2> QED
    BY <1>4, <1>5, <2>1, <2>2, <2>3
<1>7. OneCheckpoint(txn) /\ OneSimulation(txn)
  BY <1>1, <1>6 DEF OneCheckpoint, OneSimulation, Here
<1>8. CheckpointCovers(txn)
  BY <1>1, <1>6 DEF CheckpointCovers, Reached, Here
<1>9. WholeFrames(txn)
  <2> SUFFICES ASSUME NEW r \in txn.rows, NEW s \in Observed[r.server - r.origin.start]
               PROVE  \E q \in txn.rows : q.signal = s /\ q.server >= r.server
    BY DEF WholeFrames
  <2>1. CASE r \in db.rows
    BY <1>1, <1>6, <2>1 DEF FrameRows
  <2>2. CASE r.server = origin.start + elapsed
    <3>1. s \in Observed[elapsed] \ todo
      BY <1>1, <1>5, <1>6, <2>2
    <3>2. PICK q \in txn.rows : q.signal = s /\ q.server = origin.start + elapsed
      BY <1>1, <3>1 DEF FrameRows, InFrame
    <3> QED
      BY <1>5, <2>2, <3>2
  <2> QED
    BY <1>6, <2>1, <2>2
<1>10. SoundDatabase(txn)
  BY <1>1, <1>5, <1>7, <1>8, <1>9 DEF SoundDatabase, FrameRows
<1> QED
  BY <1>1, <1>2, <1>10

LEMMA CommitFrameInv ==
  ASSUME Inv, CommitFrame
  PROVE  Inv'
<1>1. TypeOK'
  BY NextType DEF Inv, Next, WriteFrame
<1>2. /\ pc = "commit" /\ db' = txn /\ AfterFrame
      /\ UNCHANGED <<txn, kind, recorded, todo, origin, elapsed, pending>>
  BY DEF CommitFrame, frame, run
<1>3. SoundDatabase(txn) /\ txn.checkpoint = {Here} /\ kind # "boot"
  BY <1>2, CommitSound DEF Sealed, FramePC
<1>4. pc' \in {"ready", "sleep"}
  BY <1>2, <1>3 DEF AfterFrame, Inv, TypeOK
<1>5. SealedInv'
  BY <1>2, <1>3, <1>4 DEF SealedInv, Here, FramePC
<1> QED
  BY <1>1, <1>2, <1>3, <1>4, <1>5
  DEF Inv, TxnClosed, BootInv, Booting, FrameInv, HeartbeatInv, FramePC

LEMMA LoopDiesInv ==
  ASSUME Inv, LoopDies
  PROVE  Inv'
<1>1. TypeOK'
  BY NextType DEF Inv, Next, Failure
<1>2. /\ pc \in FramePC /\ pc' = "dead" /\ kind = "live" /\ txn' = db
      /\ UNCHANGED <<db, kind, recorded, todo, origin, elapsed, pending>>
  BY DEF LoopDies, frame, run
<1>3. SealedInv'
  BY <1>2 DEF Inv, SealedInv, Sealed, FramePC
<1> QED
  BY <1>1, <1>2, <1>3
  DEF Inv, TxnClosed, BootInv, Booting, FrameInv, HeartbeatInv, FramePC

LEMMA BootstrapDoneInv ==
  ASSUME Inv, BootstrapDone
  PROVE  Inv'
<1>1. TypeOK'
  BY NextType DEF Inv, Next, Prepare
<1>2. pc = "bootstrap" /\ pc' = "flush" /\ todo' = todo /\ Quiet
  BY DEF BootstrapDone, data, frame, run, Quiet
<1>3. BootInv'
  BY <1>2, QuietBuffer DEF Inv, BootInv, Booting, FramePC, Quiet
<1> QED
  BY <1>1, <1>2, <1>3
  DEF Inv, TxnClosed, SealedInv, Sealed, FrameInv, HeartbeatInv, FramePC, Quiet

\* A step that leaves everything but the clock alone.
LEMMA IdleInv ==
  ASSUME Inv, [Next]_vars,
         UNCHANGED <<starts, data, pc, frame, run, pending, begun, opc>>
  PROVE  Inv'
<1>1. TypeOK'
  BY NextType DEF Inv
<1>2. pc' = pc /\ todo' = todo /\ Quiet
  BY DEF data, frame, run, Quiet
<1>3. BootInv' /\ SealedInv'
  BY <1>2, QuietBuffer DEF Inv, BootInv, Booting, SealedInv, Sealed, Quiet
<1>4. FrameRows <=> FrameRows'
  BY <1>2 DEF FrameRows, InFrame, Quiet
<1>5. FrameInv'
  BY <1>2, <1>4, QuietBuffer DEF Inv, FrameInv, Quiet
<1> QED
  BY <1>1, <1>2, <1>3, <1>5 DEF Inv, TxnClosed, HeartbeatInv, Quiet

LEMMA NextInv == Inv /\ [Next]_vars => Inv'
<1> SUFFICES ASSUME Inv, [Next]_vars PROVE Inv'
  OBVIOUS
<1>1. TypeOK /\ SoundDatabase(db)
  BY DEF Inv
<1>2. CASE Tick
  BY <1>2, IdleInv DEF Tick
<1>3. CASE UNCHANGED vars
  BY <1>3, IdleInv DEF vars
<1>4. CASE Reject \/ PrepareFails \/ StartFails \/ Stop \/ Crash
  <2>1. Exit
    BY <1>4 DEF Reject, PrepareFails, StartFails, Stop, Crash
  <2> QED
    BY <1>1, <2>1, ExitInv
<1>5. ASSUME NEW c \in Config, NEW h \in Spans, NEW reset \in BOOLEAN, Start(c, h, reset)
      PROVE  Inv'
  BY <1>5, StartInv
<1>6. ASSUME NEW d \in Skew, BeginBootstrap(d) \/ Resume(d)
      PROVE  Inv'
  BY <1>6, BeginBootstrapInv, ResumeInv
<1>7. CASE BootstrapFrame \/ BootstrapDone \/ Flush \/ FlushCommit \/ SealBootstrap
  BY <1>7, BootstrapFrameInv, BootstrapDoneInv, FlushInv, FlushCommitInv, SealBootstrapInv
<1>8. CASE BeginFrame \/ LoopDies
  BY <1>8, BeginFrameInv, LoopDiesInv
<1>9. CASE WriteFrame
  BY <1>9, WriteHeartbeatInv, PublishValueInv, SaveValueInv, EndUnrecordedInv, FrameCheckpointInv,
     CommitFrameInv
  DEF WriteFrame
<1> QED
  BY <1>2, <1>3, <1>4, <1>5, <1>6, <1>7, <1>8, <1>9 DEF Next, StartStep, Prepare, Failure

\* The inductive invariant holds of every reachable state.
THEOREM InvHolds == Spec => []Inv
BY InitInv, NextInv, PTL DEF Spec

\* After any interleaving of crashes, failures, restarts and frames, the
\* committed database is one that a restart can trust.
THEOREM DatabaseTrusted == Spec => []DatabaseSound
<1>1. Inv => DatabaseSound
  BY DEF Inv, DatabaseSound
<1> QED
  BY <1>1, InvHolds, PTL

-----------------------------------------------------------------------------
\* What a step does to the committed database.

LEMMA DatabaseStep ==
  ASSUME [Next]_vars
  PROVE  db' \in {db, EmptyDatabase} \/ FlushCommit \/ SealBootstrap \/ CommitFrame
<1>1. CASE Tick \/ BootstrapFrame \/ BootstrapDone \/ Flush
  BY <1>1 DEF Tick, BootstrapFrame, BootstrapDone, Flush, data
<1>2. CASE StartStep
  BY <1>2 DEF StartStep, Start
<1>3. CASE Reject \/ PrepareFails \/ StartFails \/ Stop \/ Crash
  BY <1>3 DEF Reject, PrepareFails, StartFails, Stop, Crash, Exit
<1>4. CASE \E d \in Skew : BeginBootstrap(d) \/ Resume(d)
  BY <1>4 DEF BeginBootstrap, Resume, data
<1>5. CASE BeginFrame \/ LoopDies
  BY <1>5 DEF BeginFrame, LoopDies, data
<1>6. CASE \/ WriteHeartbeat \/ EndUnrecorded \/ FrameCheckpoint
           \/ \E s \in Signal : PublishValue(s) \/ SaveValue(s)
  BY <1>6 DEF WriteHeartbeat, PublishValue, SaveValue, EndUnrecorded, FrameCheckpoint, data
<1>7. CASE UNCHANGED vars
  BY <1>7 DEF vars, data
<1> QED
  BY <1>1, <1>2, <1>3, <1>4, <1>5, <1>6, <1>7 DEF Next, Prepare, WriteFrame, Failure

\* The rows that a flush commits extend the rows already there.
LEMMA FlushCommitGrows ==
  ASSUME Inv, FlushCommit
  PROVE  /\ db' = txn /\ db.rows \subseteq txn.rows
         /\ db.checkpoint = {} /\ txn.checkpoint = {}
BY DEF Inv, FlushCommit, BootInv, Booting

\* What a sealed frame adds and removes.
LEMMA CommitFrameMoves ==
  ASSUME Inv, CommitFrame
  PROVE  /\ db' = txn /\ span' = span /\ txn.checkpoint = {Here}
         /\ \E c \in db.checkpoint : c.origin = origin /\ c.elapsed < elapsed
         /\ \A r \in txn.rows \ db.rows : r.origin = origin /\ r.server = origin.start + elapsed
         /\ \A r \in db.rows \ txn.rows :
              \E q \in txn.rows : q.signal = r.signal /\ r.source < q.source - span
<1>1. pc = "commit" /\ db' = txn /\ span' = span
  BY DEF CommitFrame, run
<1>2. txn.checkpoint = {Here} /\ Sealed /\ recorded /\ FrameRows
  BY <1>1, CommitSound
<1>3. \E c \in db.checkpoint : c.origin = origin /\ c.elapsed < elapsed
  BY <1>1, <1>2 DEF Inv, SealedInv, FramePC
<1> QED
  BY <1>1, <1>2, <1>3 DEF FrameRows, InFrame

\* Retention removes a row only for a newer value of its signal, whatever is
\* interrupted while the row and the value share a transaction.
THEOREM PruningIsRetention == Spec => PruneOnlyExpired
<1>1. ASSUME Inv, [Next]_vars PROVE PruneStep
  <2>1. CASE db' \in {db, EmptyDatabase}
    BY <2>1 DEF PruneStep
  <2>2. CASE FlushCommit
    BY <1>1, <2>2, FlushCommitGrows DEF PruneStep
  <2>3. CASE SealBootstrap
    <3>1. db'.rows = txn.rows /\ txn = db
      BY <1>1, <2>3 DEF SealBootstrap, SaveCheckpoint, Inv, TxnClosed, TypeOK, Database
    <3> QED
      BY <3>1 DEF PruneStep
  <2>4. CASE CommitFrame
    BY <1>1, <2>4, CommitFrameMoves DEF PruneStep
  <2> QED
    BY <1>1, <2>1, <2>2, <2>3, <2>4, DatabaseStep
<1> QED
  BY <1>1, InvHolds, PTL DEF Spec, PruneOnlyExpired

-----------------------------------------------------------------------------
\* Refinement: each step of the server is a step of the historian, or leaves
\* its database alone.

LEMMA HistorianInit == Init => H!Init
<1> SUFFICES ASSUME Init PROVE H!Init
  OBVIOUS
<1>1. SoundDatabase(db) /\ (db.checkpoint = {} => db.rows = {})
  BY InitialAssumption DEF Init
<1>2. db.checkpoint \subseteq H!Checkpoint /\ db.rows \subseteq H!Row
  BY <1>1, TimeAssumption
  DEF SoundDatabase, Database, Checkpoint, Elapsed, Row, Origin, H!Checkpoint, H!Origin, H!Row
<1> QED
  BY <1>1, <1>2 DEF H!Init, H!IsTable, SoundDatabase, OneCheckpoint

\* A sound database is one of the historian's.
LEMMA HistorianTables ==
  ASSUME NEW b \in Database, OneCheckpoint(b)
  PROVE  H!IsTable(b.checkpoint) /\ b.rows \subseteq H!Row
BY TimeAssumption
DEF Database, OneCheckpoint, Checkpoint, Elapsed, Row, Origin,
    H!IsTable, H!Checkpoint, H!Origin, H!Row

LEMMA HistorianStep ==
  ASSUME Inv, Inv', [Next]_vars
  PROVE  [H!Next]_(H!vars)
<1>1. /\ db' \in Database /\ SoundDatabase(db') /\ OneCheckpoint(db')
      /\ H!IsTable(db'.checkpoint) /\ db'.rows \subseteq H!Row
  BY HistorianTables DEF Inv, SoundDatabase
<1>2. CASE db' = db
  BY <1>2 DEF H!vars
<1>3. CASE db' = EmptyDatabase
  BY <1>3 DEF EmptyDatabase, H!Next, H!Clear
<1>4. CASE FlushCommit
  <2>1. \A r, q \in db'.rows : r.origin = q.origin
    BY <1>1 DEF SoundDatabase, OneSimulation
  <2> QED
    BY <1>1, <1>4, <2>1, FlushCommitGrows DEF H!Next, H!Bootstrap
<1>5. CASE SealBootstrap
  <2>1. /\ db'.rows = db.rows /\ db.checkpoint = {}
        /\ db'.checkpoint = {Here}
    BY <1>5
    DEF Inv, SealBootstrap, SaveCheckpoint, TxnClosed, TypeOK, Database, BootInv, Booting, Here
  <2>2. \A r \in db.rows : r.origin = Here.origin /\ r.server <= H!Reached(Here)
    BY <1>1, <2>1
    DEF SoundDatabase, OneSimulation, CheckpointCovers, Reached, H!Reached
  <2> QED
    BY <1>1, <2>1, <2>2 DEF H!Next, H!Seal
<1>6. CASE CommitFrame
  <2>1. PICK c \in db.checkpoint : c.origin = origin /\ c.elapsed < elapsed
    BY <1>6, CommitFrameMoves
  <2>2. db' = txn /\ db'.checkpoint = {Here}
    BY <1>6, CommitFrameMoves
  <2>3. Here.origin = c.origin /\ Here.elapsed > c.elapsed
    <3>1. c.elapsed \in Int /\ elapsed \in Int
      BY <2>1, TimeAssumption DEF Inv, TypeOK, Database, Checkpoint, Elapsed
    <3> QED
      BY <2>1, <3>1 DEF Here
  <2>4. \A r \in db'.rows \ db.rows : r.origin = Here.origin /\ r.server = H!Reached(Here)
    BY <1>6, <2>2, CommitFrameMoves DEF Here, H!Reached
  <2>5. ASSUME NEW r \in db.rows \ db'.rows
        PROVE  \E q \in db'.rows : q.signal = r.signal /\ q.source > r.source
    <3>1. PICK q \in db'.rows : q.signal = r.signal /\ r.source < q.source - span
      BY <1>6, <2>2, CommitFrameMoves
    <3>2. span \in Nat /\ q.source \in Int /\ r.source \in Int
      BY <1>1, TimeAssumption DEF Inv, TypeOK, Database, Row
    <3> QED
      BY <3>1, <3>2
  <2> QED
    BY <1>1, <2>1, <2>2, <2>3, <2>4, <2>5 DEF H!Next, H!Advance
<1> QED
  BY <1>2, <1>3, <1>4, <1>5, <1>6, DatabaseStep

\* The server implements the abstract historian: a bootstrap that grows and is
\* sealed, whole frames committed with their checkpoint, outages left as gaps.
THEOREM Refinement == Spec => ImplementsHistorian
<1>1. Inv /\ Inv' /\ [Next]_vars => [H!Next]_(H!vars)
  BY HistorianStep
<1> QED
  BY <1>1, HistorianInit, InvHolds, PTL DEF Spec, ImplementsHistorian, H!Spec

-----------------------------------------------------------------------------
\* The sampling lattice.

OnLattice(t) == t % Sample = 0

LEMMA FloorOnLattice ==
  ASSUME NEW t \in Nat
  PROVE  Floor(t) \in Nat /\ OnLattice(Floor(t)) /\ Floor(t) <= t
<1> DEFINE q == t \div Sample
<1>1. Sample \in Nat \ {0} /\ q \in Nat
  BY TimeAssumption
<1>2. t = Sample * q + (t % Sample) /\ t % Sample \in 0..(Sample - 1)
  BY <1>1
<1>3. q * Sample \in Nat /\ q * Sample = Sample * q /\ (q * Sample) % Sample = 0
  BY <1>1
<1> QED
  BY <1>1, <1>2, <1>3 DEF Floor, OnLattice

LEMMA CeilingOnLattice ==
  ASSUME NEW t \in Nat
  PROVE  /\ Ceiling(t) \in Nat /\ OnLattice(Ceiling(t)) /\ Ceiling(t) <= t + Sample - 1
         /\ OnLattice(t) => Ceiling(t) = t
<1>1. Sample \in Nat \ {0} /\ t + Sample - 1 \in Nat
  BY TimeAssumption
<1>2. Ceiling(t) \in Nat /\ OnLattice(Ceiling(t)) /\ Ceiling(t) <= t + Sample - 1
  BY <1>1, FloorOnLattice DEF Ceiling
<1>3. ASSUME OnLattice(t) PROVE Ceiling(t) = t
  <2> DEFINE q == t \div Sample
             u == t + Sample - 1
             p == u \div Sample
  <2>1. q \in Nat /\ p \in Nat
    BY <1>1
  <2>2. t = Sample * q
    BY <1>1, <1>3 DEF OnLattice
  <2>3. u = Sample * q + (Sample - 1)
    BY <2>2
  <2>4. p = q
    BY <1>1, <2>1, <2>3
  <2> QED
    BY <1>1, <2>1, <2>2, <2>4 DEF Ceiling, Floor
<1> QED
  BY <1>2, <1>3

LEMMA NextOnLattice ==
  ASSUME NEW t \in Nat, OnLattice(t)
  PROVE  OnLattice(t + Sample)
<1> DEFINE q == t \div Sample
<1>1. Sample \in Nat \ {0} /\ q \in Nat
  BY TimeAssumption
<1>2. t = Sample * q
  BY <1>1 DEF OnLattice
<1>3. t + Sample = Sample * (q + 1) /\ (Sample * (q + 1)) % Sample = 0
  BY <1>1, <1>2
<1> QED
  BY <1>3 DEF OnLattice

LEMMA ZeroOnLattice == OnLattice(0)
BY TimeAssumption DEF OnLattice

\* A restart resumes on the lattice, not later than the wall clock or the
\* checkpoint's next lattice point.
LEMMA ResumeOnLattice ==
  ASSUME NEW c \in Checkpoint, NEW w \in Int
  PROVE  LET e == ResumeElapsed(c, w) IN
           /\ e \in Nat /\ OnLattice(e)
           /\ \/ c.origin.start + e <= w
              \/ e = Ceiling(c.elapsed)
<1> DEFINE u == Larger(w - c.origin.start, 0)
<1>1. c.elapsed \in Nat /\ c.origin.start \in Int
  BY TimeAssumption DEF Checkpoint, Elapsed, Origin
<1>2. u \in Nat /\ (u = w - c.origin.start \/ u = 0)
  BY <1>1 DEF Larger
<1>3. Floor(u) \in Nat /\ OnLattice(Floor(u)) /\ Floor(u) <= u
  <2> HIDE DEF u
  <2> QED
    BY <1>2, FloorOnLattice
<1>4. Ceiling(c.elapsed) \in Nat /\ OnLattice(Ceiling(c.elapsed))
  BY <1>1, CeilingOnLattice
<1>5. ResumeElapsed(c, w) = Larger(Floor(u), Ceiling(c.elapsed))
  BY DEF ResumeElapsed
<1> HIDE DEF u
<1> QED
  BY <1>1, <1>2, <1>3, <1>4, <1>5 DEF Larger

\* How a step moves simulated time.
LEMMA ElapsedStep ==
  ASSUME Inv, [Next]_vars
  PROVE  \/ elapsed' \in {elapsed, 0}
         \/ elapsed' = elapsed + Sample
         \/ \E d \in Skew : Resume(d)
<1>1. CASE Tick \/ StartStep \/ UNCHANGED vars
  BY <1>1 DEF Tick, StartStep, Start, vars, run
<1>2. CASE Reject \/ PrepareFails \/ StartFails \/ Stop \/ Crash
  BY <1>2 DEF Reject, PrepareFails, StartFails, Stop, Crash, Exit
<1>3. CASE \E d \in Skew : BeginBootstrap(d)
  BY <1>3 DEF BeginBootstrap
<1>4. CASE BootstrapFrame \/ BeginFrame
  BY <1>4 DEF BootstrapFrame, BeginFrame
<1>5. CASE BootstrapDone \/ Flush \/ FlushCommit \/ SealBootstrap \/ LoopDies
  BY <1>5 DEF BootstrapDone, Flush, FlushCommit, SealBootstrap, LoopDies, run
<1>6. CASE WriteFrame
  BY <1>6 DEF WriteFrame, WriteHeartbeat, PublishValue, SaveValue, EndUnrecorded,
              FrameCheckpoint, CommitFrame, run
<1> QED
  BY <1>1, <1>2, <1>3, <1>4, <1>5, <1>6 DEF Next, Prepare, Failure

Aligned == OnLattice(elapsed)

LEMMA AlignedStep == Inv /\ Aligned /\ [Next]_vars => Aligned'
<1> SUFFICES ASSUME Inv, Aligned, [Next]_vars PROVE Aligned'
  OBVIOUS
<1>1. elapsed \in Nat
  BY TimeAssumption DEF Inv, TypeOK, Elapsed
<1>2. CASE elapsed' \in {elapsed, 0}
  BY <1>2, ZeroOnLattice DEF Aligned
<1>3. CASE elapsed' = elapsed + Sample
  BY <1>1, <1>3, NextOnLattice DEF Aligned
<1>4. ASSUME NEW d \in Skew, Resume(d) PROVE Aligned'
  <2>1. PICK c \in txn.checkpoint : elapsed' = ResumeElapsed(c, now + d)
    BY <1>4 DEF Resume
  <2>2. c \in Checkpoint /\ now + d \in Int
    BY <2>1, TimeAssumption DEF Inv, TypeOK, Database
  <2> QED
    BY <2>1, <2>2, ResumeOnLattice DEF Aligned
<1> QED
  BY <1>2, <1>3, <1>4, ElapsedStep

LEMMA AlignedAlways == Spec => []Aligned
<1>1. Init => Aligned
  BY ZeroOnLattice DEF Init, Aligned
<1> QED
  BY <1>1, AlignedStep, InvHolds, PTL DEF Spec

\* Every frame that is served lies on the sampling lattice, whatever checkpoint
\* the process resumed from (the reconstruction at releases before 0.3.5 left a
\* checkpoint off it).
THEOREM ServedFramesAligned == Spec => []FramesAligned
<1>1. Aligned => FramesAligned
  BY DEF Aligned, OnLattice, FramesAligned
<1> QED
  BY <1>1, AlignedAlways, PTL

-----------------------------------------------------------------------------
\* What the OPC nodes show, at each place the process can be in.

Heart ==
  /\ \A s \in Signal : shown[s] <= heartbeat
  /\ heartbeat <= elapsed
  /\ pc \in {"down", "open"} => heartbeat = -1
  /\ pc = "values" =>
       heartbeat = elapsed /\ \A s \in Observed[elapsed] \ todo : shown[s] = elapsed
  /\ pc \in {"commit", "seal", "ready", "sleep"} =>
       heartbeat = elapsed /\ \A s \in Observed[elapsed] : shown[s] = elapsed
  /\ pc = "heartbeat" /\ kind = "live" =>
       heartbeat \in Elapsed /\ \A s \in Observed[heartbeat] : shown[s] = heartbeat

\* What the arguments about the OPC nodes take from the types.
LEMMA NodeTypes ==
  ASSUME TypeOK
  PROVE  /\ elapsed \in Nat /\ heartbeat \in Int /\ elapsed \in Elapsed
         /\ \A s \in Signal : shown[s] \in Int
         /\ Observed[elapsed] \subseteq Signal
BY TimeAssumption, SimulatorAssumption DEF TypeOK, Elapsed

LEMMA HeartInit == Init => Heart
<1> SUFFICES ASSUME Init PROVE Heart
  OBVIOUS
<1>1. heartbeat = -1 /\ elapsed = 0 /\ pc = "down" /\ \A s \in Signal : shown[s] = -1
  BY DEF Init
<1> QED
  BY <1>1 DEF Heart

LEMMA HeartExit == Exit => Heart'
<1> SUFFICES ASSUME Exit PROVE Heart'
  OBVIOUS
<1>1. heartbeat' = -1 /\ elapsed' = 0 /\ pc' = "down" /\ \A s \in Signal : shown'[s] = -1
  BY DEF Exit
<1> QED
  BY <1>1 DEF Heart

\* While start() prepares the simulation, nothing is shown yet or nothing changes.
LEMMA HeartPrepare ==
  ASSUME Inv, Inv', Heart, StartStep \/ Prepare
  PROVE  Heart'
<1>1. CASE StartStep
  BY <1>1 DEF StartStep, Start, Heart, opc
<1>2. CASE Reject
  BY <1>2, HeartExit DEF Reject
<1>3. ASSUME NEW d \in Skew, BeginBootstrap(d) \/ Resume(d)
      PROVE  Heart'
  <2>1. /\ pc = "open" /\ pc' \in {"bootstrap", "heartbeat"} /\ kind' # "live"
        /\ heartbeat' = heartbeat /\ shown' = shown
    BY <1>3 DEF BeginBootstrap, Resume, opc
  <2>2. elapsed' \in Nat
    BY TimeAssumption DEF Inv, TypeOK, Elapsed
  <2> QED
    BY <2>1, <2>2 DEF Heart
<1>4. CASE BootstrapFrame \/ BootstrapDone \/ Flush \/ FlushCommit
  <2>1. /\ pc' \in {"bootstrap", "flush", "flush_commit", "heartbeat"}
        /\ kind' = kind /\ kind = "boot"
        /\ heartbeat' = heartbeat /\ shown' = shown
    BY <1>4
    DEF BootstrapFrame, BootstrapDone, Flush, FlushCommit, frame, opc, Inv, BootInv, Booting
  <2>2. elapsed' = elapsed \/ elapsed' = elapsed + Sample
    BY <1>4 DEF BootstrapFrame, BootstrapDone, Flush, FlushCommit, run
  <2>3. heartbeat \in Int /\ elapsed \in Nat /\ Sample \in Nat
    BY NodeTypes, TimeAssumption DEF Inv
  <2> QED
    BY <2>1, <2>2, <2>3 DEF Heart
<1>5. CASE SealBootstrap
  BY <1>5 DEF SealBootstrap, Heart, run, opc
<1> QED
  BY <1>1, <1>2, <1>3, <1>4, <1>5 DEF Prepare

\* A frame shows its time first, then its values.
LEMMA HeartFrame ==
  ASSUME Inv, Inv', Heart, BeginFrame \/ WriteFrame
  PROVE  Heart'
<1>1. /\ elapsed \in Nat /\ heartbeat \in Int /\ Observed[elapsed] \subseteq Signal
      /\ elapsed \in Elapsed /\ Sample \in Nat /\ \A s \in Signal : shown[s] \in Int
  BY NodeTypes, TimeAssumption DEF Inv
<1>2. CASE BeginFrame
  <2>1. /\ pc \in {"ready", "sleep"} /\ pc' = "heartbeat" /\ elapsed' = elapsed + Sample
        /\ heartbeat' = heartbeat /\ shown' = shown
    BY <1>2 DEF BeginFrame, IterationDue, opc
  <2> QED
    BY <1>1, <2>1 DEF Heart
<1>3. CASE WriteHeartbeat
  <2>1. /\ pc = "heartbeat" /\ pc' = "values" /\ heartbeat' = elapsed /\ elapsed' = elapsed
        /\ shown' = shown /\ todo' = todo /\ todo = Observed[elapsed]
    BY <1>3 DEF WriteHeartbeat, HeartbeatTime, frame, run, Inv, HeartbeatInv
  <2>2. \A s \in Signal : shown'[s] <= heartbeat'
    BY <1>1, <2>1 DEF Heart
  <2> QED
    BY <1>1, <2>1, <2>2 DEF Heart
<1>4. ASSUME NEW s \in Signal, PublishValue(s)
      PROVE  Heart'
  <2>1. /\ pc = "values" /\ pc' = "values" /\ heartbeat' = heartbeat /\ elapsed' = elapsed
        /\ shown' = [shown EXCEPT ![s] = elapsed]
        /\ todo' = todo \/ todo' = todo \ {s}
    BY <1>4 DEF PublishValue, run
  <2>2. heartbeat = elapsed
    BY <2>1 DEF Heart
  <2>3. \A t \in Signal : shown'[t] = IF t = s THEN elapsed ELSE shown[t]
    BY <2>1 DEF Inv, TypeOK
  <2>4. \A t \in Signal : shown'[t] <= heartbeat'
    BY <1>1, <2>1, <2>2, <2>3 DEF Heart
  <2>5. \A t \in Observed[elapsed] \ todo' : shown'[t] = elapsed
    BY <1>1, <2>1, <2>3 DEF Heart
  <2> QED
    BY <1>1, <2>1, <2>2, <2>4, <2>5 DEF Heart
<1>5. ASSUME NEW s \in Signal, SaveValue(s)
      PROVE  Heart'
  BY <1>5 DEF SaveValue, Published, Heart, run, opc
<1>6. CASE EndUnrecorded \/ FrameCheckpoint \/ CommitFrame
  <2>1. /\ pc \in {"values", "commit"} /\ pc' \in {"commit", "seal", "ready", "sleep"}
        /\ pc = "values" => todo = {}
        /\ UNCHANGED <<heartbeat, shown, elapsed>>
    BY <1>6 DEF EndUnrecorded, FrameCheckpoint, CommitFrame, AfterFrame, run, opc, Inv, TypeOK
  <2> QED
    BY <2>1 DEF Heart
<1> QED
  BY <1>2, <1>3, <1>4, <1>5, <1>6 DEF WriteFrame

LEMMA HeartStep == Inv /\ Inv' /\ Heart /\ [Next]_vars => Heart'
<1> SUFFICES ASSUME Inv, Inv', Heart, [Next]_vars PROVE Heart'
  OBVIOUS
<1>1. CASE Tick \/ UNCHANGED vars
  BY <1>1 DEF Tick, Heart, vars, frame, run, opc
<1>2. CASE PrepareFails \/ StartFails \/ Stop \/ Crash
  BY <1>2, HeartExit DEF PrepareFails, StartFails, Stop, Crash
<1>3. CASE LoopDies
  BY <1>3 DEF LoopDies, Heart, run, opc
<1> QED
  BY <1>1, <1>2, <1>3, HeartPrepare, HeartFrame DEF Next, Failure

LEMMA HeartAlways == Spec => []Heart
BY HeartInit, HeartStep, InvHolds, PTL DEF Spec

\* Clients never see a value newer than the heartbeat, and no mixed frame unless
\* one is being written or the loop has died.
THEOREM NoMixedFrames == Spec => []HeartbeatLeadsValues
<1>1. Heart => HeartbeatLeadsValues
  BY DEF Heart, HeartbeatLeadsValues, Serving, FramePC
<1> QED
  BY <1>1, HeartAlways, PTL

-----------------------------------------------------------------------------
\* What the history holds of the frame that is shown.

\* A row that is visible but not committed belongs to the frame being written,
\* and its node was written before it.
THEOREM ReadsSeeServedValues == Spec => []OpenRowsAreServed
<1>1. ASSUME Inv, Heart PROVE OpenRowsAreServed
  <2> SUFFICES ASSUME Serving, NEW r \in txn.rows \ db.rows
               PROVE  /\ pc \in FramePC
                      /\ r.server = origin.start + elapsed
                      /\ heartbeat = elapsed /\ shown[r.signal] = elapsed
    BY DEF OpenRowsAreServed
  <2>1. pc \in {"values", "commit"} /\ recorded
    BY <1>1 DEF Serving, Inv, TxnClosed, FramePC
  <2>2. FrameRows /\ (pc = "commit" => todo = {})
    BY <1>1, <2>1 DEF Inv, FrameInv
  <2>3. /\ r.server = origin.start + elapsed /\ r.signal \notin todo
        /\ Genuine(r) /\ r.origin = origin
    BY <2>2 DEF FrameRows, InFrame
  <2>4. origin.start \in Int /\ elapsed \in Int
    BY <1>1, TimeAssumption DEF Inv, TypeOK, Origin, Elapsed
  <2>5. r.signal \in Observed[elapsed]
    BY <2>3, <2>4 DEF Genuine
  <2>6. heartbeat = elapsed /\ shown[r.signal] = elapsed
    BY <1>1, <2>1, <2>3, <2>5 DEF Heart
  <2> QED
    BY <2>1, <2>3, <2>6 DEF FramePC
<1> QED
  BY <1>1, InvHolds, HeartAlways, PTL

\* At the end of an iteration the frame's rows are committed.
Committed ==
  pc = "sleep" => \A s \in Observed[elapsed] : \E r \in db.rows : r.signal = s /\ InFrame(r)

\* What is between a signal's values and their last one of this frame is less
\* than the retention window.
Recent(rows, s) ==
  \A r \in rows : r.signal = s => r.source >= origin.start + elapsed + Shift[s][elapsed] - span

Retained ==
  /\ pc \in {"values", "commit"} /\ recorded /\ span > 0 =>
       \A s \in Observed[elapsed] \ todo : Recent(txn.rows, s)
  /\ pc = "sleep" /\ span > 0 => \A s \in Observed[elapsed] : Recent(db.rows, s)

\* An iteration that enters "sleep" is one that commits.
LEMMA EntersSleep ==
  ASSUME Inv, [Next]_vars, pc' = "sleep"
  PROVE  \/ CommitFrame
         \/ pc = "sleep" /\ UNCHANGED <<elapsed, origin, span, db, txn>>
<1>1. CASE Tick \/ UNCHANGED vars
  BY <1>1 DEF Tick, vars, data, run
<1>2. CASE StartStep
  BY <1>2 DEF StartStep, Start
<1>3. CASE Reject \/ PrepareFails \/ StartFails \/ Stop \/ Crash
  BY <1>3 DEF Reject, PrepareFails, StartFails, Stop, Crash, Exit
<1>4. CASE \E d \in Skew : BeginBootstrap(d) \/ Resume(d)
  BY <1>4 DEF BeginBootstrap, Resume
<1>5. CASE BootstrapFrame \/ BootstrapDone \/ Flush \/ FlushCommit \/ SealBootstrap
  BY <1>5 DEF BootstrapFrame, BootstrapDone, Flush, FlushCommit, SealBootstrap
<1>6. CASE BeginFrame \/ LoopDies
  BY <1>6 DEF BeginFrame, LoopDies
<1>7. CASE EndUnrecorded
  BY <1>7 DEF EndUnrecorded, AfterFrame, Inv, TypeOK, SealedInv, Sealed, FramePC
<1>8. CASE \/ WriteHeartbeat \/ FrameCheckpoint
           \/ \E s \in Signal : PublishValue(s) \/ SaveValue(s)
  BY <1>8 DEF WriteHeartbeat, FrameCheckpoint, PublishValue, SaveValue
<1> QED
  BY <1>1, <1>2, <1>3, <1>4, <1>5, <1>6, <1>7, <1>8 DEF Next, Prepare, WriteFrame, Failure

LEMMA CommittedStep == Inv /\ Committed /\ [Next]_vars => Committed'
<1> SUFFICES ASSUME Inv, Committed, [Next]_vars, pc' = "sleep",
                    NEW s \in Observed'[elapsed']
             PROVE  \E r \in db'.rows : r.signal = s /\ InFrame(r)'
  BY DEF Committed
<1>1. CASE CommitFrame
  <2>1. pc = "commit" /\ db' = txn /\ elapsed' = elapsed /\ origin' = origin
    BY <1>1 DEF CommitFrame, run
  <2>2. FrameRows /\ todo = {}
    BY <2>1, CommitSound
  <2> QED
    BY <2>1, <2>2 DEF FrameRows, InFrame
<1>2. CASE pc = "sleep" /\ UNCHANGED <<elapsed, origin, span, db, txn>>
  BY <1>2 DEF Committed, InFrame
<1> QED
  BY <1>1, <1>2, EntersSleep

\* What OPC clients see after an iteration is what the history holds and what a
\* restart would resume from.
THEOREM ServedValuesRecorded == Spec => []ServedIsRecorded
<1>1. Init => Committed
  BY DEF Init, Committed
<1>2. Inv /\ Heart /\ Committed => ServedIsRecorded
  BY DEF Inv, SealedInv, Sealed, Here, Heart, Committed, InFrame, ServedIsRecorded
<1> QED
  BY <1>1, <1>2, CommittedStep, InvHolds, HeartAlways, PTL DEF Spec

\* The steps that start, continue or extend a recorded frame.
LEMMA InsideFrame ==
  ASSUME Inv, [Next]_vars, pc' \in {"values", "commit"}
  PROVE  \/ WriteHeartbeat
         \/ \E s \in Signal : SaveValue(s)
         \/ /\ pc \in {"values", "commit"} /\ txn'.rows = txn.rows
            /\ recorded => todo' = todo
            /\ UNCHANGED <<recorded, span, origin, elapsed>>
<1>1. CASE Tick \/ UNCHANGED vars
  BY <1>1 DEF Tick, vars, data, frame, run
<1>2. CASE StartStep \/ BeginFrame \/ LoopDies
  BY <1>2 DEF StartStep, Start, BeginFrame, LoopDies
<1>3. CASE Reject \/ PrepareFails \/ StartFails \/ Stop \/ Crash
  BY <1>3 DEF Reject, PrepareFails, StartFails, Stop, Crash, Exit
<1>4. CASE \E d \in Skew : BeginBootstrap(d) \/ Resume(d)
  BY <1>4 DEF BeginBootstrap, Resume
<1>5. CASE BootstrapFrame \/ BootstrapDone \/ Flush \/ FlushCommit \/ SealBootstrap
  BY <1>5 DEF BootstrapFrame, BootstrapDone, Flush, FlushCommit, SealBootstrap
<1>6. CASE EndUnrecorded \/ CommitFrame
  BY <1>6 DEF EndUnrecorded, CommitFrame, AfterFrame, Inv, TypeOK
<1>7. CASE FrameCheckpoint
  <2>1. txn'.rows = txn.rows
    BY <1>7 DEF FrameCheckpoint, SaveCheckpoint, Inv, TypeOK, Database
  <2> QED
    BY <1>7, <2>1 DEF FrameCheckpoint, frame, run
<1>8. ASSUME NEW s \in Signal, PublishValue(s)
      PROVE  /\ pc \in {"values", "commit"} /\ txn'.rows = txn.rows
             /\ recorded => todo' = todo
             /\ UNCHANGED <<recorded, span, origin, elapsed>>
  BY <1>8 DEF PublishValue, data, run
<1> QED
  BY <1>1, <1>2, <1>3, <1>4, <1>5, <1>6, <1>7, <1>8 DEF Next, Prepare, WriteFrame, Failure

\* Saving a value removes what it has expired of its own signal only.
LEMMA SaveValueRetains ==
  ASSUME Inv, Retained, NEW s \in Signal, SaveValue(s), span > 0,
         NEW t \in Observed[elapsed] \ todo'
  PROVE  Recent(txn'.rows, t)
<1> DEFINE new == RowOf(txn, s, origin, elapsed)
           stamp == origin.start + elapsed + Shift[s][elapsed]
<1>1. /\ pc = "values" /\ recorded /\ s \in todo /\ todo' = todo \ {s}
      /\ txn' = SaveNodeValue(txn, new, span)
  BY DEF SaveValue, Published
<1>2. /\ txn \in Database /\ origin.start \in Int /\ elapsed \in Elapsed /\ elapsed \in Int
      /\ span \in Nat /\ span # 0 /\ Shift[s][elapsed] \in Nat
  BY TimeAssumption, SimulatorAssumption DEF Inv, TypeOK, Origin, Elapsed
<1>3. new.signal = s /\ new.source = stamp /\ stamp \in Int
  BY <1>2 DEF RowOf
<1>4. txn'.rows = (txn.rows \cup {new})
                    \ {q \in txn.rows : q.signal = s /\ q.source < stamp - span}
  BY <1>1, <1>2, <1>3 DEF SaveNodeValue, Expired, Database
<1>5. CASE t = s
  <2> SUFFICES ASSUME NEW r \in txn'.rows, r.signal = s PROVE r.source >= stamp - span
    BY <1>2, <1>5 DEF Recent
  <2>1. CASE r = new
    BY <1>2, <1>3, <2>1
  <2>2. CASE r \in txn.rows
    BY <1>2, <1>3, <1>4, <2>2 DEF Database, Row
  <2> QED
    BY <1>4, <2>1, <2>2
<1>6. CASE t # s
  <2>1. Recent(txn.rows, t)
    BY <1>1, <1>6 DEF Retained
  <2>2. ASSUME NEW r \in txn'.rows, r.signal = t PROVE r \in txn.rows
    BY <1>3, <1>4, <1>6, <2>2
  <2> QED
    BY <2>1, <2>2 DEF Recent
<1> QED
  BY <1>5, <1>6

LEMMA RetainedStep == Inv /\ Retained /\ [Next]_vars => Retained'
<1> SUFFICES ASSUME Inv, Retained, [Next]_vars PROVE Retained'
  OBVIOUS
<1>1. ASSUME pc' \in {"values", "commit"}, recorded', span' > 0,
             NEW t \in Observed[elapsed'] \ todo'
      PROVE  Recent(txn.rows, t)'
  <2>1. CASE WriteHeartbeat
    BY <1>1, <2>1 DEF WriteHeartbeat, Inv, HeartbeatInv, frame, run
  <2>2. ASSUME NEW s \in Signal, SaveValue(s) PROVE Recent(txn.rows, t)'
    <3>1. UNCHANGED <<span, origin, elapsed>>
      BY <2>2 DEF SaveValue, run
    <3>2. Recent(txn'.rows, t)
      BY <1>1, <2>2, <3>1, SaveValueRetains
    <3> QED
      BY <3>1, <3>2 DEF Recent
  <2>3. CASE /\ pc \in {"values", "commit"} /\ txn'.rows = txn.rows
             /\ recorded => todo' = todo
             /\ UNCHANGED <<recorded, span, origin, elapsed>>
    BY <1>1, <2>3 DEF Retained, Recent
  <2> QED
    BY <1>1, <2>1, <2>2, <2>3, InsideFrame
<1>2. ASSUME pc' = "sleep", span' > 0, NEW t \in Observed[elapsed']
      PROVE  Recent(db.rows, t)'
  <2>1. CASE CommitFrame
    <3>1. pc = "commit" /\ db' = txn /\ UNCHANGED <<span, origin, elapsed>>
      BY <2>1 DEF CommitFrame, run
    <3>2. recorded /\ todo = {}
      BY <3>1, CommitSound
    <3> QED
      BY <1>2, <3>1, <3>2 DEF Retained, Recent
  <2>2. CASE pc = "sleep" /\ UNCHANGED <<elapsed, origin, span, db, txn>>
    BY <1>2, <2>2 DEF Retained, Recent
  <2> QED
    BY <1>2, <2>1, <2>2, EntersSleep
<1> QED
  BY <1>1, <1>2 DEF Retained

\* A completed live frame leaves no value of its signals outside retention.
THEOREM RetentionKept == Spec => []RetentionHolds
<1>1. Init => Retained
  BY DEF Init, Retained
<1>2. Retained => RetentionHolds
  BY DEF Retained, Recent, RetentionHolds
<1> QED
  BY <1>1, <1>2, RetainedStep, InvHolds, PTL DEF Spec

-----------------------------------------------------------------------------
\* How far simulated time can run ahead of the clock.

\* t is no later than k samples after `from', on a clock that may be off.
AheadBy(t, from, k) == \E d \in Skew : t <= from + d + k * Sample

LEMMA SampleTimes ==
  ASSUME NEW k \in Nat
  PROVE  k * Sample \in Nat /\ (k + 1) * Sample = k * Sample + Sample /\ Sample \in Nat \ {0}
BY TimeAssumption

LEMMA AheadByMonotone ==
  ASSUME NEW t \in Int, NEW u \in Int, NEW a \in Int, NEW b \in Int, NEW k \in Nat,
         u <= t, a <= b, AheadBy(t, a, k)
  PROVE  AheadBy(u, b, k) /\ AheadBy(u, b, k + 1)
<1>1. PICK d \in Skew : t <= a + d + k * Sample
  BY DEF AheadBy
<1>2. d \in Int
  BY TimeAssumption
<1> DEFINE m == k * Sample
           n == (k + 1) * Sample
<1>3. m \in Nat /\ n = m + Sample /\ Sample \in Nat
  BY SampleTimes
<1>4. t <= a + d + m
  BY <1>1
<1> HIDE DEF m, n
<1>5. u <= b + d + m /\ u <= b + d + n
  BY <1>2, <1>3, <1>4
<1> QED
  BY <1>5 DEF AheadBy, m, n

\* One more sample of simulated time.
LEMMA AheadBySample ==
  ASSUME NEW t \in Int, NEW a \in Int, NEW k \in Nat, AheadBy(t, a, k)
  PROVE  AheadBy(t + Sample, a, k + 1) /\ AheadBy(t + Sample, a + Sample, k)
<1>1. PICK d \in Skew : t <= a + d + k * Sample
  BY DEF AheadBy
<1>2. d \in Int
  BY TimeAssumption
<1> DEFINE m == k * Sample
           n == (k + 1) * Sample
<1>3. m \in Nat /\ n = m + Sample /\ Sample \in Nat
  BY SampleTimes
<1>4. t <= a + d + m
  BY <1>1
<1> HIDE DEF m, n
<1>5. t + Sample <= a + d + n /\ t + Sample <= a + Sample + d + m
  BY <1>2, <1>3, <1>4
<1> QED
  BY <1>5 DEF AheadBy, m, n

\* A checkpoint that an earlier release left behind the clock, or one on the
\* lattice that is not too far ahead.
Behind(c, at, k) == Reached(c) <= 0 \/ (OnLattice(c.elapsed) /\ AheadBy(Reached(c), at, k))

\* The lead of a process is what its checkpoint had, one sample for the frame
\* that its loop writes at once, and nothing more: a frame begins a sample after
\* the one before it.
Lead ==
  /\ begun <= now
  /\ pc # "down" => starts >= 1
  /\ \A c \in db.checkpoint : Behind(c, now, starts + 1)
  /\ pc = "open" => \A c \in db.checkpoint : Behind(c, now, starts)
  /\ Booting => elapsed <= span /\ AheadBy(origin.start + span, now, 0)
  /\ pc = "ready" \/ (pc \in FramePC /\ kind = "resume") =>
       AheadBy(origin.start + elapsed, now, starts)
  /\ pc \in {"sleep", "dead"} \/ (pc \in FramePC /\ kind = "live") =>
       AheadBy(origin.start + elapsed, begun, starts + 1)

LEMMA LeadTypes ==
  ASSUME TypeOK
  PROVE  /\ now \in Nat /\ starts \in Nat /\ begun \in Nat /\ span \in Nat
         /\ elapsed \in Nat /\ origin.start \in Int
         /\ \A c \in db.checkpoint :
              c \in Checkpoint /\ Reached(c) \in Int /\ c.elapsed \in Nat /\ c.origin.start \in Int
BY TimeAssumption DEF TypeOK, Elapsed, Origin, Database, Checkpoint, Reached

LEMMA BehindMonotone ==
  ASSUME NEW c, Reached(c) \in Int, NEW a \in Int, NEW b \in Int, a <= b, NEW k \in Nat,
         Behind(c, a, k)
  PROVE  Behind(c, b, k) /\ Behind(c, b, k + 1)
<1>1. CASE Reached(c) <= 0
  BY <1>1 DEF Behind
<1>2. CASE OnLattice(c.elapsed) /\ AheadBy(Reached(c), a, k)
  <2>1. AheadBy(Reached(c), b, k) /\ AheadBy(Reached(c), b, k + 1)
    BY <1>2, AheadByMonotone
  <2> QED
    BY <1>2, <2>1 DEF Behind
<1> QED
  BY <1>1, <1>2 DEF Behind

LEMMA LeadInit == Init => Lead
<1> SUFFICES ASSUME Init PROVE Lead
  OBVIOUS
<1>1. now = 0 /\ begun = 0 /\ pc = "down" /\ starts = 0
  BY DEF Init
<1>2. \A c \in db.checkpoint : Reached(c) <= 0
  BY InitialAssumption DEF Init
<1> QED
  BY <1>1, <1>2 DEF Lead, Behind, Booting, FramePC

\* The process ends: only the committed checkpoint counts.
LEMMA LeadExit == Inv /\ Lead /\ Exit => Lead'
<1> SUFFICES ASSUME Inv, Lead, Exit PROVE Lead'
  OBVIOUS
<1>1. /\ pc' = "down" /\ begun' = 0 /\ UNCHANGED <<now, starts, db>> /\ now \in Nat
  BY LeadTypes DEF Exit, Inv
<1>2. \A c \in db'.checkpoint : Behind(c, now', starts' + 1)
  BY <1>1 DEF Lead
<1> QED
  BY <1>1, <1>2 DEF Lead, Booting, FramePC

LEMMA LeadStart == Inv /\ Lead /\ StartStep => Lead'
<1> SUFFICES ASSUME Inv, Lead, NEW c \in Config, NEW h \in Spans, NEW reset \in BOOLEAN,
                    Start(c, h, reset)
             PROVE  Lead'
  BY DEF StartStep
<1>1. /\ pc' = "open" /\ starts' = starts + 1 /\ now' = now /\ begun' = begun
      /\ db' = IF reset THEN EmptyDatabase ELSE db
  BY DEF Start
<1>2. starts \in Nat /\ now \in Int
  BY LeadTypes DEF Inv
<1>3. ASSUME NEW b \in db'.checkpoint
      PROVE  Behind(b, now', starts') /\ Behind(b, now', starts' + 1)
  <2>1. b \in db.checkpoint
    BY <1>1, <1>3 DEF EmptyDatabase
  <2>2. Behind(b, now, starts + 1) /\ Reached(b) \in Int
    BY <2>1, LeadTypes DEF Lead, Inv
  <2>3. Behind(b, now, (starts + 1) + 1)
    <3> DEFINE k == starts + 1
    <3>1. k \in Nat /\ now <= now
      BY <1>2
    <3>2. Behind(b, now, k)
      BY <2>2
    <3> HIDE DEF k
    <3>3. Behind(b, now, k + 1)
      BY <1>2, <2>2, <3>1, <3>2, BehindMonotone
    <3> QED
      BY <3>3 DEF k
  <2> QED
    BY <1>1, <2>2, <2>3
<1> QED
  BY <1>1, <1>2, <1>3 DEF Lead, Booting, FramePC

LEMMA LeadBoot ==
  ASSUME Inv, Inv', Lead, NEW d \in Skew, BeginBootstrap(d)
  PROVE  Lead'
<1>1. /\ pc = "open" /\ pc' \in {"bootstrap", "heartbeat"} /\ kind' = "boot" /\ elapsed' = 0
      /\ origin'.start = now + d - span
      /\ UNCHANGED <<now, starts, db, span, begun>>
  BY DEF BeginBootstrap, data
<1>2. now \in Nat /\ span \in Nat /\ starts \in Nat /\ d \in Int
  BY LeadTypes, TimeAssumption DEF Inv
<1>3. AheadBy(origin'.start + span', now', 0)
  BY <1>1, <1>2, TimeAssumption DEF AheadBy
<1>4. \A c \in db'.checkpoint : Behind(c, now', starts' + 1)
  BY <1>1 DEF Lead
<1> QED
  BY <1>1, <1>2, <1>3, <1>4 DEF Lead, FramePC

\* A restart continues where the clock is, or where the checkpoint was; an
\* earlier release's checkpoint is moved up to the lattice.
LEMMA LeadResume ==
  ASSUME Inv, Inv', Lead, NEW d \in Skew, Resume(d)
  PROVE  Lead'
<1>1. /\ pc = "open" /\ pc' = "heartbeat" /\ kind' = "resume"
      /\ UNCHANGED <<now, starts, db, begun>> /\ txn = db
  BY DEF Resume, data, Inv, TxnClosed
<1>2. PICK c \in db.checkpoint : origin' = c.origin /\ elapsed' = ResumeElapsed(c, now + d)
  <2>1. PICK c \in db.checkpoint :
          /\ Compatible(c) /\ origin' = [config |-> config, start |-> c.origin.start]
          /\ elapsed' = ResumeElapsed(c, now + d)
    BY <1>1 DEF Resume
  <2>2. c.origin \in Origin
    BY <2>1 DEF Inv, TypeOK, Database, Checkpoint
  <2> QED
    BY <2>1, <2>2, ResumedOrigin
<1>3. /\ now \in Nat /\ starts \in Nat /\ d \in Int /\ now + d \in Int
      /\ c \in Checkpoint /\ c.elapsed \in Nat /\ c.origin.start \in Int
      /\ Reached(c) \in Int /\ Reached(c) = c.origin.start + c.elapsed
      /\ Sample \in Nat \ {0} /\ 0 \in Skew
  BY <1>2, LeadTypes, TimeAssumption DEF Inv, Reached
<1>4. starts >= 1 /\ Behind(c, now, starts)
  BY <1>1, <1>2 DEF Lead
<1> DEFINE e == ResumeElapsed(c, now + d)
           n == starts * Sample
<1>5. e \in Nat /\ (c.origin.start + e <= now + d \/ e = Ceiling(c.elapsed))
  BY <1>3, ResumeOnLattice
<1>6. n \in Nat /\ n >= Sample
  BY <1>3, <1>4
<1>7. AheadBy(c.origin.start + e, now, starts)
  <2> HIDE DEF e, n
  <2>1. CASE c.origin.start + e <= now + d
    <3>1. c.origin.start + e <= now + d + n
      BY <1>3, <1>5, <1>6, <2>1
    <3> QED
      BY <3>1 DEF AheadBy, n
  <2>2. CASE e = Ceiling(c.elapsed) /\ Reached(c) <= 0
    <3>1. e <= c.elapsed + Sample - 1
      BY <1>3, <2>2, CeilingOnLattice
    <3>2. c.origin.start + e <= now + 0 + n
      BY <1>3, <1>5, <1>6, <2>2, <3>1
    <3> QED
      BY <1>3, <3>2 DEF AheadBy, n
  <2>3. CASE /\ e = Ceiling(c.elapsed) /\ OnLattice(c.elapsed)
             /\ AheadBy(Reached(c), now, starts)
    <3>1. e = c.elapsed
      BY <1>3, <2>3, CeilingOnLattice
    <3> QED
      BY <1>3, <2>3, <3>1
  <2> QED
    BY <1>4, <1>5, <2>1, <2>2, <2>3 DEF Behind
<1>8. \A b \in db'.checkpoint : Behind(b, now', starts' + 1)
  BY <1>1 DEF Lead
<1> QED
  BY <1>1, <1>2, <1>3, <1>4, <1>7, <1>8 DEF Lead, Booting, FramePC

\* The bootstrap ends at the wall clock.
LEMMA LeadPrepare ==
  ASSUME Inv, Inv', Lead, BootstrapFrame \/ BootstrapDone \/ Flush \/ FlushCommit
  PROVE  Lead'
<1>1. /\ Booting /\ pc' \in {"bootstrap", "flush", "flush_commit", "heartbeat"}
      /\ kind' = "boot"
      /\ UNCHANGED <<now, starts, begun, span, origin>>
      /\ db'.checkpoint = {}
      /\ elapsed' <= span
  <2>1. Booting /\ kind = "boot" /\ db.checkpoint = {} /\ txn.checkpoint = {} /\ elapsed <= span
    BY DEF Inv, BootInv, Booting, BootstrapFrame, BootstrapDone, Flush, FlushCommit, Lead
  <2>2. CASE BootstrapFrame
    BY <2>1, <2>2 DEF BootstrapFrame, MoreFrames, frame
  <2>3. CASE BootstrapDone \/ Flush
    BY <2>1, <2>3 DEF BootstrapDone, Flush, data, frame, run
  <2>4. CASE FlushCommit
    BY <2>1, <2>4 DEF FlushCommit, run
  <2> QED
    BY <2>1, <2>2, <2>3, <2>4
<1>2. AheadBy(origin'.start + span', now', 0) /\ starts >= 1
  BY <1>1 DEF Lead, Booting, FramePC
<1> QED
  BY <1>1, <1>2 DEF Lead, FramePC

\* A saved checkpoint is on the lattice.
LEMMA HereBehind ==
  ASSUME TypeOK, Aligned, NEW a \in Int, NEW k \in Nat, AheadBy(origin.start + elapsed, a, k)
  PROVE  Behind(Here, a, k)
BY DEF Behind, Here, Reached, Aligned

LEMMA LeadSeal ==
  ASSUME Inv, Inv', Aligned, Lead, SealBootstrap
  PROVE  Lead'
<1>1. /\ Booting /\ pc' = "ready"
      /\ UNCHANGED <<now, starts, begun, span, origin, elapsed>>
      /\ db'.checkpoint = {Here}
  BY DEF SealBootstrap, Booting, run, SaveCheckpoint, Here, Inv, TypeOK, Database
<1>2. /\ now \in Nat /\ starts \in Nat /\ elapsed \in Nat /\ span \in Nat /\ origin.start \in Int
      /\ TypeOK
  BY LeadTypes DEF Inv
<1>3. elapsed <= span /\ AheadBy(origin.start + span, now, 0) /\ starts >= 1
  BY <1>1 DEF Lead, SealBootstrap
<1>4. PICK d \in Skew : origin.start + span <= now + d + 0 * Sample
  BY <1>3 DEF AheadBy
<1>5. d \in Int /\ 0 * Sample = 0 /\ starts * Sample \in Nat /\ Sample \in Nat
  BY <1>2, TimeAssumption
<1>6. origin.start + elapsed <= now + d + starts * Sample
  <2> DEFINE n == starts * Sample
  <2>1. n \in Nat
    BY <1>5
  <2> HIDE DEF n
  <2>2. origin.start + elapsed <= now + d + n
    BY <1>2, <1>3, <1>4, <1>5, <2>1
  <2> QED
    BY <2>2 DEF n
<1>7. AheadBy(origin.start + elapsed, now, starts)
  BY <1>6 DEF AheadBy
<1>8. AheadBy(origin.start + elapsed, now, starts + 1)
  BY <1>2, <1>7, AheadByMonotone
<1>9. Behind(Here, now, starts + 1)
  BY <1>2, <1>8, HereBehind
<1> QED
  BY <1>1, <1>3, <1>7, <1>9 DEF Lead, Booting, FramePC

\* The first frame after a start comes at once; every other one a sample after
\* the one before it began.
LEMMA LeadBegin ==
  ASSUME Inv, Inv', Lead, BeginFrame
  PROVE  Lead'
<1>1. /\ pc \in {"ready", "sleep"} /\ (pc = "sleep" => now >= begun + Sample)
      /\ pc' = "heartbeat" /\ kind' = "live" /\ begun' = now /\ elapsed' = elapsed + Sample
      /\ UNCHANGED <<now, starts, db, origin>>
  BY DEF BeginFrame, IterationDue, data
<1>2. /\ now \in Nat /\ starts \in Nat /\ begun \in Nat /\ elapsed \in Nat
      /\ origin.start \in Int /\ Sample \in Nat
  BY LeadTypes, TimeAssumption DEF Inv
<1> DEFINE t == origin.start + elapsed
<1>3. t \in Int /\ origin'.start + elapsed' = t + Sample /\ begun + Sample \in Int
  BY <1>1, <1>2
<1>4. AheadBy(t + Sample, now, starts + 1)
  <2>1. CASE pc = "ready"
    <3>1. AheadBy(t, now, starts)
      BY <2>1 DEF Lead
    <3> HIDE DEF t
    <3> QED
      BY <1>2, <1>3, <3>1, AheadBySample
  <2>2. CASE pc = "sleep"
    <3> DEFINE k == starts + 1
    <3>1. AheadBy(t, begun, k) /\ k \in Nat
      BY <1>2, <2>2 DEF Lead
    <3> HIDE DEF t, k
    <3>2. AheadBy(t + Sample, begun + Sample, k)
      BY <1>2, <1>3, <3>1, AheadBySample
    <3>3. AheadBy(t + Sample, now, k)
      BY <1>1, <1>2, <1>3, <2>2, <3>1, <3>2, AheadByMonotone
    <3> QED
      BY <3>3 DEF k
  <2> QED
    BY <1>1, <2>1, <2>2
<1>5. starts >= 1 /\ \A c \in db.checkpoint : Behind(c, now, starts + 1)
  BY <1>1 DEF Lead
<1> HIDE DEF t
<1> QED
  BY <1>1, <1>2, <1>3, <1>4, <1>5 DEF Lead, Booting, FramePC

\* The steps inside a frame move neither time nor the database.
LEMMA LeadFrame ==
  ASSUME Inv, Inv', Lead,
         \/ WriteHeartbeat \/ EndUnrecorded \/ FrameCheckpoint
         \/ \E s \in Signal : PublishValue(s) \/ SaveValue(s)
  PROVE  Lead'
<1>1. /\ pc \in FramePC
      /\ UNCHANGED <<now, starts, db, kind, span, origin, elapsed, begun>>
      /\ \/ pc' \in FramePC
         \/ kind = "boot" /\ pc' = "seal"
         \/ kind = "resume" /\ pc' = "ready"
  <2>1. CASE EndUnrecorded
    BY <2>1
    DEF EndUnrecorded, AfterFrame, data, frame, run, FramePC, Inv, TypeOK, SealedInv, Sealed
  <2>2. CASE WriteHeartbeat \/ FrameCheckpoint \/ \E s \in Signal : PublishValue(s) \/ SaveValue(s)
    BY <2>2 DEF WriteHeartbeat, FrameCheckpoint, PublishValue, SaveValue, data, frame, run, FramePC
  <2> QED
    BY <2>1, <2>2
<1>2. /\ starts >= 1 /\ begun <= now /\ pc # "down" /\ pc' # "down" /\ pc' # "open"
      /\ \A c \in db'.checkpoint : Behind(c, now', starts' + 1)
  BY <1>1 DEF Lead, FramePC
<1>3. Booting' => Booting
  BY <1>1 DEF Booting, FramePC
<1>4. /\ Booting' => elapsed' <= span' /\ AheadBy(origin'.start + span', now', 0)
      /\ pc' = "ready" \/ (pc' \in FramePC /\ kind' = "resume") =>
           AheadBy(origin'.start + elapsed', now', starts')
      /\ pc' \in {"sleep", "dead"} \/ (pc' \in FramePC /\ kind' = "live") =>
           AheadBy(origin'.start + elapsed', begun', starts' + 1)
  BY <1>1, <1>3 DEF Lead, FramePC
<1> QED
  BY <1>1, <1>2, <1>4 DEF Lead

LEMMA LeadCommit ==
  ASSUME Inv, Inv', Aligned, Lead, CommitFrame
  PROVE  Lead'
<1>1. /\ pc = "commit" /\ db' = txn /\ UNCHANGED <<now, starts, span, origin, elapsed, begun>>
      /\ AfterFrame
  BY DEF CommitFrame, run
<1>2. txn.checkpoint = {Here} /\ kind \in {"resume", "live"}
  BY <1>1, CommitSound DEF Sealed, Inv, TypeOK, FramePC
<1>3. /\ now \in Nat /\ starts \in Nat /\ begun \in Nat /\ origin.start + elapsed \in Int
      /\ TypeOK /\ starts + 1 \in Nat
  BY LeadTypes DEF Inv
<1>4. starts >= 1 /\ begun <= now
  BY <1>1 DEF Lead
<1>5. CASE kind = "resume"
  <2>1. pc' = "ready" /\ AheadBy(origin.start + elapsed, now, starts)
    BY <1>1, <1>5 DEF AfterFrame, Lead, FramePC
  <2>2. AheadBy(origin.start + elapsed, now, starts + 1)
    BY <1>3, <2>1, AheadByMonotone
  <2>3. Behind(Here, now, starts + 1)
    BY <1>3, <2>2, HereBehind
  <2> QED
    BY <1>1, <1>2, <1>4, <2>1, <2>3 DEF Lead, Booting, FramePC
<1>6. CASE kind = "live"
  <2>1. pc' = "sleep" /\ AheadBy(origin.start + elapsed, begun, starts + 1)
    BY <1>1, <1>6 DEF AfterFrame, Lead, FramePC
  <2>2. AheadBy(origin.start + elapsed, now, starts + 1)
    <3> DEFINE k == starts + 1
    <3>1. AheadBy(origin.start + elapsed, begun, k) /\ k \in Nat
      BY <1>3, <2>1
    <3> HIDE DEF k
    <3>2. AheadBy(origin.start + elapsed, now, k)
      BY <1>3, <1>4, <3>1, AheadByMonotone
    <3> QED
      BY <3>2 DEF k
  <2>3. Behind(Here, now, starts + 1)
    BY <1>3, <2>2, HereBehind
  <2> QED
    BY <1>1, <1>2, <1>4, <2>1, <2>3 DEF Lead, Booting, FramePC
<1> QED
  BY <1>2, <1>5, <1>6

LEMMA LeadDies ==
  ASSUME Inv, Inv', Lead, LoopDies
  PROVE  Lead'
<1>1. /\ pc \in FramePC /\ kind = "live" /\ pc' = "dead"
      /\ UNCHANGED <<now, starts, db, origin, elapsed, begun>>
  BY DEF LoopDies, run
<1>2. /\ starts >= 1 /\ begun <= now
      /\ \A c \in db'.checkpoint : Behind(c, now', starts' + 1)
      /\ AheadBy(origin'.start + elapsed', begun', starts' + 1)
  BY <1>1 DEF Lead, FramePC
<1> QED
  BY <1>1, <1>2 DEF Lead, Booting, FramePC

\* Time passes: every lead shrinks.
LEMMA LeadIdle ==
  ASSUME Inv, Inv', Lead, now' \in {now, now + 1},
         UNCHANGED <<starts, data, pc, frame, run, pending, begun, opc>>
  PROVE  Lead'
<1>1. /\ now \in Int /\ now' \in Int /\ now <= now' /\ starts \in Nat /\ starts + 1 \in Nat
      /\ begun \in Int /\ origin.start + span \in Int /\ origin.start + elapsed \in Int
      /\ 0 \in Nat
  BY LeadTypes DEF Inv
<1>2. UNCHANGED <<starts, db, pc, kind, span, origin, elapsed, begun>>
  BY DEF data, frame, run
<1>3. /\ \A c \in db.checkpoint : Behind(c, now', starts + 1)
      /\ pc = "open" => \A c \in db.checkpoint : Behind(c, now', starts)
  <2> DEFINE k == starts + 1
  <2>1. ASSUME NEW c \in db.checkpoint PROVE Reached(c) \in Int
    BY LeadTypes DEF Inv
  <2>2. k \in Nat /\ \A c \in db.checkpoint : Behind(c, now, k)
    BY <1>1 DEF Lead
  <2> HIDE DEF k
  <2>3. \A c \in db.checkpoint : Behind(c, now', k)
    BY <1>1, <2>1, <2>2, BehindMonotone
  <2>4. pc = "open" => \A c \in db.checkpoint : Behind(c, now', starts)
    BY <1>1, <2>1, BehindMonotone DEF Lead
  <2> QED
    BY <2>3, <2>4 DEF k
<1>4. Booting => AheadBy(origin.start + span, now', 0)
  BY <1>1, AheadByMonotone DEF Lead
<1>5. pc = "ready" \/ (pc \in FramePC /\ kind = "resume") =>
        AheadBy(origin.start + elapsed, now', starts)
  BY <1>1, AheadByMonotone DEF Lead
<1> QED
  BY <1>1, <1>2, <1>3, <1>4, <1>5 DEF Lead, Booting

LEMMA LeadStep == Inv /\ Inv' /\ Aligned /\ Lead /\ [Next]_vars => Lead'
<1> SUFFICES ASSUME Inv, Inv', Aligned, Lead, [Next]_vars PROVE Lead'
  OBVIOUS
<1>1. CASE Tick \/ UNCHANGED vars
  BY <1>1, LeadIdle DEF Tick, vars
<1>2. CASE StartStep
  BY <1>2, LeadStart
<1>3. CASE Reject \/ PrepareFails \/ StartFails \/ Stop \/ Crash
  <2>1. Exit
    BY <1>3 DEF Reject, PrepareFails, StartFails, Stop, Crash
  <2> QED
    BY <2>1, LeadExit
<1>4. CASE \E d \in Skew : BeginBootstrap(d) \/ Resume(d)
  BY <1>4, LeadBoot, LeadResume
<1>5. CASE BootstrapFrame \/ BootstrapDone \/ Flush \/ FlushCommit \/ SealBootstrap
  BY <1>5, LeadPrepare, LeadSeal
<1>6. CASE BeginFrame \/ LoopDies
  BY <1>6, LeadBegin, LeadDies
<1>7. CASE WriteFrame
  BY <1>7, LeadFrame, LeadCommit DEF WriteFrame
<1> QED
  BY <1>1, <1>2, <1>3, <1>4, <1>5, <1>6, <1>7 DEF Next, Prepare, Failure

LEMMA LeadAlways == Spec => []Lead
BY LeadInit, LeadStep, AlignedAlways, InvHolds, PTL DEF Spec

\* Simulated time runs ahead of the wall clock by at most a sample per process
\* start, and one for the realignment of an old checkpoint.
THEOREM LeadIsBounded == Spec => []LeadBounded
<1>1. ASSUME Inv, Lead PROVE LeadBounded
  <2> SUFFICES ASSUME NEW c \in db.checkpoint
               PROVE  \E d \in Skew : Reached(c) <= now + d + (starts + 1) * Sample
    BY DEF LeadBounded
  <2>1. /\ Behind(c, now, starts + 1) /\ Reached(c) \in Int /\ now \in Nat /\ starts \in Nat
        /\ 0 \in Skew
    BY <1>1, LeadTypes, TimeAssumption DEF Lead, Inv
  <2>2. CASE Reached(c) <= 0
    <3> DEFINE n == (starts + 1) * Sample
    <3>1. n \in Nat
      BY <2>1, TimeAssumption
    <3> HIDE DEF n
    <3>2. Reached(c) <= now + 0 + n
      BY <2>1, <2>2, <3>1
    <3> QED
      BY <2>1, <3>2 DEF n
  <2> QED
    BY <2>1, <2>2 DEF Behind, AheadBy
<1> QED
  BY <1>1, InvHolds, LeadAlways, PTL

\* The health check: once the loop has died, a probe whose clock is past the last
\* iteration by MaxAge and by the lead that the starts can have given the
\* heartbeat fails, although the endpoint answers.
THEOREM DeathsAreReported == Spec => []DeathIsReported
<1>1. ASSUME Inv, Heart, Lead PROVE DeathIsReported
  <2> SUFFICES ASSUME NEW d \in Skew, pc = "dead",
                      \A k \in Skew : now + d > begun + k + (starts + 1) * Sample + MaxAge
               PROVE  ~Healthy(d)
    BY DEF DeathIsReported
  <2>1. AheadBy(origin.start + elapsed, begun, starts + 1)
    BY <1>1 DEF Lead
  <2>2. PICK k \in Skew : origin.start + elapsed <= begun + k + (starts + 1) * Sample
    BY <2>1 DEF AheadBy
  <2>3. now + d > begun + k + (starts + 1) * Sample + MaxAge
    OBVIOUS
  <2> DEFINE n == (starts + 1) * Sample
  <2>4. /\ heartbeat \in Int /\ elapsed \in Int /\ heartbeat <= elapsed
        /\ origin.start \in Int /\ now \in Int /\ begun \in Int /\ starts \in Nat
        /\ k \in Int /\ d \in Int /\ MaxAge \in Int
    BY <1>1, LeadTypes, NodeTypes, TimeAssumption, MaxAgeAssumption DEF Heart, Inv
  <2>5. n \in Int
    BY <2>4, TimeAssumption
  <2>6. origin.start + elapsed <= begun + k + n /\ now + d > begun + k + n + MaxAge
    BY <2>2, <2>3
  <2> HIDE DEF n
  <2>7. now + d - (origin.start + heartbeat) > MaxAge
    BY <2>4, <2>5, <2>6
  <2>8. now + d - (origin.start + heartbeat) \in Int
    BY <2>4
  <2> QED
    BY <2>4, <2>7, <2>8 DEF Healthy, IsFresh, HeartbeatSource
<1> QED
  BY <1>1, InvHolds, HeartAlways, LeadAlways, PTL
=============================================================================
