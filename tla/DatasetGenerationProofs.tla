------------------------ MODULE DatasetGenerationProofs ------------------------
(***************************************************************************)
(* For every set of jobs, files and observations, and however the process  *)
(* dies: a manifest on disk describes whole files, so a dataset that       *)
(* verifies is whole, and the manifest depends on the job's seed, duration *)
(* and sample alone.                                                       *)
(***************************************************************************)
EXTENDS DatasetGeneration, FiniteSetTheorems, SequenceTheorems, TLAPS

-----------------------------------------------------------------------------
\* FlattenSeq, one sequence more at a time.

\* The partial concatenations of s, the first one in f[1].
Folding(f, s) == f = [i \in 1..Len(s) |-> IF i = 1 THEN s[i] ELSE f[i - 1] \o s[i]]

\* s has one list of partial concatenations, and it ends in v.
FoldsTo(s, n, v) ==
  /\ \E f : Folding(f, s)
  /\ \A f : Folding(f, s) => f[n] = v

LEMMA FlattenIs ==
  ASSUME NEW s, NEW n \in Nat \ {0}, NEW v, Len(s) = n, FoldsTo(s, n, v)
  PROVE  FlattenSeq(s) = v
<1> DEFINE g == CHOOSE f : f = [i \in 1..Len(s) |-> IF i = 1 THEN s[i] ELSE f[i - 1] \o s[i]]
<1>1. Folding(g, s)
  BY DEF FoldsTo, Folding
<1>2. g[n] = v
  BY <1>1 DEF FoldsTo
<1> HIDE DEF g
<1>3. FlattenSeq(s) = g[Len(s)]
  BY DEF FlattenSeq, g
<1> QED BY <1>2, <1>3

\* The first sequence, and one more.
LEMMA FoldsFirst ==
  ASSUME NEW s, Len(s) = 1
  PROVE  FoldsTo(s, 1, s[1])
<1>1. Folding([i \in 1..1 |-> s[i]], s)
  BY DEF Folding
<1>2. \A f : Folding(f, s) => f[1] = s[1]
  BY DEF Folding
<1> QED BY <1>1, <1>2 DEF FoldsTo

LEMMA FoldsNext ==
  ASSUME NEW s, NEW t, NEW n \in Nat \ {0}, NEW v,
         Len(s) = n, Len(t) = n + 1, \A i \in 1..n : t[i] = s[i],
         FoldsTo(s, n, v)
  PROVE  FoldsTo(t, n + 1, v \o t[n + 1])
<1>1. \A f : Folding(f, t) => f[n + 1] = v \o t[n + 1]
  <2> SUFFICES ASSUME NEW f, Folding(f, t)
               PROVE  f[n + 1] = v \o t[n + 1]
    OBVIOUS
  <2> DEFINE g == [i \in 1..n |-> f[i]]
  <2>1. /\ f[n + 1] = f[n] \o t[n + 1]
        /\ \A i \in 1..n : f[i] = IF i = 1 THEN t[i] ELSE f[i - 1] \o t[i]
    <3>1. f = [i \in 1..(n + 1) |-> IF i = 1 THEN t[i] ELSE f[i - 1] \o t[i]]
      BY DEF Folding
    <3>2. \A i \in 1..(n + 1) : f[i] = IF i = 1 THEN t[i] ELSE f[i - 1] \o t[i]
      BY <3>1
    <3> DEFINE m == n + 1
    <3>3. m \in 1..m /\ m # 1 /\ m - 1 = n
      OBVIOUS
    <3>4. \A i \in 1..m : f[i] = IF i = 1 THEN t[i] ELSE f[i - 1] \o t[i]
      BY <3>2
    <3> HIDE DEF m
    <3>5. f[m] = f[n] \o t[m]
      BY <3>3, <3>4
    <3> QED BY <3>2, <3>5 DEF m
  <2>2. \A i \in 1..n : g[i] = IF i = 1 THEN s[i] ELSE g[i - 1] \o s[i]
    BY <2>1
  <2>3. Folding(g, s)
    BY <2>2 DEF Folding
  <2>4. g[n] = f[n]
    OBVIOUS
  <2> QED BY <2>1, <2>3, <2>4 DEF FoldsTo
<1>2. \E f : Folding(f, t)
  <2>1. PICK g : Folding(g, s)
    BY DEF FoldsTo
  <2> DEFINE f == [i \in 1..(n + 1) |-> IF i <= n THEN g[i] ELSE g[n] \o t[n + 1]]
  <2>2. \A i \in 1..n : g[i] = IF i = 1 THEN s[i] ELSE g[i - 1] \o s[i]
    BY <2>1 DEF Folding
  <2>3. \A i \in 1..(n + 1) : f[i] = IF i = 1 THEN t[i] ELSE f[i - 1] \o t[i]
    BY <2>2
  <2>4. f = [i \in 1..(n + 1) |-> f[i]]
    OBVIOUS
  <2> HIDE DEF f
  <2>5. Folding(f, t)
    BY <2>3, <2>4 DEF Folding
  <2> QED BY <2>5
<1> QED BY <1>1, <1>2 DEF FoldsTo

-----------------------------------------------------------------------------
\* The invariant.

\* The rows of the first n frames of a job, or of a manifest's dataset.
DataUpTo(j, n) == [i \in 1..n |-> DataRows(j, i * j.sample)]
TruthUpTo(j, n) == [i \in 1..n |-> TruthRow(j, i * j.sample)]

Types ==
  /\ DOMAIN file = DataPath \cup TruthPath /\ DOMAIN manifest = DataPath
  /\ pc \in PC /\ job \in Job
  /\ elapsed \in Nat /\ frames \in Nat

\* Simulated time counts the frames and does not pass the job's duration.
OnFrames ==
  /\ elapsed = frames * job.sample /\ elapsed <= job.duration
  /\ pc \in {"idle", "open_data", "open_truth"} => frames = 0
  /\ pc # "idle" => Divisible(job)
  /\ pc \notin {"idle", "open_data", "open_truth", "frames"} => elapsed = job.duration

\* The streams hold the rows of the frames so far and nothing else.
Streamed ==
  /\ written.truth = TruthUpTo(job, frames)
  /\ IF frames = 0 THEN written.data = <<>>
     ELSE FoldsTo(DataUpTo(job, frames), frames, written.data)

\* A closed file holds what was written to its stream.
Closed ==
  /\ pc \in {"close_data", "digest"} => file[job.truth] = written.truth
  /\ pc = "digest" => file[job.data] = written.data

\* A manifest describes a whole dataset.
Whole(r) ==
  /\ r.truth.digest = AllTruth(r) /\ r.data.digest = AllData(r)
  /\ r.frames = Len(AllTruth(r)) /\ r.observations = Len(AllData(r))

\* The job's manifest is made once, of the files as they are now.
Reported ==
  /\ \A r \in report : Whole(r)
  /\ pc \in {"open_manifest", "write_manifest", "done"} =>
       \E r : report = {r} /\ Verifies(r)
  /\ pc = "done" /\ job.linked => manifest[job.data] = report

ManifestsWhole == \A p \in DataPath : \A r \in manifest[p] : Whole(r)

Inv == Types /\ OnFrames /\ Streamed /\ Closed /\ Reported /\ ManifestsWhole

-----------------------------------------------------------------------------
\* What the frames of a dataset are.

LEMMA JobTypes ==
  ASSUME NEW j \in Job
  PROVE  /\ j.duration \in Nat \ {0} /\ j.sample \in Nat \ {0}
         /\ j.data \in DataPath /\ j.truth \in TruthPath /\ j.linked \in BOOLEAN
         /\ j.data # j.truth
BY DatasetAssumption DEF Job

LEMMA NextProduct ==
  ASSUME NEW n \in Nat, NEW s \in Nat \ {0}
  PROVE  /\ n * s \in Nat /\ (n + 1) * s = n * s + s
         /\ n = 0 => n * s = 0
OBVIOUS

\* A job that has more frames to write has a whole sample left.
LEMMA SampleLeft ==
  ASSUME NEW n \in Nat, NEW s \in Nat \ {0}, NEW d \in Nat, d % s = 0, n * s < d
  PROVE  (n + 1) * s <= d
<1>1. d = s * (d \div s) /\ d \div s \in Nat
  OBVIOUS
<1> DEFINE q == d \div s
<1>2. q \in Nat /\ d = s * q
  BY <1>1
<1> HIDE DEF q
<1>3. n < q
  <2> SUFFICES ASSUME q <= n PROVE FALSE
    BY <1>2
  <2>1. PICK m \in Nat : n = q + m
    BY <1>2
  <2>2. n * s = s * q + m * s /\ m * s \in Nat
    BY <1>2, <2>1
  <2> QED BY <1>2, <2>2
<1>4. PICK m \in Nat : q = n + 1 + m
  BY <1>2, <1>3
<1>5. s * q = (n + 1) * s + m * s /\ m * s \in Nat
  BY <1>2, <1>4
<1> QED BY <1>2, <1>5

LEMMA QuotientOf ==
  ASSUME NEW n \in Nat, NEW s \in Nat \ {0}
  PROVE  (n * s) \div s = n
OBVIOUS

\* Rows are told apart by the seed and the frame length alone.
LEMMA RowsOf ==
  ASSUME NEW j, NEW r, r.seed = j.seed, r.sample = j.sample, NEW e
  PROVE  DataRows(r, e) = DataRows(j, e) /\ TruthRow(r, e) = TruthRow(j, e)
BY DEF DataRows, TruthRow

LEMMA RowsAreSeq ==
  ASSUME NEW j, NEW e \in Elapsed
  PROVE  \E S : DataRows(j, e) \in Seq(S)
<1> DEFINE n == Cardinality(Observed[e])
           row(i) == <<j.seed, j.sample, e, SetToSeq(Observed[e])[i]>>
           S == {row(i) : i \in 1..n}
<1>1. n \in Nat
  BY DatasetAssumption, FS_CardinalityType
<1>2. DataRows(j, e) = [i \in 1..n |-> row(i)]
  BY DEF DataRows
<1>3. [i \in 1..n |-> row(i)] \in [1..n -> S]
  OBVIOUS
<1> HIDE DEF n, S, row
<1>4. [i \in 1..n |-> row(i)] \in Seq(S)
  BY <1>1, <1>3, SeqDef
<1> QED BY <1>2, <1>4

\* The manifest of a job that wrote every frame describes a whole dataset.
LEMMA WholeReport ==
  ASSUME NEW r, NEW n \in Nat \ {0}, NEW v,
         r.sample \in Nat \ {0}, r.duration = n * r.sample,
         r.frames = n, r.observations = Len(v),
         r.data.digest = v, r.truth.digest = TruthUpTo(r, n),
         FoldsTo(DataUpTo(r, n), n, v)
  PROVE  Whole(r)
<1>1. r.duration \div r.sample = n
  BY QuotientOf
<1>2. AllTruth(r) = TruthUpTo(r, n)
  BY <1>1 DEF AllTruth, Times, TruthUpTo
<1>3. Len(TruthUpTo(r, n)) = n
  BY DEF TruthUpTo
<1>4. AllData(r) = FlattenSeq(DataUpTo(r, n))
  BY <1>1 DEF AllData, Times, DataUpTo
<1>5. Len(DataUpTo(r, n)) = n
  BY DEF DataUpTo
<1>6. AllData(r) = v
  BY <1>4, <1>5, FlattenIs
<1> QED BY <1>2, <1>3, <1>6 DEF Whole

-----------------------------------------------------------------------------
\* The steps.

LEMMA InvInit == Init => Inv
<1> SUFFICES ASSUME Init PROVE Inv
  OBVIOUS
<1>1. Types
  BY DEF Init, Types, PC
<1>2. OnFrames
  BY JobTypes DEF Init, OnFrames
<1>3. Streamed
  BY DEF Init, Streamed, TruthUpTo
<1>4. Closed /\ Reported /\ ManifestsWhole
  BY DEF Init, Closed, Reported, ManifestsWhole
<1> QED BY <1>1, <1>2, <1>3, <1>4 DEF Inv

\* What is said of the manifests alone needs no more than them.
LEMMA SameManifests ==
  ASSUME ManifestsWhole, UNCHANGED manifest
  PROVE  ManifestsWhole'
BY DEF ManifestsWhole, Whole, AllTruth, AllData, Times, TruthRow, DataRows

LEMMA ForgetInv ==
  ASSUME Inv, Forget, UNCHANGED <<file, manifest, runs, job>>
  PROVE  Inv'
<1>1. Types'
  BY DEF Inv, Types, Forget, PC
<1>2. OnFrames'
  BY JobTypes DEF Inv, Types, OnFrames, Forget
<1>3. Streamed'
  BY DEF Streamed, Forget, TruthUpTo
<1>4. Closed' /\ Reported'
  BY DEF Closed, Reported, Forget
<1> QED BY <1>1, <1>2, <1>3, <1>4, SameManifests DEF Inv

LEMMA BeginInv ==
  ASSUME Inv, NEW j \in Job, Begin(j)
  PROVE  Inv'
<1>1. Types'
  BY DEF Inv, Types, Begin, PC
<1>2. OnFrames'
  BY JobTypes DEF Inv, Types, OnFrames, Begin, PC
<1>3. frames = 0 /\ frames' = 0 /\ written' = written
  BY DEF Inv, OnFrames, Begin
<1>4. Streamed'
  BY <1>3 DEF Inv, Streamed, TruthUpTo
<1>5. Closed' /\ Reported'
  BY DEF Inv, Closed, Reported, Begin, Whole, AllTruth, AllData, Times, TruthRow, DataRows
<1> QED BY <1>1, <1>2, <1>4, <1>5, SameManifests DEF Inv, Begin

\* Steps that only move on to the next file operation.
LEMMA StreamsAside ==
  ASSUME Inv, UNCHANGED <<job, elapsed, written, frames>>
  PROVE  Streamed'
BY DEF Inv, Streamed

LEMMA OpenInv ==
  ASSUME Inv, OpenData \/ OpenTruth
  PROVE  Inv'
<1>1. UNCHANGED <<manifest, job, elapsed, written, frames, report>>
  BY DEF OpenData, OpenTruth
<1>2. Types'
  BY DEF Inv, Types, OpenData, OpenTruth, PC
<1>3. OnFrames'
  BY DEF Inv, OnFrames, OpenData, OpenTruth, Divisible
<1>4. Closed' /\ Reported'
  BY DEF Inv, Closed, Reported, OpenData, OpenTruth, Whole, AllTruth, AllData, Times,
         TruthRow, DataRows
<1> QED BY <1>1, <1>2, <1>3, <1>4, SameManifests, StreamsAside DEF Inv

LEMMA DrainInv ==
  ASSUME Inv, NEW p, NEW rows, pc = "frames", UNCHANGED <<manifest, pc, job, elapsed, written, frames, report>>,
         \E v : file' = [file EXCEPT ![p] = v]
  PROVE  Inv'
<1>1. Types'
  BY DEF Inv, Types
<1>2. OnFrames'
  BY DEF Inv, OnFrames, Divisible
<1>3. Closed' /\ Reported'
  BY DEF Inv, Closed, Reported, Whole, AllTruth, AllData, Times, TruthRow, DataRows
<1> QED BY <1>1, <1>2, <1>3, SameManifests, StreamsAside DEF Inv

LEMMA CloseInv ==
  ASSUME Inv, CloseTruth \/ CloseData
  PROVE  Inv'
<1>1. UNCHANGED <<manifest, job, elapsed, written, frames, report>>
  BY DEF CloseTruth, CloseData
<1>2. Types'
  BY DEF Inv, Types, CloseTruth, CloseData, PC
<1>3. OnFrames'
  <2>1. job.duration \in Nat
    BY JobTypes DEF Inv, Types
  <2> QED
  BY <2>1 DEF Inv, Types, OnFrames, CloseTruth, CloseData, Divisible, MoreFrames
<1>4. Closed'
  BY JobTypes DEF Inv, Types, Closed, CloseTruth, CloseData
<1>5. Reported'
  BY DEF Inv, Reported, CloseTruth, CloseData, Whole, AllTruth, AllData, Times,
         TruthRow, DataRows
<1> QED BY <1>1, <1>2, <1>3, <1>4, <1>5, SameManifests, StreamsAside DEF Inv

\* One more frame: its rows follow those of the frames before.
LEMMA FrameInv ==
  ASSUME Inv, WriteFrame
  PROVE  Inv'
<1> DEFINE n == frames
           s == job.sample
<1>1. /\ n \in Nat /\ s \in Nat \ {0} /\ job.duration \in Nat \ {0} /\ job \in Job
      /\ n' = n + 1 /\ elapsed' = elapsed + s /\ elapsed = n * s
      /\ elapsed < job.duration /\ Divisible(job)
      /\ UNCHANGED <<file, manifest, runs, pc, job, report>> /\ pc = "frames"
  BY JobTypes DEF Inv, Types, OnFrames, WriteFrame, MoreFrames
<1>2. elapsed' = (n + 1) * s /\ elapsed' \in Nat /\ elapsed' <= job.duration
  <2>1. (n + 1) * s = n * s + s /\ n * s \in Nat
    BY <1>1, NextProduct
  <2>2. (n + 1) * s <= job.duration
    <3>1. job.duration % s = 0 /\ n * s < job.duration
      BY <1>1 DEF Divisible
    <3> HIDE DEF n, s
    <3> QED BY <1>1, <3>1, SampleLeft
  <2> QED BY <1>1, <2>1, <2>2
<1>3. Types'
  BY <1>1, <1>2 DEF Inv, Types
<1>4. OnFrames'
  BY <1>1, <1>2 DEF OnFrames, Divisible
<1>5. written'.truth = TruthUpTo(job, n + 1)
  <2>1. /\ written'.truth = Append(written.truth, TruthRow(job, (n + 1) * s))
        /\ written.truth = TruthUpTo(job, n)
    BY <1>2 DEF WriteFrame, Inv, Streamed
  <2> DEFINE row(i) == TruthRow(job, i * s)
             S == {row(i) : i \in 1..(n + 1)}
  <2>2. TruthUpTo(job, n) = [i \in 1..n |-> row(i)] /\ TruthUpTo(job, n + 1) = [i \in 1..(n + 1) |-> row(i)]
    BY DEF TruthUpTo
  <2>3. TruthUpTo(job, n) \in [1..n -> S] /\ row(n + 1) \in S
    BY <1>1, <2>2
  <2> HIDE DEF n, row, S
  <2>4. Append(TruthUpTo(job, n), row(n + 1)) = [i \in 1..(n + 1) |-> row(i)]
    BY <1>1, <2>2, <2>3
  <2> QED BY <2>1, <2>2, <2>4 DEF row
<1>6. written'.data = written.data \o DataRows(job, (n + 1) * s)
  BY <1>2 DEF WriteFrame
<1>7. FoldsTo(DataUpTo(job, n + 1), n + 1, written'.data)
  <2> DEFINE t == DataUpTo(job, n + 1)
  <2>1. Len(t) = n + 1 /\ t[n + 1] = DataRows(job, (n + 1) * s)
    BY <1>1 DEF DataUpTo
  <2>2. CASE n = 0
    <3>1. written.data = <<>>
      BY <2>2 DEF Inv, Streamed
    <3>2. s \in Elapsed
      <4>1. job.duration \in Duration /\ s \in SampleSeconds
        BY <1>1 DEF Job
      <4>2. s \in 0..(job.duration + s)
        BY <1>1
      <4> QED BY <4>1, <4>2, DatasetAssumption
    <3>3. written'.data = DataRows(job, s)
      <4>1. PICK S : DataRows(job, s) \in Seq(S)
        BY <3>2, RowsAreSeq
      <4>2. (n + 1) * s = s
        BY <1>1, <2>2
      <4>3. <<>> \o DataRows(job, s) = DataRows(job, s)
        BY <4>1, ConcatEmptySeq
      <4> QED BY <1>6, <3>1, <4>2, <4>3
    <3>4. Len(t) = 1 /\ t[1] = written'.data
      BY <1>1, <2>1, <2>2, <3>3 DEF DataUpTo
    <3>5. FoldsTo(t, 1, t[1])
      BY <3>4, FoldsFirst
    <3> QED BY <2>2, <3>4, <3>5
  <2>3. CASE n # 0
    <3>1. FoldsTo(DataUpTo(job, n), n, written.data)
      BY <2>3 DEF Inv, Streamed
    <3>2. Len(DataUpTo(job, n)) = n /\ \A i \in 1..n : t[i] = DataUpTo(job, n)[i]
      BY <1>1 DEF DataUpTo
    <3>3. n \in Nat \ {0}
      BY <1>1, <2>3
    <3> HIDE DEF t, n
    <3>4. FoldsTo(t, n + 1, written.data \o t[n + 1])
      BY <2>1, <3>1, <3>2, <3>3, FoldsNext
    <3> QED BY <1>6, <2>1, <3>4 DEF t
  <2> QED BY <2>2, <2>3
<1>8. Streamed'
  BY <1>1, <1>5, <1>7 DEF Streamed
<1>9. Closed' /\ Reported'
  BY <1>1 DEF Inv, Closed, Reported, Whole, AllTruth, AllData, Times, TruthRow, DataRows
<1> QED BY <1>1, <1>3, <1>4, <1>8, <1>9, SameManifests DEF Inv

\* The manifest of a job whose streams are closed.
LEMMA BuildInv ==
  ASSUME Inv, BuildManifest
  PROVE  Inv'
<1> DEFINE r == [seed |-> job.seed, duration |-> job.duration, sample |-> job.sample,
                 end |-> elapsed, frames |-> frames, observations |-> Len(written.data),
                 data |-> [path |-> job.data, digest |-> file[job.data]],
                 truth |-> [path |-> job.truth, digest |-> file[job.truth]]]
           n == frames
<1>1. /\ report' = {r} /\ pc = "digest" /\ pc' \in {"open_manifest", "done"}
      /\ pc' = "done" => ~job.linked
      /\ UNCHANGED <<file, manifest, runs, job, elapsed, written, frames>>
  BY JobTypes DEF BuildManifest, Inv, Types
<1>2. /\ n \in Nat \ {0} /\ job.sample \in Nat \ {0} /\ job.duration = n * job.sample
  <2>1. /\ n \in Nat /\ job.sample \in Nat \ {0} /\ job.duration \in Nat \ {0}
        /\ job.duration = n * job.sample
    BY <1>1, JobTypes DEF Inv, Types, OnFrames
  <2> QED BY <2>1, NextProduct
<1>3. /\ file[job.data] = written.data /\ file[job.truth] = TruthUpTo(job, n)
      /\ FoldsTo(DataUpTo(job, n), n, written.data)
  BY <1>1, <1>2 DEF Inv, Closed, Streamed
<1>4. /\ r.seed = job.seed /\ r.sample = job.sample /\ r.duration = job.duration
      /\ r.frames = n /\ r.observations = Len(written.data)
      /\ r.data.digest = file[job.data] /\ r.truth.digest = file[job.truth]
      /\ r.data.path = job.data /\ r.truth.path = job.truth
  OBVIOUS
<1>5. Whole(r)
  <2> HIDE DEF r, n
  <2>1. \A e : DataRows(r, e) = DataRows(job, e) /\ TruthRow(r, e) = TruthRow(job, e)
    BY <1>4, RowsOf
  <2>2. DataUpTo(r, n) = DataUpTo(job, n) /\ TruthUpTo(r, n) = TruthUpTo(job, n)
    BY <1>4, <2>1 DEF DataUpTo, TruthUpTo
  <2> QED BY <1>2, <1>3, <1>4, <2>2, WholeReport
<1>6. PICK q : q = r
  OBVIOUS
<1>7. Verifies(q)'
  BY <1>1, <1>4, <1>6 DEF Verifies
<1> HIDE DEF r
<1>8. Reported'
  <2>1. \A x \in report' : Whole(x)
    BY <1>1, <1>5
  <2>2. report' = {q}
    BY <1>1, <1>6
  <2> QED BY <1>1, <1>7, <2>1, <2>2 DEF Reported
<1>9. Types' /\ OnFrames' /\ Closed'
  BY <1>1 DEF Inv, Types, OnFrames, Closed, PC, Divisible
<1> QED BY <1>1, <1>8, <1>9, SameManifests, StreamsAside DEF Inv

LEMMA ManifestInv ==
  ASSUME Inv, OpenManifest \/ WriteManifest
  PROVE  Inv'
<1>1. UNCHANGED <<file, runs, job, elapsed, written, frames, report>>
  BY DEF OpenManifest, WriteManifest
<1>2. job.data \in DataPath /\ DOMAIN manifest = DataPath
  BY JobTypes DEF Inv, Types
<1>3. Types'
  BY <1>1 DEF Inv, Types, OpenManifest, WriteManifest, PC
<1>4. OnFrames' /\ Closed'
  BY <1>1 DEF Inv, OnFrames, Closed, OpenManifest, WriteManifest, Divisible
<1>5. \A r \in report : Whole(r)
  BY DEF Inv, Reported
<1>6. \A p \in DataPath : manifest'[p] \subseteq manifest[p] \cup report
  BY <1>2 DEF OpenManifest, WriteManifest
<1>7. ManifestsWhole'
  BY <1>5, <1>6 DEF Inv, ManifestsWhole
<1>8. \E r : report' = {r} /\ Verifies(r)'
  BY <1>1 DEF Inv, Reported, OpenManifest, WriteManifest, Verifies
<1>9. pc' = "done" => manifest'[job.data] = report'
  BY <1>1, <1>2 DEF OpenManifest, WriteManifest
<1>10. Reported'
  BY <1>1, <1>5, <1>8, <1>9 DEF Reported
<1> QED BY <1>1, <1>3, <1>4, <1>7, <1>10, StreamsAside DEF Inv

LEMMA InvStep ==
  ASSUME Inv, [Next]_vars
  PROVE  Inv'
<1>1. CASE UNCHANGED vars
  <2>1. Types' /\ OnFrames' /\ Closed'
    BY <1>1 DEF Inv, vars, Types, OnFrames, Closed, Divisible
  <2>2. Reported'
    BY <1>1 DEF Inv, vars, Reported, Verifies
  <2> QED BY <1>1, <2>1, <2>2, SameManifests, StreamsAside DEF Inv, vars
<1>2. ASSUME NEW j \in Job, Begin(j) PROVE Inv'
  BY <1>2, BeginInv
<1>3. CASE OpenData \/ OpenTruth
  BY <1>3, OpenInv
<1>4. CASE WriteFrame
  BY <1>4, FrameInv
<1>5. CASE Drain(job.data, written.data) \/ Drain(job.truth, written.truth)
  BY <1>5, DrainInv DEF Drain
<1>6. CASE CloseTruth \/ CloseData
  BY <1>6, CloseInv
<1>7. CASE BuildManifest
  BY <1>7, BuildInv
<1>8. CASE OpenManifest \/ WriteManifest
  BY <1>8, ManifestInv
<1>9. CASE Return \/ Interrupted
  BY <1>9, ForgetInv DEF Return, Interrupted
<1> QED BY <1>1, <1>2, <1>3, <1>4, <1>5, <1>6, <1>7, <1>8, <1>9 DEF Next

-----------------------------------------------------------------------------
\* What the invariant gives.

LEMMA ManifestIsWhole ==
  ASSUME Inv, NEW r \in Manifests
  PROVE  Whole(r)
BY DEF Inv, Types, ManifestsWhole, Manifests, Range

\* Whatever jobs were killed, or wrote over a file that an older manifest names:
\* files that have a manifest's digests hold every frame of its interval and
\* nothing else.
THEOREM VerifiedDatasetsAreWhole == Spec => []VerifiedIsWhole
<1>1. Inv => VerifiedIsWhole
  BY ManifestIsWhole DEF VerifiedIsWhole, Verifies, Whole
<1> QED BY <1>1, InvInit, InvStep, PTL DEF Spec

\* A call of generate_dataset that returns leaves its own manifest on the disk, and
\* the files it names have its digests.
THEOREM ReturnedDatasetsVerify == Spec => []ReturnedVerifies
<1>1. Inv => ReturnedVerifies
  BY DEF Inv, Types, Reported, ReturnedVerifies
<1> QED BY <1>1, InvInit, InvStep, PTL DEF Spec

\* docs/contracts.md:37-39: two manifests of the same seed, duration and sample agree
\* on everything but the names of the files, however often each job was tried.
THEOREM DatasetsAreReproducible == Spec => []Reproducible
<1>1. ASSUME NEW r, NEW q, r.seed = q.seed, r.duration = q.duration, r.sample = q.sample
      PROVE  AllTruth(r) = AllTruth(q) /\ AllData(r) = AllData(q)
  <2>1. Times(r) = Times(q)
    BY <1>1 DEF Times
  <2>2. \A e : DataRows(r, e) = DataRows(q, e) /\ TruthRow(r, e) = TruthRow(q, e)
    BY <1>1, RowsOf
  <2> QED BY <2>1, <2>2 DEF AllTruth, AllData
<1>2. Inv => Reproducible
  BY <1>1, ManifestIsWhole DEF Reproducible, Whole
<1> QED BY <1>2, InvInit, InvStep, PTL DEF Spec
-----------------------------------------------------------------------------
\* Type correctness: a path has at most one manifest, and time stays within the job.

AtMostOne(S) == S = {} \/ \E r : S = {r}

Single ==
  /\ runs \in 0..MaxRuns /\ AtMostOne(report)
  /\ \A p \in DataPath : AtMostOne(manifest[p])

LEMMA SingleInit == Init => Single
BY DatasetAssumption DEF Init, Single, AtMostOne

LEMMA SingleStep ==
  ASSUME Inv, Single, [Next]_vars
  PROVE  Single'
<1>1. ASSUME UNCHANGED <<runs, manifest>>, report' \in {report, {}} PROVE Single'
  BY <1>1 DEF Single, AtMostOne
<1>2. ASSUME NEW j \in Job, Begin(j) PROVE Single'
  <2>1. runs' \in 0..MaxRuns /\ UNCHANGED <<manifest, report>>
    BY <1>2, DatasetAssumption DEF Begin, Single
  <2> QED BY <2>1 DEF Single, AtMostOne
<1>3. CASE \/ UNCHANGED vars \/ OpenData \/ OpenTruth \/ WriteFrame
           \/ Drain(job.data, written.data) \/ Drain(job.truth, written.truth)
           \/ CloseTruth \/ CloseData \/ Return \/ Interrupted
  <2>1. UNCHANGED <<runs, manifest>> /\ report' \in {report, {}}
    BY <1>3 DEF vars, OpenData, OpenTruth, WriteFrame, Drain, CloseTruth, CloseData,
                Return, Interrupted, Forget
  <2> QED BY <1>1, <2>1
<1>4. CASE BuildManifest
  <2>1. UNCHANGED <<runs, manifest>> /\ \E r : report' = {r}
    BY <1>4 DEF BuildManifest
  <2> QED BY <2>1 DEF Single, AtMostOne
<1>5. CASE OpenManifest \/ WriteManifest
  <2>1. UNCHANGED <<runs, report>> /\ \A p \in DataPath : manifest'[p] \in {manifest[p], {}, report}
    BY <1>5 DEF OpenManifest, WriteManifest, Inv, Types
  <2> QED BY <2>1 DEF Single, AtMostOne
<1> QED BY <1>2, <1>3, <1>4, <1>5 DEF Next

LEMMA AtMostOneCounts ==
  ASSUME NEW S, AtMostOne(S)
  PROVE  Cardinality(S) <= 1
<1>1. Cardinality({}) = 0 /\ \A r : Cardinality({r}) = 1
  BY FS_EmptySet, FS_Singleton
<1>2. CASE S = {}
  BY <1>1, <1>2
<1>3. ASSUME NEW r, S = {r} PROVE Cardinality(S) <= 1
  <2>1. Cardinality(S) = Cardinality({r})
    BY <1>3
  <2>2. Cardinality({r}) = 1
    BY <1>1
  <2> QED BY <2>1, <2>2
<1> QED BY <1>2, <1>3 DEF AtMostOne

\* No run of generate_dataset simulates past its duration, however it is interrupted and
\* restarted, and a data file has at most one manifest beside it.
THEOREM DatasetTypes == Spec => []TypeOK
<1>1. Inv /\ Single => TypeOK
  <2> SUFFICES ASSUME Inv, Single PROVE TypeOK
    OBVIOUS
  <2>1. elapsed \in 0..job.duration
    BY JobTypes DEF Inv, Types, OnFrames
  <2>2. Cardinality(report) <= 1 /\ \A p \in DataPath : Cardinality(manifest[p]) <= 1
    BY AtMostOneCounts DEF Single
  <2> QED BY <2>1, <2>2 DEF TypeOK, Inv, Types, Single
<1> QED BY <1>1, InvInit, InvStep, SingleInit, SingleStep, PTL DEF Spec
=============================================================================
