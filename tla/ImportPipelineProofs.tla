------------------------ MODULE ImportPipelineProofs ------------------------
(***************************************************************************)
(* Theorems about ImportPipeline, for any requests, questions, jobs, crashes *)
(* and failed calls: types, no question is inserted twice, none of a shown    *)
(* upload is without a place. Both rest on where a question can be: in the    *)
(* bank, with a request, in the list of failed questions or in the cache.     *)
(***************************************************************************)
EXTENDS ImportPipeline, TLAPS

\* The types of what is stored.
StoredInv ==
  /\ upload \in Upload /\ failed \in SUBSET Questions /\ bank \in [Questions -> 0..2]
  /\ crashes \in 0..MaxCrashes /\ errors \in 0..MaxErrors
  /\ repeated \in BOOLEAN /\ overlap \in BOOLEAN

\* The worker holds the lock of the job it runs.
QueueInv ==
  /\ queue \in Seq(QueuedJob) /\ Len(queue) \in 0..MaxJobs
  /\ worker.job # NoJob => /\ worker.job \in Jobs
                           /\ queue[worker.job].state = "active"
                           /\ queue[worker.job].locked

RunnersInv == worker \in Worker /\ recovery \in Recovery

\* Where a request can be in its operation, and what it holds there.
Shape(q) ==
  /\ (q.op = "none") <=> (q.at = "idle")
  /\ (q.op = "start") <=> (q.at \in {"save", "enqueue", "saveJob", "restore"})
  /\ q.op = "persist" => q.at \in {"insert", "sync"}
  /\ (q.op = "persist" /\ q.clean) => q.keep = q.left
  /\ q.op = "fix" => /\ q.at \in {"insert", "delete"} /\ q.keep = {}
                     /\ \E x \in Questions : q.left = {x}

\* Requests have their shape, a failed question is inserted before it is deleted,
\* and two requests never persist at a time.
RequestsInv ==
  /\ req \in [Requests -> Request]
  /\ \A r \in Requests : Shape(req[r])
  /\ \A r \in Requests :
       (req[r].op = "fix" /\ req[r].at = "delete") => req[r].left \subseteq Inserted
  /\ \A r, o \in Persisting : r = o

BaseInv == StoredInv /\ QueueInv /\ RunnersInv /\ RequestsInv

\* The constants have the types the arithmetic needs.
LEMMA ConstantTypes ==
  /\ MaxJobs \in Nat /\ MaxCrashes \in Nat /\ MaxErrors \in Nat
  /\ Concurrency \in Nat /\ Concurrency >= 1
  /\ NoJob \in 0..MaxJobs
  BY BoundsAreNat, TakesAJob DEF NoJob

-----------------------------------------------------------------------------
\* Which steps change what.
LEMMA Frames ==
  ASSUME Next
  PROVE  /\ \/ upload' = upload
            \/ ParseDone \/ EnrichDone \/ SaveFailed \/ LateSave \/ RecoverClaim \/ GrowOld
            \/ \E r \in Requests : \/ StartSave(r) \/ SaveJobId(r) \/ Restore(r)
                                   \/ PersistSync(r) \/ PersistEnd(r)
         /\ failed' = failed \/ ReplaceFailed \/ \E r \in Requests : FixDelete(r)
         /\ bank' = bank \/ \E r \in Requests : PersistInsert(r) \/ FixInsert(r)
         /\ \/ queue' = queue
            \/ MoveStalled \/ GetNextJob \/ FinishJob \/ \E j \in Jobs : LockExpires(j)
            \/ \E r \in Requests : Enqueue(r) \/ EnqueueFails(r)
         /\ \/ worker' = worker
            \/ WorkerStep \/ PollFails \/ FollowUp \/ Crash \/ Restart
            \/ \E r \in Requests : Enqueue(r)
         /\ recovery' = recovery \/ RecoverStep \/ Crash \/ Restart
         /\ \/ req' = req \/ Crash
            \/ \E r \in Requests : \/ RequestStep(r) \/ PersistRead(r)
                                   \/ \E kind \in Kinds : StartRead(r, kind)
                                   \/ \E q \in Questions : FixRead(r, q)
         /\ /\ crashes' = crashes \/ (crashes < MaxCrashes /\ crashes' = crashes + 1)
            /\ errors' = errors \/ (errors < MaxErrors /\ errors' = errors + 1)
         /\ /\ repeated' = repeated \/ repeated' \in BOOLEAN
            /\ overlap' = overlap \/ overlap' \in BOOLEAN
<1> USE DEF Next, WorkerStep, RequestStep, RecoverStep, Boot, MoveStalled, GetNextJob,
        NoNextJob, EndOfPass, LoadUpload, ResolveQuestions, ParseDone, WorkFails,
        ReplaceFailed, EnrichDone, SaveFailed, LateRead, LateSave, FinishJob, PollFails,
        FollowUp, RecoverRead, RecoverClaim, LockExpires, StartSave, Enqueue, EnqueueFails,
        SaveJobId, Restore, PersistInsert, PersistRefused, PersistSync, PersistSyncFails,
        PersistEnd, PersistEndFails, FixDeleteFails,
        PersistRead, StartRead, FixRead, FixInsert, FixDelete, Crash, Restart, GrowOld,
        bounds, history, Fail, Note
<1>1. \/ upload' = upload
      \/ ParseDone \/ EnrichDone \/ SaveFailed \/ LateSave \/ RecoverClaim \/ GrowOld
      \/ \E r \in Requests : \/ StartSave(r) \/ SaveJobId(r) \/ Restore(r)
                             \/ PersistSync(r) \/ PersistEnd(r)
  OBVIOUS
<1>2. failed' = failed \/ ReplaceFailed \/ \E r \in Requests : FixDelete(r)
  OBVIOUS
<1>3. bank' = bank \/ \E r \in Requests : PersistInsert(r) \/ FixInsert(r)
  OBVIOUS
<1>4. \/ queue' = queue
      \/ MoveStalled \/ GetNextJob \/ FinishJob \/ \E j \in Jobs : LockExpires(j)
      \/ \E r \in Requests : Enqueue(r) \/ EnqueueFails(r)
  OBVIOUS
<1>5. \/ worker' = worker
      \/ WorkerStep \/ PollFails \/ FollowUp \/ Crash \/ Restart
      \/ \E r \in Requests : Enqueue(r)
  OBVIOUS
<1>6. recovery' = recovery \/ RecoverStep \/ Crash \/ Restart
  OBVIOUS
<1>7. \/ req' = req \/ Crash
      \/ \E r \in Requests : \/ RequestStep(r) \/ PersistRead(r)
                             \/ \E kind \in Kinds : StartRead(r, kind)
                             \/ \E q \in Questions : FixRead(r, q)
  OBVIOUS
<1>8. /\ crashes' = crashes \/ (crashes < MaxCrashes /\ crashes' = crashes + 1)
      /\ errors' = errors \/ (errors < MaxErrors /\ errors' = errors + 1)
  OBVIOUS
<1>9. /\ repeated' = repeated \/ repeated' \in BOOLEAN
      /\ overlap' = overlap \/ overlap' \in BOOLEAN
  BY Zenon
<1> HIDE DEF Next, WorkerStep, RequestStep, RecoverStep, Boot, MoveStalled, GetNextJob,
         NoNextJob, EndOfPass, LoadUpload, ResolveQuestions, ParseDone, WorkFails,
         ReplaceFailed, EnrichDone, SaveFailed, LateRead, LateSave, FinishJob, PollFails,
         FollowUp, RecoverRead, RecoverClaim, LockExpires, StartSave, Enqueue, EnqueueFails,
         SaveJobId, Restore, PersistInsert, PersistRefused, PersistSync, PersistSyncFails,
        PersistEnd, PersistEndFails, FixDeleteFails,
         PersistRead, StartRead, FixRead, FixInsert, FixDelete, Crash, Restart, GrowOld,
         bounds, history, Fail, Note
<1>10. QED
  BY <1>1, <1>2, <1>3, <1>4, <1>5, <1>6, <1>7, <1>8, <1>9

\* The jobs are numbered from 1.
LEMMA JobNumbers ==
  ASSUME BaseInv
  PROVE  /\ Len(queue) \in Nat /\ Jobs = 1..Len(queue) /\ Len(queue) <= MaxJobs
         /\ \A j \in Jobs : queue[j] \in QueuedJob /\ j # NoJob /\ j \in 1..MaxJobs
         /\ queue \in [Jobs -> QueuedJob]
<1>1. queue \in Seq(QueuedJob) /\ Len(queue) \in 0..MaxJobs
  BY DEF BaseInv, QueueInv
<1>2. /\ Len(queue) \in Nat /\ Jobs = 1..Len(queue) /\ Len(queue) <= MaxJobs
      /\ queue \in [Jobs -> QueuedJob]
  BY <1>1, ConstantTypes DEF Jobs
<1>3. QED
  BY <1>2, ConstantTypes DEF NoJob

\* What a request is doing has its type.
LEMMA RequestShape ==
  ASSUME BaseInv, NEW r \in Requests
  PROVE  req[r] \in Request /\ Shape(req[r])
  BY DEF BaseInv, RequestsInv

\* A write to the upload keeps its type.
LEMMA WriteTyped ==
  ASSUME NEW new \in Upload, Write(new)
  PROVE  upload' \in Upload
  BY DEF Write, Upload

\* A new status, cache, job or Markdown of its type leaves the upload in its type.
LEMMA UploadParts ==
  ASSUME BaseInv
  PROVE  /\ \A s \in Statuses : [upload EXCEPT !.status = s] \in Upload
         /\ \A s \in Statuses : [upload EXCEPT !.status = s, !.markdown = TRUE] \in Upload
         /\ \A s \in Statuses, c \in SUBSET Questions :
              [upload EXCEPT !.status = s, !.cache = c] \in Upload
         /\ \A c \in SUBSET Questions : [upload EXCEPT !.cache = c] \in Upload
         /\ \A j \in 0..MaxJobs : [upload EXCEPT !.jobId = j] \in Upload
         /\ \A s \in Statuses, j \in 0..MaxJobs :
              [upload EXCEPT !.status = s, !.jobId = j] \in Upload
         /\ \A b \in BOOLEAN : [upload EXCEPT !.old = b] \in Upload
         /\ upload.status \in Statuses
  BY DEF BaseInv, StoredInv, Upload

\* The upload keeps its type.
LEMMA UploadTyped ==
  ASSUME BaseInv, Next
  PROVE  upload' \in Upload
<1> USE ConstantTypes, UploadParts, WriteTyped, RequestShape
<1>0. /\ upload \in Upload /\ worker.good \in SUBSET Questions /\ NoJob \in 0..MaxJobs
      /\ \A s \in {"parsed", "enriched", "failed", "parsing", "processing", "completed"} :
           s \in Statuses
  <2>1. upload \in Upload /\ worker.good \in SUBSET Questions
    BY DEF BaseInv, StoredInv, RunnersInv, Worker
  <2>2. QED
    BY <2>1 DEF Statuses, BusyStatuses
<1>1. CASE ParseDone
  BY <1>0, <1>1 DEF ParseDone, SetStatus
<1>2. CASE EnrichDone
  BY <1>0, <1>2 DEF EnrichDone, SetStatus
<1>3. CASE SaveFailed
  BY <1>0, <1>3 DEF SaveFailed, SetStatus
<1>4. CASE LateSave
  BY <1>0, <1>4 DEF LateSave
<1>5. CASE RecoverClaim
  BY <1>0, <1>5 DEF RecoverClaim
<1>6. CASE GrowOld
  BY <1>0, <1>6 DEF GrowOld
<1>7. ASSUME NEW r \in Requests, StartSave(r) PROVE upload' \in Upload
  <2>1. Busy(req[r].kind) \in Statuses
    BY <1>0 DEF Busy
  <2>2. QED
    BY <1>7, <2>1 DEF StartSave
<1>8. ASSUME NEW r \in Requests, SaveJobId(r) PROVE upload' \in Upload
  BY <1>8 DEF SaveJobId, Request
<1>9. ASSUME NEW r \in Requests, Restore(r) PROVE upload' \in Upload
  BY <1>9 DEF Restore, Request
<1>10. ASSUME NEW r \in Requests, PersistSync(r) PROVE upload' \in Upload
  BY <1>0, <1>10 DEF PersistSync, SyncCache, Request
<1>11. ASSUME NEW r \in Requests, PersistEnd(r) PROVE upload' \in Upload
  <2>1. {} \in SUBSET Questions /\ req[r].keep \in SUBSET Questions
    BY DEF Request
  <2>2. QED
    BY <1>0, <1>11, <2>1 DEF PersistEnd, SyncCache
<1>12. CASE UNCHANGED upload
  BY <1>0, <1>12
<1>13. QED
  BY <1>1, <1>2, <1>3, <1>4, <1>5, <1>6, <1>7, <1>8, <1>9, <1>10, <1>11, <1>12, Frames

\* What is stored outside the upload keeps its type, and an inserted question
\* stays inserted.
LEMMA StoredTyped ==
  ASSUME BaseInv, Next
  PROVE  StoredInv' /\ Inserted \subseteq Inserted'
<1> USE ConstantTypes
<1>1. failed' \subseteq Questions
  BY Frames DEF BaseInv, StoredInv, ReplaceFailed, FixDelete
<1>2. bank' \in [Questions -> 0..2] /\ Inserted \subseteq Inserted'
  <2>1. bank \in [Questions -> 0..2]
    BY DEF BaseInv, StoredInv
  <2>2. CASE bank' = bank
    BY <2>1, <2>2 DEF Inserted
  <2>3. ASSUME NEW q \in Questions, Insert(q)
        PROVE  bank' \in [Questions -> 0..2] /\ Inserted \subseteq Inserted'
    BY <2>1, <2>3 DEF Insert, Inserted
  <2>4. \A r \in Requests : req[r].left \subseteq Questions
    BY RequestShape DEF Request
  <2>5. bank' = bank \/ \E q \in Questions : Insert(q)
    BY <2>4, Frames DEF PersistInsert, FixInsert
  <2>6. QED
    BY <2>2, <2>3, <2>5
<1>3. crashes' \in 0..MaxCrashes /\ errors' \in 0..MaxErrors
  BY Frames DEF BaseInv, StoredInv
<1>4. repeated' \in BOOLEAN /\ overlap' \in BOOLEAN
  BY Frames, Zenon DEF BaseInv, StoredInv
<1>5. QED
  BY <1>1, <1>2, <1>3, <1>4, UploadTyped DEF StoredInv

\* A sequence over the same jobs with other entries of their type is one.
LEMMA QueueTyped ==
  ASSUME BaseInv, NEW f \in [Jobs -> QueuedJob]
  PROVE  f \in Seq(QueuedJob) /\ Len(f) = Len(queue) /\ DOMAIN f = Jobs
<1>1. Len(queue) \in Nat /\ Jobs = 1..Len(queue)
  BY JobNumbers
<1>2. QED
  BY <1>1

\* An entry of the queue stays an entry when its state or its lock changes.
LEMMA EntryTyped ==
  ASSUME NEW e \in QueuedJob
  PROVE  \A s \in {"waiting", "active", "done"}, b \in BOOLEAN :
           /\ [e EXCEPT !.marked = b] \in QueuedJob /\ [e EXCEPT !.locked = b] \in QueuedJob
           /\ [e EXCEPT !.state = s, !.locked = b] \in QueuedJob
           /\ [e EXCEPT !.state = s, !.marked = b] \in QueuedJob
  BY DEF QueuedJob

\* A new job is the last one and leaves the others as they are.
LEMMA AddJobMoves ==
  ASSUME BaseInv, NEW kind \in Kinds, AddJob(kind)
  PROVE  /\ queue' \in Seq(QueuedJob) /\ Len(queue') \in 1..MaxJobs
         /\ Jobs \subseteq Jobs' /\ \A j \in Jobs : queue'[j] = queue[j]
<1> DEFINE new == [kind |-> kind, state |-> "waiting", locked |-> FALSE, marked |-> FALSE]
<1>1. new \in QueuedJob
  BY DEF QueuedJob
<1>2. queue' = Append(queue, new) /\ Len(queue) < MaxJobs /\ queue \in Seq(QueuedJob)
  BY DEF AddJob, BaseInv, QueueInv
<1> HIDE DEF new
<1>3. Len(queue) \in Nat /\ MaxJobs \in Nat
  BY JobNumbers, ConstantTypes
<1>4. /\ queue' \in Seq(QueuedJob) /\ Len(queue') = Len(queue) + 1
      /\ DOMAIN queue = 1..Len(queue) /\ DOMAIN queue' = 1..Len(queue')
  BY <1>1, <1>2
<1>5. \A j \in 1..Len(queue) : queue'[j] = queue[j]
  BY <1>1, <1>2, <1>3
<1>6. QED
  BY <1>3, <1>2, <1>4, <1>5 DEF Jobs

\* The worker holds the lock of the job it runs, and the queue keeps its type.
LEMMA QueueTypedNext ==
  ASSUME BaseInv, Next
  PROVE  QueueInv'
<1> USE ConstantTypes, JobNumbers
<1>0. /\ queue \in Seq(QueuedJob) /\ Len(queue) \in 0..MaxJobs /\ worker \in Worker
      /\ worker.job # NoJob => /\ worker.job \in Jobs /\ queue[worker.job].state = "active"
                               /\ queue[worker.job].locked
  BY DEF BaseInv, QueueInv, RunnersInv
<1>1. CASE MoveStalled
  <2>1. UNCHANGED queue \/ CheckStalled
    BY <1>1 DEF MoveStalled
  <2>2. queue' \in [Jobs -> QueuedJob]
    BY <2>1, EntryTyped DEF CheckStalled
  <2>3. queue' \in Seq(QueuedJob) /\ Len(queue') = Len(queue) /\ Jobs' = Jobs
    BY <2>2, QueueTyped DEF Jobs
  <2>4. worker'.job = worker.job
    BY <1>0, <1>1 DEF MoveStalled, Worker
  <2>5. ASSUME worker.job # NoJob
        PROVE  queue'[worker.job].state = "active" /\ queue'[worker.job].locked
    <3>1. worker.job \notin Stalled /\ queue[worker.job] \in QueuedJob
      BY <1>0, <2>5 DEF Stalled
    <3>2. queue'[worker.job] \in {queue[worker.job], [queue[worker.job] EXCEPT !.marked = TRUE]}
      BY <1>0, <2>1, <2>5, <3>1 DEF CheckStalled
    <3>3. QED
      BY <1>0, <2>5, <3>1, <3>2 DEF QueuedJob
  <2>6. QED
    BY <1>0, <2>3, <2>4, <2>5 DEF QueueInv
<1>2. CASE GetNextJob
  <2>1. PICK j \in Waiting : /\ queue' = [queue EXCEPT ![j].state = "active", ![j].locked = TRUE]
                             /\ worker'.job = j
    BY <1>0, <1>2 DEF GetNextJob, Worker
  <2>2. j \in Jobs /\ queue[j] \in QueuedJob
    BY DEF Waiting
  <2>3. queue' = [queue EXCEPT ![j] = [queue[j] EXCEPT !.state = "active", !.locked = TRUE]]
    BY <2>1, <2>2
  <2>4. [queue[j] EXCEPT !.state = "active", !.locked = TRUE] \in QueuedJob
    BY <2>2, EntryTyped
  <2>5. queue' \in [Jobs -> QueuedJob] /\ queue'[j].state = "active" /\ queue'[j].locked
    BY <2>2, <2>3, <2>4 DEF QueuedJob
  <2>6. queue' \in Seq(QueuedJob) /\ Len(queue') = Len(queue) /\ Jobs' = Jobs
    BY <2>5, QueueTyped DEF Jobs
  <2>7. QED
    BY <1>0, <2>1, <2>2, <2>5, <2>6 DEF QueueInv
<1>3. CASE FinishJob
  <2>1. worker'.job = NoJob
    BY <1>0, <1>3 DEF FinishJob, Worker
  <2>2. CASE UNCHANGED queue
    BY <1>0, <2>1, <2>2 DEF QueueInv
  <2>3. CASE queue' = [queue EXCEPT ![worker.job].state = "done", ![worker.job].locked = FALSE]
    <3>1. queue' \in [Jobs -> QueuedJob]
      BY <1>0, <2>3, EntryTyped
    <3>2. queue' \in Seq(QueuedJob) /\ Len(queue') = Len(queue)
      BY <3>1, QueueTyped
    <3>3. QED
      BY <1>0, <2>1, <3>2 DEF QueueInv
  <2>4. QED
    BY <1>3, <2>2, <2>3 DEF FinishJob
<1>4. ASSUME NEW j \in Jobs, LockExpires(j) PROVE QueueInv'
  <2>1. queue' = [queue EXCEPT ![j] = [queue[j] EXCEPT !.locked = FALSE]] /\ worker' = worker
    BY <1>4 DEF LockExpires
  <2>2. [queue[j] EXCEPT !.locked = FALSE] \in QueuedJob
    BY EntryTyped
  <2>3. queue' \in [Jobs -> QueuedJob]
    BY <2>1, <2>2
  <2>4. queue' \in Seq(QueuedJob) /\ Len(queue') = Len(queue) /\ Jobs' = Jobs
    BY <2>3, QueueTyped DEF Jobs
  <2>5. worker.job # NoJob => queue'[worker.job] = queue[worker.job]
    BY <1>0, <1>4, <2>1 DEF LockExpires
  <2>6. QED
    BY <1>0, <2>1, <2>4, <2>5 DEF QueueInv
<1>5. ASSUME NEW kind \in Kinds, AddJob(kind), worker'.job = worker.job PROVE QueueInv'
  BY <1>0, <1>5, AddJobMoves DEF QueueInv
<1>6. ASSUME NEW r \in Requests, Enqueue(r) \/ EnqueueFails(r) PROVE QueueInv'
  <2>1. worker'.job = worker.job /\ req[r].kind \in Kinds
    BY <1>0, <1>6, RequestShape DEF Enqueue, EnqueueFails, Polled, Worker, Request
  <2>2. CASE AddJob(req[r].kind)
    BY <1>5, <2>1, <2>2
  <2>3. CASE UNCHANGED queue
    BY <1>0, <2>1, <2>3 DEF QueueInv, Jobs
  <2>4. QED
    BY <1>6, <2>2, <2>3 DEF Enqueue, EnqueueFails
<1>7. ASSUME UNCHANGED queue, worker'.job \in {worker.job, NoJob} PROVE QueueInv'
  BY <1>0, <1>7 DEF QueueInv, Jobs
<1>8. CASE PollFails \/ FollowUp
  BY <1>0, <1>7, <1>8 DEF PollFails, NextTarget, FollowUp, Polled, Worker
<1>9. CASE Crash \/ Restart
  BY <1>7, <1>9 DEF Crash, Restart, Down
<1>10. CASE WorkerStep
  <2>1. CASE MoveStalled \/ GetNextJob \/ FinishJob
    BY <1>1, <1>2, <1>3, <2>1
  <2>2. CASE Boot \/ NoNextJob \/ EndOfPass
    BY <1>0, <1>7, <2>2 DEF Boot, NoNextJob, NextTarget, EndOfPass, Polled, Down, Worker
  <2>3. CASE LoadUpload \/ ResolveQuestions \/ ParseDone \/ WorkFails \/ ReplaceFailed
             \/ EnrichDone \/ SaveFailed \/ LateRead \/ LateSave
    BY <1>0, <1>7, <2>3 DEF LoadUpload, ResolveQuestions, ParseDone, WorkFails, ReplaceFailed,
       EnrichDone, SaveFailed, LateRead, LateSave, GoWork, Worker
  <2>4. QED
    BY <1>10, <2>1, <2>2, <2>3 DEF WorkerStep
<1>11. CASE UNCHANGED <<queue, worker>>
  BY <1>0, <1>7, <1>11
<1>12. QED
  BY <1>1, <1>2, <1>3, <1>4, <1>6, <1>8, <1>9, <1>10, <1>11, Frames
\* The worker and the recovery keep their types.
LEMMA RunnersTyped ==
  ASSUME BaseInv, Next
  PROVE  RunnersInv'
<1> USE ConstantTypes
<1>0. /\ worker \in Worker /\ recovery \in Recovery /\ upload.status \in Statuses
      /\ "uploaded" \in Statuses
  BY UploadParts DEF BaseInv, RunnersInv, Statuses
<1>1. Down \in Worker /\ \A at \in {"boot", "idle"}, b \in BOOLEAN :
        [Down EXCEPT !.at = at] \in Worker /\ [Down EXCEPT !.at = at, !.followUp = b] \in Worker
  <2>1. 0 \in 0..Concurrency
    OBVIOUS
  <2>2. QED
    BY <1>0, <2>1, ZenonT(40) DEF Down, Worker, Kinds
<1>2. \A w \in Worker : Polled(w) \in Worker
  BY ZenonT(40) DEF Polled, Worker, Kinds
<1>3. recovery' \in Recovery
  <2>1. CASE RecoverStep
    BY <1>0, <2>1 DEF RecoverStep, RecoverRead, RecoverClaim, Recovery
  <2>2. CASE Crash \/ Restart
    BY <1>0, <2>2 DEF Crash, Restart, Recovery
  <2>3. QED
    BY <1>0, <2>1, <2>2, Frames
<1>4. CASE Boot
  <2>1. [worker EXCEPT !.at = "idle"] \in Worker
    BY <1>0 DEF Worker
  <2>2. QED
    BY <1>2, <1>3, <1>4, <2>1 DEF Boot, RunnersInv
<1>5. CASE MoveStalled
  <2>0. 0 \in 0..Concurrency
    OBVIOUS
  <2>1. \A b \in BOOLEAN :
          [worker EXCEPT !.at = "fetch", !.taken = 0, !.found = b] \in Worker
    BY <1>0, <2>0 DEF Worker
  <2>2. PICK b \in BOOLEAN : worker' = [worker EXCEPT !.at = "fetch", !.taken = 0, !.found = b]
    BY <1>5 DEF MoveStalled
  <2>3. QED
    BY <1>3, <2>1, <2>2 DEF RunnersInv
<1>6. CASE GetNextJob
  <2>1. worker.taken + 1 \in 0..Concurrency
    BY <1>0, <1>6 DEF GetNextJob, Worker
  <2>2. PICK j \in 1..MaxJobs :
          worker' = [worker EXCEPT !.at = "load", !.job = j, !.taken = worker.taken + 1,
                                   !.found = TRUE]
    BY <1>6, JobNumbers DEF GetNextJob, Waiting
  <2>3. [worker EXCEPT !.at = "load", !.job = j, !.taken = worker.taken + 1, !.found = TRUE]
          \in Worker
    <3>1. j \in 0..MaxJobs
      OBVIOUS
    <3>2. QED
      BY <1>0, <2>1, <3>1 DEF Worker
  <2>4. QED
    BY <1>3, <2>2, <2>3 DEF RunnersInv
<1>7. CASE NoNextJob \/ PollFails
  BY <1>0, <1>3, <1>7 DEF NoNextJob, PollFails, NextTarget, RunnersInv, Worker, Kinds
<1>8. CASE EndOfPass
  <2>1. PICK b \in BOOLEAN : \/ worker' = [Down EXCEPT !.at = "idle", !.followUp = b]
                             \/ worker' = Polled([Down EXCEPT !.at = "idle", !.followUp = b])
    BY <1>0, <1>8 DEF EndOfPass, Worker
  <2>2. QED
    BY <1>1, <1>2, <1>3, <2>1 DEF RunnersInv
<1>9. CASE FollowUp
  <2>1. [worker EXCEPT !.followUp = FALSE] \in Worker
    BY <1>0 DEF Worker
  <2>2. QED
    BY <1>2, <1>3, <1>9, <2>1 DEF FollowUp, RunnersInv
<1>10. CASE LoadUpload \/ ResolveQuestions \/ ParseDone \/ WorkFails \/ ReplaceFailed
            \/ EnrichDone \/ SaveFailed \/ LateRead \/ LateSave
  BY <1>0, <1>3, <1>10, ZenonT(40)
     DEF LoadUpload, ResolveQuestions, ParseDone, WorkFails, ReplaceFailed,
         EnrichDone, SaveFailed, LateRead, LateSave, GoWork, RunnersInv, Worker
<1>11. CASE FinishJob
  <2>1. worker' = [worker EXCEPT !.at = "fetch", !.job = NoJob, !.saw = "uploaded"]
    BY <1>11 DEF FinishJob
  <2>2. QED
    BY <1>0, <1>3, <2>1 DEF RunnersInv, Worker
<1>12. CASE Crash \/ Restart
  BY <1>1, <1>3, <1>12 DEF Crash, Restart, RunnersInv
<1>13. ASSUME NEW r \in Requests, Enqueue(r) PROVE RunnersInv'
  BY <1>0, <1>2, <1>3, <1>13 DEF Enqueue, RunnersInv
<1>14. CASE UNCHANGED worker
  BY <1>0, <1>3, <1>14 DEF RunnersInv
<1>15. QED
  BY <1>4, <1>5, <1>6, <1>7, <1>8, <1>9, <1>10, <1>11, <1>12, <1>13, <1>14, Frames DEF WorkerStep

\* A request that moves to q, not to another persist, keeps the requests in order.
LEMMA RequestMoves ==
  ASSUME BaseInv, Next, NEW r \in Requests, NEW q \in Request, req' = [req EXCEPT ![r] = q],
         Shape(q), (q.op = "fix" /\ q.at = "delete") => q.left \subseteq Inserted',
         q.op = "persist" => (r \in Persisting \/ Persisting = {})
  PROVE  RequestsInv'
<1>1. req \in [Requests -> Request] /\ \A o \in Requests : Shape(req[o])
  BY DEF BaseInv, RequestsInv
<1>2. req'[r] = q /\ \A o \in Requests \ {r} : req'[o] = req[o]
  BY <1>1
<1>3. /\ req' \in [Requests -> Request] /\ \A o \in Requests : Shape(req'[o])
  BY <1>1, <1>2
<1>4. \A o \in Requests : (req'[o].op = "fix" /\ req'[o].at = "delete")
                            => req'[o].left \subseteq Inserted'
  BY <1>2, StoredTyped DEF BaseInv, RequestsInv
<1>5. \A o, p \in Requests : req'[o].op = "persist" /\ req'[p].op = "persist" => o = p
  BY <1>2 DEF BaseInv, RequestsInv, Persisting
<1>6. QED
  BY <1>3, <1>4, <1>5 DEF RequestsInv, Persisting

\* A request ends.
LEMMA RequestEnds ==
  ASSUME BaseInv, Next, NEW r \in Requests, End(r)
  PROVE  RequestsInv'
<1>1. NoRequest \in Request /\ Shape(NoRequest) /\ NoRequest.op = "none"
  BY ConstantTypes DEF NoRequest, Request, Shape, Kinds, Statuses
<1>2. QED
  BY <1>1, RequestMoves DEF End

\* A request goes on with what it has, at another point of its work.
LEMMA RequestGoes ==
  ASSUME BaseInv, Next, NEW r \in Requests,
         NEW at \in {"enqueue", "restore", "insert", "delete"}, Go(r, at),
         req[r].op = "start" <=> (at \in {"enqueue", "restore"}),
         req[r].op \in {"start", "persist", "fix"},
         req[r].op = "persist" => at = "insert",
         (req[r].op = "fix" /\ at = "delete") => req[r].left \subseteq Inserted'
  PROVE  RequestsInv'
<1> DEFINE q == [req[r] EXCEPT !.at = at]
<1>1. /\ q \in Request /\ q.at = at /\ q.op = req[r].op /\ q.left = req[r].left
      /\ q.keep = req[r].keep /\ q.clean = req[r].clean
  BY RequestShape DEF Request
<1>2. req' = [req EXCEPT ![r] = q]
  BY DEF Go, BaseInv, RequestsInv
<1> HIDE DEF q
<1>3. Shape(q)
  BY <1>1, RequestShape DEF Shape
<1>4. QED
  BY <1>1, <1>2, <1>3, RequestMoves DEF Persisting

\* Requests keep their types, and two never persist at a time.
LEMMA RequestsTyped ==
  ASSUME BaseInv, Next
  PROVE  RequestsInv'
<1>1. ASSUME NEW r \in Requests, NEW kind \in Kinds, StartRead(r, kind) PROVE RequestsInv'
  <2> DEFINE q == [NoRequest EXCEPT !.op = "start", !.at = "save", !.kind = kind,
                                    !.saw = upload.status]
  <2>1. q \in Request /\ Shape(q) /\ q.op = "start"
    BY ConstantTypes, UploadParts DEF NoRequest, Request, Shape
  <2>2. req' = [req EXCEPT ![r] = q]
    BY <1>1 DEF StartRead
  <2> HIDE DEF q
  <2>3. QED
    BY <2>1, <2>2, RequestMoves
<1>2. ASSUME NEW r \in Requests, Enqueue(r) PROVE RequestsInv'
  <2> DEFINE q == [req[r] EXCEPT !.at = "saveJob", !.job = Len(queue')]
  <2>1. Len(queue') \in 0..MaxJobs
    <3>1. req[r].kind \in Kinds
      BY RequestShape DEF Request
    <3>2. Len(queue') \in 1..MaxJobs
      BY <1>2, <3>1, AddJobMoves DEF Enqueue
    <3>3. QED
      BY <3>2, ConstantTypes
  <2>2. req[r].at = "enqueue" /\ req[r] \in Request /\ Shape(req[r])
    BY <1>2, RequestShape DEF Enqueue, At
  <2>3. q \in Request /\ q.at = "saveJob" /\ q.op = req[r].op
    BY <2>1, <2>2 DEF Request
  <2>4. req' = [req EXCEPT ![r] = q]
    BY <1>2 DEF Enqueue, BaseInv, RequestsInv
  <2> HIDE DEF q
  <2>5. Shape(q) /\ q.op = "start"
    BY <2>2, <2>3 DEF Shape
  <2>6. QED
    BY <2>3, <2>4, <2>5, RequestMoves
<1>3. ASSUME NEW r \in Requests, PersistRead(r) PROVE RequestsInv'
  <2> DEFINE q == [NoRequest EXCEPT !.op = "persist", !.at = "insert",
                                    !.keep = upload.cache, !.left = upload.cache]
  <2>1. upload.cache \in SUBSET Questions
    BY DEF BaseInv, StoredInv, Upload
  <2>2. q \in Request /\ Shape(q) /\ q.op = "persist"
    BY <2>1, ConstantTypes DEF NoRequest, Request, Shape, Kinds, Statuses
  <2>3. req' = [req EXCEPT ![r] = q] /\ Persisting = {}
    BY <1>3 DEF PersistRead
  <2> HIDE DEF q
  <2>4. QED
    BY <2>2, <2>3, RequestMoves
<1>4. ASSUME NEW r \in Requests, PersistInsert(r) PROVE RequestsInv'
  <2>0. req[r] \in Request /\ Shape(req[r]) /\ req[r].at = "insert" /\ req[r].op = "persist"
    BY <1>4, RequestShape DEF PersistInsert, At
  <2>1. PICK x \in req[r].left :
          req' = [req EXCEPT ![r].at = "sync", ![r].keep = @ \ {x}, ![r].left = @ \ {x}]
    BY <1>4 DEF PersistInsert
  <2> DEFINE q == [req[r] EXCEPT !.at = "sync", !.keep = req[r].keep \ {x},
                                 !.left = req[r].left \ {x}]
  <2>2. /\ q \in Request /\ q.at = "sync" /\ q.op = "persist" /\ q.clean = req[r].clean
        /\ q.keep = req[r].keep \ {x} /\ q.left = req[r].left \ {x}
    BY <2>0 DEF Request
  <2>3. req' = [req EXCEPT ![r] = q]
    BY <2>1 DEF BaseInv, RequestsInv
  <2> HIDE DEF q
  <2>4. Shape(q)
    BY <2>0, <2>2 DEF Shape
  <2>5. QED
    BY <2>0, <2>2, <2>3, <2>4, RequestMoves DEF Persisting
<1>5. ASSUME NEW r \in Requests, PersistRefused(r) PROVE RequestsInv'
  <2>0. req[r] \in Request /\ Shape(req[r]) /\ req[r].at = "insert" /\ req[r].op = "persist"
    BY <1>5, RequestShape DEF PersistRefused, At
  <2>1. PICK x \in req[r].left :
          req' = [req EXCEPT ![r].left = @ \ {x}, ![r].clean = FALSE]
    BY <1>5 DEF PersistRefused
  <2> DEFINE q == [req[r] EXCEPT !.left = req[r].left \ {x}, !.clean = FALSE]
  <2>2. q \in Request /\ q.at = "insert" /\ q.op = "persist" /\ ~q.clean
    BY <2>0 DEF Request
  <2>3. req' = [req EXCEPT ![r] = q]
    BY <2>1 DEF BaseInv, RequestsInv
  <2> HIDE DEF q
  <2>4. Shape(q)
    BY <2>2 DEF Shape
  <2>5. QED
    BY <2>0, <2>2, <2>3, <2>4, RequestMoves DEF Persisting
<1>13. ASSUME NEW r \in Requests, PersistSyncFails(r) PROVE RequestsInv'
  <2>0. req[r] \in Request /\ Shape(req[r]) /\ req[r].at = "sync" /\ req[r].op = "persist"
    BY <1>13, RequestShape DEF PersistSyncFails, At, Shape, Request
  <2>1. PICK next : req' = [req EXCEPT ![r].at = "insert", ![r].left = @ \ next,
                                       ![r].clean = FALSE]
    BY <1>13 DEF PersistSyncFails
  <2> DEFINE q == [req[r] EXCEPT !.at = "insert", !.left = req[r].left \ next, !.clean = FALSE]
  <2>2. q \in Request /\ q.at = "insert" /\ q.op = "persist" /\ ~q.clean
    BY <2>0 DEF Request
  <2>3. req' = [req EXCEPT ![r] = q]
    BY <2>1 DEF BaseInv, RequestsInv
  <2> HIDE DEF q
  <2>4. Shape(q)
    BY <2>2 DEF Shape
  <2>5. QED
    BY <2>0, <2>2, <2>3, <2>4, RequestMoves DEF Persisting
<1>6. ASSUME NEW r \in Requests, NEW x \in Questions, FixRead(r, x) PROVE RequestsInv'
  <2> DEFINE q == [NoRequest EXCEPT !.op = "fix", !.at = "insert", !.left = {x}]
  <2>1. q \in Request /\ Shape(q) /\ q.op = "fix" /\ q.at = "insert"
    BY ConstantTypes DEF NoRequest, Request, Shape, Kinds, Statuses
  <2>2. req' = [req EXCEPT ![r] = q]
    BY <1>6 DEF FixRead
  <2> HIDE DEF q
  <2>3. QED
    BY <2>1, <2>2, RequestMoves
<1>7. ASSUME NEW r \in Requests,
             SaveJobId(r) \/ Restore(r) \/ PersistEnd(r) \/ PersistEndFails(r)
               \/ FixDelete(r) \/ FixDeleteFails(r)
      PROVE  RequestsInv'
  BY <1>7, RequestEnds
     DEF SaveJobId, Restore, PersistEnd, PersistEndFails, FixDelete, FixDeleteFails
<1>8. ASSUME NEW r \in Requests, StartSave(r) \/ EnqueueFails(r) \/ PersistSync(r)
      PROVE  RequestsInv'
  <2>1. PICK at \in {"enqueue", "restore", "insert"} :
          /\ Go(r, at) /\ req[r].at # "idle"
          /\ (at \in {"enqueue", "restore"}) <=> (req[r].at \in {"save", "enqueue"})
          /\ at = "insert" => req[r].at = "sync"
    BY <1>8 DEF StartSave, EnqueueFails, PersistSync, At
  <2>2. Shape(req[r]) /\ req[r] \in Request
    BY RequestShape
  <2>3. /\ (req[r].op = "start") <=> (at \in {"enqueue", "restore"})
        /\ req[r].op \in {"start", "persist", "fix"} /\ (req[r].op = "persist" => at = "insert")
    BY <2>1, <2>2 DEF Shape, Request
  <2>4. QED
    BY <2>1, <2>3, RequestGoes
<1>9. ASSUME NEW r \in Requests, FixInsert(r) PROVE RequestsInv'
  <2>1. CASE End(r)
    BY <2>1, RequestEnds
  <2>2. CASE \E q \in req[r].left : Insert(q) /\ Go(r, "delete")
    <3>1. PICK q \in req[r].left : Insert(q) /\ Go(r, "delete")
      BY <2>2
    <3>2. req[r].op = "fix" /\ req[r].left = {q} /\ q \in Questions
      BY <1>9, <3>1, RequestShape DEF FixInsert, Shape
    <3>3. q \in Inserted'
      BY <3>1, <3>2 DEF Insert, Inserted, BaseInv, StoredInv
    <3>4. QED
      BY <3>1, <3>2, <3>3, RequestGoes
  <2>3. QED
    BY <1>9, <2>1, <2>2 DEF FixInsert
<1>10. CASE Crash
  <2>1. NoRequest \in Request /\ Shape(NoRequest) /\ NoRequest.op = "none"
    BY ConstantTypes DEF NoRequest, Request, Shape, Kinds, Statuses
  <2>2. QED
    BY <1>10, <2>1 DEF Crash, RequestsInv, Persisting
<1>11. CASE UNCHANGED req
  BY <1>11, StoredTyped DEF BaseInv, RequestsInv, Persisting
<1>12. QED
  BY <1>1, <1>2, <1>3, <1>4, <1>5, <1>6, <1>7, <1>8, <1>9, <1>10, <1>11, <1>13, Frames
     DEF RequestStep

\* Before the process is up nothing is queued, and no request runs.
LEMMA InitBase == Init => BaseInv
<1> SUFFICES ASSUME Init PROVE BaseInv
  OBVIOUS
<1> USE ConstantTypes
<1>1. StoredInv
  <2>1. upload \in Upload
    BY DEF Init, Upload, Statuses, BusyStatuses
  <2>2. failed \in SUBSET Questions /\ bank \in [Questions -> 0..2]
    BY DEF Init
  <2>3. crashes \in 0..MaxCrashes /\ errors \in 0..MaxErrors
    BY DEF Init
  <2>4. repeated \in BOOLEAN /\ overlap \in BOOLEAN
    BY Zenon DEF Init
  <2>5. QED
    BY <2>1, <2>2, <2>3, <2>4 DEF StoredInv
<1>2. RunnersInv
  <2>1. 0 \in 0..Concurrency
    OBVIOUS
  <2>2. QED
    BY <2>1 DEF Init, RunnersInv, Worker, Recovery, Down, Kinds, Statuses
<1>3. QueueInv
  <2>1. queue = << >> /\ worker.job = NoJob
    BY DEF Init, Down
  <2>2. << >> \in Seq(QueuedJob) /\ Len(<< >>) = 0
    OBVIOUS
  <2>3. QED
    BY <2>1, <2>2 DEF QueueInv
<1>4. RequestsInv
  <2>1. NoRequest \in Request /\ Shape(NoRequest) /\ NoRequest.op = "none"
    BY DEF NoRequest, Request, Shape, Kinds, Statuses
  <2>2. QED
    BY <2>1 DEF Init, RequestsInv, Persisting
<1>5. QED
  BY <1>1, <1>2, <1>3, <1>4 DEF BaseInv

\* Every step keeps the types and what is always so.
LEMMA NextBase ==
  ASSUME BaseInv, [Next]_vars
  PROVE  BaseInv'
<1>1. CASE Next
  BY <1>1, StoredTyped, QueueTypedNext, RunnersTyped, RequestsTyped DEF BaseInv
<1>2. CASE UNCHANGED vars
  BY <1>2 DEF vars, bounds, history, BaseInv, StoredInv, QueueInv, RunnersInv, RequestsInv,
     Persisting, Inserted, Jobs
<1>3. QED
  BY <1>1, <1>2

\* Every variable has its type and the worker holds the lock of the job it runs,
\* for any requests, questions, jobs and failures.
THEOREM TypeCorrect == Spec => []TypeOK
<1>1. BaseInv => TypeOK
  <2> SUFFICES ASSUME BaseInv PROVE TypeOK
    OBVIOUS
  <2>1. \A j \in Jobs : queue[j] \in QueuedJob
    BY JobNumbers
  <2>2. {repeated, overlap} \subseteq BOOLEAN
    BY DEF BaseInv, StoredInv
  <2>3. QED
    BY <2>1, <2>2 DEF TypeOK, BaseInv, StoredInv, QueueInv, RunnersInv, RequestsInv
<1>2. QED
  BY <1>1, InitBase, NextBase, PTL DEF Spec

-----------------------------------------------------------------------------
\* The questions a request q may still insert, or has to keep in the cache.
Held(q) == IF q.op = "persist" \/ q.at = "insert" THEN q.left \cup q.keep ELSE {}

\* The upload is shown as enriched or completed, or a start request that fails may
\* show it so again, and no enrichment is half saved.
MayShow ==
  /\ ~Work("replaced")
  /\ \/ upload.status \in Shown
     \/ \E r \in Requests : req[r].op = "start" /\ req[r].saw \in Shown

\* No question is missing where it may be shown, nor where it will be.
Covered ==
  /\ MayShow => Questions \subseteq Inserted \cup upload.cache \cup failed
  /\ \A r \in Requests : req[r].op = "persist" =>
       Questions \subseteq Inserted \cup req[r].keep \cup failed
  /\ Work("replaced") => /\ Questions \subseteq Inserted \cup worker.good \cup failed
                         /\ upload.status \notin Shown
                         /\ \A r \in Requests : req[r].op # "persist"

\* The persist request q still has to write the cache before it ends.
Owes(q) == q.op = "persist" /\ (q.at = "sync" \/ ~q.clean)

\* A question is inserted, or it is in one place from which it may be inserted: a
\* request, the list of failed questions, the cache. An inserted one is only in the
\* cache or in the list while the request runs that takes it out.
OnePlace ==
  /\ \A q \in Questions : bank[q] <= 1
  /\ \A r \in Requests : Held(req[r]) \cap Inserted = {}
  /\ \A r, o \in Requests : r # o => Held(req[r]) \cap Held(req[o]) = {}
  /\ \A r \in Requests : req[r].op = "persist" => Held(req[r]) \cap failed = {}
  /\ \A q \in failed \cap Inserted :
       \E r \in Requests : req[r].at = "delete" /\ q \in req[r].left
  /\ MayShow => /\ upload.cache \cap failed = {}
                /\ \A r \in Requests : req[r].op = "fix" => upload.cache \cap Held(req[r]) = {}
                /\ (\A r \in Requests : ~Owes(req[r])) => upload.cache \cap Inserted = {}
  /\ Work("replaced") => worker.good \cap failed = {}

IInv ==
  /\ BaseInv
  /\ overlap => repeated
  /\ ~overlap => Covered
  /\ ~repeated => OnePlace

\* What a request may do that hands out no question: keep what it holds, or less.
QuietRequest(p, q) ==
  /\ Held(q) \subseteq Held(p)
  /\ q.op = "persist" => p.op = "persist" /\ q.keep = p.keep
  /\ q.op = "fix" => p.op = "fix"
  /\ q.op = "start" => (p.op = "start" /\ q.saw = p.saw) \/ q.saw = upload.status
  /\ Owes(p) => Owes(q) \/ repeated' \/ upload.cache \cap Inserted = {}
  /\ p.at = "delete" => q = p \/ repeated' \/ p.left \cap failed' = {}

\* A step that hands out and inserts no question.
Quiet ==
  /\ bank' = bank /\ upload'.cache = upload.cache
  /\ failed' \subseteq failed /\ failed \ failed' \subseteq Inserted
  /\ (overlap => overlap') /\ (repeated => repeated')
  /\ upload'.status \in Shown => upload.status \in Shown \/ MayShow \/ overlap'
  /\ Work("replaced")' => Work("replaced") /\ worker'.good = worker.good
  /\ Work("replaced") => \/ Work("replaced")'
                         \/ /\ upload'.status = upload.status
                            /\ \A r \in Requests : req'[r] = NoRequest
  /\ \A r \in Requests : QuietRequest(req[r], req'[r])

\* Such a step leaves every question where it was, or inserted.
LEMMA QuietKeeps ==
  ASSUME IInv, Quiet, overlap' => repeated'
  PROVE  (~overlap' => Covered') /\ (~repeated' => OnePlace')
<1>0. Inserted' = Inserted /\ \A r : Held(req[r])' = Held(req'[r])
  BY DEF Quiet, Inserted, Held
<1>1. ASSUME ~overlap' PROVE Covered' /\ (MayShow' => MayShow)
  <2>1. Covered /\ ~overlap
    BY <1>1 DEF Quiet, IInv
  <2>2. MayShow' => MayShow
    <3>1. CASE ~Work("replaced")
      BY <1>1, <3>1 DEF Quiet, QuietRequest, MayShow
    <3>2. CASE Work("replaced")
      BY <1>1, <2>1, <3>2 DEF Quiet, MayShow, Covered, NoRequest
    <3>3. QED
      BY <3>1, <3>2
  <2>3. MayShow' => Questions \subseteq Inserted' \cup upload'.cache \cup failed'
    BY <1>0, <2>1, <2>2 DEF Covered, Quiet
  <2>4. \A r \in Requests : req'[r].op = "persist" =>
          Questions \subseteq Inserted' \cup req'[r].keep \cup failed'
    BY <1>0, <2>1 DEF Covered, Quiet, QuietRequest
  <2>5. Work("replaced")' =>
          /\ Questions \subseteq Inserted' \cup worker'.good \cup failed'
          /\ upload'.status \notin Shown
          /\ \A r \in Requests : req'[r].op # "persist"
    BY <1>0, <1>1, <2>1 DEF Covered, Quiet, QuietRequest, MayShow
  <2>6. QED
    BY <2>2, <2>3, <2>4, <2>5 DEF Covered
<1>2. ASSUME ~repeated' PROVE OnePlace'
  <2>1. OnePlace /\ (MayShow' => MayShow)
    BY <1>1, <1>2 DEF Quiet, IInv
  <2>2. \A q \in Questions : bank'[q] <= 1
    BY <2>1 DEF OnePlace, Quiet
  <2>3. \A r \in Requests : Held(req'[r]) \subseteq Held(req[r])
    BY DEF Quiet, QuietRequest
  <2>4. /\ \A r \in Requests : Held(req'[r]) \cap Inserted' = {}
        /\ \A r, o \in Requests : r # o => Held(req'[r]) \cap Held(req'[o]) = {}
    BY <1>0, <2>1, <2>3 DEF OnePlace
  <2>5. \A r \in Requests : req'[r].op = "persist" => Held(req'[r]) \cap failed' = {}
    BY <2>1, <2>3 DEF OnePlace, Quiet, QuietRequest
  <2>6. MayShow' =>
          /\ upload'.cache \cap failed' = {}
          /\ \A r \in Requests : req'[r].op = "fix" => upload'.cache \cap Held(req'[r]) = {}
    BY <2>1, <2>3 DEF OnePlace, Quiet, QuietRequest
  <2>7. ASSUME MayShow', \A r \in Requests : ~Owes(req'[r])
        PROVE  upload'.cache \cap Inserted' = {}
    <3>1. \A r \in Requests : ~Owes(req[r]) \/ upload.cache \cap Inserted = {}
      BY <1>2, <2>7 DEF Quiet, QuietRequest
    <3>2. QED
      BY <1>0, <2>1, <2>7, <3>1 DEF OnePlace, Quiet
  <2>10. ASSUME NEW q \in failed' \cap Inserted'
         PROVE  \E r \in Requests : req'[r].at = "delete" /\ q \in req'[r].left
    <3>1. q \in failed \cap Inserted
      BY <1>0, <2>10 DEF Quiet
    <3>2. PICK r \in Requests : req[r].at = "delete" /\ q \in req[r].left
      BY <2>1, <3>1 DEF OnePlace
    <3>3. req'[r] = req[r]
      BY <1>2, <2>10, <3>2 DEF Quiet, QuietRequest
    <3>4. QED
      BY <3>2, <3>3
  <2>11. \A r : Owes(req[r])' = Owes(req'[r])
    BY DEF Owes
  <2>8. Work("replaced")' => worker'.good \cap failed' = {}
    BY <2>1 DEF OnePlace, Quiet
  <2>9. QED
    BY <1>0, <2>2, <2>4, <2>5, <2>6, <2>7, <2>8, <2>10, <2>11 DEF OnePlace
<1>3. QED
  BY <1>1, <1>2

\* A step that leaves the requests alone is quiet when it does not show the upload
\* and saves no half of an enrichment.
LEMMA RunnersAreQuiet ==
  ASSUME BaseInv,
         \/ Boot \/ MoveStalled \/ GetNextJob \/ NoNextJob \/ EndOfPass \/ LoadUpload
         \/ ResolveQuestions \/ ParseDone \/ WorkFails \/ SaveFailed \/ LateRead \/ LateSave
         \/ FinishJob \/ PollFails \/ FollowUp \/ RecoverStep \/ Restart \/ GrowOld
         \/ \E j \in Jobs : LockExpires(j)
  PROVE  Quiet /\ UNCHANGED history
<1>0. upload \in Upload /\ worker \in Worker
  BY DEF BaseInv, StoredInv, RunnersInv
<1>1. UNCHANGED <<req, bank, failed>> /\ UNCHANGED history
  BY DEF Boot, MoveStalled, GetNextJob, NoNextJob, EndOfPass, LoadUpload, ResolveQuestions,
     ParseDone, WorkFails, SaveFailed, LateRead, LateSave, FinishJob, PollFails, FollowUp,
     RecoverStep, RecoverRead, RecoverClaim, Restart, GrowOld, LockExpires, history
<1>2. /\ upload'.cache = upload.cache
      /\ upload'.status \in {upload.status, "parsed", "failed"}
  BY <1>0 DEF Boot, MoveStalled, GetNextJob, NoNextJob, EndOfPass, LoadUpload, ResolveQuestions,
     ParseDone, WorkFails, SaveFailed, LateRead, LateSave, FinishJob, PollFails, FollowUp,
     RecoverStep, RecoverRead, RecoverClaim, Restart, GrowOld, LockExpires, Write, SetStatus,
     Upload
<1>3. /\ Work("replaced")' => Work("replaced")
      /\ Work("replaced") => Work("replaced")' /\ worker'.good = worker.good
  BY <1>0, ZenonT(40)
     DEF Boot, MoveStalled, GetNextJob, NoNextJob, NextTarget, EndOfPass, LoadUpload,
     ResolveQuestions, ParseDone, WorkFails, SaveFailed, LateRead, LateSave, FinishJob, PollFails,
     FollowUp, Polled, Work, GoWork, Down, RecoverStep, RecoverRead, RecoverClaim, Restart,
     GrowOld, LockExpires, Worker
<1>4. repeated' = repeated /\ overlap' = overlap
  BY <1>1 DEF history
<1>5. \A r \in Requests : QuietRequest(req[r], req'[r])
  BY <1>1 DEF QuietRequest
<1>6. QED
  BY <1>1, <1>2, <1>3, <1>4, <1>5 DEF Quiet, Shown

\* A request that moves quietly to q, with the upload's cache as it is.
LEMMA RequestIsQuiet ==
  ASSUME BaseInv, NEW r \in Requests, NEW q, req' = [req EXCEPT ![r] = q],
         QuietRequest(req[r], q), bank' = bank, upload'.cache = upload.cache,
         failed' \subseteq failed, failed \ failed' \subseteq Inserted,
         (overlap => overlap') /\ (repeated => repeated'),
         upload'.status \in Shown => upload.status \in Shown \/ MayShow \/ overlap',
         worker' = worker \/ (~Work("replaced") /\ ~Work("replaced")')
                          \/ (worker'.at = worker.at /\ worker'.good = worker.good)
  PROVE  Quiet
<1>1. req'[r] = q /\ \A o \in Requests \ {r} : req'[o] = req[o]
  BY DEF BaseInv, RequestsInv
<1>2. \A o \in Requests : QuietRequest(req[o], req'[o])
  BY <1>1 DEF QuietRequest
<1>3. QED
  BY <1>2 DEF Quiet, Work

\* A request that ends holds nothing any more.
LEMMA EndIsQuiet ==
  ASSUME BaseInv, NEW p, Owes(p) => repeated' \/ upload.cache \cap Inserted = {},
         p.at = "delete" => repeated' \/ p.left \cap failed' = {}
  PROVE  QuietRequest(p, NoRequest)
  BY DEF QuietRequest, NoRequest, Held

\* The requests that start a job hand out no question.
LEMMA StartIsQuiet ==
  ASSUME BaseInv, Next, NEW r \in Requests,
         \/ \E kind \in Kinds : StartRead(r, kind)
         \/ StartSave(r) \/ Enqueue(r) \/ EnqueueFails(r) \/ SaveJobId(r) \/ Restore(r)
  PROVE  Quiet /\ (UNCHANGED history \/ (overlap' /\ repeated'))
<1>0. /\ upload \in Upload /\ worker \in Worker /\ req[r] \in Request /\ Shape(req[r])
      /\ req \in [Requests -> Request]
  BY RequestShape DEF BaseInv, StoredInv, RunnersInv, RequestsInv
<1>1. UNCHANGED <<bank, failed>> /\ upload'.cache = upload.cache
  BY <1>0 DEF StartRead, StartSave, Enqueue, EnqueueFails, SaveJobId, Restore, Write, Upload
<1>2. ASSUME NEW kind \in Kinds, StartRead(r, kind) PROVE Quiet /\ UNCHANGED history
  <2> DEFINE q == [NoRequest EXCEPT !.op = "start", !.at = "save", !.kind = kind,
                                    !.saw = upload.status]
  <2>1. /\ req' = [req EXCEPT ![r] = q] /\ req[r].at = "idle" /\ UNCHANGED <<upload, worker>>
        /\ UNCHANGED history
    BY <1>2 DEF StartRead, At
  <2>2. q.op = "start" /\ q.at = "save" /\ q.saw = upload.status
    BY DEF NoRequest
  <2> HIDE DEF q
  <2>3. QuietRequest(req[r], q)
    BY <1>0, <2>1, <2>2 DEF QuietRequest, Held, Owes, Shape
  <2>4. repeated' = repeated /\ overlap' = overlap
    BY <2>1 DEF history
  <2>5. QED
    BY <1>1, <2>1, <2>3, <2>4, RequestIsQuiet
<1>3. CASE StartSave(r) \/ Enqueue(r) \/ EnqueueFails(r)
  <2>1. PICK at \in {"enqueue", "saveJob", "restore"} :
          \E j : \/ req' = [req EXCEPT ![r].at = at]
                \/ req' = [req EXCEPT ![r].at = at, ![r].job = j]
    BY <1>3 DEF StartSave, Enqueue, EnqueueFails, Go
  <2>0. PICK j : \/ req' = [req EXCEPT ![r].at = at]
                 \/ req' = [req EXCEPT ![r].at = at, ![r].job = j]
    BY <2>1
  <2> DEFINE q == [req[r] EXCEPT !.at = at]
             w == [req[r] EXCEPT !.at = at, !.job = j]
  <2>2. /\ q.op = req[r].op /\ q.saw = req[r].saw /\ q.at = at
        /\ w.op = req[r].op /\ w.saw = req[r].saw /\ w.at = at
    BY <1>0 DEF Request
  <2>3. req' = [req EXCEPT ![r] = q] \/ req' = [req EXCEPT ![r] = w]
    BY <1>0, <2>0
  <2> HIDE DEF q, w
  <2>4. req[r].op = "start" /\ req[r].at # "sync" /\ req[r].at # "delete"
    BY <1>0, <1>3 DEF StartSave, Enqueue, EnqueueFails, At, Shape
  <2>5. QuietRequest(req[r], q) /\ QuietRequest(req[r], w)
    BY <2>2, <2>4 DEF QuietRequest, Held, Owes
  <2>6. UNCHANGED history /\ repeated' = repeated /\ overlap' = overlap
    BY <1>3 DEF StartSave, Enqueue, EnqueueFails, history
  <2>7. upload'.status \in Shown => upload.status \in Shown
    BY <1>0, <1>3 DEF StartSave, Enqueue, EnqueueFails, Write, Upload, Shown, Busy
  <2>8. \/ worker' = worker \/ (~Work("replaced") /\ ~Work("replaced")')
        \/ (worker'.at = worker.at /\ worker'.good = worker.good)
    BY <1>0, <1>3 DEF StartSave, Enqueue, EnqueueFails, Polled, Work, Worker
  <2>9. QED
    BY <1>1, <2>3, <2>5, <2>6, <2>7, <2>8, RequestIsQuiet
<1>4. CASE SaveJobId(r) \/ Restore(r)
  <2>1. req' = [req EXCEPT ![r] = NoRequest] /\ req[r].at # "delete" /\ worker' = worker
    BY <1>4 DEF SaveJobId, Restore, End, At
  <2>2. QuietRequest(req[r], NoRequest)
    <3>1. ~Owes(req[r])
      BY <1>0, <1>4 DEF SaveJobId, Restore, At, Shape, Owes
    <3>2. QED
      BY <2>1, <3>1, EndIsQuiet
  <2>3. CASE SaveJobId(r)
    <3>1. upload'.status = upload.status /\ UNCHANGED history
      BY <1>0, <2>3 DEF SaveJobId, Write, Upload
    <3>2. repeated' = repeated /\ overlap' = overlap
      BY <3>1 DEF history
    <3>3. QED
      BY <1>1, <2>1, <2>2, <3>1, <3>2, RequestIsQuiet
  <2>4. CASE Restore(r)
    <3>1. upload'.status = req[r].saw /\ req[r].op = "start"
      BY <1>0, <2>4 DEF Restore, At, Shape, Write, Upload
    <3>2. CASE Work("replaced") /\ req[r].saw \in Shown
      <4>1. repeated' /\ overlap'
        BY <2>4, <3>2 DEF Restore
      <4>2. QED
        BY <1>1, <2>1, <2>2, <4>1, RequestIsQuiet
    <3>3. CASE ~(Work("replaced") /\ req[r].saw \in Shown)
      <4>1. UNCHANGED history /\ repeated' = repeated /\ overlap' = overlap
        BY <2>4, <3>3 DEF Restore, history
      <4>2. upload'.status \in Shown => MayShow
        BY <3>1, <3>3 DEF MayShow
      <4>3. QED
        BY <1>1, <2>1, <2>2, <4>1, <4>2, RequestIsQuiet
    <3>4. QED
      BY <3>2, <3>3
  <2>5. QED
    BY <1>4, <2>3, <2>4
<1>5. QED
  BY <1>2, <1>3, <1>4

\* A question that is refused or inserted with a failing write after it, a failed
\* question given up or taken off its list.
LEMMA GiveUpIsQuiet ==
  ASSUME BaseInv, NEW r \in Requests,
         \/ PersistRefused(r) \/ PersistSyncFails(r) \/ FixDelete(r)
         \/ (FixInsert(r) /\ End(r) /\ UNCHANGED bank)
  PROVE  Quiet /\ UNCHANGED history
<1>0. req[r] \in Request /\ Shape(req[r]) /\ req \in [Requests -> Request]
  BY RequestShape DEF BaseInv, RequestsInv
<1>1. /\ UNCHANGED <<bank, upload, worker>> /\ UNCHANGED history
      /\ repeated' = repeated /\ overlap' = overlap
  BY DEF PersistRefused, PersistSyncFails, FixDelete, FixInsert, history, At
<1>5. ASSUME NEW q, req' = [req EXCEPT ![r] = q], req[r].op = "persist", failed' = failed,
             req[r].at \in {"insert", "sync"}, q.op = "persist", q.at = "insert", ~q.clean,
             q.keep = req[r].keep, q.left \subseteq req[r].left, q.saw = req[r].saw
      PROVE  Quiet
  <2>1. QuietRequest(req[r], q)
    BY <1>5 DEF QuietRequest, Held, Owes
  <2>2. QED
    BY <1>1, <1>5, <2>1, RequestIsQuiet
<1>2. CASE PersistRefused(r)
  <2>1. PICK x : req' = [req EXCEPT ![r].left = @ \ {x}, ![r].clean = FALSE]
    BY <1>2 DEF PersistRefused
  <2>2. req[r].op = "persist" /\ req[r].at = "insert" /\ failed' = failed
    BY <1>2 DEF PersistRefused, At
  <2> DEFINE q == [req[r] EXCEPT !.left = req[r].left \ {x}, !.clean = FALSE]
  <2>3. req' = [req EXCEPT ![r] = q]
    BY <1>0, <2>1
  <2>4. /\ q.op = "persist" /\ q.at = "insert" /\ ~q.clean /\ q.keep = req[r].keep
        /\ q.left \subseteq req[r].left /\ q.saw = req[r].saw
    BY <1>0, <2>2 DEF Request
  <2> HIDE DEF q
  <2>5. QED
    BY <1>1, <1>5, <2>2, <2>3, <2>4
<1>6. CASE PersistSyncFails(r)
  <2>1. PICK next : req' = [req EXCEPT ![r].at = "insert", ![r].left = @ \ next,
                                       ![r].clean = FALSE]
    BY <1>6 DEF PersistSyncFails
  <2>2. req[r].op = "persist" /\ req[r].at = "sync" /\ failed' = failed
    BY <1>0, <1>6 DEF PersistSyncFails, At, Shape, Request
  <2> DEFINE q == [req[r] EXCEPT !.at = "insert", !.left = req[r].left \ next, !.clean = FALSE]
  <2>3. req' = [req EXCEPT ![r] = q]
    BY <1>0, <2>1
  <2>4. /\ q.op = "persist" /\ q.at = "insert" /\ ~q.clean /\ q.keep = req[r].keep
        /\ q.left \subseteq req[r].left /\ q.saw = req[r].saw
    BY <1>0, <2>2 DEF Request
  <2> HIDE DEF q
  <2>5. QED
    BY <1>1, <1>5, <2>2, <2>3, <2>4
<1>3. CASE FixDelete(r) \/ (FixInsert(r) /\ End(r))
  <2>1. req' = [req EXCEPT ![r] = NoRequest]
    BY <1>3 DEF FixDelete, End
  <2>2. ~Owes(req[r])
    BY <1>0, <1>3 DEF FixDelete, FixInsert, At, Shape, Owes
  <2>3. /\ failed' \subseteq failed /\ failed \ failed' \subseteq Inserted
        /\ req[r].at = "delete" => req[r].left \cap failed' = {}
    <3>1. CASE FixDelete(r)
      <4>1. req[r].op = "fix" /\ req[r].at = "delete"
        BY <1>0, <3>1 DEF FixDelete, At, Shape, Request
      <4>2. req[r].left \subseteq Inserted
        BY <4>1 DEF BaseInv, RequestsInv
      <4>3. QED
        BY <3>1, <4>2 DEF FixDelete
    <3>2. CASE FixInsert(r)
      BY <3>2 DEF FixInsert, At
    <3>3. QED
      BY <1>3, <3>1, <3>2
  <2>4. QED
    BY <1>1, <2>1, <2>2, <2>3, EndIsQuiet, RequestIsQuiet
<1>4. QED
  BY <1>2, <1>3, <1>6

\* A request whose last write fails hands out no question, and is noted when it
\* leaves an inserted one behind.
LEMMA FailedEndIsQuiet ==
  ASSUME BaseInv, NEW r \in Requests, PersistEndFails(r) \/ FixDeleteFails(r)
  PROVE  Quiet /\ overlap' = overlap
<1>1. /\ UNCHANGED <<upload, failed, bank, worker, overlap>>
      /\ req' = [req EXCEPT ![r] = NoRequest]
  BY DEF PersistEndFails, FixDeleteFails, End
<1>2. /\ repeated => repeated'
      /\ Unwritten(r) => repeated'
  BY Zenon DEF PersistEndFails, FixDeleteFails
<1>3. /\ Owes(req[r]) => repeated' \/ upload.cache \cap Inserted = {}
      /\ req[r].at = "delete" => repeated' \/ req[r].left \cap failed' = {}
  BY <1>2 DEF Owes, Unwritten
<1>4. QED
  BY <1>1, <1>2, <1>3, EndIsQuiet, RequestIsQuiet

\* A crash hands out no question, and is noted when it keeps one from being noted.
LEMMA CrashIsQuiet ==
  ASSUME BaseInv, Crash
  PROVE  Quiet /\ overlap' = overlap
<1>1. /\ UNCHANGED <<upload, failed, bank, overlap>> /\ worker' = Down
      /\ \A r \in Requests : req'[r] = NoRequest
      /\ repeated \/ (\E r \in Requests : Unwritten(r)) => repeated'
  BY Zenon DEF Crash
<1>2. \A r \in Requests : QuietRequest(req[r], NoRequest)
  <2>1. \A r \in Requests :
          /\ Owes(req[r]) => repeated' \/ upload.cache \cap Inserted = {}
          /\ req[r].at = "delete" => repeated'
    BY <1>1 DEF Unwritten, Owes
  <2>2. QED
    BY <2>1, EndIsQuiet
<1>3. QED
  BY <1>1, <1>2 DEF Quiet, Work, Down

-----------------------------------------------------------------------------
\* What a step that changes the places of questions has to keep.
Kept == (~overlap' => Covered') /\ (~repeated' => OnePlace')

\* The rejected questions of an enrichment replace the earlier ones while no request
\* holds a question and none is inserted, or it is noted.
LEMMA ReplaceFailedKeeps ==
  ASSUME IInv, ReplaceFailed
  PROVE  Kept /\ (overlap' => repeated')
<1>1. PICK good \in SUBSET Questions :
        failed' = Questions \ good /\ worker' = [worker EXCEPT !.at = "replaced", !.good = good]
  BY DEF ReplaceFailed
<1>2. worker'.at = "replaced" /\ worker'.good = good
  BY <1>1 DEF IInv, BaseInv, RunnersInv, Worker
<1>3. UNCHANGED <<upload, bank, req>> /\ Inserted' = Inserted
  BY DEF ReplaceFailed, Inserted
<1>4. /\ overlap' <=> (overlap \/ Overlaps)
      /\ repeated' <=> (repeated \/ Overlaps \/ Inserted # {}
                          \/ \E r \in Requests : req[r].op = "fix")
  BY Zenon DEF ReplaceFailed, Note
<1>5. ASSUME ~Overlaps
      PROVE  upload'.status = "processing" /\ \A r \in Requests : req'[r].op # "persist"
  BY <1>3, <1>5 DEF Overlaps, Persisting
<1>6. ~overlap' => Covered'
  BY <1>1, <1>2, <1>3, <1>4, <1>5 DEF Covered, MayShow, Work, Shown
<1>7. ASSUME ~repeated' PROVE OnePlace'
  <2>1. /\ ~repeated /\ ~Overlaps /\ Inserted' = {} /\ \A r \in Requests : req[r].op # "fix"
    BY <1>3, <1>4, <1>7
  <2>2. \A r \in Requests : Held(req'[r]) = Held(req[r]) /\ req'[r].op # "persist"
    BY <1>3, <1>5, <2>1
  <2>3. OnePlace
    BY <2>1 DEF IInv
  <2>4. QED
    BY <1>1, <1>2, <1>3, <2>1, <2>2, <2>3 DEF OnePlace, MayShow, Work
<1>8. QED
  BY <1>4, <1>6, <1>7 DEF Kept, IInv

\* The cache of an enrichment replaces the earlier one, with the failed questions
\* it belongs to.
LEMMA EnrichDoneKeeps ==
  ASSUME IInv, EnrichDone
  PROVE  Kept /\ (overlap' => repeated')
<1>1. /\ upload'.cache = worker.good /\ worker'.at = "finish" /\ Work("replaced")
  BY DEF EnrichDone, Write, IInv, BaseInv, StoredInv, RunnersInv, Upload, Worker
<1>2. UNCHANGED <<failed, bank, req>> /\ Inserted' = Inserted
  BY DEF EnrichDone, Inserted
<1>3. /\ overlap' <=> (overlap \/ Overlaps)
      /\ repeated' <=> (repeated \/ Overlaps \/ Inserted # {}
                          \/ \E r \in Requests : req[r].op = "fix")
  BY Zenon DEF EnrichDone, Note
<1>4. ~overlap' => Covered'
  BY <1>1, <1>2, <1>3 DEF Covered, IInv, Work
<1>5. ASSUME ~repeated' PROVE OnePlace'
  <2>1. /\ OnePlace /\ Inserted' = {} /\ \A r \in Requests : req'[r].op # "fix"
    BY <1>2, <1>3, <1>5 DEF IInv
  <2>2. \A r \in Requests : Held(req'[r]) = Held(req[r])
    BY <1>2
  <2>3. QED
    BY <1>1, <1>2, <2>1, <2>2 DEF OnePlace, Work
<1>6. QED
  BY <1>3, <1>4, <1>5 DEF Kept, IInv

\* A persist request takes what is in the cache of an upload that is shown.
LEMMA PersistReadKeeps ==
  ASSUME IInv, NEW r \in Requests, PersistRead(r)
  PROVE  Kept /\ UNCHANGED history
<1> DEFINE q == [NoRequest EXCEPT !.op = "persist", !.at = "insert",
                                  !.keep = upload.cache, !.left = upload.cache]
<1>1. /\ req' = [req EXCEPT ![r] = q] /\ UNCHANGED <<upload, failed, bank, worker>>
      /\ UNCHANGED history /\ repeated' = repeated /\ overlap' = overlap
      /\ upload.status = "enriched" /\ Persisting = {} /\ req[r].at = "idle"
  BY DEF PersistRead, At, history
<1>2. /\ q.op = "persist" /\ q.at = "insert" /\ q.keep = upload.cache /\ Held(q) = upload.cache
  BY DEF NoRequest, Held
<1> HIDE DEF q
<1>3. /\ req'[r] = q /\ \A o \in Requests \ {r} : req'[o] = req[o]
      /\ Inserted' = Inserted
  BY <1>1 DEF IInv, BaseInv, RequestsInv, Inserted
<1>4. ASSUME ~overlap' PROVE Covered' /\ MayShow
  <2>1. Covered
    BY <1>1, <1>4 DEF IInv
  <2>2. MayShow /\ ~Work("replaced")
    BY <1>1, <2>1 DEF Covered, MayShow, Shown
  <2>3. QED
    BY <1>1, <1>2, <1>3, <2>1, <2>2 DEF Covered, Work
<1>5. ASSUME ~repeated' PROVE OnePlace'
  <2>1. OnePlace /\ MayShow
    BY <1>1, <1>4, <1>5 DEF IInv
  <2>2. \A o \in Requests : req[o].op # "persist" /\ ~Owes(req[o])
    BY <1>1 DEF Persisting, Owes
  <2>3. /\ upload.cache \cap failed = {} /\ upload.cache \cap Inserted = {}
        /\ \A o \in Requests : req[o].op = "fix" => upload.cache \cap Held(req[o]) = {}
    BY <2>1, <2>2 DEF OnePlace
  <2>4. \A o \in Requests \ {r} : upload.cache \cap Held(req[o]) = {}
    <3>1. \A o \in Requests : req[o].op # "fix" => Held(req[o]) = {}
      BY <2>2, RequestShape DEF IInv, Held, Shape, Request
    <3>2. QED
      BY <2>3, <3>1
  <2>5. /\ \A o \in Requests : Held(req'[o]) \cap Inserted' = {}
        /\ \A o, p \in Requests : o # p => Held(req'[o]) \cap Held(req'[p]) = {}
    BY <1>2, <1>3, <2>1, <2>3, <2>4 DEF OnePlace
  <2>6. \A o \in Requests : req'[o].op = "persist" => Held(req'[o]) \cap failed' = {}
    BY <1>1, <1>2, <1>3, <2>1, <2>3 DEF OnePlace
  <2>7. \A o \in Requests : req'[o].op = "fix" => upload'.cache \cap Held(req'[o]) = {}
    BY <1>1, <1>2, <1>3, <2>3
  <2>8. \A x \in failed' \cap Inserted' :
          \E o \in Requests : req'[o].at = "delete" /\ x \in req'[o].left
    BY <1>1, <1>3, <2>1 DEF OnePlace
  <2>9. QED
    BY <1>1, <1>3, <2>1, <2>3, <2>5, <2>6, <2>7, <2>8 DEF OnePlace, Work
<1>6. QED
  BY <1>1, <1>4, <1>5 DEF Kept

\* An administrator takes a failed question that nobody else holds, or it is noted.
LEMMA FixReadKeeps ==
  ASSUME IInv, NEW r \in Requests, NEW x \in Questions, FixRead(r, x)
  PROVE  Kept /\ overlap' = overlap /\ (repeated => repeated')
<1> DEFINE q == [NoRequest EXCEPT !.op = "fix", !.at = "insert", !.left = {x}]
<1>1. /\ req' = [req EXCEPT ![r] = q] /\ UNCHANGED <<upload, failed, bank, worker, overlap>>
      /\ x \in failed /\ req[r].at = "idle"
  BY DEF FixRead, At
<1>2. q.op = "fix" /\ q.at = "insert" /\ Held(q) = {x}
  BY DEF NoRequest, Held
<1> HIDE DEF q
<1>3. /\ req'[r] = q /\ \A o \in Requests \ {r} : req'[o] = req[o]
      /\ Inserted' = Inserted
  BY <1>1 DEF IInv, BaseInv, RequestsInv, Inserted
<1>4. repeated' <=> (repeated \/ \E o \in Requests : req[o].op = "fix" /\ x \in req[o].left)
  BY Zenon DEF FixRead
<1>5. MayShow' => MayShow
  BY <1>1, <1>2, <1>3 DEF MayShow, Work
<1>6. ~overlap' => Covered'
  BY <1>1, <1>2, <1>3, <1>5 DEF Covered, IInv, Work
<1>7. ASSUME ~repeated' PROVE OnePlace'
  <2>0. OnePlace /\ \A o \in Requests : req[o].op = "fix" => x \notin req[o].left
    BY <1>4, <1>7 DEF IInv
  <2>1. /\ OnePlace /\ x \notin Inserted
        /\ \A o \in Requests : req[o].op = "fix" => x \notin req[o].left
    <3>1. \A o \in Requests : req[o].at = "delete" => req[o].op = "fix"
      BY RequestShape DEF IInv, Shape, Request
    <3>2. QED
      BY <1>1, <2>0, <3>1 DEF OnePlace
  <2>2. \A o \in Requests \ {r} : x \notin Held(req[o])
    <3>1. \A o \in Requests : req[o].op = "persist" => x \notin Held(req[o])
      BY <1>1, <2>1 DEF OnePlace
    <3>2. \A o \in Requests : req[o].op = "fix" => x \notin Held(req[o])
      BY <2>1, RequestShape DEF IInv, Held, Shape
    <3>3. \A o \in Requests : req[o].op \notin {"persist", "fix"} => Held(req[o]) = {}
      BY RequestShape DEF IInv, Held, Shape, Request
    <3>4. QED
      BY <3>1, <3>2, <3>3
  <2>3. /\ \A o \in Requests : Held(req'[o]) \cap Inserted' = {}
        /\ \A o, p \in Requests : o # p => Held(req'[o]) \cap Held(req'[p]) = {}
    BY <1>2, <1>3, <2>1, <2>2 DEF OnePlace
  <2>4. \A o \in Requests : req'[o].op = "persist" => Held(req'[o]) \cap failed' = {}
    BY <1>1, <1>2, <1>3, <2>1 DEF OnePlace
  <2>5. MayShow' =>
          /\ upload'.cache \cap failed' = {}
          /\ \A o \in Requests : req'[o].op = "fix" => upload'.cache \cap Held(req'[o]) = {}
    BY <1>1, <1>2, <1>3, <1>5, <2>1 DEF OnePlace
  <2>6. MayShow' /\ (\A o \in Requests : ~Owes(req'[o])) => upload'.cache \cap Inserted' = {}
    <3>1. (\A o \in Requests : ~Owes(req'[o])) => \A o \in Requests : ~Owes(req[o])
      BY <1>1, <1>3, RequestShape DEF Owes, IInv, Shape
    <3>2. QED
      BY <1>1, <1>3, <1>5, <2>1, <3>1 DEF OnePlace
  <2>7. \A y \in failed' \cap Inserted' :
          \E o \in Requests : req'[o].at = "delete" /\ y \in req'[o].left
    BY <1>1, <1>3, <2>1 DEF OnePlace
  <2>8. \A o : Owes(req[o])' = Owes(req'[o])
    BY DEF Owes
  <2>9. QED
    BY <1>1, <2>1, <2>3, <2>4, <2>5, <2>6, <2>7, <2>8 DEF OnePlace, Work
<1>8. QED
  BY <1>1, <1>4, <1>6, <1>7 DEF Kept

\* One more copy of x in the bank.
LEMMA InsertMoves ==
  ASSUME BaseInv, NEW x \in Questions, Insert(x)
  PROVE  /\ Inserted' = Inserted \cup {x}
         /\ \A q \in Questions \ {x} : bank'[q] = bank[q]
         /\ x \notin Inserted => bank'[x] <= 1
<1>1. bank \in [Questions -> 0..2] /\ bank' = [bank EXCEPT ![x] = bank[x] + 1]
  BY DEF BaseInv, StoredInv, Insert
<1>2. bank'[x] = bank[x] + 1 /\ \A q \in Questions \ {x} : bank'[q] = bank[q]
  BY <1>1
<1>3. QED
  BY <1>1, <1>2 DEF Inserted

\* The persist request inserts a question that only it holds, and has to take it
\* out of the cache next.
LEMMA PersistInsertKeeps ==
  ASSUME IInv, NEW r \in Requests, PersistInsert(r)
  PROVE  Kept /\ UNCHANGED history
<1>0. /\ req[r] \in Request /\ Shape(req[r]) /\ req[r].op = "persist" /\ req[r].at = "insert"
      /\ UNCHANGED <<upload, failed, worker>> /\ UNCHANGED history
      /\ repeated' = repeated /\ overlap' = overlap
  BY RequestShape DEF IInv, PersistInsert, At, history
<1>1. PICK x \in req[r].left :
        /\ Insert(x)
        /\ req' = [req EXCEPT ![r].at = "sync", ![r].keep = @ \ {x}, ![r].left = @ \ {x}]
  BY DEF PersistInsert
<1>2. x \in Questions /\ x \in Held(req[r])
  BY <1>0 DEF Request, Held
<1>3. /\ Inserted' = Inserted \cup {x} /\ (x \notin Inserted => bank'[x] <= 1)
      /\ \A q \in Questions \ {x} : bank'[q] = bank[q]
  BY <1>1, <1>2, InsertMoves DEF IInv
<1> DEFINE q == [req[r] EXCEPT !.at = "sync", !.keep = req[r].keep \ {x},
                               !.left = req[r].left \ {x}]
<1>4. /\ q.op = "persist" /\ q.at = "sync" /\ q.keep = req[r].keep \ {x}
      /\ Held(q) = Held(req[r]) \ {x}
  BY <1>0 DEF Request, Held
<1>5. req' = [req EXCEPT ![r] = q]
  BY <1>1 DEF IInv, BaseInv, RequestsInv
<1> HIDE DEF q
<1>6. req'[r] = q /\ \A o \in Requests \ {r} : req'[o] = req[o]
  BY <1>5 DEF IInv, BaseInv, RequestsInv
<1>7. MayShow' => MayShow
  BY <1>0, <1>4, <1>6 DEF MayShow, Work
<1>8. ASSUME ~overlap' PROVE Covered'
  <2>1. Covered
    BY <1>0, <1>8 DEF IInv
  <2>2. \A o \in Requests : req'[o].op = "persist" =>
          Questions \subseteq Inserted' \cup req'[o].keep \cup failed'
    BY <1>0, <1>3, <1>4, <1>6, <2>1 DEF Covered
  <2>3. MayShow' => Questions \subseteq Inserted' \cup upload'.cache \cup failed'
    BY <1>0, <1>3, <1>7, <2>1 DEF Covered
  <2>4. ~Work("replaced")'
    BY <1>0, <2>1 DEF Covered, Work
  <2>5. QED
    BY <2>2, <2>3, <2>4 DEF Covered
<1>9. ASSUME ~repeated' PROVE OnePlace'
  <2>1. OnePlace
    BY <1>0, <1>9 DEF IInv
  <2>2. x \notin Inserted /\ \A o \in Requests \ {r} : x \notin Held(req[o])
    BY <1>2, <2>1 DEF OnePlace
  <2>3. \A y \in Questions : bank'[y] <= 1
    BY <1>3, <2>1, <2>2 DEF OnePlace
  <2>4. /\ \A o \in Requests : Held(req'[o]) \cap Inserted' = {}
        /\ \A o, p \in Requests : o # p => Held(req'[o]) \cap Held(req'[p]) = {}
    BY <1>3, <1>4, <1>6, <2>1, <2>2 DEF OnePlace
  <2>5. \A o \in Requests : req'[o].op = "persist" => Held(req'[o]) \cap failed' = {}
    BY <1>0, <1>4, <1>6, <2>1 DEF OnePlace
  <2>6. MayShow' =>
          /\ upload'.cache \cap failed' = {}
          /\ \A o \in Requests : req'[o].op = "fix" => upload'.cache \cap Held(req'[o]) = {}
    BY <1>0, <1>4, <1>6, <1>7, <2>1 DEF OnePlace
  <2>7. /\ Owes(req[r])' /\ (Work("replaced")' => worker'.good \cap failed' = {})
    BY <1>0, <1>4, <1>6, <2>1 DEF OnePlace, Work, Owes
  <2>8. x \notin failed /\ \A y \in failed' \cap Inserted' :
          \E o \in Requests : req'[o].at = "delete" /\ y \in req'[o].left
    BY <1>0, <1>2, <1>3, <1>6, <2>1 DEF OnePlace
  <2>9. QED
    BY <2>3, <2>4, <2>5, <2>6, <2>7, <2>8 DEF OnePlace
<1>10. QED
  BY <1>0, <1>8, <1>9 DEF Kept

\* The cache is left with what the persist request still has to insert.
LEMMA PersistSyncKeeps ==
  ASSUME IInv, NEW r \in Requests, PersistSync(r)
  PROVE  Kept /\ overlap' = overlap /\ (repeated => repeated')
<1>0. /\ req[r] \in Request /\ Shape(req[r]) /\ req[r].op = "persist" /\ req[r].at = "sync"
      /\ UNCHANGED <<failed, bank, worker, overlap>> /\ Inserted' = Inserted
      /\ upload \in Upload
  BY RequestShape DEF IInv, BaseInv, StoredInv, PersistSync, At, Shape, Request, Inserted
<1>1. /\ repeated' <=> (repeated \/ upload.status # "enriched")
  BY Zenon DEF PersistSync
<1>2. /\ upload.status = "enriched" => upload'.cache = req[r].keep
      /\ upload.status # "enriched" => upload'.cache = upload.cache
      /\ upload'.status = upload.status
  BY <1>0 DEF PersistSync, SyncCache, Write, Upload
<1> DEFINE q == [req[r] EXCEPT !.at = "insert"]
<1>3. /\ q.op = "persist" /\ q.at = "insert" /\ q.keep = req[r].keep
      /\ Held(q) = Held(req[r]) /\ q.keep \subseteq Held(req[r])
  BY <1>0 DEF Request, Held
<1>4. req' = [req EXCEPT ![r] = q]
  BY DEF PersistSync, Go, IInv, BaseInv, RequestsInv
<1> HIDE DEF q
<1>5. req'[r] = q /\ \A o \in Requests \ {r} : req'[o] = req[o]
  BY <1>4 DEF IInv, BaseInv, RequestsInv
<1>6. MayShow' => MayShow
  BY <1>0, <1>2, <1>3, <1>5 DEF MayShow, Work
<1>7. ~overlap' => Covered'
  BY <1>0, <1>2, <1>3, <1>5, <1>6 DEF Covered, IInv, Work
<1>8. ASSUME ~repeated' PROVE OnePlace'
  <2>1. OnePlace /\ upload'.cache = req[r].keep
    BY <1>1, <1>2, <1>8 DEF IInv
  <2>2. \A o \in Requests : Held(req'[o]) = Held(req[o]) /\ req'[o].op = req[o].op
    BY <1>0, <1>3, <1>5
  <2>3. upload'.cache \subseteq Held(req[r])
    BY <1>3, <2>1
  <2>4. upload'.cache \cap failed = {} /\ upload'.cache \cap Inserted = {}
    BY <1>0, <2>1, <2>3 DEF OnePlace
  <2>5. \A o \in Requests : req[o].op = "fix" => upload'.cache \cap Held(req[o]) = {}
    BY <1>0, <2>1, <2>3 DEF OnePlace
  <2>6. \A y \in failed' \cap Inserted' :
          \E o \in Requests : req'[o].at = "delete" /\ y \in req'[o].left
    BY <1>0, <1>5, <2>1 DEF OnePlace
  <2>7. QED
    BY <1>0, <2>1, <2>2, <2>4, <2>5, <2>6 DEF OnePlace, Work
<1>9. QED
  BY <1>0, <1>1, <1>7, <1>8 DEF Kept

\* A persist request ends with nothing left to insert, or leaves the rest behind.
LEMMA PersistEndKeeps ==
  ASSUME IInv, NEW r \in Requests, PersistEnd(r)
  PROVE  Kept /\ overlap' = overlap /\ (repeated => repeated')
<1>0. /\ req[r] \in Request /\ Shape(req[r]) /\ req[r].op = "persist" /\ req[r].at = "insert"
      /\ UNCHANGED <<failed, bank, worker, overlap>> /\ Inserted' = Inserted
      /\ upload \in Upload
  BY RequestShape DEF IInv, BaseInv, StoredInv, PersistEnd, At, Inserted
<1>8. /\ repeated => repeated'
      /\ ~req[r].clean /\ upload.status # "enriched" /\ Unwritten(r) => repeated'
  BY Zenon DEF PersistEnd
<1>1. \/ upload'.cache = {} /\ req[r].keep = {}
      \/ upload'.cache = req[r].keep /\ upload'.status = upload.status
         /\ upload.status = "enriched"
      \/ /\ upload'.cache = upload.cache /\ upload'.status = upload.status
         /\ ~req[r].clean /\ upload.status # "enriched"
  BY <1>0 DEF PersistEnd, SyncCache, Write, Upload, Shape
<1>2. /\ req'[r] = NoRequest /\ \A o \in Requests \ {r} : req'[o] = req[o]
      /\ NoRequest.op = "none" /\ Held(NoRequest) = {} /\ NoRequest.at = "idle"
  BY DEF PersistEnd, End, IInv, BaseInv, RequestsInv, NoRequest, Held
<1>4. req[r].keep \subseteq Held(req[r])
  BY <1>0 DEF Held
<1>5. ASSUME ~overlap' PROVE Covered'
  <2>1. Covered
    BY <1>0, <1>5 DEF IInv
  <2>2. ~Work("replaced") /\ ~Work("replaced")'
    BY <1>0, <2>1 DEF Covered, Work
  <2>3. /\ Questions \subseteq Inserted \cup req[r].keep \cup failed
        /\ MayShow => Questions \subseteq Inserted \cup upload.cache \cup failed
    BY <1>0, <2>1 DEF Covered
  <2>4. MayShow' => Questions \subseteq Inserted' \cup upload'.cache \cup failed'
    <3>1. CASE upload'.cache = req[r].keep
      BY <1>0, <2>3, <3>1
    <3>2. CASE upload'.cache = upload.cache /\ upload'.status = upload.status
      <4>1. MayShow' => MayShow
        BY <1>0, <1>2, <3>2 DEF MayShow, Work
      <4>2. QED
        BY <1>0, <2>3, <3>2, <4>1
    <3>3. QED
      BY <1>1, <3>1, <3>2
  <2>5. \A o \in Requests : req'[o].op = "persist" =>
          Questions \subseteq Inserted' \cup req'[o].keep \cup failed'
    BY <1>0, <1>2, <2>1 DEF Covered
  <2>6. QED
    BY <2>2, <2>4, <2>5 DEF Covered
<1>6. ASSUME ~repeated' PROVE OnePlace'
  <2>1. OnePlace
    BY <1>6, <1>8 DEF IInv
  <2>2. /\ \A o \in Requests : Held(req'[o]) \subseteq Held(req[o])
        /\ \A o \in Requests : req'[o].op \in {"fix", "persist"} => req'[o] = req[o]
    BY <1>2
  <2>3. MayShow' =>
          /\ upload'.cache \cap failed = {} /\ upload'.cache \cap Inserted = {}
          /\ \A o \in Requests : req[o].op = "fix" => upload'.cache \cap Held(req[o]) = {}
    <3>1. CASE upload'.cache \subseteq req[r].keep
      BY <1>0, <1>4, <2>1, <3>1 DEF OnePlace
    <3>2. CASE /\ upload'.cache = upload.cache /\ upload'.status = upload.status
              /\ ~req[r].clean /\ upload.status # "enriched"
      <4>1. MayShow' => MayShow
        BY <1>0, <1>2, <3>2 DEF MayShow, Work
      <4>2. upload.cache \cap Inserted = {}
        BY <1>0, <1>6, <1>8, <3>2 DEF Unwritten
      <4>3. QED
        BY <2>1, <3>2, <4>1, <4>2 DEF OnePlace
    <3>3. QED
      BY <1>1, <3>1, <3>2
  <2>4. /\ \A o \in Requests : Held(req'[o]) \cap Inserted' = {}
        /\ \A o, p \in Requests : o # p => Held(req'[o]) \cap Held(req'[p]) = {}
    BY <1>0, <2>1, <2>2 DEF OnePlace
  <2>5. \A y \in failed' \cap Inserted' :
          \E o \in Requests : req'[o].at = "delete" /\ y \in req'[o].left
    BY <1>0, <1>2, <2>1 DEF OnePlace
  <2>6. QED
    BY <1>0, <2>1, <2>2, <2>3, <2>4, <2>5 DEF OnePlace, Work
<1>7. QED
  BY <1>0, <1>5, <1>6, <1>8 DEF Kept

\* A failed question that nobody else holds is inserted.
LEMMA FixInsertKeeps ==
  ASSUME IInv, NEW r \in Requests, NEW x \in req[r].left, Insert(x), Go(r, "delete"), FixInsert(r)
  PROVE  Kept /\ UNCHANGED history
<1>0. /\ req[r] \in Request /\ Shape(req[r]) /\ req[r].op = "fix" /\ req[r].at = "insert"
      /\ UNCHANGED <<upload, failed, worker>> /\ UNCHANGED history
      /\ repeated' = repeated /\ overlap' = overlap
  BY RequestShape DEF IInv, FixInsert, At, history
<1>1. x \in Questions /\ x \in Held(req[r])
  BY <1>0 DEF Request, Held
<1>2. /\ Inserted' = Inserted \cup {x} /\ (x \notin Inserted => bank'[x] <= 1)
      /\ \A q \in Questions \ {x} : bank'[q] = bank[q]
  BY <1>1, InsertMoves DEF IInv
<1> DEFINE q == [req[r] EXCEPT !.at = "delete"]
<1>3. q.op = "fix" /\ q.at = "delete" /\ Held(q) = {}
  BY <1>0 DEF Request, Held
<1>4. req' = [req EXCEPT ![r] = q]
  BY DEF Go, IInv, BaseInv, RequestsInv
<1> HIDE DEF q
<1>5. req'[r] = q /\ \A o \in Requests \ {r} : req'[o] = req[o]
  BY <1>4 DEF IInv, BaseInv, RequestsInv
<1>6. MayShow' => MayShow
  BY <1>0, <1>3, <1>5 DEF MayShow, Work
<1>7. ~overlap' => Covered'
  BY <1>0, <1>2, <1>3, <1>5, <1>6 DEF Covered, IInv, Work
<1>8. ASSUME ~repeated' PROVE OnePlace'
  <2>1. OnePlace
    BY <1>0, <1>8 DEF IInv
  <2>2. x \notin Inserted /\ \A o \in Requests \ {r} : x \notin Held(req[o])
    BY <1>1, <2>1 DEF OnePlace
  <2>3. \A y \in Questions : bank'[y] <= 1
    BY <1>2, <2>1, <2>2 DEF OnePlace
  <2>4. /\ \A o \in Requests : Held(req'[o]) \cap Inserted' = {}
        /\ \A o, p \in Requests : o # p => Held(req'[o]) \cap Held(req'[p]) = {}
    BY <1>2, <1>3, <1>5, <2>1, <2>2 DEF OnePlace
  <2>5. \A o \in Requests : req'[o].op = "persist" => Held(req'[o]) \cap failed' = {}
    BY <1>0, <1>3, <1>5, <2>1 DEF OnePlace
  <2>6. MayShow' =>
          /\ upload'.cache \cap failed' = {} /\ x \notin upload'.cache
          /\ \A o \in Requests : req'[o].op = "fix" => upload'.cache \cap Held(req'[o]) = {}
    BY <1>0, <1>1, <1>3, <1>5, <1>6, <2>1 DEF OnePlace
  <2>7. MayShow' /\ (\A o \in Requests : ~Owes(req'[o])) => upload'.cache \cap Inserted' = {}
    <3>1. (\A o \in Requests : ~Owes(req'[o])) => \A o \in Requests : ~Owes(req[o])
      BY <1>0, <1>5 DEF Owes
    <3>2. QED
      BY <1>0, <1>2, <1>6, <2>1, <2>6, <3>1 DEF OnePlace
  <2>8. \A y \in failed' \cap Inserted' :
          \E o \in Requests : req'[o].at = "delete" /\ y \in req'[o].left
    <3>1. q.left = req[r].left /\ req[r].at = "insert"
      BY <1>0 DEF q, Request, FixInsert, At
    <3>2. QED
      BY <1>0, <1>2, <1>3, <1>5, <2>1, <3>1 DEF OnePlace
  <2>9. \A o : Owes(req[o])' = Owes(req'[o])
    BY DEF Owes
  <2>10. QED
    BY <1>0, <2>1, <2>3, <2>4, <2>5, <2>6, <2>7, <2>8, <2>9 DEF OnePlace, Work
<1>9. QED
  BY <1>0, <1>7, <1>8 DEF Kept

\* Every step leaves each question in one place, and none without one.
LEMMA NextKeeps ==
  ASSUME IInv, [Next]_vars
  PROVE  Kept /\ (overlap' => repeated')
<1>0. BaseInv /\ (overlap => repeated)
  BY DEF IInv
<1>1. ASSUME Quiet, UNCHANGED history \/ (overlap' /\ repeated')
      PROVE  Kept /\ (overlap' => repeated')
  <2>0. UNCHANGED history => overlap' = overlap /\ repeated' = repeated
    BY DEF history
  <2>1. overlap' => repeated'
    BY <1>0, <1>1, <2>0, Zenon
  <2>2. QED
    BY <1>1, <2>1, QuietKeeps DEF Kept
<1>2. CASE ReplaceFailed \/ EnrichDone
  BY <1>2, ReplaceFailedKeeps, EnrichDoneKeeps
<1>3. CASE WorkerStep /\ ~ReplaceFailed /\ ~EnrichDone
  BY <1>0, <1>1, <1>3, RunnersAreQuiet DEF WorkerStep
<1>4. CASE PollFails \/ FollowUp \/ RecoverStep \/ Restart \/ GrowOld
           \/ \E j \in Jobs : LockExpires(j)
  BY <1>0, <1>1, <1>4, RunnersAreQuiet
<1>5. CASE Crash
  <2>1. Quiet /\ overlap' = overlap /\ (repeated => repeated')
    BY <1>0, <1>5, CrashIsQuiet DEF Quiet
  <2>2. QED
    BY <1>0, <2>1, QuietKeeps DEF Kept
<1>6. ASSUME NEW r \in Requests, Next,
             \/ \E kind \in Kinds : StartRead(r, kind)
             \/ StartSave(r) \/ Enqueue(r) \/ EnqueueFails(r) \/ SaveJobId(r) \/ Restore(r)
      PROVE  Kept /\ (overlap' => repeated')
  BY <1>0, <1>1, <1>6, StartIsQuiet
<1>10. ASSUME NEW r \in Requests, PersistEndFails(r) \/ FixDeleteFails(r)
       PROVE  Kept /\ (overlap' => repeated')
  <2>1. Quiet /\ overlap' = overlap /\ (repeated => repeated')
    BY <1>0, <1>10, FailedEndIsQuiet DEF Quiet
  <2>2. QED
    BY <1>0, <2>1, QuietKeeps DEF Kept
<1>7. ASSUME NEW r \in Requests,
             PersistRefused(r) \/ PersistSyncFails(r) \/ FixDelete(r) \/ FixInsert(r)
      PROVE  Kept /\ (overlap' => repeated')
  <2>1. CASE \/ PersistRefused(r) \/ PersistSyncFails(r) \/ FixDelete(r)
             \/ (FixInsert(r) /\ End(r) /\ UNCHANGED bank)
    BY <1>0, <1>1, <2>1, GiveUpIsQuiet
  <2>2. ASSUME NEW x \in req[r].left, FixInsert(r), Insert(x), Go(r, "delete")
        PROVE  Kept /\ (overlap' => repeated')
    BY <1>0, <2>2, FixInsertKeeps DEF history
  <2>3. QED
    BY <1>7, <2>1, <2>2 DEF FixInsert
<1>8. ASSUME NEW r \in Requests,
             \/ PersistRead(r) \/ PersistInsert(r) \/ PersistSync(r) \/ PersistEnd(r)
             \/ \E x \in Questions : FixRead(r, x)
      PROVE  Kept /\ (overlap' => repeated')
  BY <1>0, <1>8, PersistReadKeeps, PersistInsertKeeps, PersistSyncKeeps, PersistEndKeeps,
     FixReadKeeps DEF history
<1>9. CASE UNCHANGED vars
  BY <1>9 DEF vars, history, bounds, IInv, Kept, Covered, OnePlace, MayShow, Work, Inserted, Held,
     Owes
<1>11. QED
  BY <1>2, <1>3, <1>4, <1>5, <1>6, <1>7, <1>8, <1>9, <1>10 DEF Next, RequestStep

\* Before anything is imported no question has a place.
LEMMA InitInv == Init => IInv
<1> SUFFICES ASSUME Init PROVE IInv
  OBVIOUS
<1>1. /\ ~overlap /\ ~repeated /\ upload.status = "uploaded" /\ worker.at = "boot"
      /\ \A r \in Requests : req[r].op = "none" /\ req[r].at = "idle"
      /\ Inserted = {} /\ \A q \in Questions : bank[q] = 0
  BY DEF Init, NoRequest, Inserted, Down
<1>2. ~MayShow /\ ~Work("replaced") /\ \A r \in Requests : Held(req[r]) = {}
  BY <1>1 DEF MayShow, Work, Shown, Held
<1>3. QED
  BY <1>1, <1>2, InitBase DEF IInv, Covered, OnePlace

\* The invariant holds in every state.
THEOREM Invariant == Spec => []IInv
<1>1. IInv /\ [Next]_vars => IInv'
  BY NextBase, NextKeeps DEF IInv, Kept
<1>2. QED
  BY <1>1, InitInv, PTL DEF Spec

\* No question is inserted twice, for any requests, questions, jobs, crashes and
\* failed calls, unless it was handed out again (see InsertedOnce).
THEOREM NoQuestionTwice == Spec => []InsertedOnce
<1>1. IInv => InsertedOnce
  BY DEF IInv, OnePlace, InsertedOnce
<1>2. QED
  BY <1>1, Invariant, PTL

\* No question of a shown upload is without a place, for any requests, questions,
\* jobs, crashes and failed calls, unless an enrichment overlapped.
THEOREM EveryQuestionHasAPlace == Spec => []NoQuestionLost
<1>1. IInv => NoQuestionLost
  <2> SUFFICES ASSUME IInv, upload.status \in Shown, ~overlap
               PROVE  Questions \subseteq Inserted \cup upload.cache \cup failed
    BY DEF NoQuestionLost
  <2>1. Covered
    BY DEF IInv
  <2>2. MayShow
    BY <2>1 DEF Covered, MayShow
  <2>3. QED
    BY <2>1, <2>2 DEF Covered
<1>2. QED
  BY <1>1, Invariant, PTL
====
