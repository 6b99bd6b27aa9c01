--------------------------- MODULE ImportPipeline ---------------------------
(***************************************************************************)
(* The import of one uploaded question paper: the upload document, the      *)
(* BullMQ queues of parse and enrich jobs, the poller of the one API process *)
(* that runs them, the recovery of stale uploads, and the admin requests     *)
(* that start a job, persist the enriched questions one by one or import a    *)
(* failed question.                                                           *)
(*                                                                            *)
(* A request, the poller and the recovery take one database or Redis call     *)
(* per step. The upload has no version key: a save writes the paths the       *)
(* request changed in the document it read, whatever has happened since. A    *)
(* call that fails has changed nothing; the database calls that may fail are   *)
(* those that follow an insert.                                               *)
(***************************************************************************)
EXTENDS Integers, Sequences

CONSTANTS
  Requests,     \* admin requests that can run at the same time
  Questions,    \* questions of the paper
  MaxJobs,      \* bound on the jobs put into the queues
  MaxCrashes,   \* bound on crashes of the process
  MaxErrors,    \* bound on Redis and database calls that fail
  Concurrency   \* jobs one poll takes from a queue

ASSUME BoundsAreNat == {MaxJobs, MaxCrashes, MaxErrors} \subseteq Nat
ASSUME TakesAJob == Concurrency \in Nat \ {0}

VARIABLES
  upload,    \* the question_uploads document
  failed,    \* failed_questions of the upload
  bank,      \* how often each question was inserted into the question bank
  queue,     \* the jobs in Redis, in the order they were added
  worker,    \* ImportQueueWorker and the job it runs
  recovery,  \* ImportQueueRecovery
  req,       \* what each admin request is doing
  crashes,   \* crashes so far
  errors,    \* failed Redis and database calls so far
  repeated,  \* an inserted question was left where it is handed out again
  overlap    \* an enrichment was saved over a persist request or another status

bounds == <<crashes, errors>>
history == <<repeated, overlap>>
vars == <<upload, failed, bank, queue, worker, recovery, req, bounds, history>>

Kinds == {"parse", "enrich"}
Busy(kind) == IF kind = "parse" THEN "parsing" ELSE "processing"
BusyStatuses == {"parsing", "processing"}
Statuses == BusyStatuses \cup {"uploaded", "parsed", "enriched", "completed", "failed"}
NoJob == 0
Jobs == DOMAIN queue

Upload == [status: Statuses, markdown: BOOLEAN, cache: SUBSET Questions,
           jobId: 0..MaxJobs, old: BOOLEAN]
QueuedJob == [kind: Kinds, state: {"waiting", "active", "done"}, locked: BOOLEAN,
              marked: BOOLEAN]
Worker == [at: {"down", "boot", "idle", "stalled", "fetch", "load", "resolve", "work",
                "replaced", "saveFail", "lateRead", "lateSave", "finish", "passed"},
           kind: Kinds, taken: 0..Concurrency, job: 0..MaxJobs, saw: Statuses,
           good: SUBSET Questions, found: BOOLEAN, worked: BOOLEAN, again: BOOLEAN,
           followUp: BOOLEAN]
Recovery == [at: {"first", "idle", "claim"}, saw: Statuses]
Request == [op: {"none", "start", "persist", "fix"},
            at: {"idle", "save", "enqueue", "saveJob", "restore", "insert", "sync",
                 "delete"},
            kind: Kinds, saw: Statuses, job: 0..MaxJobs, keep: SUBSET Questions,
            left: SUBSET Questions, clean: BOOLEAN]

Down == [at |-> "down", kind |-> "parse", taken |-> 0, job |-> NoJob, saw |-> "uploaded",
         good |-> {}, found |-> FALSE, worked |-> FALSE, again |-> FALSE, followUp |-> FALSE]
NoRequest == [op |-> "none", at |-> "idle", kind |-> "parse", saw |-> "uploaded",
              job |-> NoJob, keep |-> {}, left |-> {}, clean |-> TRUE]

Init ==
  /\ upload = [status |-> "uploaded", markdown |-> FALSE, cache |-> {}, jobId |-> NoJob,
               old |-> FALSE]
  /\ failed = {}
  /\ bank = [q \in Questions |-> 0]
  /\ queue = <<>>
  /\ worker = [Down EXCEPT !.at = "boot"]
  /\ recovery = [at |-> "first", saw |-> "uploaded"]
  /\ req = [r \in Requests |-> NoRequest]
  /\ crashes = 0
  /\ errors = 0
  /\ repeated = FALSE
  /\ overlap = FALSE

Running == worker.at # "down"
At(r, at) == Running /\ req[r].at = at
Go(r, at) == req' = [req EXCEPT ![r].at = at]
End(r) == req' = [req EXCEPT ![r] = NoRequest]
Work(at) == worker.at = at
GoWork(at) == worker' = [worker EXCEPT !.at = at]
Fail == errors < MaxErrors /\ errors' = errors + 1

\* upload.save() and updateOne: the changed paths and updatedAt.
Write(new) == upload' = [new EXCEPT !.old = FALSE]
\* A path that is set to what the document was read with is not changed.
SetStatus(saw, new) == IF saw = new THEN upload.status ELSE new

\* poll(): one pass at a time, a call during a pass asks for another one.
Polled(w) ==
  IF w.at = "idle"
  THEN [w EXCEPT !.at = "stalled", !.kind = "parse", !.worked = FALSE, !.again = FALSE]
  ELSE [w EXCEPT !.again = TRUE]
-----------------------------------------------------------------------------
\* startParsePdfUpload and startEnrichUpload.
StartRead(r, kind) ==
  /\ At(r, "idle")
  /\ upload.status # Busy(kind)
  /\ IF kind = "parse" THEN upload.status # "parsed" ELSE upload.markdown
  /\ Len(queue) < MaxJobs
  /\ req' = [req EXCEPT ![r] = [NoRequest EXCEPT !.op = "start", !.at = "save",
                                !.kind = kind, !.saw = upload.status]]
  /\ UNCHANGED <<upload, failed, bank, queue, worker, recovery, bounds, history>>

StartSave(r) ==
  /\ At(r, "save")
  /\ Write([upload EXCEPT !.status = Busy(req[r].kind)])
  /\ Go(r, "enqueue")
  /\ UNCHANGED <<failed, bank, queue, worker, recovery, bounds, history>>

AddJob(kind) ==
  /\ Len(queue) < MaxJobs
  /\ queue' = Append(queue, [kind |-> kind, state |-> "waiting", locked |-> FALSE,
                             marked |-> FALSE])

\* Queue.add, and ensureStarted in the background.
Enqueue(r) ==
  /\ At(r, "enqueue")
  /\ AddJob(req[r].kind)
  /\ req' = [req EXCEPT ![r].at = "saveJob", ![r].job = Len(queue')]
  /\ worker' = Polled(worker)
  /\ UNCHANGED <<upload, failed, bank, recovery, bounds, history>>

\* Redis fails, with the job stored or not. The listener is not called.
EnqueueFails(r) ==
  /\ At(r, "enqueue")
  /\ Fail
  /\ AddJob(req[r].kind) \/ UNCHANGED queue
  /\ Go(r, "restore")
  /\ UNCHANGED <<upload, failed, bank, worker, recovery, crashes, history>>

SaveJobId(r) ==
  /\ At(r, "saveJob")
  /\ Write([upload EXCEPT !.jobId = req[r].job])
  /\ End(r)
  /\ UNCHANGED <<failed, bank, queue, worker, recovery, bounds, history>>

\* The statuses of an upload whose questions can be persisted, or have been.
Shown == {"enriched", "completed"}

\* restoreUploadJobSnapshot. Another job may have saved half of an enrichment.
Restore(r) ==
  /\ At(r, "restore")
  /\ Write([upload EXCEPT !.status = req[r].saw])
  /\ End(r)
  /\ IF Work("replaced") /\ req[r].saw \in Shown
     THEN repeated' = TRUE /\ overlap' = TRUE
     ELSE UNCHANGED history
  /\ UNCHANGED <<failed, bank, queue, worker, recovery, bounds>>
-----------------------------------------------------------------------------
\* onModuleInit: the first poll follows the first recovery pass.
Boot ==
  /\ Work("boot")
  /\ recovery.at = "idle"
  /\ worker' = Polled([worker EXCEPT !.at = "idle"])
  /\ UNCHANGED <<upload, failed, bank, queue, recovery, req, bounds, history>>

\* moveStalledJobsToWait of one queue: the active jobs that an earlier call marked
\* and whose lock is gone wait again, the other active ones are marked.
Active == {j \in Jobs : queue[j].state = "active" /\ queue[j].kind = worker.kind}
Stalled == {j \in Active : queue[j].marked /\ ~queue[j].locked}

CheckStalled ==
  queue' = [j \in Jobs |-> CASE j \in Stalled -> [queue[j] EXCEPT !.state = "waiting",
                                                                !.marked = FALSE]
                              [] j \in Active \ Stalled -> [queue[j] EXCEPT !.marked = TRUE]
                              [] OTHER -> queue[j]]

\* pollQueue. A call soon after another one does nothing.
MoveStalled ==
  /\ Work("stalled")
  /\ \E skipped \in BOOLEAN :
       /\ IF skipped THEN UNCHANGED queue ELSE CheckStalled
       /\ worker' = [worker EXCEPT !.at = "fetch", !.taken = 0,
                                   !.found = ~skipped /\ Stalled # {}]
  /\ UNCHANGED <<upload, failed, bank, recovery, req, bounds, history>>

\* The next queue of targets(), or the end of the pass.
NextTarget(found) ==
  worker' = [worker EXCEPT !.at = IF worker.kind = "parse" THEN "stalled" ELSE "passed",
                           !.kind = "enrich", !.found = FALSE,
                           !.worked = worker.worked \/ found]

Waiting == {j \in Jobs : queue[j].state = "waiting" /\ queue[j].kind = worker.kind}

GetNextJob ==
  /\ Work("fetch")
  /\ worker.taken < Concurrency
  /\ \E j \in Waiting :
       /\ \A k \in Waiting : j <= k
       /\ queue' = [queue EXCEPT ![j].state = "active", ![j].locked = TRUE]
       /\ worker' = [worker EXCEPT !.at = "load", !.job = j, !.taken = worker.taken + 1,
                                   !.found = TRUE]
  /\ UNCHANGED <<upload, failed, bank, recovery, req, bounds, history>>

NoNextJob ==
  /\ Work("fetch")
  /\ Waiting = {} \/ worker.taken = Concurrency
  /\ NextTarget(worker.found)
  /\ UNCHANGED <<upload, failed, bank, queue, recovery, req, bounds, history>>

\* Redis fails under either call: the queue is skipped, and what was found in it
\* does not count for the follow-up.
PollFails ==
  /\ worker.at \in {"stalled", "fetch"}
  /\ Fail
  /\ NextTarget(FALSE)
  /\ UNCHANGED <<upload, failed, bank, queue, recovery, req, crashes, history>>

\* One follow-up after a pass that found work, and another pass if one was
\* asked for.
EndOfPass ==
  LET w == [Down EXCEPT !.at = "idle", !.followUp = worker.followUp \/ worker.worked] IN
  /\ Work("passed")
  /\ worker' = IF worker.again THEN Polled(w) ELSE w
  /\ UNCHANGED <<upload, failed, bank, queue, recovery, req, bounds, history>>

FollowUp ==
  /\ worker.at \notin {"down", "boot"}
  /\ worker.followUp
  /\ worker' = Polled([worker EXCEPT !.followUp = FALSE])
  /\ UNCHANGED <<upload, failed, bank, queue, recovery, req, bounds, history>>

\* Mutant: finishJob does not renew the lock.
LockExpires_Unrenewed(j) ==
  /\ queue[j].state = "active" /\ queue[j].locked
  /\ queue' = [queue EXCEPT ![j].locked = FALSE]
  /\ UNCHANGED <<upload, failed, bank, worker, recovery, req, bounds, history>>

\* A lock runs out unless finishJob renews it.
LockExpires(j) ==
  /\ queue[j].state = "active" /\ queue[j].locked
  /\ worker.job # j
  /\ queue' = [queue EXCEPT ![j].locked = FALSE]
  /\ UNCHANGED <<upload, failed, bank, worker, recovery, req, bounds, history>>
-----------------------------------------------------------------------------
\* executeParseQuestionPdf and executeEnrichUpload. Enrichment reads the upload
\* again after the questions have been matched.
LoadUpload ==
  /\ Work("load")
  /\ worker' = [worker EXCEPT !.saw = upload.status,
                              !.at = IF worker.kind = "parse" THEN "work" ELSE "resolve"]
  /\ UNCHANGED <<upload, failed, bank, queue, recovery, req, bounds, history>>

ResolveQuestions ==
  /\ Work("resolve")
  /\ \/ worker' = [worker EXCEPT !.at = "work", !.saw = upload.status]
     \/ GoWork("saveFail")
  /\ UNCHANGED <<upload, failed, bank, queue, recovery, req, bounds, history>>

ParseDone ==
  /\ Work("work") /\ worker.kind = "parse"
  /\ Write([upload EXCEPT !.status = SetStatus(worker.saw, "parsed"), !.markdown = TRUE])
  /\ GoWork("finish")
  /\ UNCHANGED <<failed, bank, queue, recovery, req, bounds, history>>

WorkFails ==
  /\ Work("work")
  /\ GoWork("saveFail")
  /\ UNCHANGED <<upload, failed, bank, queue, recovery, req, bounds, history>>

Inserted == {q \in Questions : bank[q] > 0}
Persisting == {r \in Requests : req[r].op = "persist"}
\* The enrichment is written while the upload is not waiting for one.
Overlaps == Persisting # {} \/ upload.status # "processing"

Note ==
  /\ repeated' = (repeated \/ Overlaps \/ Inserted # {}
                           \/ \E r \in Requests : req[r].op = "fix")
  /\ overlap' = (overlap \/ Overlaps)

\* The rejected questions replace those of an earlier enrichment first.
ReplaceFailed ==
  /\ Work("work") /\ worker.kind = "enrich"
  /\ \E good \in SUBSET Questions \ {{}} :
       /\ failed' = Questions \ good
       /\ worker' = [worker EXCEPT !.at = "replaced", !.good = good]
  /\ Note
  /\ UNCHANGED <<upload, bank, queue, recovery, req, bounds>>

EnrichDone ==
  /\ Work("replaced")
  /\ Write([upload EXCEPT !.status = SetStatus(worker.saw, "enriched"),
                          !.cache = worker.good])
  /\ Note
  /\ worker' = [worker EXCEPT !.at = "finish", !.good = {}]
  /\ UNCHANGED <<failed, bank, queue, recovery, req, bounds>>

SaveFailed ==
  /\ Work("saveFail")
  /\ Write([upload EXCEPT !.status = SetStatus(worker.saw, "failed")])
  /\ GoWork("lateRead")
  /\ UNCHANGED <<failed, bank, queue, recovery, req, bounds, history>>

\* The catch of run...InBackground: an upload that is busy by now fails too.
LateRead ==
  /\ Work("lateRead")
  /\ GoWork(IF upload.status = Busy(worker.kind) THEN "lateSave" ELSE "finish")
  /\ UNCHANGED <<upload, failed, bank, queue, recovery, req, bounds, history>>

LateSave ==
  /\ Work("lateSave")
  /\ Write([upload EXCEPT !.status = "failed"])
  /\ GoWork("finish")
  /\ UNCHANGED <<failed, bank, queue, recovery, req, bounds, history>>

\* moveToCompleted, which leaves the job active when Redis fails.
FinishJob ==
  /\ Work("finish")
  /\ \/ /\ queue' = [queue EXCEPT ![worker.job].state = "done",
                                  ![worker.job].locked = FALSE]
        /\ UNCHANGED errors
     \/ Fail /\ UNCHANGED queue
  /\ worker' = [worker EXCEPT !.at = "fetch", !.job = NoJob, !.saw = "uploaded"]
  /\ UNCHANGED <<upload, failed, bank, recovery, req, crashes, history>>
-----------------------------------------------------------------------------
\* recoverStaleUploads, at the start of the process and on a timer.
\* Mutant: a finished job that Redis still remembers counts as live.
JobIsLive_Remembered(j) == j \in Jobs
JobIsLive(j) == j \in Jobs /\ queue[j].state # "done"

Abandoned == upload.status \in BusyStatuses /\ upload.old /\ ~JobIsLive(upload.jobId)

RecoverRead ==
  /\ Running
  /\ \/ /\ recovery.at \in {"first", "idle"} /\ Abandoned
        /\ recovery' = [at |-> "claim", saw |-> upload.status]
     \/ /\ recovery.at = "first" /\ ~Abandoned
        /\ recovery' = [recovery EXCEPT !.at = "idle"]
  /\ UNCHANGED <<upload, failed, bank, queue, worker, req, bounds, history>>

RecoverClaim ==
  /\ Running /\ recovery.at = "claim"
  /\ IF upload.status = recovery.saw
     THEN Write([upload EXCEPT !.status = "failed", !.jobId = NoJob])
     ELSE UNCHANGED upload
  /\ recovery' = [at |-> "idle", saw |-> "uploaded"]
  /\ UNCHANGED <<failed, bank, queue, worker, req, bounds, history>>
-----------------------------------------------------------------------------
\* persistQuestions: one at a time, in the order of the cache.
PersistRead(r) ==
  /\ At(r, "idle")
  /\ Persisting = {}
  /\ upload.status = "enriched" /\ upload.cache # {}
  /\ req' = [req EXCEPT ![r] = [NoRequest EXCEPT !.op = "persist", !.at = "insert",
                                !.keep = upload.cache, !.left = upload.cache]]
  /\ UNCHANGED <<upload, failed, bank, queue, worker, recovery, bounds, history>>

Insert(q) ==
  /\ bank[q] < 2
  /\ bank' = [bank EXCEPT ![q] = @ + 1]

PersistInsert(r) ==
  /\ At(r, "insert") /\ req[r].op = "persist"
  /\ \E q \in req[r].left :
       /\ Insert(q)
       /\ req' = [req EXCEPT ![r].at = "sync", ![r].keep = @ \ {q}, ![r].left = @ \ {q}]
  /\ UNCHANGED <<upload, failed, queue, worker, recovery, bounds, history>>

\* Images, validation or the insert fail: the question stays in the cache.
PersistRefused(r) ==
  /\ At(r, "insert") /\ req[r].op = "persist"
  /\ \E q \in req[r].left :
       req' = [req EXCEPT ![r].left = @ \ {q}, ![r].clean = FALSE]
  /\ UNCHANGED <<upload, failed, bank, queue, worker, recovery, bounds, history>>

\* What request r inserted is still in the cache or in the list of failed questions.
Unwritten(r) ==
  \/ req[r].op = "persist" /\ upload.cache \cap Inserted # {}
  \/ req[r].at = "delete"

\* syncEnrichedQuestionsCache only writes an upload that is enriched.
SyncCache(keep) ==
  IF upload.status = "enriched" THEN Write([upload EXCEPT !.cache = keep])
                                ELSE UNCHANGED upload

PersistSync(r) ==
  /\ At(r, "sync")
  /\ SyncCache(req[r].keep)
  /\ repeated' = (repeated \/ upload.status # "enriched")
  /\ Go(r, "insert")
  /\ UNCHANGED <<failed, bank, queue, worker, recovery, bounds, overlap>>

\* The write fails after the insert: an error like a refusal, and the step past it
\* in the shortened list passes over the next question.
PersistSyncFails(r) ==
  /\ At(r, "sync")
  /\ Fail
  /\ \E next \in IF req[r].left = {} THEN {{}} ELSE {{q} : q \in req[r].left} :
       req' = [req EXCEPT ![r].at = "insert", ![r].left = @ \ next, ![r].clean = FALSE]
  /\ UNCHANGED <<upload, failed, bank, queue, worker, recovery, crashes, history>>

\* Mutant: the upload is completed although some questions were refused.
PersistEnd_IgnoresErrors(r) ==
  /\ At(r, "insert") /\ req[r].op = "persist"
  /\ req[r].left = {}
  /\ Write([upload EXCEPT !.status = "completed", !.cache = {}])
  /\ End(r)
  /\ UNCHANGED <<failed, bank, queue, worker, recovery, bounds, history>>

\* Mutant: no sync after the loop, as every insert has had its own.
PersistEnd_NoLastSync(r) ==
  /\ At(r, "insert") /\ req[r].op = "persist"
  /\ req[r].left = {}
  /\ IF req[r].clean THEN Write([upload EXCEPT !.status = "completed", !.cache = {}])
                     ELSE UNCHANGED upload
  /\ End(r)
  /\ UNCHANGED <<failed, bank, queue, worker, recovery, bounds, history>>

\* finalizeCompletedUpload has no condition on the status; the sync after an error
\* has one, and heals a sync that failed before.
PersistEnd(r) ==
  /\ At(r, "insert") /\ req[r].op = "persist"
  /\ req[r].left = {}
  /\ IF req[r].clean THEN Write([upload EXCEPT !.status = "completed", !.cache = {}])
                     ELSE SyncCache(req[r].keep)
  /\ repeated' = (repeated \/ (~req[r].clean /\ upload.status # "enriched" /\ Unwritten(r)))
  /\ End(r)
  /\ UNCHANGED <<failed, bank, queue, worker, recovery, bounds, overlap>>

PersistEndFails(r) ==
  /\ At(r, "insert") /\ req[r].op = "persist"
  /\ req[r].left = {}
  /\ Fail
  /\ repeated' = (repeated \/ Unwritten(r))
  /\ End(r)
  /\ UNCHANGED <<upload, failed, bank, queue, worker, recovery, crashes, overlap>>

\* importFailedQuestion.
FixRead(r, q) ==
  /\ At(r, "idle")
  /\ q \in failed
  /\ req' = [req EXCEPT ![r] = [NoRequest EXCEPT !.op = "fix", !.at = "insert",
                                !.left = {q}]]
  /\ repeated' = (repeated \/ \E o \in Requests : req[o].op = "fix" /\ q \in req[o].left)
  /\ UNCHANGED <<upload, failed, bank, queue, worker, recovery, bounds, overlap>>

FixInsert(r) ==
  /\ At(r, "insert") /\ req[r].op = "fix"
  /\ \/ \E q \in req[r].left : Insert(q) /\ Go(r, "delete")
     \/ End(r) /\ UNCHANGED bank
  /\ UNCHANGED <<upload, failed, queue, worker, recovery, bounds, history>>

FixDelete(r) ==
  /\ At(r, "delete")
  /\ failed' = failed \ req[r].left
  /\ End(r)
  /\ UNCHANGED <<upload, bank, queue, worker, recovery, bounds, history>>

FixDeleteFails(r) ==
  /\ At(r, "delete")
  /\ Fail
  /\ repeated' = TRUE
  /\ End(r)
  /\ UNCHANGED <<upload, failed, bank, queue, worker, recovery, crashes, overlap>>
-----------------------------------------------------------------------------
\* The process dies: what is only in memory is gone.
Crash ==
  /\ Running
  /\ crashes < MaxCrashes
  /\ crashes' = crashes + 1
  /\ worker' = Down
  /\ recovery' = [at |-> "idle", saw |-> "uploaded"]
  /\ req' = [r \in Requests |-> NoRequest]
  /\ repeated' = (repeated \/ \E r \in Requests : Unwritten(r))
  /\ UNCHANGED <<upload, failed, bank, queue, errors, overlap>>

Restart ==
  /\ Work("down")
  /\ worker' = [Down EXCEPT !.at = "boot"]
  /\ recovery' = [recovery EXCEPT !.at = "first"]
  /\ UNCHANGED <<upload, failed, bank, queue, req, bounds, history>>

\* updatedAt becomes older than staleJobMs.
GrowOld ==
  /\ upload.status \in BusyStatuses /\ ~upload.old
  /\ upload' = [upload EXCEPT !.old = TRUE]
  /\ UNCHANGED <<failed, bank, queue, worker, recovery, req, bounds, history>>

WorkerStep ==
  \/ Boot \/ MoveStalled \/ GetNextJob \/ NoNextJob \/ EndOfPass
  \/ LoadUpload \/ ResolveQuestions \/ ParseDone \/ WorkFails \/ ReplaceFailed
  \/ EnrichDone \/ SaveFailed \/ LateRead \/ LateSave \/ FinishJob

RequestStep(r) ==
  \/ StartSave(r) \/ Enqueue(r) \/ EnqueueFails(r) \/ SaveJobId(r) \/ Restore(r)
  \/ PersistInsert(r) \/ PersistRefused(r) \/ PersistSync(r) \/ PersistSyncFails(r)
  \/ PersistEnd(r) \/ PersistEndFails(r) \/ FixInsert(r) \/ FixDelete(r) \/ FixDeleteFails(r)

RecoverStep == RecoverRead \/ RecoverClaim

Next ==
  \/ WorkerStep \/ PollFails \/ FollowUp \/ RecoverStep
  \/ \E j \in Jobs : LockExpires(j)
  \/ \E r \in Requests : \/ RequestStep(r) \/ PersistRead(r)
                         \/ \E kind \in Kinds : StartRead(r, kind)
                         \/ \E q \in Questions : FixRead(r, q)
  \/ Crash \/ Restart \/ GrowOld

Spec == Init /\ [][Next]_vars

\* The process runs and is restarted, its timers fire, time passes.
Fairness ==
  /\ WF_vars(WorkerStep) /\ WF_vars(FollowUp) /\ WF_vars(Restart)
  /\ WF_vars(RecoverStep) /\ WF_vars(GrowOld)
  /\ \A r \in Requests : WF_vars(RequestStep(r))
  /\ \A j \in 1..MaxJobs : WF_vars(j \in Jobs /\ LockExpires(j))

FairSpec == Spec /\ Fairness
-----------------------------------------------------------------------------
\* Every variable has its type. The worker holds the lock of the job it runs, and
\* no two persist requests run at a time.
TypeOK ==
  /\ upload \in Upload
  /\ failed \in SUBSET Questions
  /\ bank \in [Questions -> 0..2]
  /\ Len(queue) \in 0..MaxJobs
  /\ \A j \in Jobs : queue[j] \in QueuedJob
  /\ worker \in Worker
  /\ recovery \in Recovery
  /\ req \in [Requests -> Request]
  /\ crashes \in 0..MaxCrashes
  /\ errors \in 0..MaxErrors
  /\ {repeated, overlap} \subseteq BOOLEAN
  /\ worker.job # NoJob => /\ queue[worker.job].state = "active"
                           /\ queue[worker.job].locked

\* A question lands in the question bank at most once, over crashes, failed writes,
\* retries and partly refused persists (executePersistQuestions) - unless a request
\* ended, by a crash of the process or a failed last write, while a question it
\* had inserted was still in the cache or in the list of failed questions, the
\* upload was enriched again or left the enriched status, an enrich request that
\* could not be queued put the enriched status back over a half-saved enrichment,
\* or two requests import one failed question. A write that fails before the last
\* one is no excuse: the last one heals it.
InsertedOnce == repeated \/ \A q \in Questions : bank[q] <= 1

\* Once an upload is enriched or completed, each question of the paper is in the
\* bank, in the cache to persist or in the list of failed questions, unless an
\* enrichment was saved over a running persist or over an upload not waiting for
\* it, or its status was put back between the two writes of an enrichment.
NoQuestionLost ==
  upload.status \in Shown /\ ~overlap =>
    Questions \subseteq Inserted \cup upload.cache \cup failed

\* An upload that is busy is failed by the recovery or finished by the worker in
\* the end, unless a job that counts as live is left in Redis with no poll to come:
\* one left active by a process that died or by a finish that failed, or one left
\* waiting by a poll or an add that failed.
LeftBehind(j) == queue[j].state = "active" \/ (queue[j].state = "waiting" /\ errors > 0)

Stranded ==
  /\ worker.at = "idle" /\ ~worker.followUp
  /\ \E j \in Jobs : LeftBehind(j)

BusySettles ==
  (upload.status \in BusyStatuses) ~> (upload.status \notin BusyStatuses \/ Stranded)
=============================================================================
