---------------------------- MODULE TaskPipeline ----------------------------
(***************************************************************************)
(* The life of an uploaded document with the production drivers: the       *)
(* upload handler of the web application, the BullMQ queue, the worker     *)
(* that ingests the document, user deletion and retention cleanup, all     *)
(* working on a Postgres database and an R2 bucket.                        *)
(*                                                                         *)
(* Each remote call (one object-store request, one database transaction,   *)
(* one queue command) is a step.  A call may throw; when CommitLost holds  *)
(* it may also throw after its effect took place: its reply was lost, or   *)
(* one of the reads updateTaskRecordState makes after its UPDATE failed.   *)
(*                                                                         *)
(* A task id is a fresh UUID per upload request, so an upload handler is   *)
(* identified with its task.                                               *)
(***************************************************************************)
EXTENDS Naturals, FiniteSets

CONSTANTS
  Task,              \* task ids, one per upload request
  Slot,              \* worker slots: processes times the concurrency of each
  Request,           \* DELETE /api/tasks/[taskId] requests
  Cleaner,           \* the retention cleanup entry
  NoTask, NoSlot,    \* null values
  Attempts,          \* attempts of a job (3 in the code)
  MaxStalled,        \* redeliveries of a stalled job (BullMQ's default: 1)
  CommitLost,        \* whether a call may throw after taking effect
  QueueFaults,       \* whether the commands that settle a job may throw
  LockFaults,        \* whether a slot may fail to renew its lock in time
  MaxFaults,         \* bound: calls that throw
  MaxCrashes         \* bound: process crashes

ASSUME PipelineAssumption ==
  /\ NoTask \notin Task
  /\ NoSlot \notin Slot
  /\ Cleaner \notin Request
  /\ Attempts \in Nat \ {0}
  /\ MaxStalled \in Nat
  /\ {CommitLost, QueueFaults, LockFaults} \subseteq BOOLEAN
  /\ {MaxFaults, MaxCrashes} \subseteq Nat

VARIABLES
  upload,      \* program counter of each upload handler
  objects,     \* tasks whose original document is in the bucket
  record,      \* the processing_tasks row of each task
  results,     \* the result tables holding rows of each task
  job,         \* the BullMQ job of each task
  holder,      \* the slot holding the job's lock
  slot,        \* each worker slot: where processTaskJob is
  cutShort,    \* history: tasks whose last run ended before its catch block did
  deletion,    \* each run of deleteTaskData
  todo,        \* the expired tasks the current cleanup pass has listed
  expired,     \* tasks older than the retention period
  confirmed,   \* history: tasks some deleteTaskData reported deleted
  forgotten,   \* history: tasks whose row was deleted
  unlocked,    \* history: tasks whose lock a slot lost and kept running
  faults, crashes  \* spent parts of the bounds

dataVars  == <<objects, record, results>>
queueVars == <<job, holder>>
slotVars  == <<slot, cutShort>>
eraseVars == <<deletion, todo, confirmed, forgotten>>
faultVars == <<faults, crashes, unlocked>>
vars == <<upload, dataVars, queueVars, slotVars, eraseVars, expired, faultVars>>

-----------------------------------------------------------------------------
(* Types *)

Tables == {"risk_findings", "document_segments", "rewrite_options"}

TaskRecord ==
  [status  : {"queued", "processing", "failed", "completed"},
   stage   : {"upload", "parse", "scan"},
   failure : {"none", "queue_unavailable", "unexpected_worker_error"}]

NoRecord == [status |-> "absent", stage |-> "upload", failure |-> "none"]

UploadState ==
  {"idle", "create", "undo", "enqueue", "markFailed",
   "accepted", "rejected", "crashed"}

InFlight == {"create", "undo", "enqueue", "markFailed"}

\* Only whether the stalls exceed MaxStalled matters: they are counted up to
\* the first that does.
Job ==
  [state    : {"none", "waiting", "active", "delayed", "completed", "failed"},
   attempts : 0..Attempts,
   stalls   : 0..(MaxStalled + 1)]

RunPc   == {"parse", "scan", "risks", "segments", "rewrites", "complete", "ack"}
CatchPc == {"dropRisks", "dropSegments", "dropRewrites", "fail", "nack"}

SlotState ==
  [pc : {"idle", "refuse"} \cup RunPc \cup CatchPc, task : Task \cup {NoTask},
   stage : {"upload", "parse", "scan"}]

IdleSlot == [pc |-> "idle", task |-> NoTask, stage |-> "upload"]

Eraser == Request \cup {Cleaner}

Deletion ==
  [pc   : {"idle", "object", "record", "commit", "ok", "failed", "crashed"},
   task : Task \cup {NoTask}]

IdleDeletion == [pc |-> "idle", task |-> NoTask]

TypeOK ==
  /\ upload \in [Task -> UploadState]
  /\ objects \subseteq Task
  /\ record \in [Task -> TaskRecord \cup {NoRecord}]
  /\ results \in [Task -> SUBSET Tables]
  /\ job \in [Task -> Job]
  /\ holder \in [Task -> Slot \cup {NoSlot}]
  /\ slot \in [Slot -> SlotState]
  /\ deletion \in [Eraser -> Deletion]
  /\ todo \subseteq Task
  /\ expired \subseteq Task
  /\ confirmed \subseteq Task
  /\ forgotten \subseteq Task
  /\ faults \in 0..MaxFaults
  /\ crashes \in 0..MaxCrashes
  /\ unlocked \subseteq Task
  /\ cutShort \subseteq Task

Init ==
  /\ upload = [t \in Task |-> "idle"]
  /\ objects = {}
  /\ record = [t \in Task |-> NoRecord]
  /\ results = [t \in Task |-> {}]
  /\ job = [t \in Task |-> [state |-> "none", attempts |-> 0, stalls |-> 0]]
  /\ holder = [t \in Task |-> NoSlot]
  /\ slot = [w \in Slot |-> IdleSlot]
  /\ deletion = [d \in Eraser |-> IdleDeletion]
  /\ todo = {}
  /\ expired = {}
  /\ confirmed = {}
  /\ forgotten = {}
  /\ faults = 0
  /\ crashes = 0
  /\ unlocked = {}
  /\ cutShort = {}

-----------------------------------------------------------------------------
(* Calls, rows and program counters *)

Exists(t) == record[t] # NoRecord

\* A call returns: its effect takes place and no fault is spent.
Returns(effect) == effect /\ UNCHANGED faults

\* A call throws: without effect, or after it when the reply can be lost.
Throws(effect, noEffect) ==
  /\ faults < MaxFaults
  /\ faults' = faults + 1
  /\ noEffect \/ (CommitLost /\ effect)

QueuedRecord == [status |-> "queued", stage |-> "upload", failure |-> "none"]

\* Mutant of UpdateRecord: an upsert, which writes the row back.
UpsertRecord(t, status, stage, failure) ==
  record' = [record EXCEPT ![t] = [status  |-> status,
                                   stage   |-> stage,
                                   failure |-> failure]]

\* updateTaskRecordState: one UPDATE ... RETURNING; without the row, nothing.
UpdateRecord(t, status, stage, failure) ==
  record' = IF Exists(t)
            THEN [record EXCEPT ![t] = [status  |-> status,
                                        stage   |-> stage,
                                        failure |-> failure]]
            ELSE record

StepUpload(t, pc) == upload' = [upload EXCEPT ![t] = pc]

StepSlot(w, pc) == slot' = [slot EXCEPT ![w].pc = pc]

-----------------------------------------------------------------------------
(* acceptUploadSubmission, from the moment the upload has passed           *)
(* validation and the rate limiter                                         *)

PutObject(t) == objects' = objects \cup {t}

UploadStore(t) ==
  /\ upload[t] = "idle"
  /\ \/ Returns(PutObject(t)) /\ StepUpload(t, "create")
     \/ Throws(PutObject(t), UNCHANGED objects) /\ StepUpload(t, "rejected")
  /\ UNCHANGED <<record, results, queueVars, slotVars, eraseVars, expired,
                 crashes, unlocked>>

InsertRecord(t) == record' = [record EXCEPT ![t] = QueuedRecord]

UploadCreate(t) ==
  /\ upload[t] = "create"
  /\ \/ Returns(InsertRecord(t)) /\ StepUpload(t, "enqueue")
     \/ Throws(InsertRecord(t), UNCHANGED record) /\ StepUpload(t, "undo")
  /\ UNCHANGED <<objects, results, queueVars, slotVars, eraseVars, expired,
                 crashes, unlocked>>

DropObject(t) == objects' = objects \ {t}

\* Best effort: the intake is rejected whether or not the object went away.
UploadUndo(t) ==
  /\ upload[t] = "undo"
  /\ \/ Returns(DropObject(t))
     \/ Throws(DropObject(t), UNCHANGED objects)
  /\ StepUpload(t, "rejected")
  /\ UNCHANGED <<record, results, queueVars, slotVars, eraseVars, expired,
                 crashes, unlocked>>

AddJob(t) == job' = [job EXCEPT ![t].state = "waiting"]

UploadEnqueue(t) ==
  /\ upload[t] = "enqueue"
  /\ \/ Returns(AddJob(t)) /\ StepUpload(t, "accepted")
     \/ Throws(AddJob(t), UNCHANGED job) /\ StepUpload(t, "markFailed")
  /\ UNCHANGED <<dataVars, holder, slotVars, eraseVars, expired,
                 crashes, unlocked>>

\* Mutant of UploadMarkFailed: the refusal is swallowed.
UploadAcceptAnyway(t) ==
  /\ upload[t] = "markFailed"
  /\ StepUpload(t, "accepted")
  /\ UNCHANGED <<dataVars, queueVars, slotVars, eraseVars, expired, faultVars>>

\* The queue refused the job: the task is accepted as failed, or the upload
\* is rejected when that cannot be written either.
UploadMarkFailed(t) ==
  LET update == UpdateRecord(t, "failed", "upload", "queue_unavailable")
  IN /\ upload[t] = "markFailed"
     /\ \/ /\ Returns(update)
           /\ StepUpload(t, IF Exists(t) THEN "accepted" ELSE "rejected")
        \/ /\ Throws(update, UNCHANGED record)
           /\ StepUpload(t, "rejected")
     /\ UNCHANGED <<objects, results, queueVars, slotVars, eraseVars, expired,
                    crashes, unlocked>>

UploadCrash(t) ==
  /\ upload[t] \in InFlight
  /\ crashes < MaxCrashes
  /\ crashes' = crashes + 1
  /\ StepUpload(t, "crashed")
  /\ UNCHANGED <<dataVars, queueVars, slotVars, eraseVars, expired, faults,
                 unlocked>>

-----------------------------------------------------------------------------
(* BullMQ: delivery with a lock per active job, redelivery of stalled      *)
(* jobs, retry with backoff                                                *)

Doomed(t) == job[t].stalls > MaxStalled

\* A job that stalled too often is delivered too, but not processed.
Deliver(w, t) ==
  /\ slot[w].pc = "idle"
  /\ job[t].state = "waiting"
  /\ job' = [job EXCEPT ![t].state = "active"]
  /\ holder' = [holder EXCEPT ![t] = w]
  /\ slot' = [slot EXCEPT ![w] = [pc    |-> IF Doomed(t) THEN "refuse" ELSE "parse",
                                  task  |-> t,
                                  stage |-> "upload"]]
  /\ UNCHANGED <<upload, dataVars, cutShort, eraseVars, expired, faultVars>>

\* The backoff delay of a failed attempt is over.
Promote(t) ==
  /\ job[t].state = "delayed"
  /\ job' = [job EXCEPT ![t].state = "waiting"]
  /\ UNCHANGED <<upload, dataVars, holder, slotVars, eraseVars, expired, faultVars>>

\* The stalled-job check finds an active job nobody holds.
Stall(t) ==
  /\ job[t].state = "active"
  /\ holder[t] = NoSlot
  /\ job' = [job EXCEPT
       ![t].state  = "waiting",
       ![t].stalls = IF Doomed(t) THEN job[t].stalls ELSE job[t].stalls + 1]
  /\ UNCHANGED <<upload, dataVars, holder, slotVars, eraseVars, expired, faultVars>>

\* A slot fails to renew its lock in time and keeps running.
LoseLock(w) ==
  LET t == slot[w].task
  IN /\ LockFaults
     /\ slot[w].pc # "idle"
     /\ holder[t] = w
     /\ holder' = [holder EXCEPT ![t] = NoSlot]
     /\ unlocked' = unlocked \cup {t}
     /\ UNCHANGED <<upload, dataVars, job, slotVars, eraseVars, expired, faults,
                    crashes>>

SlotCrash(w) ==
  LET t == slot[w].task
  IN /\ slot[w].pc # "idle"
     /\ crashes < MaxCrashes
     /\ crashes' = crashes + 1
     /\ slot' = [slot EXCEPT ![w] = IdleSlot]
     /\ cutShort' = cutShort \cup {t}
     /\ holder' = IF holder[t] = w
                  THEN [holder EXCEPT ![t] = NoSlot] ELSE holder
     /\ UNCHANGED <<upload, dataVars, job, eraseVars, expired, faults, unlocked>>

-----------------------------------------------------------------------------
(* processTaskJob *)

slotFrame == <<upload, queueVars, eraseVars, expired, crashes, unlocked>>

\* The stage write of one step of stagePlan: a missing row throws as a
\* database error does.
Advance(w, stage, next) ==
  LET t == slot[w].task
      update == UpdateRecord(t, "processing", stage, "none")
  IN /\ slot[w].pc = stage
     /\ \/ /\ Returns(update)
           /\ slot' = [slot EXCEPT
                         ![w].pc = IF Exists(t) THEN next ELSE "dropRisks",
                         ![w].stage = stage]
        \/ /\ Throws(update, UNCHANGED record)
           /\ slot' = [slot EXCEPT ![w].pc = "dropRisks", ![w].stage = stage]
     /\ cutShort' = cutShort \ {t}
     /\ UNCHANGED <<objects, results, slotFrame>>

InsertRows(t, table) == results' = [results EXCEPT ![t] = @ \cup {table}]

\* Delete-and-insert in one transaction; the foreign key on task_id makes
\* the insert throw when the task's row is gone.
Publish(w, pc, table, next) ==
  LET t == slot[w].task
  IN /\ slot[w].pc = pc
     /\ \/ /\ Exists(t)
           /\ Returns(InsertRows(t, table))
           /\ StepSlot(w, next)
        \/ /\ ~Exists(t)
           /\ Returns(UNCHANGED results)
           /\ StepSlot(w, "dropRisks")
        \/ /\ Throws(Exists(t) /\ InsertRows(t, table), UNCHANGED results)
           /\ StepSlot(w, "dropRisks")
     /\ UNCHANGED <<objects, record, cutShort, slotFrame>>

\* The last write: its null result (no row) is not looked at.
Complete(w) ==
  LET update == UpdateRecord(slot[w].task, "completed", "scan", "none")
  IN /\ slot[w].pc = "complete"
     /\ \/ Returns(update) /\ StepSlot(w, "ack")
        \/ Throws(update, UNCHANGED record) /\ StepSlot(w, "dropRisks")
     /\ UNCHANGED <<objects, results, cutShort, slotFrame>>

\* Mutant of DeleteRows: the catch block forgets to delete.
KeepRows(t, table) == UNCHANGED results

DeleteRows(t, table) == results' = [results EXCEPT ![t] = @ \ {table}]

CutShort(t) == cutShort' = cutShort \cup {t}

\* The catch block: an error in it ends it.
Withdraw(w, pc, table, next) ==
  LET t == slot[w].task
  IN /\ slot[w].pc = pc
     /\ \/ /\ Returns(DeleteRows(t, table))
           /\ StepSlot(w, next)
           /\ UNCHANGED cutShort
        \/ /\ Throws(DeleteRows(t, table), UNCHANGED results)
           /\ StepSlot(w, "nack")
           /\ CutShort(t)
     /\ UNCHANGED <<objects, record, slotFrame>>

\* Mutant of Fail: the error is not thrown again.
FailQuietly(w) ==
  LET update == UpdateRecord(slot[w].task, "failed", slot[w].stage,
                             "unexpected_worker_error")
  IN /\ slot[w].pc = "fail"
     /\ \/ Returns(update) /\ StepSlot(w, "ack") /\ UNCHANGED cutShort
        \/ /\ Throws(update, UNCHANGED record)
           /\ StepSlot(w, "nack")
           /\ CutShort(slot[w].task)
     /\ UNCHANGED <<objects, results, slotFrame>>

\* The error is thrown again whether or not the row could be written.
Fail(w) ==
  LET update == UpdateRecord(slot[w].task, "failed", slot[w].stage,
                             "unexpected_worker_error")
  IN /\ slot[w].pc = "fail"
     /\ \/ Returns(update) /\ UNCHANGED cutShort
        \/ Throws(update, UNCHANGED record) /\ CutShort(slot[w].task)
     /\ StepSlot(w, "nack")
     /\ UNCHANGED <<objects, results, slotFrame>>

\* The queue settles a job only for the slot that holds its lock.
SettleJob(w, settled) ==
  LET t == slot[w].task
  IN /\ holder[t] = w
     /\ holder' = [holder EXCEPT ![t] = NoSlot]
     /\ job' = [job EXCEPT ![t] = settled]

NoLock(w) == holder[slot[w].task] # w

settleFrame ==
  <<upload, dataVars, cutShort, eraseVars, expired, crashes, unlocked>>

\* When the job cannot be moved to completed, BullMQ tries to fail it.
Ack(w) ==
  LET settle == SettleJob(w, [job[slot[w].task] EXCEPT !.state = "completed"])
  IN /\ slot[w].pc = "ack"
     /\ \/ Returns(settle) /\ slot' = [slot EXCEPT ![w] = IdleSlot]
        \/ Returns(NoLock(w) /\ UNCHANGED queueVars) /\ StepSlot(w, "nack")
        \/ /\ QueueFaults
           /\ Throws(settle, UNCHANGED queueVars)
           /\ StepSlot(w, "nack")
     /\ UNCHANGED settleFrame

\* A lock that is no longer renewed expires.
Abandon(w) ==
  LET t == slot[w].task
  IN /\ holder' = IF holder[t] = w THEN [holder EXCEPT ![t] = NoSlot] ELSE holder
     /\ UNCHANGED job

\* moveToFailed; an error in it is only emitted.
MoveToFailed(w, pc, state) ==
  LET t == slot[w].task
      settle == SettleJob(w, [job[t] EXCEPT !.attempts = job[t].attempts + 1,
                                            !.state    = state])
  IN /\ slot[w].pc = pc
     /\ \/ Returns(settle)
        \/ Returns(NoLock(w) /\ UNCHANGED queueVars)
        \/ QueueFaults /\ Throws(settle, Abandon(w))
     /\ slot' = [slot EXCEPT ![w] = IdleSlot]
     /\ UNCHANGED settleFrame

\* Mutant of Retried: one attempt too many.
RetriedOnceMore(j) == j.attempts + 1 <= Attempts

Retried(j) == j.attempts + 1 < Attempts

Nack(w) ==
  MoveToFailed(w, "nack",
               IF Retried(job[slot[w].task]) THEN "delayed" ELSE "failed")

\* A doomed job fails without the worker, and the task, hearing of it.
Refuse(w) == MoveToFailed(w, "refuse", "failed")

Process(w) ==
  \/ Advance(w, "parse", "scan")
  \/ Advance(w, "scan", "risks")
  \/ Publish(w, "risks", "risk_findings", "segments")
  \/ Publish(w, "segments", "document_segments", "rewrites")
  \/ Publish(w, "rewrites", "rewrite_options", "complete")
  \/ Complete(w)
  \/ Ack(w)
  \/ Withdraw(w, "dropRisks", "risk_findings", "dropSegments")
  \/ Withdraw(w, "dropSegments", "document_segments", "dropRewrites")
  \/ Withdraw(w, "dropRewrites", "rewrite_options", "fail")
  \/ Fail(w)
  \/ Nack(w)
  \/ Refuse(w)

-----------------------------------------------------------------------------
(* deleteTaskData, called by the DELETE handler and by the retention       *)
(* cleanup                                                                 *)

Expire(t) ==
  /\ Exists(t)
  /\ upload[t] \notin InFlight
  /\ t \notin expired
  /\ expired' = expired \cup {t}
  /\ UNCHANGED <<upload, dataVars, queueVars, slotVars, eraseVars, faultVars>>

\* deleteAuthorizedTask lets an unexpired task with a row through.
DeleteStart(d, t) ==
  /\ d \in Request
  /\ deletion[d].pc = "idle"
  /\ upload[t] = "accepted"
  /\ Exists(t)
  /\ t \notin expired
  /\ deletion' = [deletion EXCEPT ![d] = [pc |-> "object", task |-> t]]
  /\ UNCHANGED <<upload, dataVars, queueVars, slotVars, todo, confirmed,
                 forgotten, expired, faultVars>>

\* Mutant of Listed: the cutoff is not applied.
ListedAll == {t \in Task : Exists(t)}

\* Mutant of Listed: only tasks that still have their document.
ListedWithObject == {t \in expired : Exists(t) /\ t \in objects}

Listed == {t \in expired : Exists(t)}

CleanupList ==
  /\ deletion[Cleaner].pc = "idle"
  /\ todo = {}
  /\ Listed # {}
  /\ todo' = Listed
  /\ UNCHANGED <<upload, dataVars, queueVars, slotVars, deletion, confirmed,
                 forgotten, expired, faultVars>>

CleanupNext(t) ==
  /\ deletion[Cleaner].pc = "idle"
  /\ t \in todo
  /\ todo' = todo \ {t}
  /\ deletion' = [deletion EXCEPT ![Cleaner] = [pc |-> "object", task |-> t]]
  /\ UNCHANGED <<upload, dataVars, queueVars, slotVars, confirmed, forgotten,
                 expired, faultVars>>

\* A request answers once; the cleanup goes on with its next task.
Answer(d, verdict) ==
  deletion' = IF d = Cleaner
              THEN [deletion EXCEPT ![d] = IdleDeletion]
              ELSE [deletion EXCEPT ![d].pc = verdict]

\* Mutant of DeleteObject: an object-store error is ignored.
DeleteObjectAnyway(d) ==
  /\ deletion[d].pc = "object"
  /\ \/ Returns(DropObject(deletion[d].task))
     \/ Throws(DropObject(deletion[d].task), UNCHANGED objects)
  /\ deletion' = [deletion EXCEPT ![d].pc = "record"]
  /\ UNCHANGED <<record, results, confirmed, forgotten, upload, queueVars,
                 slotVars, todo, expired, crashes, unlocked>>

eraseFrame ==
  <<upload, queueVars, slotVars, todo, expired, crashes, unlocked>>

DeleteObject(d) ==
  LET t == deletion[d].task
  IN /\ deletion[d].pc = "object"
     /\ \/ /\ Returns(DropObject(t))
           /\ deletion' = [deletion EXCEPT ![d].pc = "record"]
        \/ /\ Throws(DropObject(t), UNCHANGED objects)
           /\ Answer(d, "failed")
     /\ UNCHANGED <<record, results, confirmed, forgotten, eraseFrame>>

\* The transaction's first read of the row decides whether it deletes.
DeleteLookup(d) ==
  /\ deletion[d].pc = "record"
  /\ \/ /\ Returns(Exists(deletion[d].task))
        /\ deletion' = [deletion EXCEPT ![d].pc = "commit"]
     \/ /\ Returns(~Exists(deletion[d].task))
        /\ Answer(d, "failed")
     \/ /\ Throws(FALSE, TRUE)
        /\ Answer(d, "failed")
  /\ UNCHANGED <<dataVars, confirmed, forgotten, eraseFrame>>

\* Deleting the row takes the rows of the result tables along (ON DELETE
\* CASCADE); it deletes nothing, and still reports success, when another
\* transaction deleted the row since it was read.
EraseRow(t) ==
  /\ record' = [record EXCEPT ![t] = NoRecord]
  /\ results' = [results EXCEPT ![t] = {}]
  /\ forgotten' = forgotten \cup {t}

DeleteCommit(d) ==
  LET t == deletion[d].task
  IN /\ deletion[d].pc = "commit"
     /\ \/ /\ Returns(EraseRow(t))
           /\ confirmed' = confirmed \cup {t}
           /\ Answer(d, "ok")
        \/ /\ Throws(EraseRow(t), UNCHANGED <<record, results, forgotten>>)
           /\ UNCHANGED confirmed
           /\ Answer(d, "failed")
     /\ UNCHANGED <<objects, eraseFrame>>

DeleteCrash(d) ==
  /\ deletion[d].pc \in {"object", "record", "commit"}
  /\ crashes < MaxCrashes
  /\ crashes' = crashes + 1
  /\ Answer(d, "crashed")
  /\ todo' = IF d = Cleaner THEN {} ELSE todo
  /\ UNCHANGED <<upload, dataVars, queueVars, slotVars, confirmed, forgotten,
                 expired, faults, unlocked>>

-----------------------------------------------------------------------------
(* Specification *)

UploadStep(t) ==
  \/ UploadStore(t) \/ UploadCreate(t) \/ UploadUndo(t)
  \/ UploadEnqueue(t) \/ UploadMarkFailed(t)

EraseStep(d) == DeleteObject(d) \/ DeleteLookup(d) \/ DeleteCommit(d)

Next ==
  \/ \E t \in Task : \/ UploadStep(t) \/ UploadCrash(t)
                     \/ Promote(t) \/ Stall(t) \/ Expire(t) \/ CleanupNext(t)
  \/ \E w \in Slot : Process(w) \/ LoseLock(w) \/ SlotCrash(w)
  \/ \E w \in Slot, t \in Task : Deliver(w, t)
  \/ \E d \in Eraser : EraseStep(d) \/ DeleteCrash(d)
  \/ \E d \in Request, t \in Task : DeleteStart(d, t)
  \/ CleanupList

Spec == Init /\ [][Next]_vars

\* A handler that runs goes on until it returns, throws or its process dies;
\* BullMQ delivers waiting jobs, promotes delayed ones and runs its stalled
\* check every 30 s; a cleanup that was called goes through its list.  Users,
\* crashes, lost locks, the calendar and whoever calls the cleanup owe nothing.
Fairness ==
  /\ \A t \in Task : /\ WF_vars(UploadStep(t) /\ upload[t] # "idle")
                     /\ WF_vars(Promote(t))
                     /\ WF_vars(Stall(t))
                     /\ WF_vars(CleanupNext(t))
                     /\ SF_vars(\E w \in Slot : Deliver(w, t))
  /\ \A w \in Slot : WF_vars(Process(w))
  /\ \A d \in Eraser : WF_vars(EraseStep(d))

FairSpec == Spec /\ Fairness

-----------------------------------------------------------------------------
(* Properties *)

\* Once a task's row has been deleted, or its deletion has been reported
\* ("the document and its processing data have been deleted"), nothing of
\* the task remains in the database or the bucket and nothing comes back,
\* whatever a worker still running on it, a retried job, a concurrent
\* deletion or the cleanup does afterwards.
Erased(t) == ~Exists(t) /\ t \notin objects /\ results[t] = {}

ErasureIsFinal == \A t \in forgotten \cup confirmed : Erased(t)

\* An accepted upload keeps its row and its document as long as no user
\* asked for their deletion and the retention period has not passed: neither
\* the handlers' own cleanup nor a failed ingestion takes them away.
AcceptedIsKept ==
  \A t \in Task :
    (/\ upload[t] = "accepted"
     /\ t \notin expired
     /\ \A d \in Request : deletion[d].task # t) => Exists(t) /\ t \in objects

\* The catch block of the task's last run is still at work, or never came to
\* its end: one of its calls threw, or its process died.
Unfinished(t) ==
  \/ t \in cutShort
  \/ \E w \in Slot : slot[w].task = t /\ slot[w].pc \in CatchPc \ {"nack"}

\* The upload handler was told that the queue refused a job the queue has.
RefusedInVain(t) ==
  record[t].failure = "queue_unavailable" /\ job[t].state # "none"

Done(t) == record[t].status = "completed" /\ results[t] = Tables

\* The status and the result tables agree: completed with all three filled,
\* failed or queued with all three empty, whichever writes threw, with or
\* without effect, and however often the job was retried or redelivered.  Only
\* a catch block that has not come to its end leaves completed over emptied
\* tables, only an upload handler that lost the queue's answer writes failed
\* over filled ones; and no second slot was let at the task by a lost lock.
StatusMatchesResults ==
  \A t \in Task \ unlocked :
    /\ record[t].status = "completed" /\ ~Unfinished(t) => Done(t)
    /\ record[t].status \in {"failed", "queued"} /\ ~RefusedInVain(t)
         => results[t] = {}

\* A job the queue holds for completed is done for good: its task is completed
\* with all three tables filled until it is deleted, and no failed, retried or
\* redelivered run of it is acknowledged or takes it back.  The upload handler
\* that lost the queue's answer may, and so may a slot that lost its lock.
AcknowledgedIsDone ==
  \A t \in Task \ unlocked :
    job[t].state = "completed" /\ Exists(t) /\ ~RefusedInVain(t) => Done(t)

\* Every accepted upload is eventually completed, failed or deleted, unless
\* the last run of its job was cut short: then the queue gives the job up and
\* nobody tells the task.  Nor is anything promised to a task on which slots
\* overlapped.
Resolved(t) == record[t].status \in {"completed", "failed"} \/ ~Exists(t)

GivenUp(t) == job[t].state = "failed" /\ t \in cutShort

AcceptedResolves ==
  \A t \in Task :
    upload[t] = "accepted" ~> Resolved(t) \/ GivenUp(t) \/ t \in unlocked

\* Nothing in the repository calls the cleanup.  If something else calls it
\* again and again, every task past its retention period is erased, and a pass
\* that failed between the document and the row is made good by a later one.
CleanupCalled == WF_vars(CleanupList)

RetentionErases == CleanupCalled => \A t \in Task : t \in expired ~> Erased(t)

-----------------------------------------------------------------------------
(* Refinement *)

\* What the promise is about: where a task is in its life.
LifeOf(t) ==
  CASE t \in forgotten                                -> "erased"
    [] t \notin forgotten /\ Exists(t) /\ t \in objects    -> "registered"
    [] t \notin forgotten /\ Exists(t) /\ t \notin objects -> "stripped"
    [] t \notin forgotten /\ ~Exists(t) /\ t \in objects   -> "stored"
    [] OTHER -> IF upload[t] = "idle" THEN "new" ELSE "discarded"

Custody == INSTANCE DocumentCustody WITH
  life    <- [t \in Task |-> LifeOf(t)],
  derived <- {t \in Task : results[t] # {}}

\* The pipeline keeps the promise of DocumentCustody.
KeepsCustody == Custody!Spec

=============================================================================
