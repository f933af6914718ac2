---------------------------- MODULE LocalPipeline ----------------------------
(***************************************************************************)
(* The life of an uploaded document with the local drivers, which run when *)
(* no database, Redis or bucket is configured: a file per task and table,  *)
(* a queue made of job files, and documents in the memory of the web       *)
(* process.  No transaction and no foreign key connects the files.         *)
(*                                                                         *)
(* Each await on the file system is a step; a file that is written beside  *)
(* its place and renamed into it changes in one step.  A call that throws  *)
(* has no effect, except writeFile on a job file, which may leave it       *)
(* incomplete.  Jobs are taken in any order: their names begin with the    *)
(* millisecond of enqueueing.                                              *)
(***************************************************************************)
EXTENDS Naturals, FiniteSets

CONSTANTS
  Task,        \* task ids, one per upload request
  Worker,      \* worker processes, each polling the queue directory
  Request,     \* DELETE /api/tasks/[taskId] requests
  NoTask,      \* null value
  MaxFaults,   \* bound: calls that throw
  MaxCrashes,  \* bound: crashes of the web process or a worker
  MaxTroubles  \* bound: both together

ASSUME LocalAssumption ==
  /\ NoTask \notin Task
  /\ {MaxFaults, MaxCrashes, MaxTroubles} \subseteq Nat

VARIABLES
  upload,     \* program counter of each upload handler
  documents,  \* tasks whose document is in the web process's memory
  status,     \* status in the task's file
  results,    \* the result files of each task
  jobFile,    \* where the task's job file is, and whether it is complete
  worker,     \* each worker process
  deletion,   \* each run of deleteTaskData
  confirmed,  \* history: tasks some deleteTaskData reported deleted
  runs,       \* history: how often processTaskJob ran for a task
  overlap,    \* history: tasks processed while they were being deleted
  faults, crashes  \* spent parts of the bounds

boundVars   == <<faults, crashes>>
historyVars == <<confirmed, runs, overlap>>
vars == <<upload, documents, status, results, jobFile, worker, deletion,
          historyVars, boundVars>>

Tables == {"risk_findings", "document_segments", "rewrite_options"}
Status == {"absent", "queued", "processing", "failed", "completed"}

UploadState == {"idle", "create", "open", "write", "markFailed",
                "accepted", "rejected", "crashed"}

InFlight == {"create", "open", "write", "markFailed"}

DrainPc   == {"claim", "read", "remove", "next"}
TryPc     == {"parse", "scan", "risks", "segments", "rewrites", "complete"}
CatchPc   == {"dropRisks", "dropSegments", "dropRewrites", "fail"}
DeletePc  == {"object", "record", "risks", "segments", "unlink"}

IdleWorker == [pc |-> "idle", listing |-> {}, batch |-> {},
               task |-> NoTask, updating |-> FALSE]

TypeOK ==
  /\ upload \in [Task -> UploadState]
  /\ documents \subseteq Task
  /\ status \in [Task -> Status]
  /\ results \in [Task -> SUBSET Tables]
  /\ jobFile \in [Task -> [at : {"none", "pending", "processing", "gone"},
                           whole : BOOLEAN]]
  /\ worker \in [Worker -> [pc       : {"idle"} \cup DrainPc \cup TryPc \cup CatchPc,
                            listing  : SUBSET Task,
                            batch    : SUBSET Task,
                            task     : Task \cup {NoTask},
                            updating : BOOLEAN]]
  /\ deletion \in [Request -> [pc   : {"idle", "ok", "failed", "crashed"} \cup DeletePc,
                               task : Task \cup {NoTask}]]
  /\ confirmed \subseteq Task
  /\ runs \in [Task -> Nat]
  /\ overlap \subseteq Task
  /\ faults \in 0..MaxFaults
  /\ crashes \in 0..MaxCrashes

Init ==
  /\ upload = [t \in Task |-> "idle"]
  /\ documents = {}
  /\ status = [t \in Task |-> "absent"]
  /\ results = [t \in Task |-> {}]
  /\ jobFile = [t \in Task |-> [at |-> "none", whole |-> FALSE]]
  /\ worker = [w \in Worker |-> IdleWorker]
  /\ deletion = [d \in Request |-> [pc |-> "idle", task |-> NoTask]]
  /\ confirmed = {}
  /\ runs = [t \in Task |-> 0]
  /\ overlap = {}
  /\ faults = 0
  /\ crashes = 0

Exists(t) == status[t] # "absent"

Works  == UNCHANGED faults
Throws ==
  /\ faults < MaxFaults /\ faults + crashes < MaxTroubles
  /\ faults' = faults + 1

Crashes ==
  /\ crashes < MaxCrashes /\ faults + crashes < MaxTroubles
  /\ crashes' = crashes + 1

-----------------------------------------------------------------------------
(* acceptUploadSubmission on the local drivers *)

StepUpload(t, pc) == upload' = [upload EXCEPT ![t] = pc]

uploadFrame == <<results, worker, deletion, historyVars, crashes>>

UploadStore(t) ==
  /\ upload[t] = "idle"
  /\ documents' = documents \cup {t}
  /\ StepUpload(t, "create")
  /\ UNCHANGED <<status, jobFile, faults, uploadFrame>>

\* When the task's file cannot be written, the document is dropped again.
UploadCreate(t) ==
  /\ upload[t] = "create"
  /\ \/ /\ Works
        /\ status' = [status EXCEPT ![t] = "queued"]
        /\ StepUpload(t, "open")
        /\ UNCHANGED documents
     \/ /\ Throws
        /\ documents' = documents \ {t}
        /\ StepUpload(t, "rejected")
        /\ UNCHANGED status
  /\ UNCHANGED <<jobFile, uploadFrame>>

\* enqueueMemoryTaskJob writes the job file in its place: it is visible,
\* and empty, before it is complete.
UploadOpenJob(t) ==
  /\ upload[t] = "open"
  /\ \/ /\ Works
        /\ jobFile' = [jobFile EXCEPT ![t].at = "pending"]
        /\ StepUpload(t, "write")
     \/ Throws /\ StepUpload(t, "markFailed") /\ UNCHANGED jobFile
  /\ UNCHANGED <<documents, status, uploadFrame>>

UploadWriteJob(t) ==
  /\ upload[t] = "write"
  /\ \/ /\ Works
        /\ jobFile' = [jobFile EXCEPT ![t].whole = TRUE]
        /\ StepUpload(t, "accepted")
     \/ Throws /\ StepUpload(t, "markFailed") /\ UNCHANGED jobFile
  /\ UNCHANGED <<documents, status, uploadFrame>>

\* Reads the task's file and writes it back.  Nobody else touches it yet: no
\* worker gets past an incomplete job, no user knows the task.
UploadMarkFailed(t) ==
  /\ upload[t] = "markFailed"
  /\ \/ /\ Works
        /\ status' = [status EXCEPT ![t] = "failed"]
        /\ StepUpload(t, "accepted")
     \/ Throws /\ StepUpload(t, "rejected") /\ UNCHANGED status
  /\ UNCHANGED <<documents, jobFile, uploadFrame>>

\* The web process holds the documents in memory.
WebCrash ==
  /\ Crashes
  /\ documents' = {}
  /\ upload' = [t \in Task |-> IF upload[t] \in InFlight
                               THEN "crashed" ELSE upload[t]]
  /\ deletion' = [d \in Request |->
                    IF deletion[d].pc \in DeletePc
                    THEN [deletion[d] EXCEPT !.pc = "crashed"] ELSE deletion[d]]
  /\ UNCHANGED <<status, results, jobFile, worker, historyVars, faults>>

-----------------------------------------------------------------------------
(* runMemoryTaskQueueOnce: drainMemoryTaskJobs, then each job in turn      *)

workerFrame == <<upload, documents, deletion, confirmed, crashes>>

UnderDeletion(t) ==
  \E d \in Request : deletion[d].task = t /\ deletion[d].pc \in DeletePc

\* An error ends the drain or the batch: runMemoryTaskQueueSafely logs it.
Abort(w) == worker' = [worker EXCEPT ![w] = IdleWorker]

\* A poll that finds nothing changes nothing.
DrainList(w) ==
  LET pending == {t \in Task : jobFile[t].at = "pending"}
  IN /\ worker[w].pc = "idle"
     /\ pending # {}
     /\ worker' = [worker EXCEPT ![w].pc = "claim", ![w].listing = pending]
     /\ UNCHANGED <<status, results, jobFile, runs, overlap, faults, workerFrame>>

\* Mutant of Rename: copies the job file instead of moving it.
CopyJob(t) == UNCHANGED jobFile

Rename(t) == jobFile' = [jobFile EXCEPT ![t].at = "processing"]

\* Mutant of PassOver: the file being gone counts as an error.
PassOverThrows(w, t) == Abort(w)

PassOver(w, t) == worker' = [worker EXCEPT ![w].listing = @ \ {t}]

\* Renaming the file claims the job; another worker may have been faster.
Claim(w, t) ==
  /\ worker[w].pc = "claim"
  /\ t \in worker[w].listing
  /\ \/ /\ Works
        /\ jobFile[t].at = "pending"
        /\ Rename(t)
        /\ worker' = [worker EXCEPT ![w].pc = "read", ![w].task = t,
                                    ![w].listing = @ \ {t}]
     \/ /\ Works
        /\ jobFile[t].at # "pending"
        /\ PassOver(w, t)
        /\ UNCHANGED jobFile
     \/ Throws /\ Abort(w) /\ UNCHANGED jobFile
  /\ UNCHANGED <<status, results, runs, overlap, workerFrame>>

\* An incomplete file does not parse.
ReadJob(w) ==
  LET t == worker[w].task
  IN /\ worker[w].pc = "read"
     /\ \/ /\ Works
           /\ jobFile[t].whole
           /\ worker' = [worker EXCEPT ![w].pc = "remove",
                                       ![w].batch = @ \cup {t}]
        \/ Works /\ ~jobFile[t].whole /\ Abort(w)
        \/ Throws /\ Abort(w)
     /\ UNCHANGED <<status, results, jobFile, runs, overlap, workerFrame>>

RemoveJob(w) ==
  LET t == worker[w].task
  IN /\ worker[w].pc = "remove"
     /\ \/ /\ Works
           /\ jobFile' = [jobFile EXCEPT ![t].at = "gone"]
           /\ worker' = [worker EXCEPT ![w].pc = "claim", ![w].task = NoTask]
        \/ Throws /\ Abort(w) /\ UNCHANGED jobFile
     /\ UNCHANGED <<status, results, runs, overlap, workerFrame>>

DrainDone(w) ==
  /\ worker[w].pc = "claim"
  /\ worker[w].listing = {}
  /\ worker' = [worker EXCEPT ![w].pc = "next"]
  /\ UNCHANGED <<status, results, jobFile, runs, overlap, faults, workerFrame>>

TakeJob(w, t) ==
  /\ worker[w].pc = "next"
  /\ t \in worker[w].batch
  /\ worker' = [worker EXCEPT ![w].pc = "parse", ![w].task = t,
                              ![w].batch = @ \ {t}]
  /\ runs' = [runs EXCEPT ![t] = @ + 1]
  /\ overlap' = IF UnderDeletion(t) THEN overlap \cup {t} ELSE overlap
  /\ UNCHANGED <<status, results, jobFile, faults, workerFrame>>

BatchDone(w) ==
  /\ worker[w].pc = "next"
  /\ worker[w].batch = {}
  /\ Abort(w)
  /\ UNCHANGED <<status, results, jobFile, runs, overlap, faults, workerFrame>>

-----------------------------------------------------------------------------
(* processTaskJob on the local repositories *)

\* Mutant of Onward: the completed status is not written.
OnwardUnfinished(pc) ==
  CASE pc = "parse"        -> "scan"
    [] pc = "scan"         -> "risks"
    [] pc = "risks"        -> "segments"
    [] pc = "segments"     -> "rewrites"
    [] pc = "rewrites"     -> "next"
    [] pc = "dropRisks"    -> "dropSegments"
    [] pc = "dropSegments" -> "dropRewrites"
    [] pc = "dropRewrites" -> "fail"

\* What comes after each call of the try block and of the catch block.
Onward(pc) ==
  CASE pc = "parse"        -> "scan"
    [] pc = "scan"         -> "risks"
    [] pc = "risks"        -> "segments"
    [] pc = "segments"     -> "rewrites"
    [] pc = "rewrites"     -> "complete"
    [] pc = "dropRisks"    -> "dropSegments"
    [] pc = "dropSegments" -> "dropRewrites"
    [] pc = "dropRewrites" -> "fail"
    [] pc = "complete"     -> "next"

\* The catch block ends by rethrowing, which ends the batch.
Proceed(w) ==
  IF worker[w].pc = "fail" THEN Abort(w)
  ELSE worker' = [worker EXCEPT ![w].pc = Onward(worker[w].pc),
                                ![w].updating = FALSE,
                                ![w].task = IF worker[w].pc = "complete"
                                            THEN NoTask ELSE worker[w].task]

Raise(w) ==
  IF worker[w].pc \in CatchPc THEN Abort(w)
  ELSE worker' = [worker EXCEPT ![w].pc = "dropRisks", ![w].updating = FALSE]

UpdatePc == {"parse", "scan", "complete", "fail"}

\* Mutant of Missing: a missing task is not looked at in the loop either.
MissingIgnored(w) == Proceed(w)

\* A null result of updateTaskRecordState throws in the loop only.
Missing(w) == IF worker[w].pc \in {"parse", "scan"} THEN Raise(w) ELSE Proceed(w)

\* updateTaskRecordState reads the task's file ...
UpdateRead(w) ==
  LET t == worker[w].task
  IN /\ worker[w].pc \in UpdatePc
     /\ ~worker[w].updating
     /\ \/ /\ Works
           /\ Exists(t)
           /\ worker' = [worker EXCEPT ![w].updating = TRUE]
        \/ Works /\ ~Exists(t) /\ Missing(w)
        \/ Throws /\ Raise(w)
     /\ UNCHANGED <<status, results, jobFile, runs, overlap, workerFrame>>

\* Mutant of Written: the stage is written where the status belongs.
WrittenStage(pc) == pc

Written(pc) ==
  CASE pc \in {"parse", "scan"} -> "processing"
    [] pc = "complete"          -> "completed"
    [] pc = "fail"              -> "failed"

\* ... and writes it back, whether or not it is still there.
UpdateWrite(w) ==
  LET t == worker[w].task
  IN /\ worker[w].pc \in UpdatePc
     /\ worker[w].updating
     /\ \/ /\ Works
           /\ status' = [status EXCEPT ![t] = Written(worker[w].pc)]
           /\ Proceed(w)
        \/ Throws /\ Raise(w) /\ UNCHANGED status
     /\ UNCHANGED <<results, jobFile, runs, overlap, workerFrame>>

Publish(w, pc, table) ==
  /\ worker[w].pc = pc
  /\ \/ /\ Works
        /\ results' = [results EXCEPT ![worker[w].task] = @ \cup {table}]
        /\ Proceed(w)
     \/ Throws /\ Raise(w) /\ UNCHANGED results
  /\ UNCHANGED <<status, jobFile, runs, overlap, workerFrame>>

\* Mutant of DropFile: the catch block forgets to delete.
KeepFile(t, table) == UNCHANGED results

DropFile(t, table) == results' = [results EXCEPT ![t] = @ \ {table}]

Withdraw(w, pc, table) ==
  /\ worker[w].pc = pc
  /\ \/ Works /\ DropFile(worker[w].task, table) /\ Proceed(w)
     \/ Throws /\ Raise(w) /\ UNCHANGED results
  /\ UNCHANGED <<status, jobFile, runs, overlap, workerFrame>>

WorkerCrash(w) ==
  /\ worker[w].pc # "idle"
  /\ Crashes
  /\ Abort(w)
  /\ UNCHANGED <<upload, documents, status, results, jobFile, deletion,
                 historyVars, faults>>

Drain(w) ==
  \/ DrainList(w) \/ ReadJob(w) \/ RemoveJob(w) \/ DrainDone(w) \/ BatchDone(w)
  \/ \E t \in Task : Claim(w, t) \/ TakeJob(w, t)

Process(w) ==
  \/ UpdateRead(w)
  \/ UpdateWrite(w)
  \/ Publish(w, "risks", "risk_findings")
  \/ Publish(w, "segments", "document_segments")
  \/ Publish(w, "rewrites", "rewrite_options")
  \/ Withdraw(w, "dropRisks", "risk_findings")
  \/ Withdraw(w, "dropSegments", "document_segments")
  \/ Withdraw(w, "dropRewrites", "rewrite_options")

-----------------------------------------------------------------------------
(* deleteTaskData on the local drivers *)

StepDeletion(d, pc) == deletion' = [deletion EXCEPT ![d].pc = pc]

deleteFrame == <<upload, jobFile, worker, runs, crashes>>

InHand(t) ==
  \E w \in Worker : worker[w].task = t /\ worker[w].pc \in TryPc \cup CatchPc

DeleteStart(d, t) ==
  /\ deletion[d].pc = "idle"
  /\ upload[t] = "accepted"
  /\ Exists(t)
  /\ deletion' = [deletion EXCEPT ![d] = [pc |-> "object", task |-> t]]
  /\ overlap' = IF InHand(t) THEN overlap \cup {t} ELSE overlap
  /\ UNCHANGED <<documents, status, results, confirmed, faults, deleteFrame>>

DeleteObject(d) ==
  /\ deletion[d].pc = "object"
  /\ documents' = documents \ {deletion[d].task}
  /\ StepDeletion(d, "record")
  /\ UNCHANGED <<status, results, confirmed, faults, overlap, deleteFrame>>

DeleteLookup(d) ==
  /\ deletion[d].pc = "record"
  /\ \/ Works /\ Exists(deletion[d].task) /\ StepDeletion(d, "risks")
     \/ Works /\ ~Exists(deletion[d].task) /\ StepDeletion(d, "failed")
     \/ Throws /\ StepDeletion(d, "failed")
  /\ UNCHANGED <<documents, status, results, confirmed, overlap, deleteFrame>>

\* deleteTaskRecord removes two of the files beside the task's own.
DeleteResults(d, pc, table, next) ==
  /\ deletion[d].pc = pc
  /\ \/ Works /\ DropFile(deletion[d].task, table) /\ StepDeletion(d, next)
     \/ Throws /\ StepDeletion(d, "failed") /\ UNCHANGED results
  /\ UNCHANGED <<documents, status, confirmed, overlap, deleteFrame>>

\* Unlinking a file that is gone throws too.
DeleteUnlink(d) ==
  LET t == deletion[d].task
  IN /\ deletion[d].pc = "unlink"
     /\ \/ /\ Works
           /\ Exists(t)
           /\ status' = [status EXCEPT ![t] = "absent"]
           /\ confirmed' = confirmed \cup {t}
           /\ StepDeletion(d, "ok")
        \/ /\ (Works /\ ~Exists(t)) \/ Throws
           /\ StepDeletion(d, "failed")
           /\ UNCHANGED <<status, confirmed>>
     /\ UNCHANGED <<documents, results, overlap, deleteFrame>>

EraseStep(d) ==
  \/ DeleteObject(d) \/ DeleteLookup(d)
  \/ DeleteResults(d, "risks", "risk_findings", "segments")
  \/ DeleteResults(d, "segments", "document_segments", "unlink")
  \/ DeleteUnlink(d)

-----------------------------------------------------------------------------
(* Specification *)

UploadStep(t) ==
  \/ UploadStore(t) \/ UploadCreate(t) \/ UploadOpenJob(t)
  \/ UploadWriteJob(t) \/ UploadMarkFailed(t)

Next ==
  \/ \E t \in Task : UploadStep(t)
  \/ \E w \in Worker : Drain(w) \/ Process(w) \/ WorkerCrash(w)
  \/ \E d \in Request : EraseStep(d) \/ \E t \in Task : DeleteStart(d, t)
  \/ WebCrash

Spec == Init /\ [][Next]_vars

\* A handler that runs goes on; every worker polls every 500 ms.
Fairness ==
  /\ \A t \in Task : WF_vars(UploadStep(t) /\ upload[t] # "idle")
  /\ \A w \in Worker : WF_vars(Drain(w) \/ Process(w))
  /\ \A d \in Request : WF_vars(EraseStep(d))

FairSpec == Spec /\ Fairness

-----------------------------------------------------------------------------
(* Properties *)

\* However many workers poll the directory, with jobs abandoned by crashes
\* and errors in between, no job is processed twice: the rename claims it.
RunOnce == \A t \in Task : runs[t] <= 1

\* Nobody works on the job any more, and it was never processed.
Held(t) == \E w \in Worker : worker[w].task = t \/ t \in worker[w].batch
Lost(t) == jobFile[t].at \in {"processing", "gone"} /\ ~Held(t) /\ runs[t] = 0

\* What ends a drain or a batch without a fault: a job claimed before its
\* file was complete, which lies in the processing directory for ever, or a
\* run for a deleted task.
BatchEnded ==
  \E u \in Task :
    \/ jobFile[u].at = "processing" /\ ~Held(u)
    \/ u \in confirmed /\ runs[u] > 0

\* Without a crash or a call that throws, and however many workers drain the
\* directory at once, a job is lost only where some job, that one or another,
\* was claimed before its file was complete, or ran for a deleted task.
LossHasCause ==
  (faults = 0 /\ crashes = 0 /\ \E t \in Task : Lost(t)) => BatchEnded

\* A task nobody asked to delete has its files in agreement with its status:
\* completed with all three, failed or queued with none.
FilesMatchStatus ==
  \A t \in Task : (\A d \in Request : deletion[d].task # t) =>
    /\ status[t] = "completed" => results[t] = Tables
    /\ status[t] \in {"failed", "queued"} => results[t] = {}

\* A confirmed deletion no worker's run overlapped with is final for the
\* document, the task's file, its findings and its segments, even when the
\* task's job is still in the queue or in some worker's batch.
QuietErasure ==
  \A t \in confirmed \ overlap :
    ~Exists(t) /\ t \notin documents /\ results[t] \subseteq {"rewrite_options"}

\* A job that is complete in the pending directory is processed: its task
\* is eventually completed, failed or deleted, unless a process dies, a call
\* throws or a batch ends early in the meantime.
Resolved(t) == status[t] \in {"completed", "failed", "absent"}

WholeJobResolves ==
  \A t \in Task :
    jobFile[t] = [at |-> "pending", whole |-> TRUE] ~>
      Resolved(t) \/ BatchEnded \/ faults + crashes > 0

=============================================================================
