----------------------------- MODULE LocalProofs -----------------------------
(***************************************************************************)
(* The local drivers, for any number of tasks, workers and deletions,      *)
(* calls that throw and processes that die.                                *)
(*                                                                         *)
(* No job of the local queue is processed twice: a job is in one place at  *)
(* a time, in the pending directory, where nobody has it; in the           *)
(* processing directory, where one worker at most reads it; or in the      *)
(* batch of one worker, out of which it is taken to be run.                *)
(*                                                                         *)
(* Since it runs once, the place its worker has reached in processTaskJob  *)
(* tells what the task's files hold; and a run that comes after a deletion *)
(* finds no task and brings nothing back.                                  *)
(*                                                                         *)
(* While nothing throws and nobody dies, a worker lets go of a job it has  *)
(* not run only in the two ways that end a batch.                          *)
(***************************************************************************)
EXTENDS LocalPipeline, TLAPS

WorkerPc == {"idle"} \cup DrainPc \cup TryPc \cup CatchPc

WorkerRecord == [pc       : WorkerPc,
                 listing  : SUBSET Task,
                 batch    : SUBSET Task,
                 task     : Task \cup {NoTask},
                 updating : BOOLEAN]

DeletionRecord == [pc   : {"idle", "ok", "failed", "crashed"} \cup DeletePc,
                   task : Task \cup {NoTask}]

JobFile == [at : {"none", "pending", "processing", "gone"}, whole : BOOLEAN]

\* A worker past the listing, and a deletion under way, have a task.
Good(o) ==
  o \in WorkerRecord /\ (o.pc \notin {"idle", "claim", "next"} => o.task \in Task)

Aimed(o) == o \in DeletionRecord /\ (o.pc \in DeletePc => o.task \in Task)

DataInv ==
  /\ upload \in [Task -> UploadState]
  /\ documents \subseteq Task
  /\ status \in [Task -> Status]
  /\ results \in [Task -> SUBSET Tables]
  /\ confirmed \subseteq Task
  /\ overlap \subseteq Task

BoundInv == faults \in 0..MaxFaults /\ crashes \in 0..MaxCrashes

QueueInv == jobFile \in [Task -> JobFile] /\ runs \in [Task -> Nat]

WorkerInv ==
  worker \in [Worker -> WorkerRecord] /\ \A w \in Worker : Good(worker[w])

DeletionInv ==
  deletion \in [Request -> DeletionRecord] /\ \A d \in Request : Aimed(deletion[d])

TypeInv == DataInv /\ BoundInv /\ QueueInv /\ WorkerInv /\ DeletionInv

LEMMA TypeInvImpliesTypeOK == TypeInv => TypeOK
  <1> SUFFICES ASSUME TypeInv PROVE TypeOK
    OBVIOUS
  <1> USE DEF TypeInv, TypeOK
  <1>1. worker \in [Worker -> WorkerRecord]
    BY DEF WorkerInv, Good
  <1> QED
    BY <1>1 DEF DataInv, BoundInv, QueueInv, DeletionInv, JobFile, WorkerRecord,
       WorkerPc, DeletionRecord

LEMMA TypeInit == Init => TypeInv
  <1> SUFFICES ASSUME Init PROVE TypeInv
    OBVIOUS
  <1> USE LocalAssumption DEF Init
  <1>1. DataInv /\ BoundInv /\ QueueInv
    BY DEF DataInv, BoundInv, QueueInv, UploadState, Status, JobFile
  <1>2. Good(IdleWorker)
    BY DEF Good, IdleWorker, WorkerRecord, WorkerPc
  <1>3. WorkerInv
    BY <1>2 DEF WorkerInv, Good
  <1>4. DeletionInv
    BY DEF DeletionInv, DeletionRecord, Aimed, DeletePc
  <1> QED
    BY <1>1, <1>3, <1>4 DEF TypeInv

LEMMA SpentInv ==
  ASSUME BoundInv, Works \/ Throws, UNCHANGED crashes
  PROVE  BoundInv'
BY LocalAssumption DEF BoundInv, Works, Throws

LEMMA UpdateAt ==
  ASSUME QueueInv, NEW t \in Task, NEW a \in {"pending", "processing", "gone"},
         jobFile' = [jobFile EXCEPT ![t].at = a]
  PROVE  /\ jobFile' \in [Task -> JobFile]
         /\ jobFile'[t].at = a
         /\ \A u \in Task \ {t} : jobFile'[u] = jobFile[u]
  <1>1. jobFile[t] \in JobFile /\ [jobFile[t] EXCEPT !.at = a] \in JobFile
        /\ [jobFile[t] EXCEPT !.at = a].at = a
    BY DEF QueueInv, JobFile
  <1>2. jobFile' = [jobFile EXCEPT ![t] = [jobFile[t] EXCEPT !.at = a]]
    OBVIOUS
  <1> QED
    BY <1>1, <1>2 DEF QueueInv

LEMMA UpdateWhole ==
  ASSUME QueueInv, NEW t \in Task, jobFile' = [jobFile EXCEPT ![t].whole = TRUE]
  PROVE  /\ jobFile' \in [Task -> JobFile]
         /\ \A u \in Task : jobFile'[u].at = jobFile[u].at
  <1>1. jobFile[t] \in JobFile /\ [jobFile[t] EXCEPT !.whole = TRUE] \in JobFile
        /\ [jobFile[t] EXCEPT !.whole = TRUE].at = jobFile[t].at
    BY DEF QueueInv, JobFile
  <1>2. jobFile' = [jobFile EXCEPT ![t] = [jobFile[t] EXCEPT !.whole = TRUE]]
    OBVIOUS
  <1> QED
    BY <1>1, <1>2 DEF QueueInv

\* A worker goes on as o says.
Becomes(w, o) == worker' = [worker EXCEPT ![w] = o] /\ Good(o)

LEMMA WorkerGoesOn ==
  ASSUME WorkerInv, NEW w \in Worker, NEW o, Becomes(w, o)
  PROVE  WorkerInv' /\ worker'[w] = o /\ \A v \in Worker \ {w} : worker'[v] = worker[v]
  <1>1. o \in WorkerRecord /\ worker' \in [Worker -> WorkerRecord]
    BY DEF WorkerInv, Becomes, Good
  <1> QED
    BY <1>1 DEF WorkerInv, Becomes

-----------------------------------------------------------------------------
(* Where a job is *)

Reading(o, t) == o.pc \in {"read", "remove"} /\ o.task = t

JobInv(t) ==
  /\ upload[t] \in {"idle", "create", "open"} => jobFile[t].at = "none"
  /\ jobFile[t].at \in {"none", "pending"} => runs[t] = 0
  /\ runs[t] <= 1
  /\ \A w \in Worker : Reading(worker[w], t) =>
       /\ jobFile[t].at = "processing" /\ runs[t] = 0
       /\ \A v \in Worker : Reading(worker[v], t) => v = w
  /\ \A w \in Worker : t \in worker[w].batch =>
       /\ runs[t] = 0
       /\ \/ jobFile[t].at = "gone"
          \/ jobFile[t].at = "processing" /\ worker[w].pc = "remove" /\ worker[w].task = t
       /\ \A v \in Worker : t \in worker[v].batch => v = w

OnceInv == \A t \in Task : JobInv(t)

\* A worker's step that takes no job over.
Calm(o, n) ==
  /\ n.batch \subseteq o.batch
  /\ n.pc \notin {"read", "remove"}
  /\ o.pc = "remove" => n.batch = {}

CalmStep(w) ==
  /\ \E n : Becomes(w, n) /\ Calm(worker[w], n)
  /\ UNCHANGED <<jobFile, runs>>

LEMMA CalmKeeps ==
  ASSUME TypeInv, OnceInv, NEW w \in Worker, CalmStep(w), UNCHANGED upload
  PROVE  OnceInv' /\ WorkerInv' /\ QueueInv'
  <1>1. PICK n : Becomes(w, n) /\ Calm(worker[w], n)
    BY DEF CalmStep
  <1>2. WorkerInv' /\ worker'[w] = n /\ \A v \in Worker \ {w} : worker'[v] = worker[v]
    BY <1>1, WorkerGoesOn DEF TypeInv
  <1>3. UNCHANGED <<jobFile, runs>>
    BY DEF CalmStep
  <1>4. QueueInv'
    BY <1>3 DEF TypeInv, QueueInv
  <1>5. ASSUME NEW t \in Task PROVE JobInv(t)'
    <2>1. JobInv(t)
      BY DEF OnceInv
    <2>2. ~Reading(worker'[w], t) /\ (t \in worker'[w].batch => t \in worker[w].batch
                                        /\ worker[w].pc # "remove")
      BY <1>1, <1>2 DEF Calm, Reading
    <2> QED
      BY <1>2, <1>3, <2>1, <2>2 DEF JobInv, Reading
  <1> QED
    BY <1>2, <1>4, <1>5 DEF OnceInv

LEMMA AbortCalm ==
  ASSUME TypeInv, NEW w \in Worker, Abort(w)
  PROVE  \E n : Becomes(w, n) /\ Calm(worker[w], n)
  <1>1. Becomes(w, IdleWorker)
    BY DEF Abort, Becomes, Good, IdleWorker, WorkerRecord, WorkerPc
  <1>2. Calm(worker[w], IdleWorker)
    BY DEF Calm, IdleWorker
  <1> QED
    BY <1>1, <1>2

LEMMA ProceedCalm ==
  ASSUME TypeInv, NEW w \in Worker, worker[w].pc \in TryPc \cup CatchPc, Proceed(w)
  PROVE  \E n : Becomes(w, n) /\ Calm(worker[w], n)
  <1>1. CASE worker[w].pc = "fail"
    BY <1>1, AbortCalm DEF Proceed
  <1>2. CASE worker[w].pc # "fail"
    <2> DEFINE o == worker[w]
               n == [o EXCEPT !.pc = Onward(o.pc), !.updating = FALSE,
                              !.task = IF o.pc = "complete" THEN NoTask ELSE o.task]
    <2>1. worker' = [worker EXCEPT ![w] = n]
      BY <1>2 DEF Proceed
    <2>2. o \in WorkerRecord /\ o.task \in Task
      BY DEF TypeInv, WorkerInv, Good, TryPc, CatchPc
    <2>3. Onward(o.pc) \in (TryPc \cup CatchPc \cup {"next"})
          /\ (Onward(o.pc) = "next" <=> o.pc = "complete")
      BY <1>2 DEF TryPc, CatchPc, Onward
    <2>4. Good(n)
      BY <2>2, <2>3 DEF Good, WorkerRecord, WorkerPc, DrainPc
    <2>5. Calm(o, n)
      BY <2>2, <2>3 DEF Calm, WorkerRecord, TryPc, CatchPc
    <2> QED
      BY <2>1, <2>4, <2>5 DEF Becomes
  <1> QED
    BY <1>1, <1>2

LEMMA RaiseCalm ==
  ASSUME TypeInv, NEW w \in Worker, worker[w].pc \in TryPc \cup CatchPc, Raise(w)
  PROVE  \E n : Becomes(w, n) /\ Calm(worker[w], n)
  <1>1. CASE worker[w].pc \in CatchPc
    BY <1>1, AbortCalm DEF Raise
  <1>2. CASE worker[w].pc \notin CatchPc
    <2> DEFINE o == worker[w]
               n == [o EXCEPT !.pc = "dropRisks", !.updating = FALSE]
    <2>1. worker' = [worker EXCEPT ![w] = n]
      BY <1>2 DEF Raise
    <2>2. o \in WorkerRecord /\ o.task \in Task
      BY DEF TypeInv, WorkerInv, Good, TryPc, CatchPc
    <2>3. Good(n)
      BY <2>2 DEF Good, WorkerRecord, WorkerPc, CatchPc
    <2>4. Calm(o, n)
      BY <2>2 DEF Calm, WorkerRecord, TryPc, CatchPc
    <2> QED
      BY <2>1, <2>3, <2>4 DEF Becomes
  <1> QED
    BY <1>1, <1>2

-----------------------------------------------------------------------------
(* The steps of processTaskJob take no job over *)

LEMMA ProcessCalm ==
  ASSUME TypeInv, NEW w \in Worker, Process(w)
  PROVE  CalmStep(w)
  <1>1. UNCHANGED <<jobFile, runs>>
    BY DEF Process, UpdateRead, UpdateWrite, Publish, Withdraw
  <1>2. worker[w].pc \in TryPc \cup CatchPc
    BY DEF Process, UpdateRead, UpdateWrite, Publish, Withdraw, UpdatePc, TryPc,
       CatchPc
  <1>3. \/ Proceed(w)
        \/ Raise(w)
        \/ worker' = [worker EXCEPT ![w] = [worker[w] EXCEPT !.updating = TRUE]]
    BY DEF Process, UpdateRead, UpdateWrite, Publish, Withdraw, Missing
  <1>4. CASE worker' = [worker EXCEPT ![w] = [worker[w] EXCEPT !.updating = TRUE]]
    <2> DEFINE n == [worker[w] EXCEPT !.updating = TRUE]
    <2>1. Becomes(w, n)
      BY <1>4 DEF Becomes, TypeInv, WorkerInv, Good, WorkerRecord
    <2>2. Calm(worker[w], n)
      BY <1>2 DEF Calm, TypeInv, WorkerInv, Good, WorkerRecord, TryPc, CatchPc
    <2> QED
      BY <1>1, <2>1, <2>2 DEF CalmStep
  <1> QED
    BY <1>1, <1>2, <1>3, <1>4, ProceedCalm, RaiseCalm DEF CalmStep

LEMMA ProcessData ==
  ASSUME TypeInv, NEW w \in Worker, Process(w)
  PROVE  DataInv' /\ BoundInv' /\ UNCHANGED <<upload, deletion>>
  <1>1. UNCHANGED workerFrame /\ UNCHANGED overlap /\ (Works \/ Throws)
    BY DEF Process, UpdateRead, UpdateWrite, Publish, Withdraw
  <1>2. worker[w].task \in Task
    BY DEF Process, UpdateRead, UpdateWrite, Publish, Withdraw, UpdatePc, TypeInv,
       WorkerInv, Good
  <1>3. status' \in [Task -> Status]
    <2>1. worker[w].pc \in UpdatePc => Written(worker[w].pc) \in Status
      BY DEF UpdatePc, Written, Status
    <2> QED
      BY <1>2, <2>1 DEF Process, UpdateRead, UpdateWrite, Publish, Withdraw, TypeInv,
         DataInv
  <1>4. results' \in [Task -> SUBSET Tables]
    BY <1>2 DEF Process, UpdateRead, UpdateWrite, Publish, Withdraw, DropFile,
       TypeInv, DataInv, Tables
  <1> QED
    BY <1>1, <1>3, <1>4, SpentInv DEF workerFrame, TypeInv, DataInv

LEMMA ProcessOnce ==
  ASSUME TypeInv, OnceInv, NEW w \in Worker, Process(w)
  PROVE  TypeInv' /\ OnceInv'
BY ProcessCalm, ProcessData, CalmKeeps DEF TypeInv, DeletionInv

-----------------------------------------------------------------------------
(* The drain *)

LEMMA DrainData ==
  ASSUME TypeInv, NEW w \in Worker, Drain(w)
  PROVE  DataInv' /\ BoundInv' /\ DeletionInv' /\ UNCHANGED upload
  <1>1. UNCHANGED workerFrame /\ UNCHANGED <<status, results>> /\ (Works \/ Throws)
    BY DEF Drain, DrainList, ReadJob, RemoveJob, DrainDone, BatchDone, Claim, TakeJob,
       Works, Rename
  <1>2. overlap' \subseteq Task
    BY DEF Drain, DrainList, ReadJob, RemoveJob, DrainDone, BatchDone, Claim, TakeJob,
       TypeInv, DataInv
  <1> QED
    BY <1>1, <1>2, SpentInv DEF workerFrame, TypeInv, DataInv, DeletionInv

\* The steps that leave every job where it is.
LEMMA DrainCalm ==
  ASSUME TypeInv, NEW w \in Worker,
         \/ DrainList(w) \/ DrainDone(w) \/ BatchDone(w)
         \/ Abort(w) /\ UNCHANGED <<jobFile, runs>>
         \/ /\ worker[w].pc = "claim"
            /\ \E t \in Task : PassOver(w, t)
            /\ UNCHANGED <<jobFile, runs>>
  PROVE  CalmStep(w)
  <1> USE DEF Becomes, Calm, Good, WorkerRecord, WorkerPc, DrainPc
  <1>0. worker[w] \in WorkerRecord
    BY DEF TypeInv, WorkerInv
  <1>1. CASE DrainList(w)
    <2> DEFINE n == [worker[w] EXCEPT !.pc = "claim",
                                      !.listing = {t \in Task : jobFile[t].at = "pending"}]
    <2>1. worker' = [worker EXCEPT ![w] = n] /\ worker[w].pc = "idle"
          /\ UNCHANGED <<jobFile, runs>>
      BY <1>1 DEF DrainList
    <2> QED
      BY <1>0, <2>1 DEF CalmStep
  <1>2. CASE DrainDone(w)
    <2> DEFINE n == [worker[w] EXCEPT !.pc = "next"]
    <2>1. worker' = [worker EXCEPT ![w] = n] /\ worker[w].pc = "claim"
          /\ UNCHANGED <<jobFile, runs>>
      BY <1>2 DEF DrainDone
    <2> QED
      BY <1>0, <2>1 DEF CalmStep
  <1>3. CASE BatchDone(w) \/ (Abort(w) /\ UNCHANGED <<jobFile, runs>>)
    BY <1>3, AbortCalm DEF BatchDone, CalmStep
  <1>4. ASSUME NEW t \in Task, worker[w].pc = "claim", PassOver(w, t),
               UNCHANGED <<jobFile, runs>>
        PROVE  CalmStep(w)
    <2> DEFINE n == [worker[w] EXCEPT !.listing = worker[w].listing \ {t}]
    <2>1. worker' = [worker EXCEPT ![w] = n]
      BY <1>4 DEF PassOver
    <2> QED
      BY <1>0, <1>4, <2>1 DEF CalmStep
  <1> QED
    BY <1>1, <1>2, <1>3, <1>4

\* A rename that succeeds gives the job to one worker: nobody else has it.
LEMMA ClaimOnce ==
  ASSUME TypeInv, OnceInv, NEW w \in Worker, NEW t \in Task, Claim(w, t), UNCHANGED upload
  PROVE  OnceInv' /\ WorkerInv' /\ QueueInv'
  <1>1. CASE CalmStep(w)
    BY <1>1, CalmKeeps
  <1>2. CASE ~CalmStep(w)
    <2> DEFINE n == [worker[w] EXCEPT !.pc = "read", !.task = t,
                                      !.listing = worker[w].listing \ {t}]
    <2>1. /\ worker[w].pc = "claim" /\ jobFile[t].at = "pending" /\ Rename(t)
          /\ worker' = [worker EXCEPT ![w] = n] /\ runs' = runs
      BY <1>2, DrainCalm DEF Claim
    <2>2. Good(n) /\ n.pc = "read" /\ n.task = t /\ n.batch = worker[w].batch
      BY DEF TypeInv, WorkerInv, Good, WorkerRecord, WorkerPc, DrainPc
    <2> HIDE DEF n
    <2>3. WorkerInv' /\ worker'[w] = n /\ \A v \in Worker \ {w} : worker'[v] = worker[v]
      BY <2>1, <2>2, WorkerGoesOn DEF Becomes, TypeInv
    <2>4. /\ jobFile' \in [Task -> JobFile] /\ jobFile'[t].at = "processing"
          /\ \A u \in Task \ {t} : jobFile'[u] = jobFile[u]
      BY <2>1, UpdateAt DEF Rename, TypeInv
    <2>5. JobInv(t)'
      <3>1. JobInv(t)
        BY DEF OnceInv
      <3>2. \A v \in Worker : ~Reading(worker[v], t) /\ t \notin worker[v].batch
        BY <2>1, <3>1 DEF JobInv
      <3> QED
        BY <2>1, <2>2, <2>3, <2>4, <3>1, <3>2 DEF JobInv, Reading
    <2>6. ASSUME NEW u \in Task \ {t} PROVE JobInv(u)'
      <3>1. JobInv(u)
        BY DEF OnceInv
      <3> QED
        BY <2>1, <2>2, <2>3, <2>4, <3>1 DEF JobInv, Reading
    <2> QED
      BY <2>1, <2>3, <2>4, <2>5, <2>6 DEF OnceInv, TypeInv, QueueInv
  <1> QED
    BY <1>1, <1>2

LEMMA ReadOnce ==
  ASSUME TypeInv, OnceInv, NEW w \in Worker, ReadJob(w), UNCHANGED upload
  PROVE  OnceInv' /\ WorkerInv' /\ QueueInv'
  <1>1. CASE CalmStep(w)
    BY <1>1, CalmKeeps
  <1>2. CASE ~CalmStep(w)
    <2> DEFINE t == worker[w].task
               n == [worker[w] EXCEPT !.pc = "remove", !.batch = worker[w].batch \cup {t}]
    <2>1. /\ worker[w].pc = "read" /\ worker' = [worker EXCEPT ![w] = n]
          /\ UNCHANGED <<jobFile, runs>>
      BY <1>2, DrainCalm DEF ReadJob
    <2>2. /\ Good(n) /\ t \in Task /\ n.pc = "remove" /\ n.task = t
          /\ n.batch = worker[w].batch \cup {t}
      BY <2>1 DEF TypeInv, WorkerInv, Good, WorkerRecord, WorkerPc, DrainPc
    <2> HIDE DEF n
    <2>3. WorkerInv' /\ worker'[w] = n /\ \A v \in Worker \ {w} : worker'[v] = worker[v]
      BY <2>1, <2>2, WorkerGoesOn DEF Becomes, TypeInv
    <2>4. JobInv(t)'
      <3>1. JobInv(t) /\ Reading(worker[w], t)
        BY <2>1, <2>2 DEF OnceInv, Reading
      <3>2. \A v \in Worker : t \notin worker[v].batch
        BY <2>1, <2>2, <3>1 DEF JobInv, Reading
      <3> QED
        BY <2>1, <2>2, <2>3, <3>1, <3>2 DEF JobInv, Reading
    <2>5. ASSUME NEW u \in Task \ {t} PROVE JobInv(u)'
      <3>1. JobInv(u)
        BY DEF OnceInv
      <3> QED
        BY <2>1, <2>2, <2>3, <3>1 DEF JobInv, Reading
    <2> QED
      BY <2>1, <2>2, <2>3, <2>4, <2>5 DEF OnceInv, TypeInv, QueueInv
  <1> QED
    BY <1>1, <1>2

LEMMA RemoveOnce ==
  ASSUME TypeInv, OnceInv, NEW w \in Worker, RemoveJob(w), UNCHANGED upload
  PROVE  OnceInv' /\ WorkerInv' /\ QueueInv'
  <1>1. CASE CalmStep(w)
    BY <1>1, CalmKeeps
  <1>2. CASE ~CalmStep(w)
    <2>1. worker[w].pc = "remove" /\ worker[w].task \in Task
      BY <1>2, DrainCalm DEF RemoveJob, TypeInv, WorkerInv, Good
    <2>2. PICK t \in Task : t = worker[w].task
      BY <2>1
    <2> DEFINE n == [worker[w] EXCEPT !.pc = "claim", !.task = NoTask]
    <2>3. /\ worker[w].pc = "remove" /\ worker' = [worker EXCEPT ![w] = n]
          /\ jobFile' = [jobFile EXCEPT ![t].at = "gone"] /\ runs' = runs
      BY <1>2, <2>2, DrainCalm DEF RemoveJob
    <2>4. Good(n) /\ n.pc = "claim" /\ n.batch = worker[w].batch
      BY <2>3, <2>2 DEF TypeInv, WorkerInv, Good, WorkerRecord, WorkerPc, DrainPc
    <2> HIDE DEF n
    <2>5. WorkerInv' /\ worker'[w] = n /\ \A v \in Worker \ {w} : worker'[v] = worker[v]
      BY <2>3, <2>4, WorkerGoesOn DEF Becomes, TypeInv
    <2>6. /\ jobFile' \in [Task -> JobFile] /\ jobFile'[t].at = "gone"
          /\ \A u \in Task \ {t} : jobFile'[u] = jobFile[u]
      BY <2>3, <2>4, UpdateAt DEF TypeInv
    <2>7. JobInv(t)'
      <3>1. JobInv(t) /\ Reading(worker[w], t)
        BY <2>3, <2>2 DEF OnceInv, Reading
      <3>2. upload[t] \notin {"idle", "create", "open"}
        BY <3>1 DEF JobInv
      <3>3. runs[t] = 0 /\ runs'[t] <= 1 /\ upload'[t] = upload[t]
        BY <2>3, <3>1 DEF JobInv
      <3>4. \A v \in Worker : ~Reading(worker'[v], t)
        BY <2>4, <2>5, <3>1 DEF JobInv, Reading
      <3>5. \A v \in Worker : worker'[v].batch = worker[v].batch
        BY <2>4, <2>5
      <3> QED
        BY <2>3, <2>6, <3>1, <3>2, <3>3, <3>4, <3>5 DEF JobInv
    <2>8. ASSUME NEW u \in Task \ {t} PROVE JobInv(u)'
      <3>1. JobInv(u)
        BY DEF OnceInv
      <3> QED
        BY <2>3, <2>4, <2>5, <2>6, <2>2, <3>1 DEF JobInv, Reading
    <2> QED
      BY <2>3, <2>4, <2>5, <2>6, <2>7, <2>8 DEF OnceInv, TypeInv, QueueInv
  <1> QED
    BY <1>1, <1>2

\* A job is run when it leaves the one batch it is in.
LEMMA TakeOnce ==
  ASSUME TypeInv, OnceInv, NEW w \in Worker, NEW t \in Task, TakeJob(w, t),
         UNCHANGED upload
  PROVE  OnceInv' /\ WorkerInv' /\ QueueInv'
  <1> DEFINE n == [worker[w] EXCEPT !.pc = "parse", !.task = t,
                                    !.batch = worker[w].batch \ {t}]
  <1>1. /\ worker[w].pc = "next" /\ t \in worker[w].batch
        /\ worker' = [worker EXCEPT ![w] = n]
        /\ runs' = [runs EXCEPT ![t] = runs[t] + 1] /\ jobFile' = jobFile
    BY DEF TakeJob
  <1>2. Good(n) /\ n.pc = "parse" /\ n.batch = worker[w].batch \ {t}
    BY DEF TypeInv, WorkerInv, Good, WorkerRecord, WorkerPc, TryPc
  <1> HIDE DEF n
  <1>3. WorkerInv' /\ worker'[w] = n /\ \A v \in Worker \ {w} : worker'[v] = worker[v]
    BY <1>1, <1>2, WorkerGoesOn DEF Becomes, TypeInv
  <1>4. QueueInv'
    BY <1>1 DEF TypeInv, QueueInv
  <1>5. JobInv(t)'
    <2>1. JobInv(t)
      BY DEF OnceInv
    <2>2. jobFile[t].at = "gone" /\ runs[t] = 0 /\ runs'[t] = 1
      BY <1>1, <2>1 DEF JobInv, TypeInv, QueueInv
    <2>3. \A v \in Worker : ~Reading(worker[v], t) /\ (t \in worker[v].batch => v = w)
      BY <1>1, <2>1, <2>2 DEF JobInv
    <2> QED
      BY <1>1, <1>2, <1>3, <2>1, <2>2, <2>3 DEF JobInv, Reading
  <1>6. ASSUME NEW u \in Task \ {t} PROVE JobInv(u)'
    <2>1. JobInv(u) /\ runs'[u] = runs[u]
      BY <1>1 DEF OnceInv, TypeInv, QueueInv
    <2> QED
      BY <1>1, <1>2, <1>3, <2>1 DEF JobInv, Reading
  <1> QED
    BY <1>3, <1>4, <1>5, <1>6 DEF OnceInv

LEMMA DrainOnce ==
  ASSUME TypeInv, OnceInv, NEW w \in Worker, Drain(w)
  PROVE  TypeInv' /\ OnceInv'
  <1>1. DataInv' /\ BoundInv' /\ DeletionInv' /\ UNCHANGED upload
    BY DrainData
  <1>2. CASE DrainList(w) \/ DrainDone(w) \/ BatchDone(w)
    BY <1>1, <1>2, DrainCalm, CalmKeeps DEF TypeInv
  <1>3. CASE \E t \in Task : Claim(w, t) \/ TakeJob(w, t)
    BY <1>1, <1>3, ClaimOnce, TakeOnce DEF TypeInv
  <1>4. CASE ReadJob(w) \/ RemoveJob(w)
    BY <1>1, <1>4, ReadOnce, RemoveOnce DEF TypeInv
  <1> QED
    BY <1>2, <1>3, <1>4 DEF Drain

LEMMA WorkerCrashOnce ==
  ASSUME TypeInv, OnceInv, NEW w \in Worker, WorkerCrash(w)
  PROVE  TypeInv' /\ OnceInv'
  <1>1. CalmStep(w) /\ UNCHANGED upload
    BY AbortCalm DEF WorkerCrash, Crashes, CalmStep, historyVars
  <1>2. DataInv' /\ BoundInv' /\ DeletionInv'
    BY LocalAssumption DEF WorkerCrash, Crashes, historyVars, TypeInv, DataInv, BoundInv,
       DeletionInv
  <1> QED
    BY <1>1, <1>2, CalmKeeps DEF TypeInv

-----------------------------------------------------------------------------
(* Uploads, crashes of the web process and deletions *)

\* Only the upload's own step puts a job into the pending directory.
LEMMA UploadOnce ==
  ASSUME TypeInv, OnceInv, NEW t \in Task, UploadStep(t)
  PROVE  TypeInv' /\ OnceInv'
  <1> USE DEF UploadStep, UploadStore, UploadCreate, UploadOpenJob, UploadWriteJob,
          UploadMarkFailed
  <1>1. UNCHANGED uploadFrame
    OBVIOUS
  <1>2. PICK pc \in UploadState : upload' = [upload EXCEPT ![t] = pc]
    BY DEF StepUpload, UploadState
  <1>3. documents' \subseteq Task /\ status' \in [Task -> Status] /\ BoundInv'
    <2>1. documents' \subseteq Task
      BY DEF TypeInv, DataInv
    <2>2. status' \in [Task -> Status]
      BY DEF TypeInv, DataInv, Status
    <2> QED
      BY <1>1, <2>1, <2>2, SpentInv DEF uploadFrame, TypeInv, Works, historyVars
  <1>4. DataInv' /\ WorkerInv' /\ DeletionInv' /\ UNCHANGED <<worker, runs>>
    BY <1>1, <1>2, <1>3 DEF uploadFrame, historyVars, TypeInv, DataInv, WorkerInv,
       DeletionInv
  <1>5. CASE UploadOpenJob(t) /\ jobFile' # jobFile
    <2>1. /\ upload[t] = "open" /\ pc = "write"
          /\ jobFile' = [jobFile EXCEPT ![t].at = "pending"]
      BY <1>2, <1>5 DEF StepUpload, TypeInv, DataInv
    <2>2. /\ jobFile' \in [Task -> JobFile] /\ jobFile'[t].at = "pending"
          /\ \A u \in Task \ {t} : jobFile'[u] = jobFile[u]
      BY <2>1, UpdateAt DEF TypeInv
    <2>3. JobInv(t)'
      <3>1. JobInv(t)
        BY DEF OnceInv
      <3>2. \A v \in Worker : ~Reading(worker[v], t) /\ t \notin worker[v].batch
        BY <2>1, <3>1 DEF JobInv
      <3> QED
        BY <1>2, <1>4, <2>1, <2>2, <3>1, <3>2 DEF JobInv, TypeInv, DataInv
    <2>4. ASSUME NEW u \in Task \ {t} PROVE JobInv(u)'
      BY <1>2, <1>4, <2>2 DEF OnceInv, JobInv, TypeInv, DataInv
    <2> QED
      BY <1>3, <1>4, <2>2, <2>3, <2>4 DEF OnceInv, TypeInv, QueueInv
  <1>6. CASE ~(UploadOpenJob(t) /\ jobFile' # jobFile)
    <2>1. /\ jobFile' \in [Task -> JobFile]
          /\ \A u \in Task : jobFile'[u].at = jobFile[u].at
      <3>1. CASE jobFile' = jobFile
        BY <3>1 DEF TypeInv, QueueInv
      <3>2. CASE jobFile' # jobFile
        BY <1>6, <3>2, UpdateWhole DEF TypeInv
      <3> QED
        BY <3>1, <3>2
    <2>2. pc \in {"create", "open"} => upload[t] \in {"idle", "create"}
      BY <1>2 DEF StepUpload, TypeInv, DataInv
    <2>3. ASSUME NEW u \in Task PROVE JobInv(u)'
      <3>1. JobInv(u)
        BY DEF OnceInv
      <3>2. upload'[u] \in {"idle", "create", "open"} =>
              upload[u] \in {"idle", "create", "open"}
        BY <1>2, <2>2 DEF TypeInv, DataInv, StepUpload
      <3> QED
        BY <1>4, <2>1, <3>1, <3>2 DEF JobInv
    <2> QED
      BY <1>3, <1>4, <2>1, <2>3 DEF OnceInv, TypeInv, QueueInv
  <1> QED
    BY <1>5, <1>6


\* What leaves the jobs and the workers alone.
LEMMA Untouched ==
  ASSUME TypeInv, OnceInv, DataInv', BoundInv', DeletionInv',
         UNCHANGED <<jobFile, worker, runs>>,
         \A t \in Task : upload'[t] \in {"idle", "create", "open"} => upload'[t] = upload[t]
  PROVE  TypeInv' /\ OnceInv'
  <1>1. QueueInv' /\ WorkerInv'
    BY DEF TypeInv, QueueInv, WorkerInv
  <1>2. OnceInv'
    BY DEF OnceInv, JobInv
  <1> QED
    BY <1>1, <1>2 DEF TypeInv

LEMMA WebCrashOnce ==
  ASSUME TypeInv, OnceInv, WebCrash
  PROVE  TypeInv' /\ OnceInv'
  <1> USE DEF WebCrash, Crashes, historyVars
  <1>1. BoundInv'
    BY LocalAssumption DEF TypeInv, BoundInv
  <1>2. DataInv'
    BY DEF TypeInv, DataInv, UploadState
  <1>3. DeletionInv'
    <2>1. ASSUME NEW d \in Request
          PROVE  deletion'[d] \in DeletionRecord /\ Aimed(deletion'[d])
      BY DEF TypeInv, DeletionInv, DeletionRecord, Aimed, DeletePc
    <2> QED
      BY <2>1 DEF DeletionInv
  <1>4. \A t \in Task : upload'[t] \in {"idle", "create", "open"} => upload'[t] = upload[t]
    OBVIOUS
  <1> QED
    BY <1>1, <1>2, <1>3, <1>4, Untouched

LEMMA StepDeletionInv ==
  ASSUME DeletionInv, NEW d \in Request, deletion[d].pc \in DeletePc,
         NEW pc \in {"record", "risks", "segments", "unlink", "ok", "failed"},
         StepDeletion(d, pc)
  PROVE  DeletionInv'
  <1> DEFINE n == [deletion[d] EXCEPT !.pc = pc]
  <1>1. n \in DeletionRecord /\ Aimed(n)
    BY DEF DeletionInv, DeletionRecord, Aimed, DeletePc
  <1>2. deletion' = [deletion EXCEPT ![d] = n]
    BY DEF StepDeletion
  <1> HIDE DEF n
  <1> QED
    BY <1>1, <1>2 DEF DeletionInv

LEMMA DeletionOnce ==
  ASSUME TypeInv, OnceInv, NEW d \in Request,
         EraseStep(d) \/ \E t \in Task : DeleteStart(d, t)
  PROVE  TypeInv' /\ OnceInv'
  <1>1. CASE EraseStep(d)
    <2> USE <1>1 DEF EraseStep, DeleteObject, DeleteLookup, DeleteResults, DeleteUnlink
    <2>1. deletion[d].pc \in DeletePc /\ deletion[d].task \in Task
      BY DEF DeletePc, TypeInv, DeletionInv, Aimed
    <2>2. DeletionInv'
      <3>1. \E pc \in {"record", "risks", "segments", "unlink", "ok", "failed"} :
              StepDeletion(d, pc)
        OBVIOUS
      <3> QED
        BY <2>1, <3>1, StepDeletionInv DEF TypeInv
    <2>3. UNCHANGED <<deleteFrame, overlap>> /\ (Works \/ Throws)
      BY DEF Works
    <2>4. documents' \subseteq Task /\ confirmed' \subseteq Task
      BY <2>1 DEF TypeInv, DataInv
    <2>5. status' \in [Task -> Status]
      BY <2>1 DEF TypeInv, DataInv, Status
    <2>6. results' \in [Task -> SUBSET Tables]
      BY <2>1 DEF TypeInv, DataInv, DropFile
    <2>7. DataInv' /\ BoundInv'
      BY <2>3, <2>4, <2>5, <2>6, SpentInv DEF deleteFrame, TypeInv, DataInv
    <2> QED
      BY <2>2, <2>3, <2>7, Untouched DEF deleteFrame
  <1>2. ASSUME NEW t \in Task, DeleteStart(d, t)
        PROVE  TypeInv' /\ OnceInv'
    <2> USE <1>2 DEF DeleteStart
    <2>1. DeletionInv'
      <3>1. [pc |-> "object", task |-> t] \in DeletionRecord
            /\ Aimed([pc |-> "object", task |-> t])
        BY DEF DeletionRecord, Aimed, DeletePc
      <3> QED
        BY <3>1 DEF TypeInv, DeletionInv
    <2>2. DataInv' /\ BoundInv'
      BY DEF TypeInv, DataInv, BoundInv, deleteFrame
    <2> QED
      BY <2>1, <2>2, Untouched DEF deleteFrame
  <1> QED
    BY <1>1, <1>2

-----------------------------------------------------------------------------

LEMMA InitOnce == Init => OnceInv
BY DEF Init, OnceInv, JobInv, Reading, IdleWorker

LEMMA NextOnce ==
  TypeInv /\ OnceInv /\ [Next]_vars => TypeInv' /\ OnceInv'
  <1> SUFFICES ASSUME TypeInv, OnceInv, [Next]_vars
               PROVE  TypeInv' /\ OnceInv'
    OBVIOUS
  <1>1. CASE Next
    <2>1. CASE WebCrash
      BY <2>1, WebCrashOnce
    <2>2. CASE \E t \in Task : UploadStep(t)
      BY <2>2, UploadOnce
    <2>3. CASE \E w \in Worker : Drain(w) \/ Process(w) \/ WorkerCrash(w)
      BY <2>3, DrainOnce, ProcessOnce, WorkerCrashOnce
    <2>4. CASE \E d \in Request : EraseStep(d) \/ \E t \in Task : DeleteStart(d, t)
      BY <2>4, DeletionOnce
    <2> QED
      BY <1>1, <2>1, <2>2, <2>3, <2>4 DEF Next
  <1>2. CASE UNCHANGED vars
    <2>1. DataInv' /\ BoundInv' /\ DeletionInv'
      BY <1>2 DEF vars, historyVars, boundVars, TypeInv, DataInv, BoundInv, DeletionInv
    <2> QED
      BY <1>2, <2>1, Untouched DEF vars, historyVars
  <1> QED
    BY <1>1, <1>2

LEMMA AlwaysOnce == Spec => [](TypeInv /\ OnceInv)
  <1>1. Init => TypeInv /\ OnceInv
    BY TypeInit, InitOnce
  <1> QED
    BY <1>1, NextOnce, PTL DEF Spec

\* Type correctness of the local drivers, for every instance.
THEOREM LocalTypeCorrect == Spec => []TypeOK
  <1>1. TypeInv /\ OnceInv => TypeOK
    BY TypeInvImpliesTypeOK
  <1> QED
    BY <1>1, AlwaysOnce, PTL

\* However many workers drain the directory, and wherever they fail or die, no
\* job is processed twice: drainMemoryTaskJobs hands it to one of them once.
THEOREM JobRunsOnce == Spec => []RunOnce
  <1>1. OnceInv => RunOnce
    BY DEF OnceInv, JobInv, RunOnce
  <1> QED
    BY <1>1, AlwaysOnce, PTL

-----------------------------------------------------------------------------
(* A task's files.  A job is run once, after its file was complete and the *)
(* upload was over; where its worker is in processTaskJob then tells what  *)
(* the files hold, unless a deletion works on them too.                    *)

RunPc == TryPc \cup CatchPc

\* Worker w runs processTaskJob for task t.
Handles(w, t) == worker[w].task = t /\ worker[w].pc \in RunPc

Unqueued == {"idle", "create", "open", "write", "markFailed"}

\* An incomplete job does not run, and of a task one worker has the run.
OneRun(t) ==
  /\ upload[t] \in Unqueued => ~jobFile[t].whole
  /\ ~jobFile[t].whole => runs[t] = 0 /\ \A w \in Worker : t \notin worker[w].batch
  /\ \A w \in Worker : Handles(w, t) =>
       runs[t] = 1 /\ \A v \in Worker : Handles(v, t) => v = w

\* The files that have been written, and removed, when processTaskJob is at pc.
Filled(pc) ==
  CASE pc = "segments" -> {"risk_findings"}
    [] pc = "rewrites" -> {"risk_findings", "document_segments"}
    [] pc = "complete" -> Tables
    [] OTHER -> {}

Emptied(pc) ==
  CASE pc = "dropSegments" -> {"risk_findings"}
    [] pc = "dropRewrites" -> {"risk_findings", "document_segments"}
    [] pc \in {"fail", "parse"} -> Tables
    [] OTHER -> {}

RunFits(pc, t) ==
  /\ status[t] # "completed"
  /\ pc \in {"scan", "risks", "segments", "rewrites", "complete"} =>
       status[t] \in {"processing", "absent"}
  /\ Filled(pc) \subseteq results[t]
  /\ Emptied(pc) \cap results[t] = {}

DataFits(t) ==
  /\ status[t] = "completed" => results[t] = Tables
  /\ status[t] \in {"failed", "queued"} => results[t] = {}
  /\ runs[t] = 0 => status[t] \in {"absent", "queued", "failed"} /\ results[t] = {}

FilesFit(t) ==
  DataFits(t) /\ \A w \in Worker : Handles(w, t) => RunFits(worker[w].pc, t)

Undeleted(t) == \A d \in Request : deletion[d].task # t

-----------------------------------------------------------------------------
(* A deletion removes a file after the other; unless a worker runs         *)
(* meanwhile none comes back, and a run that comes later finds no task.    *)
(* B is a set of tasks whose findings someone else may have written again: *)
(* nobody here, but see LocalDecisions.                                    *)

\* What a deletion of t that is at pc has removed already.
Removed(B, pc, t) ==
  /\ pc \in {"record", "risks", "segments", "unlink"} => t \notin documents
  /\ pc \in {"segments", "unlink"} => t \in B \/ "risk_findings" \notin results[t]
  /\ pc = "unlink" => "document_segments" \notin results[t]

\* What may be left when the deletion is over.
Leftover(B, t) ==
  {"rewrite_options"} \cup (IF t \in B THEN {"risk_findings"} ELSE {})

\* A run of a task that is gone ends in the catch block.
InVain(o) == o.pc \in {"parse"} \cup CatchPc /\ ~o.updating

Quiet(B, t) ==
  /\ UnderDeletion(t) => \A w \in Worker : ~Handles(w, t)
  /\ \A d \in Request : deletion[d].task = t => Removed(B, deletion[d].pc, t)
  /\ t \in confirmed =>
       /\ ~Exists(t) /\ t \notin documents /\ results[t] \subseteq Leftover(B, t)
       /\ \A w \in Worker : Handles(w, t) => InVain(worker[w])

TaskInv(B, t) ==
  /\ OneRun(t)
  /\ Undeleted(t) => FilesFit(t)
  /\ t \in confirmed \/ ~Undeleted(t) => upload[t] = "accepted"
  /\ t \notin overlap => Quiet(B, t)

\* Only between the read and the write of an update is there something to
\* write, and a request has one task.
StepInv ==
  /\ \A w \in Worker : worker[w].updating => worker[w].pc \in UpdatePc
  /\ \A d \in Request : deletion[d].pc = "idle" => deletion[d].task = NoTask

FilesInv(B) == StepInv /\ \A t \in Task : TaskInv(B, t)

\* A step that does nothing to task u.
Calmly(u) ==
  /\ status'[u] = status[u] /\ results'[u] = results[u]
  /\ runs'[u] = runs[u] /\ upload'[u] = upload[u]
  /\ jobFile'[u].whole = jobFile[u].whole
  /\ \A w \in Worker : Handles(w, u)' =>
       /\ Handles(w, u) /\ worker'[w].pc = worker[w].pc
       /\ worker'[w].updating => worker[w].updating
  /\ \A w \in Worker : u \in worker'[w].batch => u \in worker[w].batch \/ jobFile[u].whole
  /\ \A d \in Request : \/ deletion'[d] = deletion[d]
                        \/ deletion[d].task # u /\ deletion'[d].task # u
  /\ u \in confirmed' => u \in confirmed
  /\ u \in documents' => u \in documents
  /\ u \in overlap => u \in overlap'

LEMMA CalmlyKeeps ==
  ASSUME NEW B, NEW u \in Task, TaskInv(B, u), Calmly(u)
  PROVE  TaskInv(B, u)'
  <1>1. OneRun(u)'
    BY DEF TaskInv, OneRun, Calmly
  <1>2. (Undeleted(u)' <=> Undeleted(u)) /\ (UnderDeletion(u)' => UnderDeletion(u))
    BY DEF Calmly, Undeleted, UnderDeletion
  <1>3. DataFits(u) => DataFits(u)'
    BY DEF Calmly, DataFits
  <1>4. FilesFit(u) => FilesFit(u)'
    BY <1>3 DEF Calmly, FilesFit, RunFits
  <1>5. ASSUME Quiet(B, u) PROVE Quiet(B, u)'
    <2>1. \A d \in Request : deletion'[d].task = u =>
            deletion'[d] = deletion[d] /\ Removed(B, deletion[d].pc, u)'
      BY <1>5 DEF Quiet, Calmly, Removed
    <2>2. \A w \in Worker : Handles(w, u)' /\ InVain(worker[w]) => InVain(worker'[w])
      BY DEF Calmly, InVain
    <2>3. UnderDeletion(u)' => \A w \in Worker : ~Handles(w, u)'
      BY <1>2, <1>5 DEF Quiet, Calmly
    <2>4. \A d \in Request : deletion'[d].task = u => Removed(B, deletion[d].pc, u)'
      BY <2>1 DEF Removed
    <2>5. u \in confirmed' =>
            /\ ~Exists(u)' /\ u \notin documents' /\ results'[u] \subseteq Leftover(B, u)
            /\ \A w \in Worker : Handles(w, u)' => InVain(worker'[w])
      BY <1>5, <2>2 DEF Quiet, Calmly, Exists
    <2> QED BY <2>3, <2>4, <2>5 DEF Quiet, InVain
  <1>6. u \notin overlap' => Quiet(B, u)'
    BY <1>5 DEF TaskInv, Calmly
  <1> QED BY <1>1, <1>2, <1>4, <1>6 DEF TaskInv, Calmly

-----------------------------------------------------------------------------
(* Upload handlers and the web process *)

LEMMA UploadElsewhere ==
  ASSUME TypeInv, NEW t \in Task, UploadStep(t), NEW u \in Task \ {t}
  PROVE  Calmly(u)
  <1> USE DEF UploadStep, UploadStore, UploadCreate, UploadOpenJob, UploadWriteJob,
          UploadMarkFailed
  <1>1. UNCHANGED uploadFrame
    OBVIOUS
  <1>2. upload'[u] = upload[u] /\ status'[u] = status[u]
    BY DEF StepUpload, TypeInv, DataInv
  <1>3. jobFile'[u] = jobFile[u]
    BY DEF TypeInv, QueueInv
  <1>4. u \in documents' => u \in documents
    OBVIOUS
  <1> QED
    BY <1>1, <1>2, <1>3, <1>4 DEF Calmly, uploadFrame, historyVars, Handles

LEMMA UploadFiles ==
  ASSUME NEW B, TypeInv, NEW t \in Task, UploadStep(t), TaskInv(B, t)
  PROVE  TaskInv(B, t)'
  <1> USE DEF UploadStep, UploadStore, UploadCreate, UploadOpenJob, UploadWriteJob,
          UploadMarkFailed
  <1>1. UNCHANGED <<results, worker, deletion, confirmed, overlap, runs>>
    BY DEF uploadFrame, historyVars
  <1>2. upload[t] \in Unqueued /\ ~jobFile[t].whole
    BY DEF Unqueued, TaskInv, OneRun
  <1>3. runs[t] = 0 /\ \A w \in Worker : t \notin worker[w].batch
    BY <1>2 DEF TaskInv, OneRun
  <1>4. \A w \in Worker : ~Handles(w, t)
    BY <1>3 DEF TaskInv, OneRun
  <1>5. upload[t] # "accepted" /\ t \notin confirmed /\ Undeleted(t)
    BY <1>2 DEF Unqueued, TaskInv
  <1>6. upload'[t] \in Unqueued => ~jobFile'[t].whole
    <2>1. CASE UploadWriteJob(t) /\ upload'[t] = "accepted"
      BY <2>1 DEF Unqueued
    <2>2. CASE jobFile' = jobFile
      BY <1>2, <2>2
    <2>3. CASE jobFile' = [jobFile EXCEPT ![t].at = "pending"]
      BY <1>2, <2>3 DEF TypeInv, QueueInv, JobFile
    <2> QED BY <2>1, <2>2, <2>3 DEF StepUpload, TypeInv, DataInv
  <1>7. status'[t] = status[t] \/ status'[t] \in {"queued", "failed"}
    BY DEF TypeInv, DataInv
  <1>8. OneRun(t)'
    BY <1>1, <1>3, <1>4, <1>6 DEF OneRun, Handles
  <1>9. FilesFit(t)'
    <2>1. status[t] \in {"absent", "queued", "failed"} /\ results[t] = {}
      BY <1>3, <1>5 DEF TaskInv, FilesFit, DataFits
    <2>2. DataFits(t)'
      BY <1>1, <1>7, <2>1 DEF DataFits
    <2> QED BY <1>1, <1>4, <2>2 DEF FilesFit, Handles
  <1>10. Undeleted(t)' /\ ~UnderDeletion(t)' /\ t \notin confirmed'
    BY <1>1, <1>5 DEF Undeleted, UnderDeletion
  <1>11. Quiet(B, t)'
    BY <1>10 DEF Quiet, Undeleted
  <1> QED BY <1>8, <1>9, <1>10, <1>11 DEF TaskInv

LEMMA WebCrashFiles ==
  ASSUME NEW B, TypeInv, WebCrash, NEW u \in Task, TaskInv(B, u)
  PROVE  TaskInv(B, u)'
  <1>1. UNCHANGED <<status, results, jobFile, worker, confirmed, runs, overlap>>
        /\ documents' = {}
    BY DEF WebCrash, historyVars
  <1>2. upload'[u] = upload[u] \/ (upload[u] \in InFlight /\ upload'[u] = "crashed")
    BY DEF WebCrash
  <1>3. \A d \in Request : /\ deletion'[d].task = deletion[d].task
                           /\ deletion'[d].pc \notin DeletePc
    <2>1. \A d \in Request :
            \/ deletion[d].pc \in DeletePc /\ deletion'[d] = [deletion[d] EXCEPT !.pc = "crashed"]
            \/ deletion[d].pc \notin DeletePc /\ deletion'[d] = deletion[d]
      BY DEF WebCrash
    <2>2. \A d \in Request : deletion[d] \in DeletionRecord
      BY DEF TypeInv, DeletionInv
    <2> QED BY <2>1, <2>2 DEF DeletionRecord, DeletePc
  <1>4. OneRun(u)'
    BY <1>1, <1>2 DEF TaskInv, OneRun, Handles, Unqueued
  <1>5. FilesFit(u) => FilesFit(u)'
    BY <1>1 DEF FilesFit, DataFits, RunFits, Handles
  <1>6. Undeleted(u)' <=> Undeleted(u)
    BY <1>3 DEF Undeleted
  <1>7. Quiet(B, u) => Quiet(B, u)'
    <2>1. ~UnderDeletion(u)'
      BY <1>3 DEF UnderDeletion
    <2>2. \A d \in Request : Removed(B, deletion[d].pc, u)'
      BY <1>3 DEF Removed, DeletePc
    <2> QED BY <1>1, <2>1, <2>2 DEF Quiet, Exists, Handles, InVain, Removed
  <1>8. u \in confirmed' \/ ~Undeleted(u)' => upload'[u] = "accepted"
    BY <1>1, <1>2, <1>6 DEF TaskInv, InFlight
  <1> QED BY <1>1, <1>4, <1>5, <1>6, <1>7, <1>8 DEF TaskInv

-----------------------------------------------------------------------------
(* Deletions *)

LEMMA StartFiles ==
  ASSUME NEW B, TypeInv, StepInv, NEW d \in Request, NEW t \in Task, DeleteStart(d, t),
         NEW u \in Task, TaskInv(B, u)
  PROVE  TaskInv(B, u)'
  <1>1. UNCHANGED <<upload, documents, status, results, jobFile, worker, confirmed, runs>>
    BY DEF DeleteStart, deleteFrame
  <1>2. /\ deletion'[d] = [pc |-> "object", task |-> t] /\ deletion[d].task = NoTask
        /\ \A e \in Request \ {d} : deletion'[e] = deletion[e]
    BY DEF DeleteStart, TypeInv, DeletionInv, StepInv
  <1>3. CASE u # t
    <2>1. Calmly(u)
      BY <1>1, <1>2, <1>3, LocalAssumption DEF Calmly, Handles, DeleteStart
    <2> QED BY <2>1, CalmlyKeeps
  <1>4. CASE u = t
    <2>1. OneRun(t)'
      BY <1>1, <1>4 DEF TaskInv, OneRun, Handles
    <2>2. ~Undeleted(t)'
      BY <1>2 DEF Undeleted
    <2>3. upload'[t] = "accepted"
      BY <1>1 DEF DeleteStart
    <2>4. ASSUME t \notin overlap' PROVE Quiet(B, t)'
      <3>1. t \notin overlap /\ ~InHand(t)
        BY <2>4 DEF DeleteStart
      <3>2. Quiet(B, t) /\ t \notin confirmed
        BY <1>4, <3>1 DEF TaskInv, Quiet, DeleteStart
      <3>3. \A w \in Worker : ~Handles(w, t)'
        BY <1>1, <3>1 DEF InHand, Handles, RunPc
      <3>4. \A e \in Request : deletion'[e].task = t => Removed(B, deletion[e].pc, t)'
        BY <1>1, <1>2, <3>2 DEF Quiet, Removed
      <3> QED BY <1>1, <3>2, <3>3, <3>4 DEF Quiet, Removed
    <2> QED BY <1>4, <2>1, <2>2, <2>3, <2>4 DEF TaskInv
  <1> QED BY <1>3, <1>4

LEMMA EraseFiles ==
  ASSUME NEW B, TypeInv, NEW d \in Request, EraseStep(d), NEW u \in Task, TaskInv(B, u)
  PROVE  TaskInv(B, u)'
  <1>1. PICK t \in Task : t = deletion[d].task
    BY DEF EraseStep, DeleteObject, DeleteLookup, DeleteResults, DeleteUnlink, DeletePc,
       TypeInv, DeletionInv, Aimed
  <1>2. UNCHANGED <<upload, jobFile, worker, runs, overlap>>
    BY DEF EraseStep, DeleteObject, DeleteLookup, DeleteResults, DeleteUnlink, deleteFrame
  <1>3. PICK pc : StepDeletion(d, pc)
    BY DEF EraseStep, DeleteObject, DeleteLookup, DeleteResults, DeleteUnlink
  <1>4. /\ deletion'[d].task = t /\ deletion'[d].pc = pc
        /\ \A e \in Request \ {d} : deletion'[e] = deletion[e]
    BY <1>1, <1>3 DEF StepDeletion, TypeInv, DeletionInv, DeletionRecord
  <1>5. /\ documents' \subseteq documents /\ results'[t] \subseteq results[t]
        /\ status'[t] \in {status[t], "absent"}
        /\ \A v \in Task \ {t} : /\ status'[v] = status[v] /\ results'[v] = results[v]
                                 /\ v \in confirmed' => v \in confirmed
    BY <1>1 DEF EraseStep, DeleteObject, DeleteLookup, DeleteResults, DeleteUnlink,
       DropFile,
       TypeInv, DataInv
  <1>6. CASE u # t
    <2>1. Calmly(u)
      BY <1>1, <1>2, <1>4, <1>5, <1>6 DEF Calmly, Handles
    <2> QED BY <2>1, CalmlyKeeps
  <1>7. CASE u = t
    <2>1. OneRun(t)'
      BY <1>2, <1>7 DEF TaskInv, OneRun, Handles
    <2>2. ~Undeleted(t)' /\ ~Undeleted(t)
      BY <1>1, <1>4 DEF Undeleted
    <2>3. upload'[t] = "accepted"
      BY <1>2, <1>7, <2>2 DEF TaskInv
    <2>4. ASSUME t \notin overlap' PROVE Quiet(B, t)'
      <3>1. Quiet(B, t) /\ deletion[d].pc \in DeletePc
        BY <1>2, <1>7, <2>4 DEF TaskInv, EraseStep, DeleteObject, DeleteLookup,
           DeleteResults, DeleteUnlink, DeletePc
      <3>2. \A w \in Worker : ~Handles(w, t)'
        BY <1>1, <1>2, <3>1 DEF Quiet, UnderDeletion, Handles
      <3>3. \A e \in Request \ {d} : deletion'[e].task = t => Removed(B, deletion[e].pc, t)'
        BY <1>4, <1>5, <3>1 DEF Quiet, Removed
      <3>4. Removed(B, pc, t)'
        <4>1. Removed(B, deletion[d].pc, t)
          BY <1>1, <3>1 DEF Quiet
        <4>2. CASE pc \in {"ok", "failed"}
          BY <4>2 DEF Removed
        <4>3. CASE DeleteObject(d)
          BY <1>1, <1>3, <1>4, <4>3 DEF DeleteObject, Removed, StepDeletion, TypeInv,
             DeletionInv, DeletionRecord
        <4>4. CASE DeleteLookup(d)
          BY <1>1, <1>4, <4>1, <4>4 DEF DeleteLookup, Removed, StepDeletion, TypeInv,
             DeletionInv, DeletionRecord
        <4>5. CASE DeleteResults(d, "risks", "risk_findings", "segments") /\ pc = "segments"
          BY <1>1, <1>4, <4>1, <4>5 DEF DeleteResults, DropFile, Removed, StepDeletion,
             TypeInv, DeletionInv, DeletionRecord, DataInv
        <4>6. CASE DeleteResults(d, "segments", "document_segments", "unlink") /\ pc = "unlink"
          BY <1>1, <1>4, <4>1, <4>6 DEF DeleteResults, DropFile, Removed, StepDeletion,
             TypeInv, DeletionInv, DeletionRecord, DataInv
        <4>7. \/ DeleteObject(d) \/ DeleteLookup(d) \/ pc \in {"ok", "failed"}
              \/ DeleteResults(d, "risks", "risk_findings", "segments") /\ pc = "segments"
              \/ DeleteResults(d, "segments", "document_segments", "unlink") /\ pc = "unlink"
          BY <1>4 DEF EraseStep, DeleteResults, DeleteUnlink, StepDeletion, TypeInv,
             DeletionInv, DeletionRecord
        <4> QED BY <4>2, <4>3, <4>4, <4>5, <4>6, <4>7
      <3>5. t \in confirmed' =>
              ~Exists(t)' /\ t \notin documents' /\ results'[t] \subseteq Leftover(B, t)
        <4>1. CASE t \in confirmed
          BY <1>5, <3>1, <4>1 DEF Quiet, Exists
        <4>2. CASE DeleteUnlink(d) /\ status' = [status EXCEPT ![t] = "absent"]
          <5>1. Removed(B, "unlink", t)
            BY <1>1, <3>1, <4>2 DEF Quiet, DeleteUnlink
          <5>2. results[t] \subseteq Tables /\ status'[t] = "absent"
            BY <4>2 DEF TypeInv, DataInv
          <5> QED BY <1>5, <5>1, <5>2 DEF Removed, Leftover, Tables, Exists
        <4>3. t \in confirmed' =>
                t \in confirmed \/ (DeleteUnlink(d) /\ status' = [status EXCEPT ![t] = "absent"])
          BY <1>1 DEF EraseStep, DeleteObject, DeleteLookup, DeleteResults, DeleteUnlink
        <4> QED BY <4>1, <4>2, <4>3
      <3>6. \A e \in Request : deletion'[e].task = t => Removed(B, deletion[e].pc, t)'
        BY <1>4, <3>3, <3>4 DEF Removed
      <3> QED BY <3>2, <3>5, <3>6 DEF Quiet, Removed
    <2> QED BY <1>7, <2>1, <2>2, <2>3, <2>4 DEF TaskInv
  <1> QED BY <1>6, <1>7

-----------------------------------------------------------------------------
(* Workers *)

workerData == <<upload, documents, deletion, confirmed>>

LEMMA WorkerTypes ==
  ASSUME TypeInv, NEW w \in Worker
  PROVE  /\ worker \in [Worker -> WorkerRecord] /\ worker[w] \in WorkerRecord
         /\ worker[w].pc \in RunPc => worker[w].task \in Task
  BY DEF TypeInv, WorkerInv, Good, RunPc, TryPc, CatchPc

\* The worker goes on as n says, which is no run and has no incomplete job.
Passes(w, n) ==
  /\ worker' = [worker EXCEPT ![w] = n]
  /\ n.pc \notin RunPc
  /\ n.updating => worker[w].updating /\ worker[w].pc \notin UpdatePc
  /\ \A u \in n.batch : u \in worker[w].batch \/ jobFile[u].whole

LEMMA DrainPasses ==
  ASSUME TypeInv, NEW w \in Worker,
         \/ DrainList(w) \/ ReadJob(w) \/ RemoveJob(w) \/ DrainDone(w) \/ BatchDone(w)
         \/ WorkerCrash(w) \/ \E t \in Task : Claim(w, t)
  PROVE  \E n : Passes(w, n)
  <1> USE DEF RunPc, TryPc, CatchPc, UpdatePc
  <1>1. PICK o \in WorkerRecord : o = worker[w]
    BY WorkerTypes
  <1>2. CASE Abort(w)
    <2>1. Passes(w, IdleWorker)
      BY <1>2 DEF Abort, Passes, IdleWorker
    <2> QED BY <2>1
  <1>3. ASSUME NEW l, worker' = [worker EXCEPT ![w].pc = "claim", ![w].listing = l],
               o.pc = "idle"
        PROVE  \E n : Passes(w, n)
    <2> DEFINE n == [o EXCEPT !.pc = "claim", !.listing = l]
    <2>1. worker' = [worker EXCEPT ![w] = n]
      BY <1>1, <1>3
    <2>2. n.pc = "claim" /\ n.updating = o.updating /\ n.batch = o.batch
      BY DEF WorkerRecord
    <2> HIDE DEF n
    <2>3. Passes(w, n)
      BY <1>1, <1>3, <2>1, <2>2 DEF Passes
    <2> QED BY <2>3
  <1>4. CASE DrainDone(w)
    <2> DEFINE n == [o EXCEPT !.pc = "next"]
    <2>1. worker' = [worker EXCEPT ![w] = n] /\ o.pc = "claim"
      BY <1>1, <1>4 DEF DrainDone
    <2>2. n.pc = "next" /\ n.updating = o.updating /\ n.batch = o.batch
      BY DEF WorkerRecord
    <2> HIDE DEF n
    <2>3. Passes(w, n)
      BY <1>1, <2>1, <2>2 DEF Passes
    <2> QED BY <2>3
  <1>5. CASE RemoveJob(w) /\ ~Abort(w)
    <2> DEFINE n == [o EXCEPT !.pc = "claim", !.task = NoTask]
    <2>1. worker' = [worker EXCEPT ![w] = n] /\ o.pc = "remove"
      BY <1>1, <1>5 DEF RemoveJob
    <2>2. n.pc = "claim" /\ n.updating = o.updating /\ n.batch = o.batch
      BY DEF WorkerRecord
    <2> HIDE DEF n
    <2>3. Passes(w, n)
      BY <1>1, <2>1, <2>2 DEF Passes
    <2> QED BY <2>3
  <1>6. CASE ReadJob(w) /\ ~Abort(w)
    <2> DEFINE n == [o EXCEPT !.pc = "remove", !.batch = o.batch \cup {o.task}]
    <2>1. /\ worker' = [worker EXCEPT ![w] = n] /\ o.pc = "read"
          /\ jobFile[o.task].whole
      BY <1>1, <1>6 DEF ReadJob
    <2>2. /\ n.pc = "remove" /\ n.updating = o.updating
          /\ n.batch = o.batch \cup {o.task}
      BY DEF WorkerRecord
    <2> HIDE DEF n
    <2>3. Passes(w, n)
      BY <1>1, <2>1, <2>2 DEF Passes
    <2> QED BY <2>3
  <1>7. ASSUME NEW t \in Task, Claim(w, t), ~Abort(w) PROVE \E n : Passes(w, n)
    <2>1. o.pc = "claim"
      BY <1>1, <1>7 DEF Claim
    <2>2. CASE worker' = [worker EXCEPT ![w].pc = "read", ![w].task = t,
                                        ![w].listing = @ \ {t}]
      <3> DEFINE n == [o EXCEPT !.pc = "read", !.task = t, !.listing = o.listing \ {t}]
      <3>1. worker' = [worker EXCEPT ![w] = n]
        BY <1>1, <2>2
      <3>2. n.pc = "read" /\ n.updating = o.updating /\ n.batch = o.batch
        BY DEF WorkerRecord
      <3> HIDE DEF n
      <3>3. Passes(w, n)
        BY <1>1, <2>1, <3>1, <3>2 DEF Passes
      <3> QED BY <3>3
    <2>3. CASE PassOver(w, t)
      <3> DEFINE n == [o EXCEPT !.listing = o.listing \ {t}]
      <3>1. worker' = [worker EXCEPT ![w] = n]
        BY <1>1, <2>3 DEF PassOver
      <3>2. n.pc = o.pc /\ n.updating = o.updating /\ n.batch = o.batch
        BY DEF WorkerRecord
      <3> HIDE DEF n
      <3>3. Passes(w, n)
        BY <1>1, <2>1, <3>1, <3>2 DEF Passes
      <3> QED BY <3>3
    <2> QED BY <1>7, <2>2, <2>3 DEF Claim
  <1>8. CASE DrainList(w)
    BY <1>1, <1>3, <1>8 DEF DrainList
  <1> QED
    BY <1>2, <1>4, <1>5, <1>6, <1>7, <1>8 DEF BatchDone, WorkerCrash

\* A drain takes up no run but in TakeJob, and no incomplete job.
LEMMA DrainFiles ==
  ASSUME TypeInv, StepInv, NEW w \in Worker,
         \/ DrainList(w) \/ ReadJob(w) \/ RemoveJob(w) \/ DrainDone(w) \/ BatchDone(w)
         \/ WorkerCrash(w) \/ \E t \in Task : Claim(w, t)
  PROVE  StepInv' /\ \A u \in Task : Calmly(u)
  <1>1. UNCHANGED <<workerData, status, results, runs, overlap>>
    BY DEF DrainList, ReadJob, RemoveJob, DrainDone, BatchDone, WorkerCrash, Claim,
       workerData, workerFrame, historyVars
  <1>2. PICK n : Passes(w, n)
    BY DrainPasses
  <1>3. worker'[w] = n /\ \A v \in Worker \ {w} : worker'[v] = worker[v]
    BY <1>2, WorkerTypes DEF Passes
  <1>4. \A u \in Task : jobFile'[u].whole = jobFile[u].whole
    <2>1. ASSUME NEW t \in Task, NEW a, jobFile' = [jobFile EXCEPT ![t].at = a]
          PROVE  \A u \in Task : jobFile'[u].whole = jobFile[u].whole
      BY <2>1 DEF TypeInv, QueueInv, JobFile
    <2>2. worker[w].pc = "remove" => worker[w].task \in Task
      BY DEF TypeInv, WorkerInv, Good
    <2>3. \/ jobFile' = jobFile
          \/ \E t \in Task : \E a : jobFile' = [jobFile EXCEPT ![t].at = a]
      BY <2>2 DEF DrainList, ReadJob, RemoveJob, DrainDone, BatchDone, WorkerCrash, Claim,
         Rename
    <2> QED BY <2>1, <2>3
  <1>5. StepInv'
    BY <1>1, <1>2, <1>3 DEF StepInv, Passes, workerData
  <1>6. \A u \in Task : Calmly(u)
    BY <1>1, <1>2, <1>3, <1>4 DEF Calmly, Handles, Passes, workerData
  <1> QED BY <1>5, <1>6

LEMMA TakeFiles ==
  ASSUME NEW B, TypeInv, OnceInv, FilesInv(B), NEW w \in Worker, NEW t \in Task, TakeJob(w, t)
  PROVE  FilesInv(B)'
  <1>1. /\ worker[w].pc = "next" /\ t \in worker[w].batch
        /\ UNCHANGED <<workerData, status, results, jobFile>>
    BY DEF TakeJob, workerData, workerFrame
  <1>2. /\ worker'[w].pc = "parse" /\ worker'[w].task = t
        /\ worker'[w].batch = worker[w].batch \ {t}
        /\ worker'[w].updating = worker[w].updating
        /\ \A v \in Worker \ {w} : worker'[v] = worker[v]
    BY WorkerTypes DEF TakeJob, WorkerRecord
  <1>3. ~worker[w].updating
    BY <1>1 DEF FilesInv, StepInv, UpdatePc
  <1>4. StepInv'
    BY <1>1, <1>2, <1>3 DEF FilesInv, StepInv, workerData
  <1>5. runs[t] = 0 /\ runs'[t] = 1 /\ \A u \in Task \ {t} : runs'[u] = runs[u]
    <2>1. runs[t] = 0
      BY <1>1 DEF OnceInv, JobInv
    <2> QED BY <2>1 DEF TakeJob, TypeInv, QueueInv
  <1>6. ASSUME NEW u \in Task \ {t} PROVE TaskInv(B, u)'
    <2>1. u \in overlap => u \in overlap'
      BY DEF TakeJob
    <2>2. Calmly(u)
      BY <1>1, <1>2, <1>5, <2>1 DEF Calmly, Handles, workerData, RunPc, TryPc
    <2> QED BY <2>2, CalmlyKeeps DEF FilesInv
  <1>7. TaskInv(B, t)'
    <2>1. TaskInv(B, t)
      BY DEF FilesInv
    <2>2. \A v \in Worker : ~Handles(v, t)
      BY <1>5, <2>1 DEF TaskInv, OneRun
    <2>3. \A v \in Worker : Handles(v, t)' => v = w
      BY <1>2, <2>2 DEF Handles
    <2>4. jobFile[t].whole
      BY <1>1, <2>1 DEF TaskInv, OneRun
    <2>5. OneRun(t)'
      BY <1>1, <1>5, <2>1, <2>3, <2>4 DEF TaskInv, OneRun, workerData
    <2>6. FilesFit(t) => FilesFit(t)'
      <3> SUFFICES ASSUME FilesFit(t) PROVE FilesFit(t)'
        OBVIOUS
      <3>1. status[t] \in {"absent", "queued", "failed"} /\ results[t] = {}
        BY <1>5 DEF FilesFit, DataFits
      <3>2. RunFits("parse", t)'
        BY <1>1, <3>1 DEF RunFits, Filled, Emptied
      <3>3. DataFits(t)'
        BY <1>1, <1>5, <3>1 DEF DataFits
      <3> QED BY <1>2, <2>3, <3>2, <3>3 DEF FilesFit
    <2>7. ASSUME t \notin overlap' PROVE Quiet(B, t)'
      <3>1. t \notin overlap /\ ~UnderDeletion(t) /\ Quiet(B, t)
        BY <2>1, <2>7 DEF TakeJob, TaskInv
      <3>2. ~UnderDeletion(t)'
        BY <1>1, <3>1 DEF UnderDeletion, workerData
      <3>3. \A d \in Request : deletion'[d].task = t => Removed(B, deletion[d].pc, t)'
        BY <1>1, <3>1 DEF Quiet, Removed, workerData
      <3>4. \A v \in Worker : Handles(v, t)' => InVain(worker'[v])
        BY <1>2, <1>3, <2>3 DEF InVain
      <3>5. t \in confirmed' =>
              ~Exists(t)' /\ t \notin documents' /\ results'[t] \subseteq Leftover(B, t)
        BY <1>1, <3>1 DEF Quiet, Exists, workerData
      <3> QED BY <3>2, <3>3, <3>4, <3>5 DEF Quiet, InVain
    <2>8. (t \in confirmed \/ ~Undeleted(t))' => t \in confirmed \/ ~Undeleted(t)
      BY <1>1 DEF Undeleted, workerData
    <2>9. Undeleted(t)' => Undeleted(t)
      BY <1>1 DEF Undeleted, workerData
    <2> QED BY <1>1, <2>1, <2>5, <2>6, <2>7, <2>8, <2>9 DEF TaskInv, workerData
  <1> QED BY <1>4, <1>6, <1>7 DEF FilesInv

-----------------------------------------------------------------------------
(* processTaskJob *)

\* After a call of processTaskJob worker w is at pc with the same task, or
\* done with it.
Lands(w, pc) ==
  /\ worker'[w].pc = pc /\ ~worker'[w].updating
  /\ pc \in RunPc => worker'[w].task = worker[w].task
  /\ worker'[w].batch \subseteq worker[w].batch
  /\ \A v \in Worker \ {w} : worker'[v] = worker[v]

LEMMA ProceedLands ==
  ASSUME TypeInv, NEW w \in Worker, worker[w].pc \in RunPc, Proceed(w)
  PROVE  Lands(w, IF worker[w].pc = "fail" THEN "idle" ELSE Onward(worker[w].pc))
  <1>1. worker \in [Worker -> WorkerRecord] /\ worker[w] \in WorkerRecord
    BY WorkerTypes
  <1>2. CASE worker[w].pc = "fail"
    BY <1>1, <1>2 DEF Proceed, Abort, IdleWorker, Lands, RunPc, TryPc, CatchPc, WorkerRecord
  <1>3. CASE worker[w].pc # "fail"
    <2>1. worker[w].pc = "complete" => Onward(worker[w].pc) \notin RunPc
      BY DEF Onward, RunPc, TryPc, CatchPc
    <2> QED BY <1>1, <1>3, <2>1 DEF Proceed, Lands, WorkerRecord
  <1> QED BY <1>2, <1>3

LEMMA RaiseLands ==
  ASSUME TypeInv, NEW w \in Worker, worker[w].pc \in RunPc, Raise(w)
  PROVE  Lands(w, IF worker[w].pc \in CatchPc THEN "idle" ELSE "dropRisks")
  <1>1. worker \in [Worker -> WorkerRecord] /\ worker[w] \in WorkerRecord
    BY WorkerTypes
  <1> QED BY <1>1 DEF Raise, Abort, IdleWorker, Lands, RunPc, TryPc, CatchPc, WorkerRecord

\* The read of an update found the task.
Reads(w) ==
  /\ worker[w].pc \in UpdatePc /\ Exists(worker[w].task)
  /\ worker' = [worker EXCEPT ![w].updating = TRUE]

LEMMA ReadsMove ==
  ASSUME TypeInv, NEW w \in Worker, Reads(w)
  PROVE  /\ worker'[w].pc = worker[w].pc /\ worker'[w].task = worker[w].task
         /\ worker'[w].batch = worker[w].batch
         /\ \A v \in Worker \ {w} : worker'[v] = worker[v]
  BY WorkerTypes DEF Reads, WorkerRecord

\* One table, and the step of processTaskJob that fills or empties it.
Fills(pc, table) ==
  \/ pc = "risks" /\ table = "risk_findings"
  \/ pc = "segments" /\ table = "document_segments"
  \/ pc = "rewrites" /\ table = "rewrite_options"

Empties(pc, table) ==
  \/ pc = "dropRisks" /\ table = "risk_findings"
  \/ pc = "dropSegments" /\ table = "document_segments"
  \/ pc = "dropRewrites" /\ table = "rewrite_options"

\* What a step of processTaskJob can do.
LEMMA ProcessCases ==
  ASSUME TypeInv, NEW w \in Worker, Process(w), NEW t, t = worker[w].task
  PROVE  /\ worker[w].pc \in RunPc /\ t \in Task
         /\ UNCHANGED <<workerData, jobFile, runs, overlap>>
         /\ \/ Reads(w) /\ UNCHANGED <<status, results>>
            \/ Raise(w) /\ UNCHANGED <<status, results>>
            \/ /\ worker[w].pc \in {"complete", "fail"} /\ ~Exists(t)
               /\ Proceed(w) /\ UNCHANGED <<status, results>>
            \/ /\ worker[w].pc \in UpdatePc /\ worker[w].updating
               /\ status' = [status EXCEPT ![t] = Written(worker[w].pc)]
               /\ Proceed(w) /\ results' = results
            \/ \E table \in Tables :
                 /\ Fills(worker[w].pc, table)
                 /\ results' = [results EXCEPT ![t] = results[t] \cup {table}]
                 /\ Proceed(w) /\ status' = status
            \/ \E table \in Tables :
                 /\ Empties(worker[w].pc, table)
                 /\ results' = [results EXCEPT ![t] = results[t] \ {table}]
                 /\ Proceed(w) /\ status' = status
  <1>1. UNCHANGED <<workerData, jobFile, runs, overlap>>
    BY DEF Process, UpdateRead, UpdateWrite, Publish, Withdraw, workerFrame, workerData
  <1>2. worker[w].pc \in RunPc
    BY DEF Process, UpdateRead, UpdateWrite, Publish, Withdraw, UpdatePc, RunPc, TryPc,
       CatchPc
  <1>3. t \in Task
    BY <1>2, WorkerTypes
  <1>4. CASE UpdateRead(w)
    BY <1>1, <1>2, <1>3, <1>4 DEF UpdateRead, Missing, Reads, UpdatePc
  <1>5. CASE UpdateWrite(w)
    BY <1>1, <1>2, <1>3, <1>5 DEF UpdateWrite
  <1>6. CASE \/ Publish(w, "risks", "risk_findings")
             \/ Publish(w, "segments", "document_segments")
             \/ Publish(w, "rewrites", "rewrite_options")
    <2>1. PICK pc \in RunPc, table \in Tables : Publish(w, pc, table) /\ Fills(pc, table)
      BY <1>6 DEF Fills, Tables, RunPc, TryPc
    <2> QED BY <1>1, <1>2, <1>3, <2>1 DEF Publish
  <1>7. CASE \/ Withdraw(w, "dropRisks", "risk_findings")
             \/ Withdraw(w, "dropSegments", "document_segments")
             \/ Withdraw(w, "dropRewrites", "rewrite_options")
    <2>1. PICK pc \in RunPc, table \in Tables : Withdraw(w, pc, table) /\ Empties(pc, table)
      BY <1>7 DEF Empties, Tables, RunPc, CatchPc
    <2> QED BY <1>1, <1>2, <1>3, <2>1 DEF Withdraw, DropFile
  <1> QED BY <1>4, <1>5, <1>6, <1>7 DEF Process

\* Whose files a run agrees with, they agree with after its next step too.
LEMMA ProcessFits ==
  ASSUME TypeInv, NEW w \in Worker, NEW t \in Task, t = worker[w].task, Process(w),
         DataFits(t), RunFits(worker[w].pc, t), runs[t] = 1
  PROVE  DataFits(t)' /\ (Handles(w, t)' => RunFits(worker[w].pc, t)')
  <1> DEFINE pc == worker[w].pc
  <1>1. pc \in RunPc /\ runs'[t] = 1
    BY ProcessCases
  <1>2. status \in [Task -> Status] /\ results \in [Task -> SUBSET Tables]
    BY DEF TypeInv, DataInv
  <1>3. CASE Reads(w) /\ UNCHANGED <<status, results>>
    BY <1>1, <1>3, ReadsMove DEF DataFits, RunFits
  <1>4. CASE Raise(w) /\ UNCHANGED <<status, results>>
    <2>1. worker'[w].pc \in {"idle", "dropRisks"}
      BY <1>1, <1>4, RaiseLands DEF Lands
    <2> QED
      BY <1>1, <1>4, <2>1 DEF DataFits, RunFits, Filled, Emptied, Handles, RunPc, TryPc,
         CatchPc
  <1>5. ASSUME Proceed(w)
        PROVE  worker'[w].pc = IF pc = "fail" THEN "idle" ELSE Onward(pc)
    BY <1>1, <1>5, ProceedLands DEF Lands
  <1>6. CASE pc \in {"complete", "fail"} /\ Proceed(w) /\ UNCHANGED <<status, results>>
    <2>1. worker'[w].pc \notin RunPc
      BY <1>5, <1>6 DEF Onward, RunPc, TryPc, CatchPc
    <2> QED
      BY <1>1, <1>6, <2>1 DEF DataFits, Handles
  <1>7. CASE /\ pc \in UpdatePc /\ status' = [status EXCEPT ![t] = Written(pc)]
             /\ Proceed(w) /\ results' = results
    <2>1. status'[t] = Written(pc) /\ results'[t] = results[t]
      BY <1>2, <1>7
    <2>2. CASE pc = "parse" \/ pc = "scan"
      <3>1. status'[t] = "processing" /\ worker'[w].pc \in {"scan", "risks"}
        BY <1>5, <1>7, <2>1, <2>2 DEF Written, Onward
      <3> QED
        BY <1>1, <3>1 DEF DataFits, RunFits, Filled, Emptied
    <2>3. CASE pc = "complete"
      <3>1. status'[t] = "completed" /\ worker'[w].pc = "next"
        BY <1>5, <1>7, <2>1, <2>3 DEF Written, Onward
      <3>2. results[t] = Tables
        BY <1>2, <2>3 DEF RunFits, Filled
      <3> QED
        BY <1>1, <2>1, <3>1, <3>2 DEF DataFits, Handles, RunPc, TryPc, CatchPc
    <2>4. CASE pc = "fail"
      <3>1. status'[t] = "failed" /\ worker'[w].pc = "idle"
        BY <1>5, <1>7, <2>1, <2>4 DEF Written
      <3>2. results[t] = {}
        BY <1>2, <2>4 DEF RunFits, Emptied
      <3> QED
        BY <1>1, <2>1, <3>1, <3>2 DEF DataFits, Handles, RunPc, TryPc, CatchPc
    <2> QED
      BY <1>7, <2>2, <2>3, <2>4 DEF UpdatePc
  <1>8. ASSUME NEW table \in Tables, Fills(pc, table),
               results' = [results EXCEPT ![t] = results[t] \cup {table}],
               Proceed(w), status' = status
        PROVE  DataFits(t)' /\ (Handles(w, t)' => RunFits(worker[w].pc, t)')
    <2>1. results'[t] = results[t] \cup {table} /\ worker'[w].pc = Onward(pc)
      BY <1>2, <1>5, <1>8 DEF Fills
    <2>2. status[t] \in {"processing", "absent"}
      BY <1>8 DEF Fills, RunFits
    <2>3. DataFits(t)'
      BY <1>1, <1>8, <2>2 DEF DataFits
    <2>4. Filled(Onward(pc)) \subseteq Filled(pc) \cup {table} /\ Emptied(Onward(pc)) = {}
      BY <1>8 DEF Fills, Filled, Emptied, Onward, Tables
    <2>5. Filled(Onward(pc)) \subseteq results'[t]
      BY <2>1, <2>4 DEF RunFits
    <2> QED
      BY <1>8, <2>1, <2>2, <2>3, <2>4, <2>5 DEF RunFits
  <1>9. ASSUME NEW table \in Tables, Empties(pc, table),
               results' = [results EXCEPT ![t] = results[t] \ {table}],
               Proceed(w), status' = status
        PROVE  DataFits(t)' /\ (Handles(w, t)' => RunFits(worker[w].pc, t)')
    <2>1. results'[t] = results[t] \ {table} /\ worker'[w].pc = Onward(pc)
      BY <1>2, <1>5, <1>9 DEF Empties
    <2>2. status[t] # "completed"
      BY DEF RunFits
    <2>3. DataFits(t)'
      BY <1>1, <1>9, <2>1, <2>2 DEF DataFits
    <2>4. /\ Emptied(Onward(pc)) \subseteq Emptied(pc) \cup {table}
          /\ Filled(Onward(pc)) = {}
          /\ Onward(pc) \in CatchPc
      BY <1>9 DEF Empties, Filled, Emptied, Onward, Tables, CatchPc
    <2>5. Emptied(Onward(pc)) \cap results'[t] = {}
      BY <2>1, <2>4 DEF RunFits
    <2> QED
      BY <1>9, <2>1, <2>2, <2>3, <2>4, <2>5 DEF RunFits, CatchPc
  <1> HIDE DEF pc
  <1>10. \/ Reads(w) /\ UNCHANGED <<status, results>>
         \/ Raise(w) /\ UNCHANGED <<status, results>>
         \/ pc \in {"complete", "fail"} /\ Proceed(w) /\ UNCHANGED <<status, results>>
         \/ /\ pc \in UpdatePc /\ status' = [status EXCEPT ![t] = Written(pc)]
            /\ Proceed(w) /\ results' = results
         \/ \E table \in Tables :
              /\ Fills(pc, table)
              /\ results' = [results EXCEPT ![t] = results[t] \cup {table}]
              /\ Proceed(w) /\ status' = status
         \/ \E table \in Tables :
              /\ Empties(pc, table)
              /\ results' = [results EXCEPT ![t] = results[t] \ {table}]
              /\ Proceed(w) /\ status' = status
    BY ProcessCases DEF pc
  <1> QED BY <1>3, <1>4, <1>6, <1>7, <1>8, <1>9, <1>10

\* The run of a task that is gone brings nothing back.
LEMMA ProcessInVain ==
  ASSUME TypeInv, NEW w \in Worker, NEW t \in Task, t = worker[w].task, Process(w),
         InVain(worker[w]), ~Exists(t)
  PROVE  /\ status' = status /\ results'[t] \subseteq results[t]
         /\ Handles(w, t)' => InVain(worker[w])'
  <1>1. worker[w].pc \in RunPc /\ worker[w].pc \in {"parse"} \cup CatchPc
        /\ ~worker[w].updating
    BY ProcessCases DEF InVain
  <1>2. CASE Raise(w) /\ UNCHANGED <<status, results>>
    BY <1>1, <1>2, RaiseLands DEF Lands, Handles, InVain, RunPc, TryPc, CatchPc
  <1>3. ASSUME Proceed(w), worker[w].pc \in CatchPc
        PROVE  Handles(w, t)' => InVain(worker[w])'
    BY <1>1, <1>3, ProceedLands DEF Lands, Handles, InVain, RunPc, TryPc, CatchPc, Onward
  <1>4. CASE /\ worker[w].pc \in {"complete", "fail"}
             /\ Proceed(w) /\ UNCHANGED <<status, results>>
    BY <1>1, <1>3, <1>4 DEF CatchPc
  <1>5. ASSUME NEW table \in Tables, Empties(worker[w].pc, table),
               results' = [results EXCEPT ![t] = results[t] \ {table}],
               Proceed(w), status' = status
        PROVE  /\ status' = status /\ results'[t] \subseteq results[t]
               /\ Handles(w, t)' => InVain(worker[w])'
    <2>1. worker[w].pc \in CatchPc
      BY <1>5 DEF Empties, CatchPc
    <2> QED BY <1>3, <1>5, <2>1 DEF TypeInv, DataInv
  <1>6. \A table \in Tables : ~Fills(worker[w].pc, table)
    BY <1>1 DEF Fills, CatchPc
  <1>7. ~Reads(w)
    BY DEF Reads
  <1> QED BY <1>1, <1>2, <1>4, <1>5, <1>6, <1>7, ProcessCases

LEMMA ProcessFiles ==
  ASSUME NEW B, TypeInv, FilesInv(B), NEW w \in Worker, Process(w)
  PROVE  FilesInv(B)'
  <1>1. PICK t : t = worker[w].task
    OBVIOUS
  <1>2. /\ worker[w].pc \in RunPc /\ t \in Task
        /\ UNCHANGED <<workerData, jobFile, runs, overlap>>
    BY <1>1, ProcessCases
  <1>3. /\ worker'[w].pc \in RunPc => worker'[w].task = t
        /\ worker'[w].batch \subseteq worker[w].batch
        /\ worker'[w].updating => worker'[w].pc \in UpdatePc
        /\ \A v \in Worker \ {w} : worker'[v] = worker[v]
    <2>1. CASE Reads(w)
      BY <1>1, <2>1, ReadsMove DEF Reads
    <2>2. CASE Raise(w) \/ Proceed(w)
      <3>1. PICK pc : Lands(w, pc)
        BY <1>2, <2>2, RaiseLands, ProceedLands
      <3> QED BY <1>1, <3>1 DEF Lands
    <2> QED BY <1>1, <2>1, <2>2, ProcessCases
  <1>4. StepInv'
    BY <1>2, <1>3 DEF FilesInv, StepInv, workerData
  <1>5. Handles(w, t)
    BY <1>1, <1>2 DEF Handles
  <1>6. ASSUME NEW u \in Task \ {t} PROVE TaskInv(B, u)'
    <2>1. status'[u] = status[u] /\ results'[u] = results[u]
      BY <1>1, <1>6, ProcessCases DEF TypeInv, DataInv
    <2>2. ~Handles(w, u)'
      BY <1>3, <1>6 DEF Handles
    <2>3. Calmly(u)
      BY <1>2, <1>3, <2>1, <2>2 DEF Calmly, Handles, workerData
    <2> QED BY <2>3, CalmlyKeeps DEF FilesInv
  <1>7. TaskInv(B, t)'
    <2>1. TaskInv(B, t)
      BY <1>2 DEF FilesInv
    <2>2. runs[t] = 1 /\ \A v \in Worker : Handles(v, t) => v = w
      BY <1>5, <2>1 DEF TaskInv, OneRun
    <2>3. \A v \in Worker : Handles(v, t)' => v = w
      BY <1>3, <2>2 DEF Handles
    <2>4. OneRun(t)'
      BY <1>2, <1>3, <2>1, <2>2, <2>3 DEF TaskInv, OneRun, workerData
    <2>5. ASSUME Undeleted(t)' PROVE FilesFit(t)'
      <3>1. FilesFit(t)
        BY <1>2, <2>1, <2>5 DEF TaskInv, Undeleted, workerData
      <3>2. DataFits(t) /\ RunFits(worker[w].pc, t)
        BY <1>5, <3>1 DEF FilesFit
      <3>3. DataFits(t)' /\ (Handles(w, t)' => RunFits(worker[w].pc, t)')
        BY <1>1, <1>2, <2>2, <3>2, ProcessFits
      <3> QED BY <2>3, <3>3 DEF FilesFit
    <2>6. ASSUME t \notin overlap' PROVE Quiet(B, t)'
      <3>1. Quiet(B, t)
        BY <1>2, <2>1, <2>6 DEF TaskInv
      <3>2. ~UnderDeletion(t)
        BY <1>5, <3>1 DEF Quiet
      <3>3. ~UnderDeletion(t)'
        BY <1>2, <3>2 DEF UnderDeletion, workerData
      <3>4. \A d \in Request : deletion'[d].task = t => Removed(B, deletion[d].pc, t)'
        BY <3>3 DEF UnderDeletion, Removed, DeletePc
      <3>5. ASSUME t \in confirmed'
            PROVE  /\ ~Exists(t)' /\ t \notin documents'
                   /\ results'[t] \subseteq Leftover(B, t)
                   /\ \A v \in Worker : Handles(v, t)' => InVain(worker[v])'
        <4>1. /\ ~Exists(t) /\ t \notin documents /\ results[t] \subseteq Leftover(B, t)
              /\ InVain(worker[w])
          BY <1>2, <1>5, <3>1, <3>5 DEF Quiet, workerData
        <4>2. /\ status' = status /\ results'[t] \subseteq results[t]
              /\ Handles(w, t)' => InVain(worker[w])'
          BY <1>1, <1>2, <4>1, ProcessInVain
        <4> QED BY <1>2, <2>3, <4>1, <4>2 DEF Exists, workerData
      <3> QED BY <3>3, <3>4, <3>5 DEF Quiet
    <2>7. t \in confirmed' \/ ~Undeleted(t)' => upload'[t] = "accepted"
      BY <1>2, <2>1 DEF TaskInv, Undeleted, workerData
    <2> QED BY <2>4, <2>5, <2>6, <2>7 DEF TaskInv
  <1> QED BY <1>4, <1>6, <1>7 DEF FilesInv

-----------------------------------------------------------------------------

LEMMA InitFiles ==
  ASSUME NEW B, Init
  PROVE  FilesInv(B)
  <1>1. \A w \in Worker : worker[w].pc = "idle" /\ worker[w].batch = {} /\ ~worker[w].updating
    BY DEF Init, IdleWorker
  <1>2. StepInv
    BY <1>1 DEF StepInv, Init
  <1>3. ASSUME NEW t \in Task PROVE TaskInv(B, t)
    <2>1. \A w \in Worker : ~Handles(w, t)
      BY <1>1 DEF Handles, RunPc, TryPc, CatchPc
    <2>2. OneRun(t)
      BY <1>1, <2>1 DEF OneRun, Init
    <2>3. FilesFit(t)
      BY <2>1 DEF FilesFit, DataFits, Init
    <2>4. Undeleted(t) /\ t \notin confirmed
      BY LocalAssumption DEF Undeleted, Init
    <2>5. Quiet(B, t)
      BY <2>1, <2>4 DEF Quiet, Undeleted, UnderDeletion
    <2> QED BY <2>2, <2>3, <2>4, <2>5 DEF TaskInv
  <1> QED BY <1>2, <1>3 DEF FilesInv

LEMMA NextFiles ==
  ASSUME NEW B, TypeInv, OnceInv, FilesInv(B), [Next]_vars
  PROVE  FilesInv(B)'
  <1>1. StepInv /\ \A u \in Task : TaskInv(B, u)
    BY DEF FilesInv
  <1>2. ASSUME NEW t \in Task, UploadStep(t) PROVE FilesInv(B)'
    <2>1. \A u \in Task \ {t} : TaskInv(B, u)'
      BY <1>1, <1>2, UploadElsewhere, CalmlyKeeps
    <2>2. UNCHANGED <<worker, deletion>>
      BY <1>2 DEF UploadStep, UploadStore, UploadCreate, UploadOpenJob, UploadWriteJob,
         UploadMarkFailed, uploadFrame
    <2>3. StepInv'
      BY <1>1, <2>2 DEF StepInv
    <2> QED BY <1>1, <1>2, <2>1, <2>3, UploadFiles DEF FilesInv
  <1>3. ASSUME NEW w \in Worker, Drain(w) \/ Process(w) \/ WorkerCrash(w) PROVE FilesInv(B)'
    <2>1. CASE Process(w)
      BY <2>1, ProcessFiles
    <2>2. CASE \E t \in Task : TakeJob(w, t)
      BY <2>2, TakeFiles
    <2>3. CASE \/ DrainList(w) \/ ReadJob(w) \/ RemoveJob(w) \/ DrainDone(w) \/ BatchDone(w)
               \/ WorkerCrash(w) \/ \E t \in Task : Claim(w, t)
      <3>1. StepInv' /\ \A u \in Task : Calmly(u)
        BY <1>1, <2>3, DrainFiles
      <3> QED BY <1>1, <3>1, CalmlyKeeps DEF FilesInv
    <2> QED BY <1>3, <2>1, <2>2, <2>3 DEF Drain
  <1>4. ASSUME NEW d \in Request, EraseStep(d) \/ \E t \in Task : DeleteStart(d, t)
        PROVE  FilesInv(B)'
    <2>1. \A u \in Task : TaskInv(B, u)'
      BY <1>1, <1>4, StartFiles, EraseFiles
    <2>2. UNCHANGED worker
      BY <1>4 DEF EraseStep, DeleteObject, DeleteLookup, DeleteResults, DeleteUnlink,
         DeleteStart, deleteFrame
    <2>3. \A e \in Request : deletion'[e].pc = "idle" => deletion'[e] = deletion[e]
      <3>1. ASSUME NEW pc \in {"record", "risks", "segments", "unlink", "ok", "failed"},
                   StepDeletion(d, pc), NEW e \in Request
            PROVE  deletion'[e].pc = "idle" => deletion'[e] = deletion[e]
        BY <3>1 DEF StepDeletion, TypeInv, DeletionInv, DeletionRecord
      <3>2. CASE EraseStep(d)
        <4>1. \E pc \in {"record", "risks", "segments", "unlink", "ok", "failed"} :
                StepDeletion(d, pc)
          BY <3>2 DEF EraseStep, DeleteObject, DeleteLookup, DeleteResults, DeleteUnlink
        <4> QED BY <3>1, <4>1
      <3>3. CASE \E t \in Task : DeleteStart(d, t)
        BY <3>3 DEF DeleteStart, TypeInv, DeletionInv
      <3> QED BY <1>4, <3>2, <3>3
    <2>4. StepInv'
      BY <1>1, <2>2, <2>3 DEF StepInv
    <2> QED BY <2>1, <2>4 DEF FilesInv
  <1>5. CASE WebCrash
    <2>1. worker' = worker
          /\ \A d \in Request : deletion'[d].pc = "idle" => deletion'[d] = deletion[d]
      BY <1>5 DEF WebCrash, TypeInv, DeletionInv, DeletionRecord
    <2>2. StepInv'
      BY <1>1, <2>1 DEF StepInv
    <2> QED BY <1>1, <1>5, <2>2, WebCrashFiles DEF FilesInv
  <1>6. CASE UNCHANGED vars
    <2>1. \A u \in Task : Calmly(u)
      BY <1>6 DEF vars, historyVars, Calmly, Handles
    <2>2. StepInv'
      BY <1>1, <1>6 DEF vars, StepInv
    <2> QED BY <1>1, <2>1, <2>2, CalmlyKeeps DEF FilesInv
  <1> QED BY <1>2, <1>3, <1>4, <1>5, <1>6 DEF Next

LEMMA AlwaysFiles == Spec => []FilesInv({})
  <1>1. Init => FilesInv({})
    BY InitFiles
  <1>2. TypeInv /\ OnceInv /\ FilesInv({}) /\ [Next]_vars => FilesInv({})'
    BY NextFiles
  <1> QED BY <1>1, <1>2, AlwaysOnce, PTL DEF Spec

\* Wherever calls throw and processes die, a task nobody asked to delete has
\* its files in agreement with its status: processTaskJob writes "completed"
\* after the third file and "failed" after the removal of all three.
THEOREM FilesTrue == Spec => []FilesMatchStatus
  <1>1. FilesInv({}) => FilesMatchStatus
    BY DEF FilesInv, TaskInv, FilesFit, DataFits, Undeleted, FilesMatchStatus
  <1> QED
    BY <1>1, AlwaysFiles, PTL

\* A deletion that deleteTaskData confirmed, and that no worker's run
\* overlapped with, is final: a run that comes after it finds no task.
THEOREM QuietErasureFinal == Spec => []QuietErasure
  <1>1. TypeInv /\ FilesInv({}) => QuietErasure
    <2> SUFFICES ASSUME TypeInv, FilesInv({}), NEW t \in confirmed \ overlap
                 PROVE  /\ ~Exists(t) /\ t \notin documents
                        /\ results[t] \subseteq {"rewrite_options"}
      BY DEF QuietErasure
    <2>1. t \in Task
      BY DEF TypeInv, DataInv
    <2> QED
      BY <2>1 DEF FilesInv, TaskInv, Quiet, Leftover
  <1> QED
    BY <1>1, AlwaysFiles, AlwaysOnce, PTL

-----------------------------------------------------------------------------
(* Why a job is lost.  As long as nothing has thrown and nobody has died,  *)
(* a worker lets go of a job it has not run only where a batch ends.       *)

Clean == faults = 0 /\ crashes = 0

\* Between two jobs a worker names none; it removes a job file once it has
\* the job.
RestInv ==
  \A w \in Worker :
    /\ worker[w].pc \in {"idle", "claim", "next"} => worker[w].task = NoTask
    /\ worker[w].pc = "remove" => worker[w].task \in worker[w].batch

\* A job has a handler that made the task, and so a task that is gone was
\* deleted.
MadeInv ==
  \A t \in Task :
    /\ upload[t] \in {"open", "write", "accepted"} => Exists(t) \/ t \in confirmed
    /\ jobFile[t].at # "none" => upload[t] \in {"write", "accepted"}

\* The only reason to be in the catch block.
CatchInv == \A w \in Worker : worker[w].pc \in CatchPc => worker[w].task \in confirmed

LossInv == \A t \in Task : Lost(t) => BatchEnded

CauseInv == RestInv /\ (Clean => MadeInv /\ CatchInv /\ LossInv)

LEMMA NoTrouble ==
  ASSUME TypeInv, Clean'
  PROVE  ~Throws /\ ~Crashes
  BY DEF TypeInv, BoundInv, Clean, Throws, Crashes

LEMMA RestDrain ==
  ASSUME TypeInv, RestInv, NEW w \in Worker, Drain(w)
  PROVE  RestInv'
  <1>1. PICK o \in WorkerRecord : o = worker[w]
    BY WorkerTypes
  <1>2. \A v \in Worker \ {w} : worker'[v] = worker[v]
    BY DEF Drain, DrainList, Claim, PassOver, ReadJob, RemoveJob, DrainDone, TakeJob,
       BatchDone, Abort, TypeInv, WorkerInv
  <1>3. /\ worker'[w].pc \in {"idle", "claim", "next"} => worker'[w].task = NoTask
        /\ worker'[w].pc = "remove" => worker'[w].task \in worker'[w].batch
    <2> USE <1>1, WorkerTypes
    <2>1. CASE Abort(w)
      BY <2>1 DEF Abort, IdleWorker
    <2>2. CASE DrainList(w)
      BY <2>2 DEF DrainList, RestInv, WorkerRecord
    <2>3. CASE DrainDone(w)
      BY <2>3 DEF DrainDone, RestInv, WorkerRecord
    <2>4. CASE ReadJob(w) /\ ~Abort(w)
      <3>1. worker' = [worker EXCEPT ![w].pc = "remove", ![w].batch = @ \cup {o.task}]
        BY <2>4 DEF ReadJob
      <3> QED BY <3>1 DEF WorkerRecord
    <2>5. CASE RemoveJob(w) /\ ~Abort(w)
      BY <2>5 DEF RemoveJob, WorkerRecord
    <2>6. CASE \E t \in Task : TakeJob(w, t)
      BY <2>6 DEF TakeJob, WorkerRecord
    <2>7. ASSUME NEW t \in Task, Claim(w, t), ~Abort(w)
          PROVE  /\ worker'[w].pc \in {"idle", "claim", "next"} => worker'[w].task = NoTask
                 /\ worker'[w].pc = "remove" => worker'[w].task \in worker'[w].batch
      BY <2>7 DEF Claim, PassOver, RestInv, WorkerRecord
    <2> QED
      BY <2>1, <2>2, <2>3, <2>4, <2>5, <2>6, <2>7 DEF Drain, BatchDone
  <1> QED BY <1>2, <1>3 DEF RestInv

LEMMA RestProcess ==
  ASSUME TypeInv, RestInv, NEW w \in Worker, Process(w)
  PROVE  RestInv'
  <1>1. worker[w].pc \in RunPc
    BY ProcessCases
  <1>2. \A v \in Worker \ {w} : worker'[v] = worker[v]
    BY <1>1, ProcessCases, ReadsMove, RaiseLands, ProceedLands DEF Lands
  <1>3. /\ worker'[w].pc \in {"idle", "claim", "next"} => worker'[w].task = NoTask
        /\ worker'[w].pc # "remove"
    <2>1. CASE Abort(w)
      BY <2>1, WorkerTypes DEF Abort, IdleWorker
    <2>2. CASE Reads(w)
      BY <1>1, <2>2, ReadsMove DEF RunPc, TryPc, CatchPc
    <2>3. CASE Raise(w) /\ ~Abort(w)
      BY <2>3, WorkerTypes DEF Raise, WorkerRecord
    <2>4. CASE Proceed(w) /\ ~Abort(w)
      <3>1. /\ worker'[w].pc = Onward(worker[w].pc) /\ worker[w].pc # "fail"
            /\ worker[w].pc = "complete" => worker'[w].task = NoTask
        BY <2>4, WorkerTypes DEF Proceed, WorkerRecord
      <3> QED BY <1>1, <3>1 DEF RunPc, TryPc, CatchPc, Onward
    <2> QED BY <2>1, <2>2, <2>3, <2>4, ProcessCases
  <1> QED BY <1>2, <1>3 DEF RestInv

LEMMA RestNext ==
  ASSUME TypeInv, RestInv, [Next]_vars
  PROVE  RestInv'
  <1>1. CASE UNCHANGED worker
    BY <1>1 DEF RestInv
  <1>2. ASSUME NEW w \in Worker, WorkerCrash(w) PROVE RestInv'
    BY <1>2, WorkerTypes DEF WorkerCrash, Abort, IdleWorker, RestInv
  <1>3. CASE \E t \in Task : UploadStep(t)
    BY <1>1, <1>3 DEF UploadStep, UploadStore, UploadCreate, UploadOpenJob, UploadWriteJob,
       UploadMarkFailed, uploadFrame
  <1>4. CASE \E d \in Request : EraseStep(d) \/ \E t \in Task : DeleteStart(d, t)
    BY <1>1, <1>4 DEF EraseStep, DeleteObject, DeleteLookup, DeleteResults, DeleteUnlink,
       DeleteStart, deleteFrame
  <1>5. CASE WebCrash \/ UNCHANGED vars
    BY <1>1, <1>5 DEF WebCrash, vars
  <1> QED BY <1>2, <1>3, <1>4, <1>5, RestDrain, RestProcess DEF Next

-----------------------------------------------------------------------------
(* Steps that leave the workers alone *)

LEMMA LossElsewhere ==
  ASSUME LossInv, UNCHANGED <<worker, runs>>, confirmed \subseteq confirmed',
         \A u \in Task : \/ jobFile'[u].at = jobFile[u].at
                         \/ jobFile[u].at = "none" /\ jobFile'[u].at = "pending"
  PROVE  LossInv'
  <1>1. \A u \in Task : Held(u)' <=> Held(u)
    BY DEF Held
  <1>2. BatchEnded => BatchEnded'
    BY <1>1 DEF BatchEnded
  <1>3. \A u \in Task : Lost(u)' => Lost(u)
    BY <1>1 DEF Lost
  <1> QED BY <1>2, <1>3 DEF LossInv

LEMMA UploadCause ==
  ASSUME TypeInv, OnceInv, Clean', NEW t \in Task, UploadStep(t)
  PROVE  Clean /\ (MadeInv /\ CatchInv /\ LossInv => (MadeInv /\ CatchInv /\ LossInv)')
  <1> USE DEF UploadStep, UploadStore, UploadCreate, UploadOpenJob, UploadWriteJob,
          UploadMarkFailed
  <1>1. UNCHANGED <<worker, runs, confirmed, crashes>> /\ Works
    BY NoTrouble DEF uploadFrame, historyVars, Works
  <1>2. Clean
    BY <1>1 DEF Works, Clean
  <1>3. JobInv(t)
    BY DEF OnceInv
  <1>4. \A u \in Task : \/ jobFile'[u].at = jobFile[u].at
                        \/ /\ u = t /\ jobFile[u].at = "none" /\ jobFile'[u].at = "pending"
                           /\ upload'[t] = "write"
    <2>1. CASE jobFile' = [jobFile EXCEPT ![t].at = "pending"] /\ UploadOpenJob(t)
               /\ StepUpload(t, "write")
      BY <1>3, <2>1, UpdateAt DEF JobInv, StepUpload, TypeInv, DataInv
    <2>2. CASE jobFile' = [jobFile EXCEPT ![t].whole = TRUE]
      BY <2>2, UpdateWhole DEF TypeInv
    <2> QED BY <2>1, <2>2
  <1>5. ASSUME MadeInv PROVE MadeInv'
    <2>1. /\ upload'[t] \in {"create", "open", "write", "accepted"}
          /\ \A u \in Task \ {t} : upload'[u] = upload[u] /\ status'[u] = status[u]
      BY NoTrouble DEF StepUpload, TypeInv, DataInv
    <2>2. upload'[t] \in {"open", "write", "accepted"} => Exists(t)' \/ t \in confirmed'
      <3>1. CASE UploadCreate(t) \/ UploadMarkFailed(t)
        BY <3>1, NoTrouble DEF TypeInv, DataInv, Exists
      <3>2. CASE UploadOpenJob(t) \/ UploadWriteJob(t)
        BY <1>1, <1>5, <3>2 DEF MadeInv, Exists
      <3> QED BY <3>1, <3>2 DEF StepUpload, TypeInv, DataInv
    <2>3. jobFile'[t].at # "none" => upload'[t] \in {"write", "accepted"}
      <3>1. CASE jobFile[t].at = "none"
        BY <1>4, <3>1
      <3>2. CASE jobFile[t].at # "none"
        BY <1>5, <3>2, NoTrouble DEF MadeInv, StepUpload, TypeInv, DataInv
      <3> QED BY <3>1, <3>2
    <2> QED BY <1>1, <1>4, <1>5, <2>1, <2>2, <2>3 DEF MadeInv, Exists
  <1>6. CatchInv => CatchInv'
    BY <1>1 DEF CatchInv
  <1>7. LossInv => LossInv'
    BY <1>1, <1>4, LossElsewhere
  <1> QED BY <1>2, <1>5, <1>6, <1>7

LEMMA DeletionCause ==
  ASSUME TypeInv, Clean', NEW d \in Request,
         EraseStep(d) \/ \E t \in Task : DeleteStart(d, t)
  PROVE  Clean /\ (MadeInv /\ CatchInv /\ LossInv => (MadeInv /\ CatchInv /\ LossInv)')
  <1> USE DEF EraseStep, DeleteObject, DeleteLookup, DeleteResults, DeleteUnlink, DeleteStart
  <1>1. UNCHANGED <<upload, jobFile, worker, runs, crashes, faults>>
    BY NoTrouble DEF deleteFrame, Works
  <1>2. confirmed \subseteq confirmed'
        /\ \A u \in Task : Exists(u) => Exists(u)' \/ u \in confirmed'
    BY DEF Exists, TypeInv, DataInv
  <1>3. Clean
    BY <1>1 DEF Clean
  <1>4. MadeInv => MadeInv'
    BY <1>1, <1>2 DEF MadeInv
  <1>5. CatchInv => CatchInv'
    BY <1>1, <1>2 DEF CatchInv
  <1>6. LossInv => LossInv'
    BY <1>1, <1>2, LossElsewhere
  <1> QED BY <1>3, <1>4, <1>5, <1>6

-----------------------------------------------------------------------------
(* Steps of a worker *)

HeldBy(o, u) == o.task = u \/ u \in o.batch

\* Worker w goes on with the jobs it has, or is rid of one it has run.
Carries(w) ==
  /\ \A v \in Worker \ {w} : worker'[v] = worker[v]
  /\ \A u \in Task : /\ HeldBy(worker'[w], u) => HeldBy(worker[w], u)
                     /\ HeldBy(worker[w], u) => HeldBy(worker'[w], u) \/ runs'[u] # 0
                     /\ runs[u] # 0 => runs'[u] # 0
                     /\ \/ jobFile'[u].at = jobFile[u].at
                        \/ HeldBy(worker[w], u) /\ jobFile[u].at = "processing"

LEMMA CarriesLoss ==
  ASSUME TypeInv, TypeInv', LossInv, NEW w \in Worker, Carries(w), UNCHANGED confirmed
  PROVE  LossInv'
  <1>1. \A u \in Task : Held(u)' => Held(u)
    BY DEF Held, Carries, HeldBy
  <1>2. \A u \in Task : Held(u) => Held(u)' \/ runs'[u] # 0
    BY DEF Held, Carries, HeldBy
  <1>3. \A u \in Task : ~Held(u) => jobFile'[u].at = jobFile[u].at
    BY DEF Held, Carries, HeldBy
  <1>4. \A u \in Task : runs[u] > 0 => runs'[u] > 0
    BY DEF Carries, TypeInv, QueueInv
  <1>5. \A u \in Task : Lost(u)' => Lost(u)
    BY <1>2, <1>3 DEF Lost, Carries
  <1> QED BY <1>1, <1>3, <1>4, <1>5 DEF LossInv, BatchEnded

\* The processTaskJob of a worker, as long as nothing throws.
LEMMA CleanProcess ==
  ASSUME TypeInv, Clean', NEW w \in Worker, Process(w)
  PROVE  /\ Clean /\ UNCHANGED <<upload, confirmed, jobFile, runs>>
         /\ \A u \in Task : Exists(u) => Exists(u)'
         /\ \/ Reads(w)
            \/ worker[w].pc \in TryPc /\ ~Exists(worker[w].task) /\ Raise(w)
            \/ Proceed(w)
  <1> USE DEF Process, UpdateRead, UpdateWrite, Publish, Withdraw
  <1>1. Works /\ UNCHANGED <<upload, confirmed, jobFile, runs, crashes>>
    BY NoTrouble DEF workerFrame
  <1>2. Clean
    BY <1>1 DEF Clean, Works
  <1>3. ASSUME NEW u \in Task, Exists(u) PROVE Exists(u)'
    <2>1. worker[w].pc \in UpdatePc => Written(worker[w].pc) # "absent"
      BY DEF UpdatePc, Written
    <2> QED BY <1>3, <2>1 DEF Exists, TypeInv, DataInv
  <1>4. \/ Reads(w)
        \/ worker[w].pc \in TryPc /\ ~Exists(worker[w].task) /\ Raise(w)
        \/ Proceed(w)
    BY NoTrouble DEF Reads, Missing, TryPc
  <1> QED BY <1>1, <1>2, <1>3, <1>4

LEMMA ProcessCause ==
  ASSUME TypeInv, OnceInv, FilesInv({}), RestInv, Clean', TypeInv',
         NEW w \in Worker, Process(w),
         MadeInv, CatchInv, LossInv
  PROVE  (MadeInv /\ CatchInv /\ LossInv)'
  <1>1. PICK t : t = worker[w].task
    OBVIOUS
  <1>2. worker[w].pc \in RunPc /\ t \in Task
    BY <1>1, ProcessCases
  <1>3. UNCHANGED <<upload, confirmed, jobFile, runs>>
    BY CleanProcess
  <1>4. runs[t] = 1 /\ \A v \in Worker : Handles(v, t) => v = w
    BY <1>1, <1>2 DEF FilesInv, TaskInv, OneRun, Handles
  <1>5. MadeInv'
    BY <1>3, CleanProcess DEF MadeInv
  <1>6. CASE Reads(w)
    <2>1. Carries(w)
      BY <1>3, <1>6, ReadsMove DEF Carries, HeldBy
    <2>2. CatchInv'
      BY <1>3, <1>6, ReadsMove DEF CatchInv
    <2> QED BY <1>3, <1>5, <2>1, <2>2, CarriesLoss
  <1>7. CASE worker[w].pc \in TryPc /\ ~Exists(t) /\ Raise(w)
    <2>1. /\ worker'[w].task = t /\ worker'[w].batch = worker[w].batch
          /\ \A v \in Worker \ {w} : worker'[v] = worker[v]
      BY <1>1, <1>7, WorkerTypes DEF Raise, WorkerRecord, TryPc, CatchPc
    <2>2. t \in confirmed
      <3>1. jobFile[t].at # "none"
        BY <1>2, <1>4 DEF OnceInv, JobInv
      <3> QED BY <1>2, <1>7, <3>1 DEF MadeInv
    <2>3. Carries(w)
      BY <1>1, <1>3, <2>1 DEF Carries, HeldBy
    <2>4. CatchInv'
      BY <1>3, <2>1, <2>2 DEF CatchInv
    <2> QED BY <1>3, <1>5, <2>3, <2>4, CarriesLoss
  <1>8. CASE Proceed(w) /\ worker[w].pc # "fail"
    <2>1. /\ worker'[w].pc = Onward(worker[w].pc)
          /\ worker'[w].task = IF worker[w].pc = "complete" THEN NoTask ELSE t
          /\ worker'[w].batch = worker[w].batch
          /\ \A v \in Worker \ {w} : worker'[v] = worker[v]
      BY <1>1, <1>8, WorkerTypes DEF Proceed, WorkerRecord
    <2>2. Onward(worker[w].pc) \in CatchPc => worker[w].pc \in CatchPc \ {"complete"}
      BY <1>2, <1>8 DEF Onward, RunPc, TryPc, CatchPc
    <2>3. CatchInv'
      BY <1>1, <1>3, <2>1, <2>2 DEF CatchInv
    <2>4. \A u \in Task : HeldBy(worker'[w], u) => HeldBy(worker[w], u)
      BY <1>1, <2>1, LocalAssumption DEF HeldBy
    <2>5. \A u \in Task : HeldBy(worker[w], u) => HeldBy(worker'[w], u) \/ runs'[u] # 0
      BY <1>1, <1>3, <1>4, <2>1 DEF HeldBy
    <2>6. Carries(w)
      BY <1>3, <2>1, <2>4, <2>5 DEF Carries
    <2> QED BY <1>3, <1>5, <2>3, <2>6, CarriesLoss
  <1>9. CASE Proceed(w) /\ worker[w].pc = "fail"
    <2>1. worker'[w].pc = "idle" /\ \A v \in Worker \ {w} : worker'[v] = worker[v]
      BY <1>9, WorkerTypes DEF Proceed, Abort, IdleWorker
    <2>2. t \in confirmed
      BY <1>1, <1>9 DEF CatchInv, CatchPc
    <2>3. BatchEnded'
      BY <1>2, <1>3, <1>4, <2>2 DEF BatchEnded
    <2>4. CatchInv'
      BY <1>3, <2>1 DEF CatchInv, CatchPc
    <2> QED BY <1>5, <2>3, <2>4 DEF LossInv
  <1> QED BY <1>1, <1>6, <1>7, <1>8, <1>9, CleanProcess

\* A step of the drain takes up a job by the rename, gives one up because its
\* file is incomplete, or carries on.
LEMMA DrainLoss ==
  ASSUME TypeInv, OnceInv, FilesInv({}), RestInv, Clean', TypeInv', LossInv,
         NEW w \in Worker, Drain(w)
  PROVE  LossInv'
  <1>1. PICK o \in WorkerRecord : o = worker[w]
    BY WorkerTypes
  <1>2. /\ \A v \in Worker \ {w} : worker'[v] = worker[v]
        /\ UNCHANGED confirmed
    BY DEF Drain, DrainList, Claim, PassOver, ReadJob, RemoveJob, DrainDone, TakeJob,
       BatchDone, Abort, TypeInv, WorkerInv, workerFrame
  <1>3. ASSUME UNCHANGED <<jobFile, runs>>,
               \A u \in Task : HeldBy(worker'[w], u) <=> HeldBy(o, u)
        PROVE  LossInv'
    <2>1. Carries(w)
      BY <1>1, <1>2, <1>3 DEF Carries
    <2> QED BY <1>2, <2>1, CarriesLoss
  <1>4. CASE DrainList(w)
    <2>1. worker'[w].task = o.task /\ worker'[w].batch = o.batch
          /\ UNCHANGED <<jobFile, runs>>
      BY <1>1, <1>4, WorkerTypes DEF DrainList, WorkerRecord
    <2> QED BY <1>3, <2>1 DEF HeldBy
  <1>5. CASE DrainDone(w)
    <2>1. worker'[w].task = o.task /\ worker'[w].batch = o.batch
          /\ UNCHANGED <<jobFile, runs>>
      BY <1>1, <1>5, WorkerTypes DEF DrainDone, WorkerRecord
    <2> QED BY <1>3, <2>1 DEF HeldBy
  <1>6. CASE BatchDone(w)
    <2>1. worker'[w] = IdleWorker /\ UNCHANGED <<jobFile, runs>>
          /\ o.batch = {} /\ o.task = NoTask
      BY <1>1, <1>6, WorkerTypes DEF BatchDone, Abort, RestInv
    <2> QED BY <1>3, <2>1 DEF HeldBy, IdleWorker
  <1>7. CASE ReadJob(w)
    <2>1. PICK t \in Task : t = o.task
      BY <1>1, <1>7 DEF ReadJob, TypeInv, WorkerInv, Good
    <2>2. UNCHANGED <<jobFile, runs>> /\ o.pc = "read"
      BY <1>1, <1>7 DEF ReadJob
    <2>3. CASE Abort(w) /\ ~jobFile[t].whole
      <3>1. jobFile[t].at = "processing" /\ runs[t] = 0
            /\ \A v \in Worker : Reading(worker[v], t) => v = w
        BY <1>1, <2>1, <2>2 DEF OnceInv, JobInv, Reading
      <3>2. \A v \in Worker : t \notin worker[v].batch
        BY <2>3 DEF FilesInv, TaskInv, OneRun
      <3>3. ASSUME NEW v \in Worker \ {w} PROVE worker[v].task # t
        <4>1. worker[v].pc \notin {"read", "remove"} \/ worker[v].task # t
          BY <3>1 DEF Reading
        <4>2. worker[v].pc \in RunPc => worker[v].task # t
          BY <2>3, <3>1 DEF FilesInv, TaskInv, OneRun, Handles
        <4>3. worker[v].pc \in {"idle", "claim", "next"} => worker[v].task # t
          BY LocalAssumption DEF RestInv
        <4>4. worker[v].pc \in WorkerPc
          BY DEF TypeInv, WorkerInv, Good, WorkerRecord
        <4> QED
          BY <4>1, <4>2, <4>3, <4>4 DEF WorkerPc, DrainPc, RunPc
      <3>4. ~Held(t)'
        BY <1>2, <2>3, <3>2, <3>3, WorkerTypes, LocalAssumption DEF Held, Abort, IdleWorker
      <3> QED BY <2>2, <3>1, <3>4 DEF LossInv, BatchEnded
    <2>4. CASE worker' = [worker EXCEPT ![w].pc = "remove", ![w].batch = @ \cup {t}]
      <3>1. worker'[w].task = o.task /\ worker'[w].batch = o.batch \cup {t}
        BY <1>1, <2>4, WorkerTypes DEF WorkerRecord
      <3> QED BY <1>3, <2>1, <2>2, <3>1 DEF HeldBy
    <2> QED BY <1>1, <1>7, <2>1, <2>3, <2>4, NoTrouble DEF ReadJob
  <1>8. CASE RemoveJob(w)
    <2>1. PICK t \in Task : t = o.task
      BY <1>1, <1>8 DEF RemoveJob, TypeInv, WorkerInv, Good
    <2>2. /\ o.pc = "remove" /\ runs' = runs
          /\ jobFile' = [jobFile EXCEPT ![t].at = "gone"]
          /\ worker'[w].task = NoTask /\ worker'[w].batch = o.batch
      BY <1>1, <1>8, <2>1, NoTrouble, WorkerTypes DEF RemoveJob, WorkerRecord
    <2>3. t \in o.batch
      BY <1>1, <2>1, <2>2 DEF RestInv
    <2>4. jobFile[t].at = "processing"
      BY <1>1, <2>1, <2>2 DEF OnceInv, JobInv, Reading
    <2>5. \A u \in Task \ {t} : jobFile'[u] = jobFile[u]
      BY <2>2, UpdateAt DEF TypeInv
    <2>6. Carries(w)
      BY <1>1, <1>2, <2>1, <2>2, <2>3, <2>4, <2>5, LocalAssumption DEF Carries, HeldBy
    <2> QED BY <1>2, <2>6, CarriesLoss
  <1>9. ASSUME NEW t \in Task, TakeJob(w, t) PROVE LossInv'
    <2>1. /\ o.pc = "next" /\ t \in o.batch
          /\ worker'[w].task = t /\ worker'[w].batch = o.batch \ {t}
          /\ jobFile' = jobFile /\ runs' = [runs EXCEPT ![t] = @ + 1]
      BY <1>1, <1>9, WorkerTypes DEF TakeJob, WorkerRecord
    <2>2. o.task = NoTask
      BY <1>1, <2>1 DEF RestInv
    <2>3. \A u \in Task : runs[u] # 0 => runs'[u] # 0
      BY <2>1 DEF TypeInv, QueueInv
    <2>4. \A u \in Task : HeldBy(worker'[w], u) <=> HeldBy(o, u)
      BY <2>1, <2>2, LocalAssumption DEF HeldBy
    <2>5. Carries(w)
      BY <1>1, <1>2, <2>1, <2>3, <2>4 DEF Carries
    <2> QED BY <1>2, <2>5, CarriesLoss
  <1>10. ASSUME NEW t \in Task, Claim(w, t) PROVE LossInv'
    <2>1. CASE PassOver(w, t) /\ UNCHANGED jobFile
      <3>1. worker'[w].task = o.task /\ worker'[w].batch = o.batch /\ runs' = runs
        BY <1>1, <1>10, <2>1, WorkerTypes DEF PassOver, Claim, WorkerRecord
      <3> QED BY <1>3, <2>1, <3>1 DEF HeldBy
    <2>2. CASE /\ jobFile[t].at = "pending" /\ Rename(t)
               /\ ~(PassOver(w, t) /\ UNCHANGED jobFile)
      <3>1. /\ o.pc = "claim" /\ worker'[w].task = t /\ worker'[w].batch = o.batch
            /\ runs' = runs
        BY <1>1, <1>10, <2>2, NoTrouble, WorkerTypes DEF Claim, WorkerRecord
      <3>2. o.task = NoTask
        BY <1>1, <3>1 DEF RestInv
      <3>3. \A u \in Task \ {t} : jobFile'[u] = jobFile[u]
        BY <2>2, UpdateAt DEF Rename, TypeInv
      <3>4. Held(t)'
        BY <3>1 DEF Held
      <3>5. \A u \in Task \ {t} : Held(u)' <=> Held(u)
        BY <1>1, <1>2, <3>1, <3>2, LocalAssumption DEF Held
      <3>6. BatchEnded => BatchEnded'
        BY <1>2, <2>2, <3>1, <3>3, <3>5 DEF BatchEnded
      <3>7. \A u \in Task : Lost(u)' => Lost(u)
        BY <3>1, <3>3, <3>4, <3>5 DEF Lost
      <3> QED BY <3>6, <3>7 DEF LossInv
    <2>3. \/ PassOver(w, t) /\ UNCHANGED jobFile
          \/ jobFile[t].at = "pending" /\ Rename(t)
      BY <1>10, NoTrouble DEF Claim
    <2> QED BY <2>1, <2>2, <2>3
  <1> QED BY <1>4, <1>5, <1>6, <1>7, <1>8, <1>9, <1>10 DEF Drain

LEMMA DrainCause ==
  ASSUME TypeInv, OnceInv, FilesInv({}), RestInv, Clean', TypeInv', NEW w \in Worker, Drain(w)
  PROVE  Clean /\ (MadeInv /\ CatchInv /\ LossInv => (MadeInv /\ CatchInv /\ LossInv)')
  <1>1. UNCHANGED <<upload, status, confirmed, crashes>> /\ Works
    BY NoTrouble DEF Drain, DrainList, Claim, ReadJob, RemoveJob, DrainDone, TakeJob,
       BatchDone, workerFrame, Works
  <1>2. Clean
    BY <1>1 DEF Clean, Works
  <1>3. \A u \in Task : jobFile'[u].at # "none" => jobFile[u].at # "none"
    <2>1. ASSUME NEW t \in Task, NEW a \in {"processing", "gone"}, jobFile[t].at # "none",
                 jobFile' = [jobFile EXCEPT ![t].at = a]
          PROVE  \A u \in Task : jobFile'[u].at # "none" => jobFile[u].at # "none"
      BY <2>1, UpdateAt DEF TypeInv
    <2>2. worker[w].pc = "remove" =>
            worker[w].task \in Task /\ jobFile[worker[w].task].at = "processing"
      BY DEF TypeInv, WorkerInv, Good, OnceInv, JobInv, Reading
    <2>3. \/ jobFile' = jobFile
          \/ \E t \in Task : \E a \in {"processing", "gone"} :
               jobFile[t].at # "none" /\ jobFile' = [jobFile EXCEPT ![t].at = a]
      BY <2>2 DEF Drain, DrainList, Claim, ReadJob, RemoveJob, DrainDone, TakeJob,
         BatchDone, Rename
    <2> QED BY <2>1, <2>3
  <1>4. MadeInv => MadeInv'
    BY <1>1, <1>3 DEF MadeInv, Exists
  <1>5. CatchInv => CatchInv'
    <2>1. CASE \E t \in Task : TakeJob(w, t)
      <3>1. worker'[w].pc = "parse" /\ \A v \in Worker \ {w} : worker'[v] = worker[v]
        BY <2>1, WorkerTypes DEF TakeJob, WorkerRecord
      <3> QED BY <1>1, <3>1 DEF CatchInv, CatchPc
    <2>2. CASE \E n : Passes(w, n)
      <3>1. worker'[w].pc \notin CatchPc /\ \A v \in Worker \ {w} : worker'[v] = worker[v]
        BY <2>2, WorkerTypes DEF Passes, RunPc
      <3> QED BY <1>1, <3>1 DEF CatchInv
    <2> QED BY <2>1, <2>2, DrainPasses DEF Drain
  <1> QED BY <1>2, <1>4, <1>5, DrainLoss

-----------------------------------------------------------------------------

LEMMA NextCause ==
  TypeInv /\ OnceInv /\ FilesInv({}) /\ CauseInv /\ TypeInv' /\ [Next]_vars => CauseInv'
  <1> SUFFICES ASSUME TypeInv, OnceInv, FilesInv({}), CauseInv, TypeInv', [Next]_vars
               PROVE  CauseInv'
    OBVIOUS
  <1>1. RestInv'
    BY RestNext DEF CauseInv
  <1>2. ASSUME Clean' PROVE Clean /\ (MadeInv /\ CatchInv /\ LossInv
                                         => (MadeInv /\ CatchInv /\ LossInv)')
    <2>1. ~WebCrash /\ \A w \in Worker : ~WorkerCrash(w)
      BY <1>2, NoTrouble DEF WebCrash, WorkerCrash
    <2>2. CASE UNCHANGED vars
      <3>1. BatchEnded' <=> BatchEnded
        BY <2>2 DEF vars, historyVars, BatchEnded, Held
      <3>2. \A u \in Task : Lost(u)' <=> Lost(u)
        BY <2>2 DEF vars, historyVars, Lost, Held
      <3> QED
        BY <1>2, <2>2, <3>1, <3>2 DEF vars, historyVars, boundVars, Clean, MadeInv, Exists,
           CatchInv, LossInv
    <2>3. CASE \E t \in Task : UploadStep(t)
      BY <1>2, <2>3, UploadCause
    <2>4. CASE \E d \in Request : EraseStep(d) \/ \E t \in Task : DeleteStart(d, t)
      BY <1>2, <2>4, DeletionCause
    <2>5. CASE \E w \in Worker : Drain(w)
      BY <1>2, <2>5, DrainCause DEF CauseInv
    <2>6. CASE \E w \in Worker : Process(w)
      BY <1>2, <2>6, ProcessCause, CleanProcess DEF CauseInv
    <2> QED BY <2>1, <2>2, <2>3, <2>4, <2>5, <2>6 DEF Next
  <1> QED BY <1>1, <1>2 DEF CauseInv

LEMMA InitCause == Init => CauseInv
  <1> SUFFICES ASSUME Init PROVE CauseInv
    OBVIOUS
  <1>1. RestInv /\ CatchInv
    BY DEF Init, IdleWorker, RestInv, CatchInv, CatchPc
  <1>2. MadeInv /\ LossInv
    BY DEF Init, MadeInv, LossInv, Lost
  <1> QED BY <1>1, <1>2 DEF CauseInv

\* While no call has thrown and no process has died, however many workers drain
\* the directory at once, a job is lost only where drainMemoryTaskJobs met an
\* incomplete file or runMemoryTaskQueueOnce a task that was deleted.
THEOREM LossExplained == Spec => []LossHasCause
  <1>1. CauseInv => LossHasCause
    BY DEF CauseInv, Clean, LossInv, LossHasCause
  <1>2. Spec => []CauseInv
    BY InitCause, NextCause, AlwaysOnce, AlwaysFiles, PTL DEF Spec
  <1> QED
    BY <1>1, <1>2, PTL

=============================================================================
