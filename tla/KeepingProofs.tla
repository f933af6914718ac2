---------------------------- MODULE KeepingProofs ----------------------------
(***************************************************************************)
(* What a task keeps: proofs for every number of tasks, slots, requests,   *)
(* faults and crashes.                                                     *)
(*                                                                         *)
(* An accepted task keeps its row and its document: neither a handler's    *)
(* own cleanup nor an ingestion nor a deletion that is about another task  *)
(* takes them away.  And a task keeps its word: its status tells which     *)
(* result tables are filled, and a job the queue holds for completed is    *)
(* done for good.                                                          *)
(***************************************************************************)
EXTENDS TaskPipelineProofs

Kept(t) == Exists(t) /\ t \in objects

Asked(t) == t \in expired \/ \E d \in Request : deletion[d].task = t

\* Deletions are about tasks somebody asked to delete: the cleanup works on
\* expired tasks only, and a request that was answered remains the request it
\* was.
AskedInv ==
  /\ todo \subseteq expired
  /\ deletion[Cleaner].pc \in {"object", "record", "commit"} =>
       deletion[Cleaner].task \in expired
  /\ \A d \in Request : deletion[d].pc = "idle" => deletion[d].task = NoTask

\* A handler that has registered its task leaves both in place.
HandlerKeeps == \A t \in Task : upload[t] \in {"enqueue", "markFailed"} => Kept(t)

KeepInv == CustodyInv /\ AskedInv /\ HandlerKeeps /\ AcceptedIsKept

LEMMA KeptUnlessAsked ==
  AcceptedIsKept <=> \A t \in Task : upload[t] = "accepted" /\ ~Asked(t) => Kept(t)
  BY DEF AcceptedIsKept, Asked, Kept

LEMMA KeptUnlessAskedNext ==
  AcceptedIsKept' <=> \A t \in Task : upload'[t] = "accepted" /\ ~Asked(t)' => Kept(t)'
  BY DEF AcceptedIsKept, Asked, Kept, Exists

\* What no step but an upload handler's does: take away a row or a document
\* nobody asked to delete, or forget that somebody asked.
Spares ==
  /\ upload' = upload
  /\ \A t \in Task : /\ Kept(t) => Kept(t)' \/ (Asked(t) /\ Settled(t))
                     /\ Asked(t) => Asked(t)'
  /\ AskedInv'

LEMMA SparesKeeps ==
  ASSUME KeepInv, CustodyInv', Spares
  PROVE  KeepInv'
  <1>1. HandlerKeeps'
    BY DEF KeepInv, HandlerKeeps, Spares, Settled
  <1>2. AcceptedIsKept'
    BY KeptUnlessAsked, KeptUnlessAskedNext DEF KeepInv, Spares
  <1> QED BY <1>1, <1>2 DEF KeepInv, Spares

LEMMA UploadKeeps ==
  ASSUME KeepInv, CustodyInv', NEW t \in Task, UploadStep(t) \/ UploadCrash(t)
  PROVE  KeepInv'
  <1> USE DEF KeepInv
  <1>1. UploadEffect(t)
    BY UploadHasEffect
  <1>2. upload'[t] \in {"enqueue", "markFailed", "accepted"} => Kept(t)'
    <2> USE DEF StepUpload, Returns, Throws, Kept, Exists
    <2>0. TypeOK /\ UploadCustody
      BY DEF CustodyInv, TypeInv
    <2> USE <2>0 DEF TypeOK
    <2>1. CASE UploadStore(t)
      BY <2>1 DEF UploadStore
    <2>2. CASE UploadCreate(t)
      BY <2>2 DEF UploadCreate, InsertRecord, QueuedRecord, NoRecord, UploadCustody
    <2>3. CASE UploadUndo(t)
      BY <2>3 DEF UploadUndo
    <2>4. CASE UploadEnqueue(t)
      BY <2>4 DEF UploadEnqueue, dataVars, HandlerKeeps
    <2>5. CASE UploadMarkFailed(t)
      BY <2>5 DEF UploadMarkFailed, UpdateRecord, NoRecord, HandlerKeeps
    <2>6. CASE UploadCrash(t)
      BY <2>6 DEF UploadCrash
    <2> QED BY <2>1, <2>2, <2>3, <2>4, <2>5, <2>6 DEF UploadStep
  <1>3. \A u \in Task \ {t} : upload'[u] = upload[u] /\ (Kept(u)' <=> Kept(u))
    BY <1>1 DEF UploadEffect, Kept
  <1>4. AskedInv' /\ \A u \in Task : Asked(u)' <=> Asked(u)
    BY <1>1 DEF UploadEffect, eraseVars, AskedInv, Asked
  <1>5. HandlerKeeps'
    BY <1>2, <1>3 DEF HandlerKeeps
  <1>6. AcceptedIsKept'
    BY <1>2, <1>3, <1>4, KeptUnlessAsked, KeptUnlessAskedNext
  <1> QED BY <1>4, <1>5, <1>6

\* Nothing changes for a step that leaves the data and the deletions alone.
LEMMA OthersSpare ==
  ASSUME AskedInv, UNCHANGED <<upload, objects, eraseVars, expired>>,
         \A t \in Task : Exists(t)' <=> Exists(t)
  PROVE  Spares
  BY DEF Spares, AskedInv, Asked, Kept, eraseVars

LEMMA CleanupIsNoRequest == Cleaner \notin Request /\ Request \subseteq Eraser /\ Cleaner \in Eraser
  BY PipelineAssumption DEF Eraser

\* An answer keeps what a request asked for, and ends the cleanup's deletion.
LEMMA AnswerSpares ==
  ASSUME TypeOK, AskedInv, NEW d \in Eraser, deletion[d].pc # "idle",
         NEW verdict \in {"ok", "failed", "crashed"}, Answer(d, verdict),
         todo' \subseteq todo, UNCHANGED expired
  PROVE  AskedInv' /\ \A t \in Task : Asked(t) => Asked(t)'
  <1>1. \A e \in Request : /\ deletion'[e].task = deletion[e].task
                           /\ deletion'[e].pc = "idle" => deletion[e].pc = "idle"
    BY CleanupIsNoRequest DEF Answer, TypeOK, Deletion
  <1>2. deletion'[Cleaner].pc \in {"object", "record", "commit"} =>
          deletion'[Cleaner] = deletion[Cleaner]
    BY Answered, CleanupIsNoRequest
  <1> QED BY <1>1, <1>2 DEF AskedInv, Asked

\* A deletion goes on about the task it was about.
LEMMA OnwardSpares ==
  ASSUME TypeOK, AskedInv, NEW d \in Eraser,
         deletion[d].pc \in {"object", "record", "commit"},
         NEW pc \in {"record", "commit"}, deletion' = [deletion EXCEPT ![d].pc = pc],
         UNCHANGED <<todo, expired>>
  PROVE  AskedInv' /\ \A t \in Task : Asked(t) => Asked(t)'
  <1>1. \A e \in Eraser : /\ deletion'[e].task = deletion[e].task
                          /\ deletion'[e].pc \in {"object", "record", "commit"} =>
                               deletion[e].pc \in {"object", "record", "commit"}
                          /\ deletion'[e].pc = "idle" => deletion[e].pc = "idle"
    BY DEF TypeOK, Deletion
  <1> QED BY <1>1, CleanupIsNoRequest DEF AskedInv, Asked

\* Whoever works on a task was asked to.
LEMMA ErasedIsAsked ==
  ASSUME KeepInv, NEW d \in Eraser, deletion[d].pc \in {"object", "record", "commit"}
  PROVE  /\ deletion[d].task \in Task
         /\ Asked(deletion[d].task) /\ Settled(deletion[d].task)
  <1>1. deletion[d].task \in Task
    BY DEF KeepInv, CustodyInv, TypeInv, DeletionInv
  <1>2. Settled(deletion[d].task)
    BY <1>1 DEF KeepInv, CustodyInv, EraserCustody, Erasing
  <1>3. Asked(deletion[d].task)
    BY DEF KeepInv, AskedInv, Asked, Eraser
  <1> QED BY <1>1, <1>2, <1>3

LEMMA EraserSpares ==
  ASSUME KeepInv, NEW d \in Eraser, EraseStep(d) \/ DeleteCrash(d)
  PROVE  Spares
  <1> DEFINE t == deletion[d].task
  <1>0. TypeOK /\ AskedInv
    BY DEF KeepInv, CustodyInv, TypeInv
  <1>1. deletion[d].pc \in {"object", "record", "commit"}
    BY DEF EraseStep, DeleteObject, DeleteLookup, DeleteCommit, DeleteCrash
  <1>2. t \in Task /\ Asked(t) /\ Settled(t)
    BY <1>1, ErasedIsAsked
  <1>3. UNCHANGED <<upload, expired>> /\ todo' \subseteq todo
    BY DEF EraseStep, DeleteObject, DeleteLookup, DeleteCommit, DeleteCrash, eraseFrame
  <1>4. \A u \in Task \ {t} : Kept(u) => Kept(u)'
    <2>1. UNCHANGED objects \/ DropObject(t)
      BY DEF EraseStep, DeleteObject, DeleteLookup, DeleteCommit, DeleteCrash,
         Returns, Throws, dataVars
    <2>2. UNCHANGED record \/ record' = [record EXCEPT ![t] = NoRecord]
      BY DEF EraseStep, DeleteObject, DeleteLookup, DeleteCommit, DeleteCrash,
         Returns, Throws, dataVars, EraseRow
    <2> QED BY <1>0, <2>1, <2>2 DEF Kept, Exists, DropObject, TypeOK
  <1>5. \/ \E verdict \in {"ok", "failed", "crashed"} : Answer(d, verdict)
        \/ /\ UNCHANGED <<todo, expired>>
           /\ \E pc \in {"record", "commit"} : deletion' = [deletion EXCEPT ![d].pc = pc]
    BY <1>3 DEF EraseStep, DeleteObject, DeleteLookup, DeleteCommit, DeleteCrash, eraseFrame
  <1>6. AskedInv' /\ \A u \in Task : Asked(u) => Asked(u)'
    BY <1>0, <1>1, <1>3, <1>5, AnswerSpares, OnwardSpares
  <1> QED BY <1>2, <1>3, <1>4, <1>6 DEF Spares

LEMMA TakingUpSpares ==
  ASSUME KeepInv,
         \/ \E t \in Task : Expire(t) \/ CleanupNext(t)
         \/ CleanupList
         \/ \E d \in Request, t \in Task : DeleteStart(d, t)
  PROVE  Spares
  <1>0. TypeOK /\ AskedInv
    BY DEF KeepInv, CustodyInv, TypeInv
  <1>1. ASSUME NEW t \in Task, Expire(t) PROVE Spares
    BY <1>0, <1>1 DEF Expire, Spares, AskedInv, Asked, Kept, Exists, dataVars, eraseVars
  <1>2. ASSUME NEW t \in Task, CleanupNext(t) PROVE Spares
    <2>1. t \in expired
      BY <1>0, <1>2 DEF CleanupNext, AskedInv
    <2>2. \A d \in Request : deletion'[d] = deletion[d]
      BY <1>0, <1>2, CleanupIsNoRequest DEF CleanupNext, TypeOK
    <2>3. deletion'[Cleaner].task = t
      BY <1>0, <1>2, CleanupIsNoRequest DEF CleanupNext, TypeOK
    <2> QED BY <1>0, <1>2, <2>1, <2>2, <2>3 DEF CleanupNext, Spares, AskedInv, Asked,
            Kept, Exists, dataVars
  <1>3. CASE CleanupList
    BY <1>0, <1>3 DEF CleanupList, Listed, Spares, AskedInv, Asked, Kept, Exists, dataVars
  <1>4. ASSUME NEW d \in Request, NEW t \in Task, DeleteStart(d, t) PROVE Spares
    <2>1. /\ deletion'[Cleaner] = deletion[Cleaner]
          /\ \A e \in Request \ {d} : deletion'[e] = deletion[e]
          /\ deletion'[d].pc = "object"
      BY <1>0, <1>4, CleanupIsNoRequest DEF DeleteStart, TypeOK
    <2>2. deletion[d].task \notin Task
      BY <1>0, <1>4, PipelineAssumption DEF DeleteStart, AskedInv
    <2> QED BY <1>0, <1>4, <2>1, <2>2 DEF DeleteStart, Spares, AskedInv, Asked, Kept,
            Exists, dataVars
  <1> QED BY <1>1, <1>2, <1>3, <1>4

LEMMA KeepStep ==
  ASSUME KeepInv, [Next]_vars
  PROVE  KeepInv'
  <1>1. CustodyInv /\ CustodyInv' /\ AskedInv
    BY NextCustody DEF KeepInv
  <1>2. CASE \E t \in Task : UploadStep(t) \/ UploadCrash(t)
    BY <1>1, <1>2, UploadKeeps
  <1>3. CASE UNCHANGED vars
    BY <1>1, <1>3, OthersSpare, SparesKeeps DEF vars, dataVars, Exists
  <1>4. CASE \/ \E t \in Task : Promote(t) \/ Stall(t)
             \/ \E w \in Slot : LoseLock(w) \/ SlotCrash(w)
             \/ \E w \in Slot, t \in Task : Deliver(w, t)
    <2>1. UNCHANGED <<upload, dataVars, eraseVars, expired>>
      BY <1>4 DEF Promote, Stall, LoseLock, SlotCrash, Deliver
    <2> QED BY <1>1, <2>1, OthersSpare, SparesKeeps DEF dataVars, Exists
  <1>5. CASE \E w \in Slot : Process(w)
    BY <1>1, <1>5, ProcessEffect, OthersSpare, SparesKeeps DEF CustodyInv, WorkerEffect
  <1>6. CASE \/ \E t \in Task : Expire(t) \/ CleanupNext(t)
             \/ CleanupList
             \/ \E d \in Request, t \in Task : DeleteStart(d, t)
    BY <1>1, <1>6, TakingUpSpares, SparesKeeps
  <1>7. CASE \E d \in Eraser : EraseStep(d) \/ DeleteCrash(d)
    BY <1>1, <1>7, EraserSpares, SparesKeeps
  <1> QED BY <1>2, <1>3, <1>4, <1>5, <1>6, <1>7 DEF Next

\* An accepted upload keeps its row and its document as long as no user asked
\* for their deletion and the retention period has not passed, whatever else
\* fails, crashes, is retried or deleted.
THEOREM AcceptedKept == Spec => []AcceptedIsKept
  <1>1. Init => KeepInv
    <2> SUFFICES ASSUME Init PROVE KeepInv
      OBVIOUS
    <2>1. AskedInv
      BY CleanupIsNoRequest DEF Init, AskedInv, IdleDeletion
    <2>2. HandlerKeeps /\ AcceptedIsKept
      BY DEF Init, HandlerKeeps, AcceptedIsKept
    <2> QED BY <2>1, <2>2, InitCustody DEF KeepInv
  <1>2. KeepInv /\ [Next]_vars => KeepInv'
    BY KeepStep
  <1>3. KeepInv => AcceptedIsKept
    BY DEF KeepInv
  <1> QED BY <1>1, <1>2, <1>3, PTL DEF Spec

-----------------------------------------------------------------------------
(* What the status says of the result tables.  One slot at a time works on *)
(* the task, and where it is in processTaskJob tells what the row and the  *)
(* tables can hold.                                                        *)

\* Slot w works on task t.
Works(w, t) == slot[w].pc # "idle" /\ slot[w].task = t

\* Before an upload handler has the queue's answer.
Unqueued == {"idle", "create", "undo", "enqueue"}

\* A slot is at a task only while it holds the lock of the active job, or when
\* it lost the answer of a queue that holds the job for completed; and no
\* second slot is at it.
OneSlot(t) ==
  /\ upload[t] \in Unqueued => job[t].state = "none"
  /\ \A w \in Slot : Works(w, t) =>
       \/ job[t].state = "active" /\ holder[t] = w
       \/ job[t].state = "completed" /\ slot[w].pc = "nack"
  /\ \A v, w \in Slot : Works(v, t) /\ Works(w, t) => v = w

\* The last writer of the row was the upload handler the queue refused.
Refused(t) == record[t].failure = "queue_unavailable"

Over(t) == ~Exists(t) \/ Refused(t) \/ Done(t)

\* The row, the tables and the job.
RowFits(t) ==
  /\ record[t].status = "completed" /\ ~Unfinished(t) => results[t] = Tables
  /\ record[t].status \in {"failed", "queued"} /\ ~RefusedInVain(t) => results[t] = {}
  /\ record[t].status = "absent" => results[t] = {}
  /\ Refused(t) => record[t].status = "failed"
  /\ job[t].state = "none" => record[t].status \notin {"processing", "completed"}
  /\ job[t].state = "completed" => Over(t)

\* The tables that have been filled, and emptied, when processTaskJob is at pc.
Filled(pc) ==
  CASE pc = "segments" -> {"risk_findings"}
    [] pc = "rewrites" -> {"risk_findings", "document_segments"}
    [] pc = "complete" -> Tables
    [] OTHER -> {}

Emptied(pc) ==
  CASE pc = "dropSegments" -> {"risk_findings"}
    [] pc = "dropRewrites" -> {"risk_findings", "document_segments"}
    [] pc = "fail" -> Tables
    [] OTHER -> {}

\* What the slot has done so far shows in the row and the tables.
SlotFits(w, t) ==
  LET pc == slot[w].pc
  IN /\ pc \in {"scan", "risks", "segments", "rewrites", "complete"} =>
          record[t].status \in {"processing", "absent"} \/ Refused(t)
     /\ pc = "ack" => Over(t)
     /\ Exists(t) => Filled(pc) \subseteq results[t]
     /\ Emptied(pc) \cap results[t] = {}

RunInv(t) == OneSlot(t) /\ RowFits(t) /\ \A w \in Slot : Works(w, t) => SlotFits(w, t)

RunsInv == \A t \in Task \ unlocked : RunInv(t)

LEMMA Statuses ==
  ASSUME TypeOK, NEW t \in Task
  PROVE  /\ Exists(t) <=> record[t].status # "absent"
         /\ record[t].status \in {"queued", "processing", "failed", "completed", "absent"}
  BY DEF TypeOK, Exists, TaskRecord, NoRecord

LEMMA UpdateStatus ==
  ASSUME TypeOK, NEW t \in Task, NEW status \in {"processing", "failed", "completed"},
         NEW stage, NEW failure, UpdateRecord(t, status, stage, failure)
  PROVE  /\ Exists(t) => record'[t].status = status /\ record'[t].failure = failure
         /\ Exists(t)' <=> Exists(t)
         /\ ~Exists(t) => record'[t] = record[t] /\ record[t] = NoRecord
         /\ \A u \in Task \ {t} : record'[u] = record[u]
  BY DEF UpdateRecord, TypeOK, Exists, NoRecord

\* A catch block is at work on task t only in a slot that works on it.
LEMMA UnfinishedWork ==
  ASSUME NEW t \in Task
  PROVE  /\ Unfinished(t) <=>
              \/ t \in cutShort
              \/ \E w \in Slot : Works(w, t) /\ slot[w].pc \in CatchPc \ {"nack"}
         /\ Unfinished(t)' <=>
              \/ t \in cutShort'
              \/ \E w \in Slot : Works(w, t)' /\ slot'[w].pc \in CatchPc \ {"nack"}
  BY DEF Unfinished, Works, CatchPc

\* Nothing happens to task t.
Untouched(t) ==
  /\ record'[t] = record[t] /\ results'[t] = results[t]
  /\ job'[t] = job[t] /\ upload'[t] = upload[t] /\ holder'[t] = holder[t]
  /\ t \in cutShort' <=> t \in cutShort
  /\ \A w \in Slot : (Works(w, t)' <=> Works(w, t)) /\ (Works(w, t) => slot'[w].pc = slot[w].pc)

LEMMA UntouchedKeeps ==
  ASSUME NEW t \in Task, RunInv(t), Untouched(t)
  PROVE  RunInv(t)'
  <1>1. OneSlot(t)'
    BY DEF RunInv, OneSlot, Untouched
  <1>2. Unfinished(t)' <=> Unfinished(t)
    BY UnfinishedWork DEF Untouched
  <1>3. RowFits(t)'
    BY <1>2 DEF RunInv, RowFits, Untouched, Refused, RefusedInVain, Over, Done, Exists
  <1>4. ASSUME NEW w \in Slot, Works(w, t)' PROVE SlotFits(w, t)'
    <2>1. SlotFits(w, t) /\ slot'[w].pc = slot[w].pc
      BY <1>4 DEF RunInv, Untouched
    <2> QED BY <2>1 DEF SlotFits, Untouched, Refused, Over, Done, Exists
  <1> QED BY <1>1, <1>3, <1>4 DEF RunInv

\* No slot is at task t afterwards.
LEMMA NobodyThere ==
  ASSUME NEW t \in Task, \A w \in Slot : ~Works(w, t)', RowFits(t)',
         upload'[t] \in Unqueued => job'[t].state = "none"
  PROVE  RunInv(t)'
  BY DEF RunInv, OneSlot

\* While a slot is at task t its upload handler has heard of the queue.
LEMMA WorkIsQueued ==
  ASSUME NEW t \in Task, NEW w \in Slot, RunInv(t), Works(w, t)
  PROVE  /\ upload[t] \notin Unqueued
         /\ \A v \in Slot : Works(v, t) => v = w
         /\ job[t].state \in {"active", "completed"}
  BY DEF RunInv, OneSlot

\* The one slot that is at task t goes on.
LEMMA GoesOn ==
  ASSUME NEW t \in Task, NEW w \in Slot, RunInv(t), Works(w, t),
         \A v \in Slot \ {w} : slot'[v] = slot[v], upload'[t] = upload[t],
         \/ job'[t].state = "active" /\ holder'[t] = w
         \/ job'[t].state = "completed" /\ slot'[w].pc = "nack",
         RowFits(t)', SlotFits(w, t)'
  PROVE  RunInv(t)'
  <1>1. upload'[t] \notin Unqueued
    BY WorkIsQueued
  <1>2. \A v \in Slot : Works(v, t)' => v = w
    BY WorkIsQueued DEF Works
  <1> QED BY <1>1, <1>2 DEF RunInv, OneSlot

\* The one slot that is at task t leaves it.
LEMMA LeavesIt ==
  ASSUME NEW t \in Task, NEW w \in Slot, RunInv(t), Works(w, t),
         \A v \in Slot \ {w} : slot'[v] = slot[v], slot'[w].pc = "idle",
         upload'[t] = upload[t], RowFits(t)'
  PROVE  RunInv(t)'
  <1>1. upload'[t] \notin Unqueued
    BY WorkIsQueued
  <1>2. \A v \in Slot : ~Works(v, t)'
    BY WorkIsQueued DEF Works
  <1> QED BY <1>1, <1>2, NobodyThere

-----------------------------------------------------------------------------
(* Upload handlers, queue, deletions *)

\* What an upload handler leaves alone.
LEMMA UploadLeaves ==
  ASSUME NEW t \in Task, UploadStep(t) \/ UploadCrash(t)
  PROVE  UNCHANGED <<results, holder, slot, cutShort, unlocked>>
  BY DEF UploadStep, UploadStore, UploadCreate, UploadUndo, UploadEnqueue,
     UploadMarkFailed, UploadCrash, dataVars, queueVars, slotVars

\* Before the queue has answered nobody is at the task and its tables are empty.
LEMMA IntakeRuns ==
  ASSUME TypeOK, NEW t \in Task, RunInv(t), UploadStep(t) \/ UploadCrash(t),
         upload[t] \in Unqueued
  PROVE  RunInv(t)'
  <1>1. UNCHANGED <<results, holder, slot, cutShort>>
    BY UploadLeaves
  <1>2. job[t].state = "none"
    BY DEF RunInv, OneSlot
  <1>3. \A w \in Slot : ~Works(w, t)'
    BY <1>1, <1>2 DEF RunInv, OneSlot, Works
  <1>4. record[t].status \in {"queued", "failed", "absent"} /\ results[t] = {}
        /\ (Refused(t) => record[t].status = "failed")
    BY <1>2, Statuses DEF RunInv, RowFits, RefusedInVain
  <1>5. job'[t].state \in {"none", "waiting"} /\ (upload'[t] \in Unqueued => job'[t].state = "none")
    <2>1. CASE UploadEnqueue(t)
      <3>1. upload'[t] \in {"accepted", "markFailed"}
        BY <2>1 DEF UploadEnqueue, StepUpload, TypeOK
      <3>2. job' = job \/ AddJob(t)
        BY <2>1 DEF UploadEnqueue, Returns, Throws
      <3> QED BY <1>2, <3>1, <3>2 DEF AddJob, TypeOK, Job, Unqueued
    <2>2. CASE ~UploadEnqueue(t)
      BY <1>2, <2>2 DEF UploadStep, UploadStore, UploadCreate, UploadUndo,
         UploadMarkFailed, UploadCrash, queueVars
    <2> QED BY <2>1, <2>2
  <1>6. record'[t] = QueuedRecord \/ record'[t] = record[t]
    <2>1. CASE UploadCreate(t)
      <3>1. InsertRecord(t) \/ record' = record
        BY <2>1 DEF UploadCreate, Returns, Throws
      <3> QED BY <3>1 DEF InsertRecord, TypeOK
    <2>2. CASE ~UploadCreate(t)
      BY <2>2 DEF UploadStep, UploadStore, UploadUndo, UploadEnqueue, UploadMarkFailed,
         UploadCrash, dataVars, Unqueued
    <2> QED BY <2>1, <2>2
  <1>7. record'[t].status \in {"queued", "failed", "absent"}
        /\ (Refused(t)' => record'[t].status = "failed")
    BY <1>4, <1>6 DEF QueuedRecord, Refused
  <1>8. RowFits(t)'
    BY <1>1, <1>4, <1>5, <1>7 DEF RowFits
  <1> QED BY <1>3, <1>5, <1>8, NobodyThere

\* The late handler: it writes failed over whatever is there.
LEMMA LateHandlerRuns ==
  ASSUME TypeOK, NEW t \in Task, RunInv(t), UploadStep(t) \/ UploadCrash(t),
         upload[t] \notin Unqueued
  PROVE  RunInv(t)'
  <1>1. UNCHANGED <<results, holder, slot, cutShort>>
    BY UploadLeaves
  <1>2. /\ job' = job
        /\ UpdateRecord(t, "failed", "upload", "queue_unavailable") \/ record' = record
        /\ upload'[t] \notin Unqueued
    BY DEF UploadStep, UploadStore, UploadCreate, UploadUndo, UploadEnqueue,
       UploadMarkFailed, UploadCrash, Unqueued, Returns, Throws, StepUpload, TypeOK,
       dataVars, queueVars
  <1>3. \/ record'[t] = record[t]
        \/ record'[t].status = "failed" /\ Refused(t)' /\ Exists(t) /\ Exists(t)'
    <2>1. CASE UpdateRecord(t, "failed", "upload", "queue_unavailable")
      BY <2>1, UpdateStatus DEF Refused
    <2> QED BY <1>2, <2>1
  <1>4. CASE record'[t] = record[t]
    <2>1. \A w \in Slot : Works(w, t)' <=> Works(w, t)
      BY <1>1 DEF Works
    <2>2. RowFits(t)'
      BY <1>1, <1>2, <1>4 DEF RunInv, RowFits, Unfinished, Refused, RefusedInVain, Over,
         Done, Exists
    <2>3. \A w \in Slot : SlotFits(w, t) => SlotFits(w, t)'
      BY <1>1, <1>4 DEF SlotFits, Refused, Over, Done, Exists
    <2> QED BY <1>1, <1>2, <2>1, <2>2, <2>3 DEF RunInv, OneSlot
  <1>5. CASE record'[t].status = "failed" /\ Refused(t)' /\ Exists(t) /\ Exists(t)'
    <2>1. \A w \in Slot : Works(w, t)' <=> Works(w, t)
      BY <1>1 DEF Works
    <2>2. RefusedInVain(t)' \/ (job[t].state = "none" /\ results[t] = {})
      <3>1. CASE job[t].state = "none"
        <4>1. record[t].status \in {"failed", "queued"}
          BY <1>5, <3>1, Statuses DEF RunInv, RowFits
        <4> QED BY <3>1, <4>1 DEF RunInv, RowFits, RefusedInVain
      <3>2. CASE job[t].state # "none"
        BY <1>2, <1>5, <3>2 DEF RefusedInVain, Refused
      <3> QED BY <3>1, <3>2
    <2>3. RowFits(t)'
      BY <1>1, <1>2, <1>5, <2>2 DEF RowFits, Over
    <2>4. \A w \in Slot : SlotFits(w, t) => SlotFits(w, t)'
      BY <1>1, <1>5 DEF SlotFits, Over
    <2> QED BY <1>1, <1>2, <2>1, <2>3, <2>4 DEF RunInv, OneSlot
  <1> QED BY <1>3, <1>4, <1>5

LEMMA UploadElsewhere ==
  ASSUME TypeOK, NEW t \in Task, UploadStep(t) \/ UploadCrash(t), NEW u \in Task \ {t}
  PROVE  Untouched(u)
  <1>1. UNCHANGED <<results, holder, slot, cutShort>>
    BY UploadLeaves
  <1>2. upload'[u] = upload[u]
    BY DEF UploadStep, UploadStore, UploadCreate, UploadUndo, UploadEnqueue,
       UploadMarkFailed, UploadCrash, StepUpload, TypeOK
  <1>3. record'[u] = record[u]
    BY DEF UploadStep, UploadStore, UploadCreate, UploadUndo, UploadEnqueue,
       UploadMarkFailed, UploadCrash, dataVars, Returns, Throws, InsertRecord,
       UpdateRecord, TypeOK
  <1>4. job'[u] = job[u]
    BY DEF UploadStep, UploadStore, UploadCreate, UploadUndo, UploadEnqueue,
       UploadMarkFailed, UploadCrash, queueVars, Returns, Throws, AddJob, TypeOK
  <1> QED BY <1>1, <1>2, <1>3, <1>4 DEF Untouched, Works

LEMMA DeliverRuns ==
  ASSUME TypeOK, NEW w \in Slot, NEW t \in Task, Deliver(w, t), NEW u \in Task, RunInv(u)
  PROVE  RunInv(u)'
  <1>1. UNCHANGED <<upload, record, results, cutShort>> /\ slot[w].pc = "idle"
        /\ job[t].state = "waiting"
    BY DEF Deliver, dataVars
  <1>2. \A v \in Slot \ {w} : slot'[v] = slot[v]
    BY DEF Deliver, TypeOK
  <1>3. slot'[w].pc \in {"parse", "refuse"} /\ slot'[w].task = t
    BY DEF Deliver, TypeOK
  <1>4. CASE u # t
    <2>1. job'[u] = job[u] /\ holder'[u] = holder[u]
      BY <1>4 DEF Deliver, TypeOK
    <2> QED BY <1>1, <1>2, <1>3, <1>4, <2>1, UntouchedKeeps DEF Untouched, Works
  <1>5. CASE u = t
    <2>1. job'[t].state = "active" /\ holder'[t] = w
      BY DEF Deliver, TypeOK, Job
    <2>2. \A v \in Slot : ~Works(v, t)
      BY <1>1, <1>5 DEF RunInv, OneSlot
    <2>3. \A v \in Slot : Works(v, t)' => v = w
      BY <1>2, <2>2 DEF Works
    <2>4. upload'[t] \notin Unqueued
      BY <1>1, <1>5 DEF RunInv, OneSlot
    <2>5. Unfinished(t)' <=> Unfinished(t)
      BY <1>1, <1>3, <2>2, <2>3, UnfinishedWork DEF CatchPc
    <2>6. RowFits(t)'
      BY <1>1, <1>5, <2>1, <2>5 DEF RunInv, RowFits, Refused, RefusedInVain
    <2>7. SlotFits(w, t)'
      BY <1>3 DEF SlotFits, Filled, Emptied
    <2> QED BY <1>5, <2>1, <2>3, <2>4, <2>6, <2>7 DEF RunInv, OneSlot
  <1> QED BY <1>4, <1>5

LEMMA RedeliverRuns ==
  ASSUME TypeOK, NEW t \in Task, Promote(t) \/ Stall(t), NEW u \in Task, RunInv(u)
  PROVE  RunInv(u)'
  <1>1. UNCHANGED <<upload, record, results, holder, slot, cutShort>>
    BY DEF Promote, Stall, dataVars, slotVars
  <1>2. CASE u # t
    <2>1. job'[u] = job[u]
      BY <1>2 DEF Promote, Stall, TypeOK
    <2> QED BY <1>1, <2>1, UntouchedKeeps DEF Untouched, Works
  <1>3. CASE u = t
    <2>1. /\ job'[t].state = "waiting"
          /\ job[t].state = "delayed" \/ (job[t].state = "active" /\ holder[t] = NoSlot)
      BY DEF Promote, Stall, TypeOK, Job
    <2>2. \A w \in Slot : ~Works(w, t)'
      BY <1>1, <1>3, <2>1, PipelineAssumption DEF RunInv, OneSlot, Works
    <2>3. RowFits(t)'
      BY <1>1, <1>3, <2>1 DEF RunInv, RowFits, Unfinished, Refused, RefusedInVain
    <2>4. upload'[t] \notin Unqueued
      BY <1>1, <1>3, <2>1 DEF RunInv, OneSlot
    <2> QED BY <1>3, <2>2, <2>3, <2>4, NobodyThere
  <1> QED BY <1>2, <1>3

LEMMA SlotLostRuns ==
  ASSUME TypeInv, NEW w \in Slot, LoseLock(w) \/ SlotCrash(w), NEW u \in Task \ unlocked',
         RunInv(u)
  PROVE  RunInv(u)'
  <1>0. PICK t \in Task : TypeOK /\ t = slot[w].task /\ slot[w].pc # "idle"
    BY DEF LoseLock, SlotCrash, TypeInv, SlotInv
  <1>1. UNCHANGED <<upload, record, results, job>>
    BY DEF LoseLock, SlotCrash, dataVars
  <1>2. CASE u # t
    <2>1. holder'[u] = holder[u]
      BY <1>0, <1>2 DEF LoseLock, SlotCrash, TypeOK
    <2>2. \A v \in Slot : (Works(v, u)' <=> Works(v, u))
                          /\ (Works(v, u) => slot'[v].pc = slot[v].pc)
      BY <1>0, <1>2 DEF LoseLock, SlotCrash, TypeOK, Works, IdleSlot, slotVars
    <2>3. u \in cutShort' <=> u \in cutShort
      BY <1>0, <1>2 DEF LoseLock, SlotCrash, slotVars
    <2> QED BY <1>1, <2>1, <2>2, <2>3, UntouchedKeeps DEF Untouched
  <1>3. CASE u = t
    <2>1. SlotCrash(w)
      BY <1>0, <1>3 DEF LoseLock
    <2>2. Works(w, t)
      BY <1>0 DEF Works
    <2>3. slot'[w].pc = "idle" /\ \A v \in Slot \ {w} : slot'[v] = slot[v]
      BY <1>0, <2>1 DEF SlotCrash, TypeOK, IdleSlot
    <2>4. Unfinished(t)'
      BY <1>0, <2>1 DEF SlotCrash, Unfinished
    <2>5. RowFits(t)'
      BY <1>1, <1>3, <2>4 DEF RunInv, RowFits, Refused, RefusedInVain, Over, Done, Exists
    <2> QED BY <1>0, <1>1, <1>3, <2>2, <2>3, <2>5, LeavesIt
  <1> QED BY <1>2, <1>3

LEMMA EraseRuns ==
  ASSUME TypeOK, DeletionInv, NEW d \in Eraser, EraseStep(d) \/ DeleteCrash(d),
         NEW u \in Task, RunInv(u)
  PROVE  RunInv(u)'
  <1> DEFINE t == deletion[d].task
  <1>1. UNCHANGED <<upload, job, holder, slot, cutShort>>
    BY DEF EraseStep, DeleteObject, DeleteLookup, DeleteCommit, DeleteCrash, eraseFrame,
       queueVars, slotVars
  <1>2. CASE UNCHANGED <<record, results>>
    BY <1>1, <1>2, UntouchedKeeps DEF Untouched, Works
  <1>3. CASE EraseRow(t) /\ t \in Task /\ u # t
    <2>1. record'[u] = record[u] /\ results'[u] = results[u]
      BY <1>3 DEF EraseRow, TypeOK
    <2> QED BY <1>1, <2>1, UntouchedKeeps DEF Untouched, Works
  <1>4. CASE EraseRow(t) /\ t \in Task /\ u = t
    <2>1. record'[u] = NoRecord /\ results'[u] = {}
      BY <1>4 DEF EraseRow, TypeOK
    <2>2. OneSlot(u)' /\ (\A w \in Slot : Works(w, u)' <=> Works(w, u))
      BY <1>1, <1>4 DEF RunInv, OneSlot, Works
    <2>3. RowFits(u)'
      BY <2>1 DEF RowFits, NoRecord, Over, Exists, Refused
    <2>4. \A w \in Slot : SlotFits(w, u)'
      BY <2>1 DEF SlotFits, NoRecord, Over, Exists
    <2> QED BY <1>4, <2>2, <2>3, <2>4 DEF RunInv
  <1>5. UNCHANGED <<record, results>> \/ (EraseRow(t) /\ t \in Task)
    BY DEF EraseStep, DeleteObject, DeleteLookup, DeleteCommit, DeleteCrash, dataVars,
       Returns, Throws, DeletionInv
  <1> QED BY <1>2, <1>3, <1>4, <1>5

-----------------------------------------------------------------------------
(* processTaskJob *)

\* A step of slot w that is not about task u.
LEMMA ProcessElsewhere ==
  ASSUME TypeInv, NEW w \in Slot, Process(w), NEW u \in Task, u # slot[w].task, RunInv(u)
  PROVE  RunInv(u)'
  <1> DEFINE t == slot[w].task
  <1>1. slot[w].pc # "idle" /\ upload' = upload
    BY DEF Process, Advance, Publish, Complete, Ack, Withdraw, Fail, Nack,
       Refuse, MoveToFailed, slotFrame, settleFrame
  <1>2. t \in Task /\ TypeOK
    BY <1>1 DEF TypeInv, SlotInv
  <1>3. record'[u] = record[u]
    <2>1. ASSUME NEW s \in {"processing", "failed", "completed"}, NEW g, NEW f,
                 UpdateRecord(t, s, g, f)
          PROVE  record'[u] = record[u]
      BY <1>2, <2>1, UpdateStatus
    <2> QED BY <2>1 DEF Process, Advance, Publish, Complete, Ack, Withdraw, Fail, Nack,
           Refuse, MoveToFailed, settleFrame, dataVars, Returns, Throws
  <1>4. results'[u] = results[u]
    BY <1>2 DEF Process, Advance, Publish, Complete, Ack, Withdraw, Fail, Nack,
       Refuse, MoveToFailed, settleFrame, dataVars, Returns, Throws, InsertRows,
       DeleteRows, TypeOK
  <1>5. job'[u] = job[u] /\ holder'[u] = holder[u]
    BY <1>2 DEF Process, Advance, Publish, Complete, Ack, Withdraw, Fail, Nack,
       Refuse, MoveToFailed, slotFrame, queueVars, Returns, Throws, SettleJob, Abandon, TypeOK
  <1>6. \A v \in Slot : (Works(v, u)' <=> Works(v, u)) /\ (Works(v, u) => slot'[v].pc = slot[v].pc)
    <2>1. \A v \in Slot \ {w} : slot'[v] = slot[v]
      BY <1>2 DEF Process, Advance, Publish, Complete, Ack, Withdraw, Fail, Nack,
         Refuse, MoveToFailed, StepSlot, TypeOK
    <2>2. slot'[w].task \in {t, NoTask}
      BY <1>2 DEF Process, Advance, Publish, Complete, Ack, Withdraw, Fail, Nack,
         Refuse, MoveToFailed, StepSlot, TypeOK, SlotState, IdleSlot
    <2> QED BY <2>1, <2>2, PipelineAssumption DEF Works
  <1>7. u \in cutShort' <=> u \in cutShort
    BY DEF Process, Advance, Publish, Complete, Ack, Withdraw, Fail, Nack, Refuse,
       MoveToFailed, settleFrame, CutShort
  <1> QED BY <1>1, <1>3, <1>4, <1>5, <1>6, <1>7, UntouchedKeeps DEF Untouched

\* What the steps that write the row, or a table, have in common: slot w,
\* the only one at its task, goes on to pc.
LEMMA WorkerGoesOn ==
  ASSUME TypeInv, NEW w \in Slot, NEW t \in Task, Works(w, t), RunInv(t), Moves(w),
         slot[w].pc # "nack", UNCHANGED slotFrame, RowFits(t)', SlotFits(w, t)'
  PROVE  RunInv(t)'
  <1>1. job'[t].state = "active" /\ holder'[t] = w /\ upload'[t] = upload[t]
    BY DEF RunInv, OneSlot, slotFrame, queueVars
  <1> QED BY <1>1, GoesOn DEF Moves

\* What is known of the slot, the row and the tables before a step.
LEMMA AtWork ==
  ASSUME TypeInv, NEW w \in Slot, slot[w].pc \notin {"idle", "nack"}, NEW t \in Task,
         t = slot[w].task, RunInv(t)
  PROVE  /\ Works(w, t) /\ RowFits(t) /\ SlotFits(w, t)
         /\ job[t].state = "active" /\ holder[t] = w
         /\ slot \in [Slot -> SlotState] /\ results[t] \subseteq Tables
         /\ results \in [Task -> SUBSET Tables] /\ TypeOK
  <1>1. TypeOK /\ Works(w, t)
    BY DEF TypeInv, Works
  <1> QED BY <1>1 DEF RunInv, OneSlot, TypeOK

\* While a catch block is at work completed promises nothing.
LEMMA CatchingUp ==
  ASSUME NEW t \in Task, NEW w \in Slot, Moves(w), slot[w].task = t,
         slot'[w].pc \in CatchPc \ {"nack"} \/ t \in cutShort'
  PROVE  Unfinished(t)'
  BY DEF Unfinished, Moves

\* The job is active, so the row is known by what the slot has done so far.
LEMMA ActiveRow ==
  ASSUME NEW t \in Task, job'[t].state = "active",
         Refused(t)' => record'[t].status = "failed",
         record'[t].status = "completed" => Unfinished(t)' \/ results'[t] = Tables,
         record'[t].status \in {"failed", "queued"} /\ ~Refused(t)' => results'[t] = {},
         record'[t].status = "absent" => results'[t] = {}
  PROVE  RowFits(t)'
  BY DEF RowFits, RefusedInVain, Refused

LEMMA AdvanceRuns ==
  ASSUME TypeInv, NEW w \in Slot, NEW t \in Task, t = slot[w].task, RunInv(t),
         NEW stage \in {"parse", "scan"}, NEW next \in {"scan", "risks"},
         Advance(w, stage, next)
  PROVE  RunInv(t)'
  <1>1. slot[w].pc = stage /\ UNCHANGED <<objects, results, slotFrame>>
    BY DEF Advance
  <1>2. /\ Works(w, t) /\ RowFits(t) /\ SlotFits(w, t) /\ TypeOK
        /\ job[t].state = "active" /\ slot \in [Slot -> SlotState]
    BY <1>1, AtWork
  <1>3. Moves(w)
    BY <1>2, AdvanceEffect
  <1>4. job' = job
    BY <1>1 DEF slotFrame, queueVars
  <1>5. \/ /\ UpdateRecord(t, "processing", stage, "none")
           /\ slot'[w].pc \in {next, "dropRisks"}
           /\ Exists(t) \/ slot'[w].pc = "dropRisks"
        \/ record' = record /\ slot'[w].pc = "dropRisks"
    BY <1>2 DEF Advance, Returns, Throws, SlotState
  <1>6. CASE Exists(t) /\ UpdateRecord(t, "processing", stage, "none")
    <2>1. record'[t].status = "processing" /\ ~Refused(t)'
      BY <1>2, <1>6, UpdateStatus DEF Refused
    <2>2. RowFits(t)'
      BY <1>2, <1>4, <2>1, ActiveRow
    <2>3. SlotFits(w, t)'
      BY <1>5, <2>1 DEF SlotFits, Filled, Emptied
    <2> QED BY <1>1, <1>2, <1>3, <2>2, <2>3, WorkerGoesOn
  <1>7. CASE record'[t] = record[t] /\ slot'[w].pc = "dropRisks"
    <2>1. Unfinished(t)'
      BY <1>3, <1>7, CatchingUp DEF CatchPc
    <2>2. RowFits(t)'
      BY <1>1, <1>2, <1>4, <1>7, <2>1, ActiveRow DEF RowFits, Refused, RefusedInVain
    <2>3. SlotFits(w, t)'
      BY <1>7 DEF SlotFits, Filled, Emptied
    <2> QED BY <1>1, <1>2, <1>3, <2>2, <2>3, WorkerGoesOn
  <1>8. ~Exists(t) /\ UpdateRecord(t, "processing", stage, "none") => record'[t] = record[t]
    BY <1>2, UpdateStatus
  <1> QED BY <1>5, <1>6, <1>7, <1>8

LEMMA PublishRuns ==
  ASSUME TypeInv, NEW w \in Slot, NEW t \in Task, t = slot[w].task, RunInv(t),
         NEW pc \in {"risks", "segments", "rewrites"}, NEW table \in Tables,
         NEW next \in {"segments", "rewrites", "complete"},
         Filled(next) \subseteq Filled(pc) \cup {table}, Publish(w, pc, table, next)
  PROVE  RunInv(t)'
  <1>1. slot[w].pc = pc /\ UNCHANGED <<objects, record, slotFrame>>
    BY DEF Publish
  <1>2. /\ Works(w, t) /\ RowFits(t) /\ SlotFits(w, t) /\ TypeOK
        /\ job[t].state = "active" /\ slot \in [Slot -> SlotState]
        /\ results \in [Task -> SUBSET Tables]
    BY <1>1, AtWork
  <1>3. /\ record[t].status \in {"processing", "absent"} \/ Refused(t)
        /\ Refused(t) => record[t].status = "failed"
        /\ Exists(t) => Filled(pc) \subseteq results[t]
    BY <1>1, <1>2 DEF SlotFits, RowFits
  <1>4. Exists(t) <=> record[t].status # "absent"
    BY <1>2, Statuses
  <1>5. Moves(w)
    BY <1>2, PublishEffect DEF RunPc
  <1>6. job' = job /\ record' = record /\ (Exists(t)' <=> Exists(t))
        /\ (Refused(t)' <=> Refused(t))
    BY <1>1 DEF slotFrame, queueVars, Exists, Refused
  <1>7. /\ slot'[w].pc \in {next, "dropRisks"}
        /\ \/ Exists(t) /\ results'[t] = results[t] \cup {table}
           \/ results'[t] = results[t] /\ slot'[w].pc = "dropRisks"
    <2>1. \A to : StepSlot(w, to) => slot'[w].pc = to
      BY <1>2 DEF StepSlot, SlotState
    <2>2. InsertRows(t, table) => results'[t] = results[t] \cup {table}
      BY <1>2 DEF InsertRows
    <2> QED BY <2>1, <2>2 DEF Publish, Returns, Throws
  <1>8. RowFits(t)'
    <2>1. record[t].status = "absent" => results'[t] = {}
      BY <1>2, <1>4, <1>7 DEF RowFits
    <2> QED BY <1>2, <1>3, <1>6, <2>1, ActiveRow
  <1>9. SlotFits(w, t)'
    <2>1. Emptied(slot'[w].pc) = {} /\ Filled("dropRisks") = {}
      BY <1>7 DEF Emptied, Filled
    <2>2. Exists(t) => Filled(slot'[w].pc) \subseteq results'[t]
      BY <1>3, <1>7, <2>1
    <2> QED BY <1>3, <1>6, <1>7, <2>1, <2>2 DEF SlotFits
  <1> QED BY <1>1, <1>2, <1>5, <1>8, <1>9, WorkerGoesOn

LEMMA CompleteRuns ==
  ASSUME TypeInv, NEW w \in Slot, NEW t \in Task, t = slot[w].task, RunInv(t), Complete(w)
  PROVE  RunInv(t)'
  <1>1. slot[w].pc = "complete" /\ UNCHANGED <<objects, results, slotFrame>>
    BY DEF Complete
  <1>2. /\ Works(w, t) /\ RowFits(t) /\ SlotFits(w, t) /\ TypeOK
        /\ job[t].state = "active" /\ slot \in [Slot -> SlotState]
        /\ results[t] \subseteq Tables
    BY <1>1, AtWork
  <1>3. /\ record[t].status \in {"processing", "absent"} \/ Refused(t)
        /\ Refused(t) => record[t].status = "failed"
        /\ Exists(t) => results[t] = Tables
    BY <1>1, <1>2 DEF SlotFits, RowFits, Filled
  <1>4. Moves(w)
    BY <1>2, CompleteEffect
  <1>5. job' = job
    BY <1>1 DEF slotFrame, queueVars
  <1>6. \/ /\ UpdateRecord(t, "completed", "scan", "none")
           /\ slot'[w].pc \in {"ack", "dropRisks"}
        \/ record' = record /\ slot'[w].pc = "dropRisks"
    BY <1>2 DEF Complete, Returns, Throws, StepSlot, SlotState
  <1>7. CASE Exists(t) /\ UpdateRecord(t, "completed", "scan", "none")
    <2>1. record'[t].status = "completed" /\ ~Refused(t)' /\ results'[t] = Tables
      BY <1>1, <1>2, <1>3, <1>7, UpdateStatus DEF Refused
    <2>2. RowFits(t)'
      BY <1>2, <1>5, <2>1, ActiveRow
    <2>3. SlotFits(w, t)'
      BY <1>6, <1>7, <2>1 DEF SlotFits, Filled, Emptied, Over, Done
    <2> QED BY <1>1, <1>2, <1>4, <2>2, <2>3, WorkerGoesOn
  <1>8. CASE record'[t] = record[t] /\ (slot'[w].pc = "dropRisks" \/ ~Exists(t)')
    <2>1. RowFits(t)'
      BY <1>1, <1>2, <1>3, <1>5, <1>8, ActiveRow DEF RowFits, Refused
    <2>2. slot'[w].pc \in {"ack", "dropRisks"}
      BY <1>6
    <2>3. SlotFits(w, t)'
      BY <1>8, <2>2 DEF SlotFits, Filled, Emptied, Over
    <2> QED BY <1>1, <1>2, <1>4, <2>1, <2>3, WorkerGoesOn
  <1>9. ~Exists(t) /\ UpdateRecord(t, "completed", "scan", "none")
          => record'[t] = record[t] /\ ~Exists(t)'
    BY <1>2, UpdateStatus
  <1> QED BY <1>6, <1>7, <1>8, <1>9

LEMMA WithdrawRuns ==
  ASSUME TypeInv, NEW w \in Slot, NEW t \in Task, t = slot[w].task, RunInv(t),
         NEW pc \in {"dropRisks", "dropSegments", "dropRewrites"}, NEW table \in Tables,
         NEW next \in {"dropSegments", "dropRewrites", "fail"},
         Emptied(next) \subseteq Emptied(pc) \cup {table}, Withdraw(w, pc, table, next)
  PROVE  RunInv(t)'
  <1>1. slot[w].pc = pc /\ UNCHANGED <<objects, record, slotFrame>>
    BY DEF Withdraw
  <1>2. /\ Works(w, t) /\ RowFits(t) /\ SlotFits(w, t) /\ TypeOK
        /\ job[t].state = "active" /\ slot \in [Slot -> SlotState]
        /\ results \in [Task -> SUBSET Tables]
    BY <1>1, AtWork
  <1>3. Emptied(pc) \cap results[t] = {}
    BY <1>1, <1>2 DEF SlotFits
  <1>4. Moves(w)
    BY <1>2, WithdrawEffect DEF CatchPc
  <1>5. job' = job /\ record' = record
    BY <1>1 DEF slotFrame, queueVars
  <1>6. \/ DeleteRows(t, table) /\ slot'[w].pc = next
        \/ /\ DeleteRows(t, table) \/ results' = results
           /\ slot'[w].pc = "nack" /\ t \in cutShort'
    <2>1. \A to : StepSlot(w, to) => slot'[w].pc = to
      BY <1>2 DEF StepSlot, SlotState
    <2> QED BY <2>1 DEF Withdraw, Returns, Throws, CutShort
  <1>7. DeleteRows(t, table) => results'[t] = results[t] \ {table}
    BY <1>2 DEF DeleteRows
  <1>8. Unfinished(t)'
    BY <1>1, <1>4, <1>6, CatchingUp DEF CatchPc
  <1>9. RowFits(t)'
    BY <1>2, <1>5, <1>6, <1>7, <1>8, ActiveRow DEF RowFits, Refused, RefusedInVain
  <1>10. SlotFits(w, t)'
    <2>1. CASE DeleteRows(t, table) /\ slot'[w].pc = next
      <3>1. Filled(next) = {}
        BY DEF Filled
      <3> QED BY <1>3, <1>7, <2>1, <3>1 DEF SlotFits
    <2>2. CASE slot'[w].pc = "nack"
      BY <2>2 DEF SlotFits, Filled, Emptied
    <2> QED BY <1>6, <2>1, <2>2
  <1> QED BY <1>1, <1>2, <1>4, <1>9, <1>10, WorkerGoesOn

LEMMA FailRuns ==
  ASSUME TypeInv, NEW w \in Slot, NEW t \in Task, t = slot[w].task, RunInv(t), Fail(w)
  PROVE  RunInv(t)'
  <1>1. slot[w].pc = "fail" /\ UNCHANGED <<objects, results, slotFrame>>
    BY DEF Fail
  <1>2. /\ Works(w, t) /\ RowFits(t) /\ SlotFits(w, t) /\ TypeOK
        /\ job[t].state = "active" /\ slot \in [Slot -> SlotState]
        /\ results[t] \subseteq Tables
    BY <1>1, AtWork
  <1>3. results'[t] = {}
    BY <1>1, <1>2 DEF SlotFits, Emptied
  <1>4. Moves(w)
    BY <1>2, FailEffect
  <1>5. job' = job /\ slot'[w].pc = "nack"
    BY <1>1, <1>2 DEF Fail, StepSlot, slotFrame, queueVars, SlotState
  <1>6. \/ UpdateRecord(t, "failed", slot[w].stage, "unexpected_worker_error")
        \/ record' = record /\ t \in cutShort'
    BY DEF Fail, Returns, Throws, CutShort
  <1>7. RowFits(t)'
    <2>1. CASE Exists(t) /\ UpdateRecord(t, "failed", slot[w].stage, "unexpected_worker_error")
      <3>1. record'[t].status = "failed" /\ ~Refused(t)'
        BY <1>2, <2>1, UpdateStatus DEF Refused
      <3> QED BY <1>2, <1>3, <1>5, <3>1, ActiveRow
    <2>2. CASE record'[t] = record[t] /\ (Exists(t) => t \in cutShort')
      <3>1. Exists(t) => Unfinished(t)'
        BY <1>1, <1>4, <2>2, CatchingUp
      <3>2. record[t].status = "completed" => Exists(t)
        BY <1>2, Statuses
      <3> QED BY <1>2, <1>3, <1>5, <2>2, <3>1, <3>2, ActiveRow DEF RowFits, Refused
    <2>3. ~Exists(t) /\ UpdateRecord(t, "failed", slot[w].stage, "unexpected_worker_error")
            => record'[t] = record[t]
      BY <1>2, UpdateStatus
    <2> QED BY <1>6, <2>1, <2>2, <2>3
  <1>8. SlotFits(w, t)'
    BY <1>5 DEF SlotFits, Filled, Emptied
  <1> QED BY <1>1, <1>2, <1>4, <1>7, <1>8, WorkerGoesOn

\* Settling a job says nothing new about the row and the tables, except that
\* a job held for completed is done.
LEMMA SettledRow ==
  ASSUME NEW t \in Task, RowFits(t), UNCHANGED <<record, results, cutShort>>,
         Unfinished(t)' <=> Unfinished(t),
         job[t].state # "none", job'[t].state # "none",
         job'[t].state = "completed" => Over(t)
  PROVE  RowFits(t)'
  BY DEF RowFits, Refused, RefusedInVain, Over, Done, Exists

LEMMA SettleRuns ==
  ASSUME TypeInv, NEW w \in Slot, NEW t \in Task, t = slot[w].task, RunInv(t),
         Ack(w) \/ Nack(w) \/ Refuse(w)
  PROVE  RunInv(t)'
  <1>1. slot[w].pc \in {"ack", "nack", "refuse"} /\ UNCHANGED <<upload, record, results, cutShort>>
    BY DEF Ack, Nack, Refuse, MoveToFailed, settleFrame, dataVars
  <1>2. TypeOK /\ Works(w, t) /\ RowFits(t) /\ SlotFits(w, t) /\ job[t].state # "none"
    BY <1>1, WorkIsQueued DEF TypeInv, Works, RunInv
  <1>3. job[t] \in Job /\ slot \in [Slot -> SlotState]
    BY <1>2 DEF TypeOK
  <1>4. slot'[w].pc \in {"idle", "nack"} /\ \A v \in Slot \ {w} : slot'[v] = slot[v]
    BY <1>3 DEF Ack, Nack, Refuse, MoveToFailed, StepSlot, SlotState, IdleSlot
  <1>5. Unfinished(t)' <=> Unfinished(t)
    BY <1>1, <1>4 DEF Unfinished, CatchPc
  <1>6. CASE Ack(w)
    <2>1. job[t].state = "active" /\ holder[t] = w /\ Over(t)
      BY <1>2, <1>6 DEF Ack, RunInv, OneSlot, SlotFits
    <2>2. \/ /\ job'[t].state = "completed"
             /\ slot'[w].pc \in {"idle", "nack"}
          \/ job' = job /\ holder' = holder /\ slot'[w].pc = "nack"
      <3>1. SettleJob(w, [job[t] EXCEPT !.state = "completed"]) => job'[t].state = "completed"
        BY <1>2, <1>3 DEF SettleJob, TypeOK, Job
      <3>2. StepSlot(w, "nack") => slot'[w].pc = "nack"
        BY <1>3 DEF StepSlot, SlotState
      <3> QED BY <1>4, <1>6, <2>1, <3>1, <3>2 DEF Ack, Returns, Throws, NoLock, queueVars
    <2>3. RowFits(t)'
      BY <1>1, <1>2, <1>5, <2>1, <2>2, SettledRow
    <2>4. slot'[w].pc = "nack" => SlotFits(w, t)'
      BY DEF SlotFits, Filled, Emptied
    <2>5. CASE slot'[w].pc = "idle"
      BY <1>1, <1>2, <1>4, <2>3, <2>5, LeavesIt
    <2>6. CASE slot'[w].pc = "nack"
      BY <1>1, <1>2, <1>4, <2>1, <2>2, <2>3, <2>4, <2>6, GoesOn
    <2> QED BY <1>4, <2>5, <2>6
  <1>7. CASE Nack(w) \/ Refuse(w)
    <2>1. PICK pc \in {"nack", "refuse"}, s \in {"delayed", "failed"} : MoveToFailed(w, pc, s)
      BY <1>7 DEF Nack, Refuse
    <2>2. slot'[w].pc = "idle"
      BY <1>3, <2>1 DEF MoveToFailed, IdleSlot
    <2>3. job' = job \/ job'[t].state = s
      <3>1. SettleJob(w, [job[t] EXCEPT !.attempts = job[t].attempts + 1, !.state = s])
              => job'[t].state = s
        BY <1>2, <1>3 DEF SettleJob, TypeOK, Job
      <3> QED BY <2>1, <3>1 DEF MoveToFailed, Returns, Throws, Abandon, queueVars
    <2>4. RowFits(t)'
      BY <1>1, <1>2, <1>5, <2>3, SettledRow DEF RowFits
    <2> QED BY <1>1, <1>2, <1>4, <2>2, <2>4, LeavesIt
  <1> QED BY <1>6, <1>7

LEMMA ProcessRuns ==
  ASSUME TypeInv, NEW w \in Slot, Process(w), NEW u \in Task, RunInv(u)
  PROVE  RunInv(u)'
  <1>1. CASE u # slot[w].task
    BY <1>1, ProcessElsewhere
  <1>2. CASE u = slot[w].task
    <2>1. CASE Advance(w, "parse", "scan") \/ Advance(w, "scan", "risks")
      <3>1. PICK stage \in {"parse", "scan"}, next \in {"scan", "risks"} :
              Advance(w, stage, next)
        BY <2>1
      <3> QED BY <1>2, <3>1, AdvanceRuns
    <2>2. CASE \/ Publish(w, "risks", "risk_findings", "segments")
               \/ Publish(w, "segments", "document_segments", "rewrites")
               \/ Publish(w, "rewrites", "rewrite_options", "complete")
      <3>1. PICK pc \in {"risks", "segments", "rewrites"}, table \in Tables,
                 next \in {"segments", "rewrites", "complete"} :
              /\ Publish(w, pc, table, next)
              /\ Filled(next) \subseteq Filled(pc) \cup {table}
        BY <2>2 DEF Tables, Filled
      <3> QED BY <1>2, <3>1, PublishRuns
    <2>3. CASE \/ Withdraw(w, "dropRisks", "risk_findings", "dropSegments")
               \/ Withdraw(w, "dropSegments", "document_segments", "dropRewrites")
               \/ Withdraw(w, "dropRewrites", "rewrite_options", "fail")
      <3>1. PICK pc \in {"dropRisks", "dropSegments", "dropRewrites"}, table \in Tables,
                 next \in {"dropSegments", "dropRewrites", "fail"} :
              /\ Withdraw(w, pc, table, next)
              /\ Emptied(next) \subseteq Emptied(pc) \cup {table}
        BY <2>3 DEF Tables, Emptied
      <3> QED BY <1>2, <3>1, WithdrawRuns
    <2>4. CASE Complete(w) \/ Fail(w)
      BY <1>2, <2>4, CompleteRuns, FailRuns
    <2>5. CASE Ack(w) \/ Nack(w) \/ Refuse(w)
      BY <1>2, <2>5, SettleRuns
    <2> QED BY <2>1, <2>2, <2>3, <2>4, <2>5 DEF Process
  <1> QED BY <1>1, <1>2

-----------------------------------------------------------------------------
(* The whole system *)

\* A lock once lost remains so.
LEMMA LossStays ==
  ASSUME [Next]_vars
  PROVE  unlocked \subseteq unlocked'
  <1>1. CASE \E t \in Task : \/ UploadStep(t) \/ UploadCrash(t)
                             \/ Promote(t) \/ Stall(t) \/ Expire(t) \/ CleanupNext(t)
    BY <1>1, UploadLeaves DEF Promote, Stall, Expire, CleanupNext, faultVars
  <1>2. CASE (\E w \in Slot : Process(w) \/ LoseLock(w) \/ SlotCrash(w))
             \/ \E w \in Slot, t \in Task : Deliver(w, t)
    BY <1>2 DEF Process, Advance, Publish, Complete, Ack, Withdraw, Fail, Nack, Refuse,
       MoveToFailed, slotFrame, settleFrame, LoseLock, SlotCrash, Deliver, faultVars
  <1>3. CASE \/ \E d \in Eraser : EraseStep(d) \/ DeleteCrash(d)
             \/ \E d \in Request, t \in Task : DeleteStart(d, t)
             \/ CleanupList \/ UNCHANGED vars
    BY <1>3 DEF EraseStep, DeleteObject, DeleteLookup, DeleteCommit, DeleteCrash,
       DeleteStart, CleanupList, eraseFrame, faultVars, vars
  <1> QED BY <1>1, <1>2, <1>3 DEF Next

LEMMA RunsNext ==
  ASSUME TypeInv, RunsInv, [Next]_vars
  PROVE  RunsInv'
  <1> SUFFICES ASSUME NEW u \in Task, u \notin unlocked' PROVE RunInv(u)'
    BY DEF RunsInv
  <1>1. RunInv(u) /\ TypeOK /\ DeletionInv
    BY LossStays DEF RunsInv, TypeInv
  <1>2. CASE UNCHANGED <<record, results, job, upload, holder, slot, cutShort>>
    BY <1>1, <1>2, UntouchedKeeps DEF Untouched, Works
  <1>3. ASSUME NEW t \in Task, UploadStep(t) \/ UploadCrash(t) PROVE RunInv(u)'
    BY <1>1, <1>3, IntakeRuns, LateHandlerRuns, UploadElsewhere, UntouchedKeeps
  <1>4. CASE \E t \in Task : Promote(t) \/ Stall(t)
    BY <1>1, <1>4, RedeliverRuns
  <1>5. CASE \E w \in Slot, t \in Task : Deliver(w, t)
    BY <1>1, <1>5, DeliverRuns
  <1>6. CASE \E w \in Slot : Process(w) \/ LoseLock(w) \/ SlotCrash(w)
    BY <1>1, <1>6, ProcessRuns, SlotLostRuns
  <1>7. CASE \E d \in Eraser : EraseStep(d) \/ DeleteCrash(d)
    BY <1>1, <1>7, EraseRuns
  <1>8. CASE \/ \E t \in Task : Expire(t) \/ CleanupNext(t)
             \/ \E d \in Request, t \in Task : DeleteStart(d, t)
             \/ CleanupList \/ UNCHANGED vars
    <2>1. UNCHANGED <<record, results, job, upload, holder, slot, cutShort>>
      BY <1>8 DEF Expire, CleanupNext, DeleteStart, CleanupList, vars, dataVars, queueVars,
         slotVars
    <2> QED BY <1>2, <2>1
  <1> QED BY <1>3, <1>4, <1>5, <1>6, <1>7, <1>8 DEF Next

LEMMA RunsInit == Init => RunsInv
  <1> SUFFICES ASSUME Init, NEW t \in Task PROVE RunInv(t)
    BY DEF RunsInv
  <1>1. \A w \in Slot : ~Works(w, t)
    BY DEF Init, Works, IdleSlot
  <1>2. RowFits(t) /\ job[t].state = "none"
    BY DEF Init, RowFits, NoRecord, Refused
  <1> QED BY <1>1, <1>2 DEF RunInv, OneSlot

LEMMA RunsInvariant == Spec => []RunsInv
  BY InitTypeInv, NextTypeInv, RunsInit, RunsNext, PTL DEF Spec

\* The status is the word the reader of a task gets about its results, and it
\* is kept whatever writes throw, with or without effect, and however often
\* the job is retried and redelivered: completed means all three tables are
\* filled, unless the catch block of the last run has not come to its end;
\* failed and queued that all are empty, unless an upload handler was told in
\* vain that the queue refused the job.
THEOREM StatusTrue == Spec => []StatusMatchesResults
  <1>1. RunsInv => StatusMatchesResults
    BY DEF RunsInv, RunInv, RowFits, StatusMatchesResults, Done
  <1> QED BY <1>1, RunsInvariant, PTL

\* A job the queue holds for completed belongs to a task that is completed
\* with all its tables, or deleted: no run that failed is acknowledged, and no
\* run, catch block or redelivery takes back one that was, even when the
\* worker never hears that it was.
THEOREM AcknowledgedDone == Spec => []AcknowledgedIsDone
  <1>1. RunsInv => AcknowledgedIsDone
    BY DEF RunsInv, RunInv, RowFits, AcknowledgedIsDone, Over, Refused, RefusedInVain
  <1> QED BY <1>1, RunsInvariant, PTL

=============================================================================
