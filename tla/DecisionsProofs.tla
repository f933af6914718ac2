---------------------------- MODULE DecisionsProofs ----------------------------
(***************************************************************************)
(* Decisions on paragraphs with the local drivers, for any number of       *)
(* tasks, workers, deletions, requests and paragraphs, calls that throw    *)
(* and processes that die.                                                 *)
(*                                                                         *)
(* A request is met when it held a file while another one held the same    *)
(* file, or while the file was deleted.  A request that is not met holds   *)
(* the file as it still is, so that its write loses nothing (HeldInv); the *)
(* operation it has added is in every copy of the log that may be written  *)
(* back (Logged), and the status it has set in every copy of the findings  *)
(* (Stands).                                                               *)
(*                                                                         *)
(* The worker's one run is over when a task takes decisions (PastInv): the *)
(* findings are published no more, and a decision that is not met does not *)
(* bring back findings that were deleted (ErasureInv).                     *)
(***************************************************************************)
EXTENDS LocalDecisions, LocalProofs

-----------------------------------------------------------------------------
(* The pipeline.  A task that takes decisions has been run, and no worker  *)
(* has it any more.                                                        *)

Settled(t) == runs[t] # 0 /\ \A w \in Worker : ~Handles(w, t)

\* A task that takes decisions goes on doing so until it is deleted.
Lasts(t) ==
  /\ upload[t] = "accepted" => upload'[t] = "accepted"
  /\ Undeleted(t)' => Undeleted(t)
  /\ Settled(t) => Settled(t)'
  /\ status'[t] = "completed" => status[t] = "completed" \/ Settled(t)'
  /\ Settled(t) /\ upload[t] = "accepted" /\ Undeleted(t)' => status'[t] = status[t]

\* What a step of the pipeline leaves to the decisions on t.
Leaves(t) ==
  /\ Lasts(t)
  /\ Published(t) => ~Settled(t) /\ "risk_findings" \in results'[t]
  /\ "risk_findings" \in results'[t] => "risk_findings" \in results[t] \/ Published(t)

LEMMA UploadLeaves ==
  ASSUME TypeInv, NEW u \in Task, UploadStep(u), NEW t \in Task
  PROVE  Leaves(t)
  <1> USE DEF UploadStep, UploadStore, UploadCreate, UploadOpenJob, UploadWriteJob,
          UploadMarkFailed
  <1>1. UNCHANGED <<results, worker, deletion, runs>>
    BY DEF uploadFrame, historyVars
  <1>2. upload[u] # "accepted" /\ \A v \in Task \ {u} : upload'[v] = upload[v]
    BY DEF StepUpload, TypeInv, DataInv
  <1>3. /\ status'[u] \in {status[u], "queued", "failed"}
        /\ \A v \in Task \ {u} : status'[v] = status[v]
    BY DEF TypeInv, DataInv
  <1> QED BY <1>1, <1>2, <1>3 DEF Leaves, Lasts, Undeleted, Settled, Handles, Published

LEMMA DeletionLeaves ==
  ASSUME TypeInv, StepInv, NEW d \in Request,
         EraseStep(d) \/ \E u \in Task : DeleteStart(d, u), NEW t \in Task
  PROVE  Leaves(t)
  <1>1. CASE EraseStep(d)
    <2> USE <1>1 DEF EraseStep, DeleteObject, DeleteLookup, DeleteResults, DeleteUnlink
    <2>1. UNCHANGED <<upload, worker, runs>>
      BY DEF deleteFrame
    <2>2. PICK u \in Task : u = deletion[d].task
      BY DEF DeletePc, TypeInv, DeletionInv, Aimed
    <2>3. \A e \in Request : deletion'[e].task = deletion[e].task
      BY DEF StepDeletion, TypeInv, DeletionInv, DeletionRecord
    <2>4. /\ results'[t] \subseteq results[t]
          /\ t # u => status'[t] = status[t]
          /\ status'[t] \in {status[t], "absent"}
      BY <2>2 DEF DropFile, TypeInv, DataInv
    <2> QED BY <2>1, <2>2, <2>3, <2>4 DEF Leaves, Lasts, Undeleted, Settled, Handles, Published
  <1>2. ASSUME NEW u \in Task, DeleteStart(d, u) PROVE Leaves(t)
    <2>1. UNCHANGED <<upload, worker, runs, status, results>>
      BY <1>2 DEF DeleteStart, deleteFrame
    <2>2. \A e \in Request \ {d} : deletion'[e] = deletion[e]
      BY <1>2 DEF DeleteStart
    <2>3. deletion[d].task = NoTask
      BY <1>2 DEF DeleteStart, StepInv
    <2> QED BY <2>1, <2>2, <2>3, LocalAssumption
            DEF Leaves, Lasts, Undeleted, Settled, Handles, Published
  <1> QED BY <1>1, <1>2

LEMMA DrainLeaves ==
  ASSUME TypeInv, OnceInv, StepInv, NEW w \in Worker, Drain(w) \/ WorkerCrash(w),
         NEW t \in Task
  PROVE  Leaves(t)
  <1>1. CASE \/ DrainList(w) \/ ReadJob(w) \/ RemoveJob(w) \/ DrainDone(w) \/ BatchDone(w)
             \/ WorkerCrash(w) \/ \E u \in Task : Claim(w, u)
    <2>1. Calmly(t)
      BY <1>1, DrainFiles
    <2>2. PICK n : Passes(w, n)
      BY <1>1, DrainPasses
    <2>3. worker'[w].pc # "segments" /\ \A v \in Worker \ {w} : worker'[v] = worker[v]
      BY <2>2, WorkerTypes DEF Passes, RunPc, TryPc
    <2>4. ~Published(t)
      BY <2>3 DEF Published
    <2> QED BY <2>1, <2>4 DEF Leaves, Lasts, Calmly, Undeleted, Settled
  <1>2. ASSUME NEW u \in Task, TakeJob(w, u) PROVE Leaves(t)
    <2>1. runs[u] = 0 /\ UNCHANGED <<upload, deletion, status, results>>
      BY <1>2 DEF TakeJob, workerFrame, OnceInv, JobInv
    <2>2. /\ worker'[w].pc = "parse" /\ worker'[w].task = u
          /\ \A v \in Worker \ {w} : worker'[v] = worker[v]
      BY <1>2, WorkerTypes DEF TakeJob, WorkerRecord
    <2>3. \A v \in Task \ {u} : runs'[v] = runs[v]
      BY <1>2 DEF TakeJob, TypeInv, QueueInv
    <2>4. Settled(t) => Settled(t)'
      BY <2>1, <2>2, <2>3 DEF Settled, Handles
    <2>5. ~Published(t)
      BY <2>2 DEF Published
    <2> QED BY <2>1, <2>4, <2>5 DEF Leaves, Lasts, Undeleted
  <1> QED BY <1>1, <1>2 DEF Drain

LEMMA ProcessLeaves ==
  ASSUME TypeInv, NEW B, FilesInv(B), NEW w \in Worker, Process(w), NEW t \in Task
  PROVE  Leaves(t)
  <1>1. PICK u : u = worker[w].task
    OBVIOUS
  <1>2. /\ worker[w].pc \in RunPc /\ u \in Task
        /\ UNCHANGED <<workerData, jobFile, runs, overlap>>
    BY <1>1, ProcessCases
  <1>3. ASSUME Proceed(w)
        PROVE  worker'[w].pc = IF worker[w].pc = "fail" THEN "idle"
                               ELSE Onward(worker[w].pc)
    BY <1>2, <1>3, ProceedLands DEF Lands
  <1>4. ASSUME Raise(w) PROVE worker'[w].pc \in {"idle", "dropRisks"}
    BY <1>2, <1>4, RaiseLands DEF Lands
  <1>5. /\ worker'[w].pc \in RunPc => worker'[w].task = u
        /\ \A v \in Worker \ {w} : worker'[v] = worker[v]
    <2>1. CASE Reads(w)
      BY <1>1, <2>1, ReadsMove
    <2>2. CASE Raise(w) \/ Proceed(w)
      <3>1. PICK pc : Lands(w, pc)
        BY <1>2, <2>2, RaiseLands, ProceedLands
      <3> QED BY <1>1, <3>1 DEF Lands
    <2> QED BY <1>1, <2>1, <2>2, ProcessCases
  <1>6. \A v \in Worker : Handles(v, t)' => Handles(v, t)
    BY <1>1, <1>2, <1>5 DEF Handles
  <1>7. Handles(w, u)
    BY <1>1, <1>2 DEF Handles
  <1>8. t # u => status'[t] = status[t] /\ results'[t] = results[t] /\ ~Published(t)
    <2>1. t # u => status'[t] = status[t] /\ results'[t] = results[t]
      BY <1>1, ProcessCases DEF TypeInv, DataInv
    <2> QED BY <1>1, <1>5, <2>1 DEF Published
  <1>9. CASE t # u
    BY <1>2, <1>6, <1>8, <1>9 DEF Leaves, Lasts, Undeleted, Settled, workerData
  <1>10. CASE t = u
    <2>1. ~Settled(t) /\ runs[t] # 0 /\ \A v \in Worker : Handles(v, t) => v = w
      BY <1>2, <1>7, <1>10 DEF Settled, FilesInv, TaskInv, OneRun
    <2>2. status'[t] = "completed" => status[t] = "completed" \/ Settled(t)'
      <3>1. ASSUME status'[t] = "completed", status[t] # "completed"
            PROVE  worker[w].pc = "complete" /\ Proceed(w)
        <4>1. /\ worker[w].pc \in UpdatePc /\ Proceed(w)
              /\ status' = [status EXCEPT ![t] = Written(worker[w].pc)]
          BY <1>1, <1>10, <3>1, ProcessCases
        <4>2. Written(worker[w].pc) = "completed"
          BY <3>1, <4>1 DEF TypeInv, DataInv
        <4> QED BY <4>1, <4>2 DEF Written, UpdatePc
      <3>2. ASSUME status'[t] = "completed", status[t] # "completed"
            PROVE  ~Handles(w, t)'
        BY <1>3, <3>1, <3>2 DEF Onward, Handles, RunPc, TryPc, CatchPc
      <3> QED BY <1>2, <1>6, <2>1, <3>2 DEF Settled
    <2>3. Published(t) <=> worker[w].pc = "risks" /\ worker'[w].pc = "segments"
      BY <1>1, <1>5, <1>10 DEF Published
    <2>4. Published(t) => "risk_findings" \in results'[t]
      <3> SUFFICES ASSUME worker[w].pc = "risks", worker'[w].pc = "segments"
                   PROVE  "risk_findings" \in results'[t]
        BY <2>3
      <3>1. ~Raise(w)
        BY <1>4
      <3>2. ~Reads(w)
        BY DEF Reads, UpdatePc
      <3>3. \E table \in Tables :
              /\ Fills(worker[w].pc, table) \/ Empties(worker[w].pc, table)
              /\ \/ results' = [results EXCEPT ![t] = results[t] \cup {table}]
                 \/ Empties(worker[w].pc, table)
        BY <1>1, <1>10, <3>1, <3>2, ProcessCases DEF UpdatePc
      <3> QED BY <3>3 DEF Fills, Empties, TypeInv, DataInv
    <2>5. "risk_findings" \in results'[t] => "risk_findings" \in results[t] \/ Published(t)
      <3> SUFFICES ASSUME "risk_findings" \in results'[t], "risk_findings" \notin results[t]
                   PROVE  Published(t)
        OBVIOUS
      <3>1. PICK table \in Tables :
              /\ Fills(worker[w].pc, table) /\ Proceed(w)
              /\ results' = [results EXCEPT ![t] = results[t] \cup {table}]
        BY <1>1, <1>10, ProcessCases DEF TypeInv, DataInv
      <3>2. worker[w].pc = "risks"
        BY <3>1 DEF Fills, TypeInv, DataInv
      <3> QED BY <1>3, <2>3, <3>1, <3>2 DEF Onward
    <2> QED BY <1>2, <2>1, <2>2, <2>4, <2>5 DEF Leaves, Lasts, Undeleted, workerData
  <1> QED BY <1>9, <1>10

LEMMA PipelineLeaves ==
  ASSUME TypeInv, OnceInv, NEW B, FilesInv(B), PipelineStep, NEW t \in Task
  PROVE  Leaves(t)
  <1>1. StepInv
    BY DEF FilesInv
  <1> QED BY <1>1, UploadLeaves, DeletionLeaves, DrainLeaves, ProcessLeaves DEF PipelineStep

LEMMA WebCrashLeaves ==
  ASSUME TypeInv, WebCrash, NEW t \in Task
  PROVE  Leaves(t)
  <1>1. UNCHANGED <<status, results, worker, runs>>
    BY DEF WebCrash, historyVars
  <1>2. upload[t] = "accepted" => upload'[t] = "accepted"
    BY DEF WebCrash, InFlight
  <1>3. \A d \in Request : deletion'[d].task = deletion[d].task
    BY DEF WebCrash, TypeInv, DeletionInv, DeletionRecord
  <1> QED BY <1>1, <1>2, <1>3 DEF Leaves, Lasts, Undeleted, Settled, Handles, Published

-----------------------------------------------------------------------------
(* Requests *)

RequestRecord == [pc        : {"idle", "ok", "refused", "failed"} \cup DecidePc,
                  task      : Task \cup {NoTask},
                  kind      : Kinds \cup {"accept"},
                  paragraph : Paragraph \cup {NoParagraph},
                  file      : Seq(Decision) \cup Files]

\* A request that has been received has a task and a paragraph, and what it
\* holds while it writes is such a file.
Fit(o) ==
  /\ o \in RequestRecord
  /\ o.pc = "idle" => o.task = NoTask
  /\ o.pc # "idle" => o.task \in Task /\ o.paragraph \in Paragraph
  /\ o.pc = "writeLog" => o.file \in Seq(Decision)
  /\ o.pc = "writeFindings" => o.file \in Files

RequestsInv == decision \in [Decision -> RequestRecord] /\ \A r \in Decision : Fit(decision[r])

RecordsInv ==
  log \in [Task -> Seq(Decision)] /\ finding \in [Task -> Files] /\ met \subseteq Decision

LinkInv == \A t \in Task : (finding[t] = NoFile) <=> ("risk_findings" \notin results[t])

LEMMA FileTypes ==
  /\ NoFile \in Files /\ Pending \in Files /\ NoFile # Pending
  /\ \A kind \in Kinds \cup {"accept"} :
       Outcome(kind) \in {"pending", "accepted", "rejected", "ignored"}
  BY LocalDecisionsAssumption DEF NoFile, Pending, Files, Outcome

\* Request r has come to pc, and holds file; the others are where they were.
Comes(r, pc, file) ==
  /\ decision'[r].pc = pc /\ decision'[r].file = file
  /\ \A q \in Decision \ {r} : decision'[q] = decision[q]
  /\ \A q \in Decision : /\ decision'[q].task = decision[q].task
                         /\ decision'[q].kind = decision[q].kind
                         /\ decision'[q].paragraph = decision[q].paragraph

LEMMA TurnsComes ==
  ASSUME RequestsInv, NEW r \in Decision, decision[r].pc # "idle",
         NEW pc \in {"ok", "refused", "failed"} \cup DecidePc,
         NEW file \in Seq(Decision) \cup Files,
         pc = "writeLog" => file \in Seq(Decision),
         pc = "writeFindings" => file \in Files,
         decision' = [decision EXCEPT ![r].pc = pc, ![r].file = file]
  PROVE  RequestsInv' /\ Comes(r, pc, file)
  <1> DEFINE n == [decision[r] EXCEPT !.pc = pc, !.file = file]
  <1>1. decision[r] \in RequestRecord /\ Fit(decision[r])
    BY DEF RequestsInv
  <1>2. /\ n \in RequestRecord /\ n.pc = pc /\ n.file = file
        /\ n.task = decision[r].task /\ n.kind = decision[r].kind
        /\ n.paragraph = decision[r].paragraph
    BY <1>1 DEF RequestRecord
  <1>3. Fit(n)
    BY <1>1, <1>2 DEF Fit, DecidePc
  <1>4. decision' = [decision EXCEPT ![r] = n]
    BY DEF RequestsInv
  <1> HIDE DEF n
  <1>5. decision'[r] = n /\ \A q \in Decision \ {r} : decision'[q] = decision[q]
    BY <1>4 DEF RequestsInv
  <1>6. RequestsInv'
    BY <1>2, <1>3, <1>4, <1>5 DEF RequestsInv, Fit
  <1> QED BY <1>2, <1>5, <1>6 DEF Comes

LEMMA GotoComes ==
  ASSUME RequestsInv, NEW r \in Decision, decision[r].pc # "idle",
         NEW pc \in {"ok", "refused", "failed"} \cup DecidePc,
         pc \notin {"writeLog", "writeFindings"}, Goto(r, pc)
  PROVE  RequestsInv' /\ Comes(r, pc, Unread)
  <1>1. Unread \in Seq(Decision)
    BY DEF Unread
  <1> QED BY <1>1, TurnsComes DEF Goto

-----------------------------------------------------------------------------
(* The steps of a request.  Most change nothing but the request.           *)

decisionData == <<results, log, finding, met>>

\* Request r turns down, fails, or goes on from one pc to the next.
Steps(r) ==
  /\ UNCHANGED decisionData
  /\ \/ \E pc \in {"refused", "failed"} : Comes(r, pc, Unread)
     \/ /\ decision[r].pc = "authorize" /\ status[TaskOf(r)] = "completed"
        /\ \E pc \in {"find", "choose"} : Comes(r, pc, Unread)
     \/ /\ decision[r].pc \in {"find", "choose", "latest"}
        /\ \E pc \in {"choose", "latest", "readLog"} : Comes(r, pc, Unread)
     \/ /\ decision[r].pc = "readFindings" /\ finding[TaskOf(r)] = NoFile
        /\ Comes(r, "answer", Unread)
     \/ decision[r].pc = "answer" /\ Comes(r, "ok", Unread)

\* Requests that are at pc with a file of the task of r.
Others(r, pc) == {q \in Decision : decision[q].pc = pc /\ TaskOf(q) = TaskOf(r)}

Joins(r, pc) == met' = IF Others(r, pc) = {} THEN met ELSE met \cup Others(r, pc) \cup {r}

HoldsLog(r) ==
  /\ decision[r].pc = "readLog" /\ Comes(r, "writeLog", log[TaskOf(r)])
  /\ Joins(r, "writeLog")
  /\ UNCHANGED <<results, log, finding>>

WritesLog(r) ==
  /\ decision[r].pc = "writeLog" /\ Comes(r, "readFindings", Unread)
  /\ log' = [log EXCEPT ![TaskOf(r)] = Append(decision[r].file, r)]
  /\ UNCHANGED <<results, finding, met>>

HoldsFindings(r) ==
  /\ decision[r].pc = "readFindings" /\ finding[TaskOf(r)] # NoFile
  /\ Comes(r, "writeFindings", finding[TaskOf(r)])
  /\ Joins(r, "writeFindings")
  /\ UNCHANGED <<results, log, finding>>

WritesFindings(r) ==
  /\ decision[r].pc = "writeFindings" /\ Comes(r, "answer", Unread)
  /\ finding' = [finding EXCEPT ![TaskOf(r)] = Marked(decision[r].file, r)]
  /\ results' = [results EXCEPT ![TaskOf(r)] = @ \cup {"risk_findings"}]
  /\ UNCHANGED <<log, met>>

LEMMA DecideCases ==
  ASSUME RequestsInv, RecordsInv, NEW r \in Decision, Decide(r)
  PROVE  /\ TaskOf(r) \in Task /\ ParagraphOf(r) \in Paragraph
         /\ decision[r].pc \in DecidePc
         /\ UNCHANGED pipelineFrame /\ (Works \/ Throws)
         /\ RequestsInv'
         /\ \/ Steps(r) \/ HoldsLog(r) \/ WritesLog(r)
            \/ HoldsFindings(r) \/ WritesFindings(r)
  <1>1. decision[r].pc \in DecidePc
    BY DEF Decide, Authorize, Find, Choose, CheckLatest, ReadLog, WriteLog, ReadFindings,
       WriteFindings, Answer, DecidePc
  <1>2. /\ TaskOf(r) \in Task /\ ParagraphOf(r) \in Paragraph /\ decision[r].pc # "idle"
        /\ Fit(decision[r])
    BY <1>1 DEF RequestsInv, Fit, DecidePc, TaskOf, ParagraphOf
  <1>3. UNCHANGED pipelineFrame /\ (Works \/ Throws)
    BY DEF Decide, Authorize, Find, Choose, CheckLatest, ReadLog, WriteLog, ReadFindings,
       WriteFindings, Answer, Fails
  <1>4. ASSUME NEW pc \in {"ok", "refused", "failed", "find", "choose", "latest", "readLog",
                           "readFindings", "answer"},
               Goto(r, pc)
        PROVE  RequestsInv' /\ Comes(r, pc, Unread)
    BY <1>2, <1>4, GotoComes DEF DecidePc
  <1>5. ASSUME Fails(r), UNCHANGED decisionData
        PROVE  RequestsInv' /\ Steps(r)
    BY <1>4, <1>5 DEF Fails, Steps
  <1>6. CASE Authorize(r)
    <2>1. UNCHANGED decisionData
      BY <1>6 DEF Authorize, decisionData
    <2>2. CASE Fails(r)
      BY <1>1, <1>2, <1>3, <1>5, <2>1, <2>2
    <2>3. CASE status[TaskOf(r)] # "completed" /\ Goto(r, "refused")
      BY <1>1, <1>2, <1>3, <1>4, <2>1, <2>3 DEF Steps
    <2>4. ASSUME NEW pc \in {"find", "choose"}, status[TaskOf(r)] = "completed", Goto(r, pc)
          PROVE  RequestsInv' /\ Steps(r)
      BY <1>4, <1>6, <2>1, <2>4 DEF Steps, Authorize
    <2> QED BY <1>1, <1>2, <1>3, <1>6, <2>2, <2>3, <2>4 DEF Authorize
  <1>7. CASE Find(r)
    <2>1. UNCHANGED decisionData /\ decision[r].pc = "find"
      BY <1>7 DEF Find, decisionData
    <2>2. Fails(r) \/ \E pc \in {"choose", "latest", "readLog", "refused"} : Goto(r, pc)
      BY <1>7 DEF Find
    <2>3. ASSUME NEW pc \in {"choose", "latest", "readLog", "refused"}, Goto(r, pc)
          PROVE  RequestsInv' /\ Steps(r)
      BY <1>4, <2>1, <2>3 DEF Steps
    <2> QED BY <1>1, <1>2, <1>3, <1>5, <2>1, <2>2, <2>3
  <1>8. CASE Choose(r) \/ CheckLatest(r)
    <2>1. UNCHANGED decisionData /\ decision[r].pc \in {"choose", "latest"}
      BY <1>8 DEF Choose, CheckLatest, decisionData
    <2>2. Fails(r) \/ \E pc \in {"readLog", "refused"} : Goto(r, pc)
      BY <1>8 DEF Choose, CheckLatest
    <2>3. ASSUME NEW pc \in {"readLog", "refused"}, Goto(r, pc)
          PROVE  RequestsInv' /\ Steps(r)
      BY <1>4, <2>1, <2>3 DEF Steps
    <2> QED BY <1>1, <1>2, <1>3, <1>5, <2>1, <2>2, <2>3
  <1>9. CASE ReadLog(r)
    <2>1. CASE Fails(r) /\ UNCHANGED met
      BY <1>1, <1>2, <1>3, <1>5, <1>9, <2>1 DEF ReadLog, decisionData
    <2>2. CASE Hold(r, "writeLog", log[TaskOf(r)])
      <3>1. log[TaskOf(r)] \in Seq(Decision)
        BY <1>2 DEF RecordsInv
      <3>2. RequestsInv' /\ Comes(r, "writeLog", log[TaskOf(r)])
        BY <1>2, <2>2, <3>1, TurnsComes DEF Hold, DecidePc
      <3>3. HoldsLog(r)
        BY <1>9, <2>2, <3>2 DEF ReadLog, Hold, HoldsLog, Joins, Others
      <3> QED BY <1>1, <1>2, <1>3, <3>2, <3>3
    <2> QED BY <1>9, <2>1, <2>2 DEF ReadLog
  <1>10. CASE WriteLog(r)
    <2>1. CASE Fails(r) /\ UNCHANGED log
      BY <1>1, <1>2, <1>3, <1>5, <1>10, <2>1 DEF WriteLog, decisionData
    <2>2. CASE /\ log' = [log EXCEPT ![TaskOf(r)] = Appended(decision[r].file, r)]
               /\ Goto(r, "readFindings")
      <3>1. WritesLog(r)
        BY <1>4, <1>10, <2>2 DEF WriteLog, WritesLog, Appended
      <3> QED BY <1>1, <1>2, <1>3, <1>4, <2>2, <3>1
    <2> QED BY <1>10, <2>1, <2>2 DEF WriteLog
  <1>11. CASE ReadFindings(r)
    <2>1. CASE Fails(r) /\ UNCHANGED met
      BY <1>1, <1>2, <1>3, <1>5, <1>11, <2>1 DEF ReadFindings, decisionData
    <2>2. CASE /\ finding[TaskOf(r)] = NoFile /\ Goto(r, "answer") /\ UNCHANGED met
      <3>1. Steps(r)
        BY <1>4, <1>11, <2>2 DEF ReadFindings, Steps, decisionData
      <3> QED BY <1>1, <1>2, <1>3, <1>4, <2>2, <3>1
    <2>3. CASE /\ finding[TaskOf(r)] # NoFile
               /\ Hold(r, "writeFindings", finding[TaskOf(r)])
      <3>1. finding[TaskOf(r)] \in Files
        BY <1>2 DEF RecordsInv
      <3>2. RequestsInv' /\ Comes(r, "writeFindings", finding[TaskOf(r)])
        BY <1>2, <2>3, <3>1, TurnsComes DEF Hold, DecidePc
      <3>3. HoldsFindings(r)
        BY <1>11, <2>3, <3>2 DEF ReadFindings, Hold, HoldsFindings, Joins, Others
      <3> QED BY <1>1, <1>2, <1>3, <3>2, <3>3
    <2> QED BY <1>11, <2>1, <2>2, <2>3 DEF ReadFindings
  <1>12. CASE WriteFindings(r)
    <2>1. CASE Fails(r) /\ UNCHANGED <<finding, results>>
      BY <1>1, <1>2, <1>3, <1>5, <1>12, <2>1 DEF WriteFindings, decisionData
    <2>2. CASE /\ finding' = [finding EXCEPT ![TaskOf(r)] = Marked(decision[r].file, r)]
               /\ results' = [results EXCEPT ![TaskOf(r)] = @ \cup {"risk_findings"}]
               /\ Goto(r, "answer")
      <3>1. WritesFindings(r)
        BY <1>4, <1>12, <2>2 DEF WriteFindings, WritesFindings
      <3> QED BY <1>1, <1>2, <1>3, <1>4, <2>2, <3>1
    <2> QED BY <1>12, <2>1, <2>2 DEF WriteFindings
  <1>13. CASE Answer(r)
    <2>1. UNCHANGED decisionData /\ decision[r].pc = "answer"
      BY <1>13 DEF Answer, decisionData
    <2>2. CASE Fails(r)
      BY <1>1, <1>2, <1>3, <1>5, <2>1, <2>2
    <2>3. CASE Goto(r, "ok")
      BY <1>1, <1>2, <1>3, <1>4, <2>1, <2>3 DEF Steps
    <2> QED BY <1>13, <2>2, <2>3 DEF Answer
  <1> QED BY <1>6, <1>7, <1>8, <1>9, <1>10, <1>11, <1>12, <1>13 DEF Decide

-----------------------------------------------------------------------------
(* Every step, as the files and the requests see it                        *)

\* Where a request may be once its task was completed, and once it has
\* written the log.
Past == {"find", "choose", "latest", "readLog", "writeLog", "readFindings",
         "writeFindings", "answer", "ok"}
AfterLog == {"readFindings", "writeFindings", "answer", "ok"}

Moves(q) ==
  /\ decision[q].pc # "idle" =>
       /\ decision'[q].pc # "idle" /\ decision'[q].task = decision[q].task
       /\ decision'[q].kind = decision[q].kind
       /\ decision'[q].paragraph = decision[q].paragraph
  /\ decision[q].pc = "idle" /\ decision'[q].pc # "idle" =>
       upload[decision'[q].task] = "accepted"
  /\ decision'[q].pc \in Past =>
       decision[q].pc \in Past \/ (decision[q].pc # "idle" /\ status[TaskOf(q)] = "completed")
  /\ decision'[q].pc \in AfterLog => decision[q].pc \in AfterLog \/ WritesLog(q)
  /\ decision'[q].pc \in {"answer", "ok"} =>
       \/ decision[q].pc \in {"answer", "ok"} \/ WritesFindings(q)
       \/ decision[q].pc = "readFindings" /\ finding[TaskOf(q)] = NoFile

\* Nobody has come to pc.
NoneComes(pc) == \A q \in Decision : decision'[q].pc = pc => decision'[q] = decision[q]

LogStays == log' = log /\ NoneComes("writeLog")
FindingsStay == UNCHANGED finding /\ NoneComes("writeFindings")

\* What a step does to the log, and to the findings, of a task.
LogSteps == LogStays \/ \E r \in Decision : HoldsLog(r) \/ WritesLog(r)
FindingSteps ==
  \/ FindingsStay
  \/ \E r \in Decision : HoldsFindings(r) \/ WritesFindings(r)
  \/ PipelineStep /\ FindingsFollow

\* What a step of the decisions does not touch.
decisionFrame == <<upload, documents, status, jobFile, worker, deletion, confirmed, runs,
                   overlap>>

DecisionStep ==
  /\ UNCHANGED decisionFrame
  /\ BoundInv'
  /\ UNCHANGED results \/ \E r \in Decision : WritesFindings(r)

Strides ==
  /\ RequestsInv' /\ RecordsInv'
  /\ met \subseteq met'
  /\ \A q \in Decision : Moves(q)
  /\ LogSteps /\ FindingSteps

LEMMA PipelineStrides ==
  ASSUME RequestsInv, RecordsInv, PipelineStep, FindingsFollow
  PROVE  Strides
  <1>1. decision' = decision /\ log' = log /\ met \subseteq met' /\ met' \subseteq Decision
    BY DEF FindingsFollow, RecordsInv
  <1>2. finding' \in [Task -> Files]
    BY FileTypes DEF FindingsFollow, RecordsInv
  <1>3. \A q \in Decision : Moves(q)
    BY <1>1 DEF Moves
  <1> QED BY <1>1, <1>2, <1>3 DEF Strides, LogSteps, FindingSteps, LogStays, NoneComes,
             RequestsInv, Fit, RecordsInv

LEMMA CrashStrides ==
  ASSUME RequestsInv, RecordsInv, DecisionsDie
  PROVE  Strides
  <1>1. ASSUME NEW q \in Decision
        PROVE  /\ Fit(decision'[q]) /\ Moves(q)
               /\ decision'[q].pc \in {"writeLog", "writeFindings"} =>
                    decision'[q] = decision[q]
    <2>1. decision[q] \in RequestRecord /\ Fit(decision[q])
      BY DEF RequestsInv
    <2>2. CASE decision[q].pc \notin DecidePc
      <3>1. decision'[q] = decision[q]
        BY <2>2 DEF DecisionsDie
      <3> QED BY <2>1, <3>1 DEF Moves
    <2>3. CASE decision[q].pc \in DecidePc
      <3>1. decision'[q] = [decision[q] EXCEPT !.pc = "failed", !.file = Unread]
        BY <2>3 DEF DecisionsDie
      <3>2. /\ decision'[q] \in RequestRecord /\ decision'[q].pc = "failed"
            /\ decision'[q].task = decision[q].task /\ decision'[q].kind = decision[q].kind
            /\ decision'[q].paragraph = decision[q].paragraph
        <4>1. Unread \in Seq(Decision)
          BY DEF Unread
        <4> QED BY <2>1, <3>1, <4>1 DEF RequestRecord
      <3> QED BY <2>1, <2>3, <3>2 DEF Fit, Moves, DecidePc, Past, AfterLog
    <2> QED BY <2>2, <2>3
  <1>2. RequestsInv'
    BY <1>1 DEF RequestsInv, Fit, DecisionsDie
  <1>3. RecordsInv' /\ UNCHANGED <<log, finding, met>>
    BY DEF DecisionsDie, RecordsInv
  <1> QED BY <1>1, <1>2, <1>3 DEF Strides, LogSteps, FindingSteps, LogStays, FindingsStay,
             NoneComes

LEMMA ReceiveStrides ==
  ASSUME RequestsInv, RecordsInv, NEW r \in Decision, NEW t \in Task, NEW kind \in Kinds,
         NEW p \in Paragraph, Receive(r, t, kind, p)
  PROVE  Strides
  <1> DEFINE n == [pc |-> "authorize", task |-> t, kind |-> kind, paragraph |-> p,
                   file |-> Unread]
  <1>1. n \in RequestRecord /\ Fit(n) /\ n.pc = "authorize" /\ n.task = t
    BY DEF RequestRecord, Fit, DecidePc, Unread
  <1>2. decision' = [decision EXCEPT ![r] = n] /\ decision[r].pc = "idle"
        /\ upload[t] = "accepted" /\ UNCHANGED <<log, finding, met>>
    BY DEF Receive
  <1> HIDE DEF n
  <1>3. decision'[r] = n /\ \A q \in Decision \ {r} : decision'[q] = decision[q]
    BY <1>2 DEF RequestsInv
  <1>4. RequestsInv' /\ RecordsInv'
    BY <1>1, <1>2, <1>3 DEF RequestsInv, Fit, RecordsInv
  <1>5. \A q \in Decision : Moves(q)
    BY <1>1, <1>2, <1>3 DEF Moves, Past, AfterLog
  <1>6. LogStays /\ FindingsStay
    BY <1>1, <1>2, <1>3 DEF LogStays, FindingsStay, NoneComes
  <1> QED BY <1>2, <1>4, <1>5, <1>6 DEF Strides, LogSteps, FindingSteps

LEMMA DecideStrides ==
  ASSUME RequestsInv, RecordsInv, NEW r \in Decision, Decide(r)
  PROVE  Strides
  <1>1. /\ TaskOf(r) \in Task /\ ParagraphOf(r) \in Paragraph /\ Fit(decision[r])
        /\ decision[r].pc \in DecidePc /\ RequestsInv'
        /\ \/ Steps(r) \/ HoldsLog(r) \/ WritesLog(r)
           \/ HoldsFindings(r) \/ WritesFindings(r)
    BY DecideCases DEF RequestsInv
  <1>2. PICK pc, file : Comes(r, pc, file)
    BY <1>1 DEF Steps, HoldsLog, WritesLog, HoldsFindings, WritesFindings
  <1>3. \A q \in Decision : Moves(q)
    <2>1. \A q \in Decision \ {r} : Moves(q)
      BY <1>2 DEF Comes, Moves
    <2>2. /\ decision'[r].task = decision[r].task /\ decision'[r].kind = decision[r].kind
          /\ decision'[r].paragraph = decision[r].paragraph /\ decision[r].pc # "idle"
          /\ decision'[r].pc = pc
      BY <1>1, <1>2 DEF Comes, DecidePc
    <2>3. CASE Steps(r)
      BY <2>2, <2>3 DEF Steps, Comes, Moves, Past, AfterLog, TaskOf
    <2>4. CASE HoldsLog(r) \/ HoldsFindings(r)
      BY <2>2, <2>4 DEF HoldsLog, HoldsFindings, Comes, Moves, Past, AfterLog
    <2>5. ASSUME WritesLog(r) PROVE Moves(r)
      <3>1. decision[r].pc = "writeLog" /\ decision'[r].pc = "readFindings"
        BY <2>5 DEF WritesLog, Comes
      <3>2. decision[r].pc \in Past /\ decision'[r].pc \notin {"answer", "ok"}
        BY <3>1 DEF Past
      <3> QED BY <2>2, <2>5, <3>1, <3>2 DEF Moves
    <2>6. ASSUME WritesFindings(r) PROVE Moves(r)
      <3>1. decision[r].pc = "writeFindings" /\ decision'[r].pc = "answer"
        BY <2>6 DEF WritesFindings, Comes
      <3>2. decision[r].pc \in Past /\ decision[r].pc \in AfterLog
        BY <3>1 DEF Past, AfterLog
      <3> QED BY <2>2, <2>6, <3>1, <3>2 DEF Moves
    <2> QED BY <1>1, <2>1, <2>3, <2>4, <2>5, <2>6
  <1>4. ASSUME NEW at, Joins(r, at) PROVE met \subseteq met' /\ met' \subseteq Decision
    BY <1>4 DEF Joins, Others, RecordsInv
  <1>5. RecordsInv' /\ met \subseteq met'
    <2>1. CASE Steps(r)
      BY <2>1 DEF Steps, decisionData, RecordsInv
    <2>2. CASE HoldsLog(r) \/ HoldsFindings(r)
      BY <1>4, <2>2 DEF HoldsLog, HoldsFindings, RecordsInv
    <2>3. CASE WritesLog(r)
      <3>1. Append(decision[r].file, r) \in Seq(Decision)
        BY <1>1, <2>3 DEF WritesLog, Fit
      <3> QED BY <1>1, <2>3, <3>1 DEF WritesLog, RecordsInv
    <2>4. CASE WritesFindings(r)
      <3>1. Outcome(decision[r].kind) \in {"pending", "accepted", "rejected", "ignored"}
        BY <1>1, FileTypes DEF Fit, RequestRecord
      <3>2. Marked(decision[r].file, r) \in Files
        BY <1>1, <2>4, <3>1 DEF WritesFindings, Fit, Marked, Files
      <3> QED BY <1>1, <2>4, <3>2 DEF WritesFindings, RecordsInv
    <2> QED BY <1>1, <2>1, <2>2, <2>3, <2>4
  <1>6. /\ \A q \in Decision \ {r} : decision'[q] = decision[q]
        /\ Steps(r) => decision'[r].pc \notin {"writeLog", "writeFindings"}
        /\ HoldsLog(r) => decision'[r].pc = "writeLog"
        /\ HoldsFindings(r) => decision'[r].pc = "writeFindings"
        /\ WritesLog(r) \/ WritesFindings(r) => decision'[r].pc \in {"readFindings", "answer"}
    BY <1>2 DEF Comes, Steps, HoldsLog, HoldsFindings, WritesLog, WritesFindings
  <1>7. LogSteps
    <2>1. CASE Steps(r) \/ HoldsFindings(r) \/ WritesFindings(r)
      <3>1. log' = log
        BY <2>1 DEF Steps, HoldsFindings, WritesFindings, decisionData
      <3> QED BY <1>6, <2>1, <3>1 DEF LogSteps, LogStays, NoneComes
    <2> QED BY <1>1, <2>1 DEF LogSteps
  <1>8. FindingSteps
    <2>1. CASE Steps(r) \/ HoldsLog(r) \/ WritesLog(r)
      <3>1. finding' = finding
        BY <2>1 DEF Steps, HoldsLog, WritesLog, decisionData
      <3> QED BY <1>6, <2>1, <3>1 DEF FindingSteps, FindingsStay, NoneComes
    <2> QED BY <1>1, <2>1 DEF FindingSteps
  <1> QED BY <1>1, <1>3, <1>5, <1>7, <1>8 DEF Strides

-----------------------------------------------------------------------------
(* Two requests that hold the same file have met                           *)

Collide(pc) ==
  \A q \in Decision, r \in Decision :
    q # r /\ decision[q].pc = pc /\ decision[r].pc = pc /\ TaskOf(q) = TaskOf(r) => q \in met

MeetInv == Collide("writeLog") /\ Collide("writeFindings")

LEMMA CollideStays ==
  ASSUME NEW pc, Collide(pc), met \subseteq met',
         NoneComes(pc) \/ \E r \in Decision : Joins(r, pc) /\ \E file : Comes(r, pc, file)
  PROVE  Collide(pc)'
  <1> SUFFICES ASSUME NEW q \in Decision, NEW s \in Decision, q # s,
                      decision'[q].pc = pc, decision'[s].pc = pc,
                      decision'[q].task = decision'[s].task
               PROVE  q \in met'
    BY DEF Collide, TaskOf
  <1>1. CASE NoneComes(pc)
    <2>1. decision'[q] = decision[q] /\ decision'[s] = decision[s]
      BY <1>1 DEF NoneComes
    <2> QED BY <2>1 DEF Collide, TaskOf
  <1>2. ASSUME NEW r \in Decision, NEW file, Comes(r, pc, file), Joins(r, pc)
        PROVE  q \in met'
    <2>1. CASE q # r /\ s # r
      <3>1. decision'[q] = decision[q] /\ decision'[s] = decision[s]
        BY <1>2, <2>1 DEF Comes
      <3> QED BY <3>1 DEF Collide, TaskOf
    <2>2. CASE q = r
      <3>1. s \in Others(r, pc)
        BY <1>2, <2>2 DEF Comes, Others, TaskOf
      <3> QED BY <1>2, <2>2, <3>1 DEF Joins
    <2>3. CASE s = r
      <3>1. q \in Others(r, pc)
        BY <1>2, <2>3 DEF Comes, Others, TaskOf
      <3> QED BY <1>2, <3>1 DEF Joins
    <2> QED BY <2>1, <2>2, <2>3
  <1> QED BY <1>1, <1>2

LEMMA WritesPass ==
  ASSUME NEW r \in Decision
  PROVE  /\ WritesLog(r) => NoneComes("writeLog")
         /\ WritesFindings(r) => NoneComes("writeFindings")
         /\ FindingsFollow => NoneComes("writeFindings")
  BY DEF WritesLog, WritesFindings, FindingsFollow, Comes, NoneComes

LEMMA MeetStays ==
  ASSUME MeetInv, Strides
  PROVE  MeetInv'
  <1>1. Collide("writeLog")'
    <2>1. NoneComes("writeLog")
          \/ \E r \in Decision : /\ Joins(r, "writeLog")
                                   /\ \E file : Comes(r, "writeLog", file)
      BY WritesPass DEF Strides, LogSteps, LogStays, HoldsLog
    <2> QED BY <2>1, CollideStays DEF MeetInv, Strides
  <1>2. Collide("writeFindings")'
    <2>1. NoneComes("writeFindings")
          \/ \E r \in Decision : /\ Joins(r, "writeFindings")
                                   /\ \E file : Comes(r, "writeFindings", file)
      <3>1. CASE FindingsStay
        BY <3>1 DEF FindingsStay
      <3>2. CASE FindingsFollow
        BY <3>2 DEF FindingsFollow, NoneComes
      <3>3. CASE \E r \in Decision : HoldsFindings(r) \/ WritesFindings(r)
        BY <3>3, WritesPass DEF HoldsFindings
      <3> QED BY <3>1, <3>2, <3>3 DEF Strides, FindingSteps
    <2> QED BY <2>1, CollideStays DEF MeetInv, Strides
  <1> QED BY <1>1, <1>2 DEF MeetInv

-----------------------------------------------------------------------------
(* A request that is past the status check finds the worker's run over     *)

PastInv ==
  /\ \A q \in Decision : decision[q].pc # "idle" => upload[TaskOf(q)] = "accepted"
  /\ \A t \in Task : status[t] = "completed" => Settled(t)
  /\ \A q \in Decision : decision[q].pc \in Past =>
       /\ Settled(TaskOf(q))
       /\ Undeleted(TaskOf(q)) => status[TaskOf(q)] = "completed"

LEMMA PastStays ==
  ASSUME RequestsInv, PastInv, Strides, \A t \in Task : Lasts(t)
  PROVE  PastInv'
  <1>1. ASSUME NEW q \in Decision, decision'[q].pc # "idle"
        PROVE  upload'[decision'[q].task] = "accepted"
    <2>1. decision'[q].task \in Task
      BY <1>1 DEF Strides, RequestsInv, Fit
    <2>2. upload[decision'[q].task] = "accepted"
      BY <1>1 DEF Strides, Moves, PastInv, TaskOf
    <2> QED BY <2>1, <2>2 DEF Lasts
  <1>2. \A t \in Task : status'[t] = "completed" => Settled(t)'
    BY DEF Lasts, PastInv
  <1>3. ASSUME NEW q \in Decision, decision'[q].pc \in Past, NEW t, t = decision'[q].task
        PROVE  Settled(t)' /\ (Undeleted(t)' => status'[t] = "completed")
    <2>1. decision[q].pc # "idle" /\ Moves(q)
      BY <1>3 DEF Strides, Moves, Past
    <2>2. t = TaskOf(q) /\ t \in Task
      BY <1>3, <2>1 DEF Moves, TaskOf, RequestsInv, Fit
    <2>3. Settled(t) /\ upload[t] = "accepted"
          /\ (Undeleted(t) => status[t] = "completed")
      BY <1>3, <2>1, <2>2 DEF Moves, PastInv
    <2> QED BY <2>2, <2>3 DEF Lasts
  <1>4. \A q \in Decision : decision'[q].pc \in Past =>
          /\ Settled(TaskOf(q))'
          /\ Undeleted(TaskOf(q))' => status'[decision'[q].task] = "completed"
    BY <1>3 DEF TaskOf, Settled, Undeleted, Handles
  <1> QED BY <1>1, <1>2, <1>4 DEF PastInv, TaskOf

-----------------------------------------------------------------------------
(* The log.  What one request has added every other one that holds the     *)
(* file holds too, unless it is met.                                       *)

In(q, ops) == \E i \in 1..Len(ops) : ops[i] = q

Logged(q) ==
  /\ In(q, log[TaskOf(q)])
  /\ \A r \in Decision : decision[r].pc = "writeLog" /\ TaskOf(r) = TaskOf(q) =>
       In(q, decision[r].file)

Recorded(q) == q \in met \/ Logged(q)

LoggedInv == \A q \in Decision : decision[q].pc \in AfterLog => Recorded(q)

LEMMA AppendIn ==
  ASSUME NEW ops \in Seq(Decision), NEW r \in Decision
  PROVE  /\ In(r, Append(ops, r))
         /\ \A q \in Decision : In(q, ops) => In(q, Append(ops, r))
  <1>1. /\ Len(Append(ops, r)) = Len(ops) + 1 /\ Append(ops, r)[Len(ops) + 1] = r
        /\ \A i \in 1..Len(ops) : Append(ops, r)[i] = ops[i]
        /\ Len(ops) \in Nat
    OBVIOUS
  <1> QED BY <1>1 DEF In

LEMMA RecordedStays ==
  ASSUME RequestsInv, RecordsInv, Strides, NEW q \in Decision, decision[q].pc # "idle",
         Recorded(q)
  PROVE  Recorded(q)'
  <1>1. decision'[q].task = TaskOf(q) /\ TaskOf(q) \in Task
    BY DEF Strides, Moves, TaskOf, RequestsInv, Fit
  <1>2. CASE q \in met
    BY <1>2 DEF Strides, Recorded
  <1>3. ASSUME Logged(q) PROVE Logged(q)'
    <2>1. CASE LogStays
      BY <1>1, <1>3, <2>1 DEF LogStays, NoneComes, Logged, TaskOf
    <2>2. ASSUME NEW r \in Decision, HoldsLog(r) PROVE Logged(q)'
      <3>1. /\ decision'[r].file = log[TaskOf(r)] /\ decision'[r].task = TaskOf(r)
            /\ \A s \in Decision \ {r} : decision'[s] = decision[s]
            /\ log' = log
        BY <2>2 DEF HoldsLog, Comes, TaskOf
      <3> QED BY <1>1, <1>3, <3>1 DEF Logged, TaskOf
    <2>3. ASSUME NEW r \in Decision, WritesLog(r) PROVE Logged(q)'
      <3>1. /\ decision[r].pc = "writeLog" /\ NoneComes("writeLog")
            /\ log' = [log EXCEPT ![TaskOf(r)] = Append(decision[r].file, r)]
        BY <2>3, WritesPass DEF WritesLog
      <3>2. decision[r].file \in Seq(Decision)
        BY <3>1 DEF RequestsInv, Fit
      <3>3. In(q, log'[TaskOf(q)])
        <4>1. CASE TaskOf(r) = TaskOf(q)
          <5>1. In(q, decision[r].file)
            BY <1>3, <3>1, <4>1 DEF Logged
          <5>2. log'[TaskOf(q)] = Append(decision[r].file, r)
            BY <1>1, <3>1, <4>1 DEF RecordsInv
          <5> QED BY <3>2, <5>1, <5>2, AppendIn
        <4>2. CASE TaskOf(r) # TaskOf(q)
          BY <1>1, <1>3, <3>1, <4>2 DEF RecordsInv, Logged
        <4> QED BY <4>1, <4>2
      <3> QED BY <1>1, <1>3, <3>1, <3>3 DEF Logged, NoneComes, TaskOf
    <2> QED BY <2>1, <2>2, <2>3 DEF Strides, LogSteps
  <1> QED BY <1>2, <1>3 DEF Recorded

LEMMA LoggedStays ==
  ASSUME RequestsInv, RecordsInv, MeetInv, LoggedInv, Strides
  PROVE  LoggedInv'
  <1> SUFFICES ASSUME NEW q \in Decision, decision'[q].pc \in AfterLog PROVE Recorded(q)'
    BY DEF LoggedInv
  <1>1. CASE decision[q].pc \in AfterLog
    BY <1>1, RecordedStays DEF LoggedInv, AfterLog
  <1>2. ASSUME WritesLog(q), q \notin met' PROVE Logged(q)'
    <2>1. /\ decision[q].pc = "writeLog" /\ NoneComes("writeLog") /\ met' = met
          /\ log' = [log EXCEPT ![TaskOf(q)] = Append(decision[q].file, q)]
          /\ decision'[q].pc = "readFindings" /\ decision'[q].task = TaskOf(q)
      BY <1>2, WritesPass DEF WritesLog, Comes, TaskOf
    <2>2. decision[q].file \in Seq(Decision) /\ TaskOf(q) \in Task
      BY <2>1 DEF RequestsInv, Fit, TaskOf
    <2>3. log'[TaskOf(q)] = Append(decision[q].file, q)
      BY <2>1, <2>2 DEF RecordsInv
    <2>4. In(q, log'[TaskOf(q)])
      BY <2>2, <2>3, AppendIn
    <2>5. ASSUME NEW r \in Decision, decision'[r].pc = "writeLog",
                 decision'[r].task = TaskOf(q)
          PROVE  FALSE
      <3>1. decision[r].pc = "writeLog" /\ TaskOf(r) = TaskOf(q) /\ r # q
        BY <2>1, <2>5 DEF NoneComes, TaskOf
      <3> QED BY <1>2, <2>1, <3>1 DEF MeetInv, Collide
    <2> QED BY <2>1, <2>4, <2>5 DEF Logged, TaskOf
  <1> QED BY <1>1, <1>2 DEF Strides, Moves, Recorded

-----------------------------------------------------------------------------
(* The findings *)

\* The file says of a paragraph that it was handled, and a request did.
Reason(t, p, how) ==
  how \notin {"none", "pending"} =>
    \E q \in On(t) : /\ ParagraphOf(q) = p
                     /\ Outcome(decision[q].kind) = how
                     /\ Recorded(q)

ReasonInv ==
  /\ \A t \in Task, p \in Paragraph : Reason(t, p, finding[t][p])
  /\ \A q \in Decision : decision[q].pc = "writeFindings" =>
       \A p \in Paragraph : Reason(TaskOf(q), p, decision[q].file[p])

\* What a request holds while it writes is the file, unless it is met.
HeldInv ==
  \A q \in Decision : decision[q].pc = "writeFindings" =>
    decision[q].file # NoFile /\ (q \in met \/ decision[q].file = finding[TaskOf(q)])

\* A request whose task nobody deletes, and whose paragraph no other one
\* decides on.
Alone(q) ==
  /\ Undeleted(TaskOf(q))
  /\ \A r \in On(TaskOf(q)) \ {q} : ParagraphOf(r) # ParagraphOf(q)

\* What it has written stays, and is in every copy that may be written.
Stands(q) ==
  LET p == ParagraphOf(q)
  IN /\ finding[TaskOf(q)][p] = Outcome(decision[q].kind)
     /\ \A r \in On(TaskOf(q)) : decision[r].pc = "writeFindings" =>
          decision[r].file[p] = Outcome(decision[q].kind)

StandsInv ==
  \A q \in Decision \ met :
    decision[q].pc \in {"answer", "ok"} /\ Alone(q) => Stands(q)

LEMMA ReasonStays ==
  ASSUME RequestsInv, RecordsInv, Strides, NEW t \in Task, NEW p, NEW how, Reason(t, p, how)
  PROVE  Reason(t, p, how)'
  <1> SUFFICES ASSUME how \notin {"none", "pending"} PROVE Reason(t, p, how)'
    BY DEF Reason
  <1>1. PICK q \in On(t) : /\ ParagraphOf(q) = p
                           /\ Outcome(decision[q].kind) = how
                           /\ Recorded(q)
    BY DEF Reason
  <1>2. q \in Decision /\ TaskOf(q) = t /\ decision[q].pc # "idle"
    BY <1>1, LocalAssumption DEF On, RequestsInv, Fit, TaskOf
  <1>3. Recorded(q)' /\ Moves(q)
    BY <1>1, <1>2, RecordedStays DEF Strides
  <1>4. q \in On(t)' /\ ParagraphOf(q)' = p /\ decision'[q].kind = decision[q].kind
    BY <1>1, <1>2, <1>3 DEF Moves, On, TaskOf, ParagraphOf
  <1> QED BY <1>1, <1>3, <1>4 DEF Reason

LEMMA ReasonInvStays ==
  ASSUME RequestsInv, RecordsInv, LoggedInv, ReasonInv, Strides
  PROVE  ReasonInv'
  <1>1. ASSUME NEW t \in Task, NEW p, NEW how, Reason(t, p, how)
        PROVE  Reason(t, p, how)'
    BY <1>1, ReasonStays
  <1>2. ASSUME NEW t \in Task, NEW p \in Paragraph, NEW how, finding'[t][p] = how
        PROVE  Reason(t, p, how)'
    <2>1. CASE finding[t][p] = how \/ how \in {"none", "pending"}
      <3>1. Reason(t, p, how)
        BY <2>1 DEF ReasonInv, Reason
      <3> QED BY <1>1, <3>1
    <2>2. CASE FindingsFollow
      <3>1. finding'[t] \in {Pending, finding[t], NoFile}
        BY <2>2 DEF FindingsFollow
      <3>2. finding[t][p] = how \/ how \in {"none", "pending"}
        BY <1>2, <3>1 DEF Pending, NoFile
      <3> QED BY <2>1, <3>2
    <2>3. ASSUME NEW r \in Decision, WritesFindings(r) PROVE Reason(t, p, how)'
      <3>1. /\ decision[r].pc = "writeFindings" /\ decision[r].file \in Files
            /\ TaskOf(r) \in Task /\ ParagraphOf(r) \in Paragraph
            /\ finding' = [finding EXCEPT ![TaskOf(r)] = Marked(decision[r].file, r)]
        BY <2>3 DEF WritesFindings, RequestsInv, Fit, TaskOf, ParagraphOf
      <3>2. CASE t # TaskOf(r)
        <4>1. finding'[t] = finding[t]
          BY <3>1, <3>2 DEF RecordsInv
        <4> QED BY <1>2, <2>1, <4>1
      <3>3. CASE t = TaskOf(r)
        <4>1. finding'[t] = Marked(decision[r].file, r)
          BY <3>1, <3>3 DEF RecordsInv
        <4>2. Reason(t, p, how)
          <5>1. CASE p # ParagraphOf(r)
            <6>1. decision[r].file[p] = how
              BY <1>2, <3>1, <4>1, <5>1 DEF Marked, Files
            <6> QED BY <3>1, <3>3, <6>1 DEF ReasonInv
          <5>2. CASE p = ParagraphOf(r)
            <6>1. how = Outcome(decision[r].kind)
              BY <1>2, <3>1, <4>1, <5>2 DEF Marked, Files
            <6>2. Recorded(r)
              BY <3>1 DEF LoggedInv, AfterLog
            <6> QED BY <3>3, <5>2, <6>1, <6>2 DEF Reason, On
          <5> QED BY <5>1, <5>2
        <4> QED BY <1>1, <4>2
      <3> QED BY <3>2, <3>3
    <2>4. CASE FindingsStay \/ \E r \in Decision : HoldsFindings(r)
      <3>1. finding' = finding
        BY <2>4 DEF FindingsStay, HoldsFindings
      <3> QED BY <1>2, <2>1, <3>1
    <2> QED BY <2>2, <2>3, <2>4 DEF Strides, FindingSteps
  <1>3. ASSUME NEW q \in Decision, decision'[q].pc = "writeFindings", NEW p \in Paragraph,
               NEW how, decision'[q].file[p] = how, NEW t, t = decision'[q].task
        PROVE  Reason(t, p, how)'
    <2>1. t = TaskOf(q) /\ t \in Task /\ decision[q].pc # "idle"
      BY <1>3 DEF Strides, Moves, RequestsInv, Fit, TaskOf, Past
    <2>2. Reason(t, p, how)
      <3>1. CASE NoneComes("writeFindings")
        BY <1>3, <2>1, <3>1 DEF NoneComes, ReasonInv
      <3>2. ASSUME NEW r \in Decision, HoldsFindings(r)
            PROVE  Reason(t, p, how)
        <4>1. CASE q = r
          <5>1. decision'[q].file = finding[t]
            BY <2>1, <3>2, <4>1 DEF HoldsFindings, Comes
          <5> QED BY <1>3, <2>1, <5>1 DEF ReasonInv
        <4>2. CASE q # r
          <5>1. decision'[q] = decision[q]
            BY <3>2, <4>2 DEF HoldsFindings, Comes
          <5> QED BY <1>3, <2>1, <5>1 DEF ReasonInv
        <4> QED BY <4>1, <4>2
      <3> QED BY <3>1, <3>2, WritesPass DEF Strides, FindingSteps, FindingsStay
    <2> QED BY <1>1, <2>1, <2>2
  <1>4. \A t \in Task, p \in Paragraph : Reason(t, p, finding[t][p])'
    BY <1>2 DEF Reason
  <1>5. \A q \in Decision : decision'[q].pc = "writeFindings" =>
          \A p \in Paragraph : Reason(TaskOf(q), p, decision[q].file[p])'
    BY <1>3 DEF Reason, TaskOf, On
  <1> QED BY <1>4, <1>5 DEF ReasonInv

-----------------------------------------------------------------------------
(* The findings file is there when it is among the task's files            *)

LEMMA LinkStays ==
  ASSUME TypeInv, RequestsInv, RecordsInv, LinkInv, HeldInv,
         \/ UNCHANGED <<results, finding>>
         \/ \E r \in Decision : WritesFindings(r)
         \/ FindingsFollow /\ \A t \in Task : Leaves(t)
  PROVE  LinkInv'
  <1>1. CASE UNCHANGED <<results, finding>>
    BY <1>1 DEF LinkInv
  <1>2. ASSUME NEW r \in Decision, WritesFindings(r) PROVE LinkInv'
    <2>1. /\ decision[r].pc = "writeFindings" /\ decision[r].file \in Files
          /\ TaskOf(r) \in Task /\ ParagraphOf(r) \in Paragraph /\ Fit(decision[r])
      BY <1>2 DEF WritesFindings, RequestsInv, Fit, TaskOf, ParagraphOf
    <2>2. /\ finding' = [finding EXCEPT ![TaskOf(r)] = Marked(decision[r].file, r)]
          /\ results' = [results EXCEPT ![TaskOf(r)] =
                           results[TaskOf(r)] \cup {"risk_findings"}]
      BY <1>2 DEF WritesFindings
    <2>3. Outcome(decision[r].kind) # "none"
      BY <2>1, FileTypes DEF Fit, RequestRecord
    <2>4. Marked(decision[r].file, r) # NoFile
      BY <2>1, <2>3 DEF Marked, Files, NoFile
    <2> QED BY <2>1, <2>2, <2>4 DEF LinkInv, TypeInv, DataInv, RecordsInv
  <1>3. CASE FindingsFollow /\ \A t \in Task : Leaves(t)
    BY <1>3, FileTypes DEF LinkInv, FindingsFollow, Leaves
  <1> QED BY <1>1, <1>2, <1>3

LEMMA HeldStays ==
  ASSUME RequestsInv, RecordsInv, MeetInv, PastInv, HeldInv, Strides,
         PipelineStep => \A t \in Task : Leaves(t)
  PROVE  HeldInv'
  <1> SUFFICES ASSUME NEW q \in Decision, decision'[q].pc = "writeFindings",
                      NEW t, t = decision'[q].task
               PROVE  /\ decision'[q].file # NoFile
                      /\ q \in met' \/ decision'[q].file = finding'[t]
    BY DEF HeldInv, TaskOf
  <1>1. t = TaskOf(q) /\ t \in Task /\ decision[q].pc # "idle"
    BY DEF Strides, Moves, RequestsInv, Fit, TaskOf, Past
  <1>2. ASSUME NoneComes("writeFindings")
        PROVE  /\ decision'[q] = decision[q] /\ decision[q].file # NoFile
               /\ q \in met' \/ decision[q].file = finding[t]
    BY <1>1, <1>2 DEF NoneComes, HeldInv, Strides
  <1>3. CASE FindingsStay
    BY <1>2, <1>3 DEF FindingsStay
  <1>4. ASSUME NEW r \in Decision, HoldsFindings(r)
        PROVE  /\ decision'[q].file # NoFile
               /\ q \in met' \/ decision'[q].file = finding'[t]
    BY <1>1, <1>4 DEF HoldsFindings, Comes, HeldInv, Strides, TaskOf
  <1>5. ASSUME NEW r \in Decision, WritesFindings(r)
        PROVE  /\ decision'[q].file # NoFile
               /\ q \in met' \/ decision'[q].file = finding'[t]
    <2>1. /\ decision[r].pc = "writeFindings" /\ decision'[r].pc = "answer"
          /\ finding' = [finding EXCEPT ![TaskOf(r)] = Marked(decision[r].file, r)]
          /\ decision'[q] = decision[q]
      BY <1>2, <1>5, WritesPass DEF WritesFindings, Comes
    <2>2. CASE TaskOf(r) = t
      <3>1. q \in met
        BY <1>1, <2>1, <2>2 DEF MeetInv, Collide
      <3> QED BY <1>2, <1>5, <2>1, <3>1, WritesPass DEF Strides
    <2>3. CASE TaskOf(r) # t
      <3>1. finding'[t] = finding[t]
        BY <1>1, <2>1, <2>3 DEF RecordsInv
      <3> QED BY <1>2, <1>5, <3>1, WritesPass
    <2> QED BY <2>2, <2>3
  <1>6. CASE PipelineStep /\ FindingsFollow
    <2>1. decision' = decision
      BY <1>6 DEF FindingsFollow
    <2>2. ~Published(t)
      BY <1>1, <1>6, <2>1 DEF PastInv, Past, Leaves
    <2>3. finding'[t] \in {finding[t], NoFile}
      BY <1>1, <1>6, <2>2 DEF FindingsFollow
    <2>4. finding'[t] = NoFile => q \in met'
      BY <1>1, <1>6, <2>1 DEF FindingsFollow, TaskOf
    <2> QED BY <1>1, <1>2, <2>1, <2>3, <2>4 DEF NoneComes
  <1> QED BY <1>3, <1>4, <1>5, <1>6 DEF Strides, FindingSteps

-----------------------------------------------------------------------------
(* What a request has answered for stands                                  *)

\* A completed task that nobody deletes has its findings.
WholeInv ==
  \A t \in Task : status[t] = "completed" /\ Undeleted(t) => finding[t] # NoFile

LEMMA StandsKept ==
  ASSUME RequestsInv, RecordsInv, PastInv, Strides, WholeInv',
         PipelineStep => \A t \in Task : Leaves(t),
         NEW q \in Decision, NEW t \in Task, NEW p, TaskOf(q) = t, ParagraphOf(q) = p,
         decision[q].pc \in {"answer", "ok"}, Alone(q), Stands(q), Moves(q),
         status'[t] = "completed", Undeleted(t)'
  PROVE  Stands(q)'
  <1> DEFINE how == Outcome(decision[q].kind)
  <1>1. /\ decision'[q].task = t /\ decision'[q].paragraph = p
        /\ decision'[q].kind = decision[q].kind
    BY DEF Moves, TaskOf, ParagraphOf
  <1>2. /\ finding[t][p] = how
        /\ \A r \in Decision : TaskOf(r) = t /\ decision[r].pc = "writeFindings" =>
             decision[r].file[p] = how
    BY DEF Stands, On
  <1>3. SUFFICES /\ finding'[t][p] = how
                 /\ \A r \in Decision :
                      decision'[r].task = t /\ decision'[r].pc = "writeFindings" =>
                        decision'[r].file[p] = how
    BY <1>1 DEF Stands, On, TaskOf, ParagraphOf
  <1> HIDE DEF how
  <1>4. ASSUME NoneComes("writeFindings")
        PROVE  \A r \in Decision :
                 decision'[r].task = t /\ decision'[r].pc = "writeFindings" =>
                   decision'[r].file[p] = how
    BY <1>2, <1>4 DEF NoneComes, TaskOf
  <1>5. CASE FindingsStay
    BY <1>2, <1>4, <1>5 DEF FindingsStay
  <1>6. CASE \E s \in Decision : HoldsFindings(s)
    <2>1. PICK s \in Decision : HoldsFindings(s)
      BY <1>6
    <2>2. /\ finding' = finding /\ decision'[s].file = finding[TaskOf(s)]
          /\ decision'[s].task = TaskOf(s)
          /\ \A r \in Decision \ {s} : decision'[r] = decision[r]
      BY <2>1 DEF HoldsFindings, Comes, TaskOf
    <2>3. ASSUME NEW r \in Decision, decision'[r].task = t, decision'[r].pc = "writeFindings"
          PROVE  decision'[r].file[p] = how
      BY <1>2, <2>2, <2>3 DEF TaskOf
    <2> QED BY <1>2, <2>2, <2>3
  <1>7. CASE \E s \in Decision : WritesFindings(s)
    <2>1. PICK s \in Decision : WritesFindings(s)
      BY <1>7
    <2>2. /\ decision[s].pc = "writeFindings" /\ decision[s].file \in Files /\ s # q
          /\ finding' = [finding EXCEPT ![TaskOf(s)] = Marked(decision[s].file, s)]
      BY <2>1 DEF WritesFindings, RequestsInv, Fit
    <2>3. CASE TaskOf(s) = t
      <3>1. ParagraphOf(s) # p /\ decision[s].file[p] = how
        BY <1>2, <2>2, <2>3 DEF Alone, On
      <3>2. finding'[t] = Marked(decision[s].file, s)
        BY <2>2, <2>3 DEF RecordsInv
      <3>3. Marked(decision[s].file, s)[p] = decision[s].file[p]
        BY <3>1 DEF Marked
      <3> QED BY <1>4, <2>1, <3>1, <3>2, <3>3, WritesPass
    <2>4. CASE TaskOf(s) # t
      <3>1. finding'[t] = finding[t]
        BY <2>2, <2>4 DEF RecordsInv
      <3> QED BY <1>2, <1>4, <2>1, <3>1, WritesPass
    <2> QED BY <2>3, <2>4
  <1>8. CASE PipelineStep /\ FindingsFollow
    <2>1. ~Published(t)
      BY <1>8 DEF PastInv, Past, Leaves
    <2>2. finding'[t] \in {finding[t], NoFile}
      BY <1>8, <2>1 DEF FindingsFollow
    <2>3. finding'[t] # NoFile
      BY DEF WholeInv
    <2> QED BY <1>2, <1>4, <1>8, <2>2, <2>3, WritesPass
  <1> QED BY <1>5, <1>6, <1>7, <1>8 DEF Strides, FindingSteps

LEMMA StandsStays ==
  ASSUME RequestsInv, RecordsInv, MeetInv, PastInv, StandsInv, WholeInv, Strides,
         PastInv', WholeInv', \A t \in Task : Lasts(t),
         PipelineStep => \A t \in Task : Leaves(t)
  PROVE  StandsInv'
  <1> SUFFICES ASSUME NEW q \in Decision, q \notin met', decision'[q].pc \in {"answer", "ok"},
                      Alone(q)'
               PROVE  Stands(q)'
    BY DEF StandsInv
  <1>1. PICK t, p : t = TaskOf(q) /\ p = ParagraphOf(q)
    OBVIOUS
  <1>2. /\ decision[q].pc # "idle" /\ q \notin met /\ Moves(q)
        /\ decision'[q].task = t /\ decision'[q].paragraph = p
        /\ decision'[q].kind = decision[q].kind
    <2>1. decision[q].pc # "idle" /\ Moves(q) /\ q \notin met
      BY DEF Strides, Moves, Past
    <2> QED BY <1>1, <2>1 DEF Moves, TaskOf, ParagraphOf
  <1>3. t \in Task /\ p \in Paragraph
    BY <1>1, <1>2 DEF RequestsInv, Fit, TaskOf, ParagraphOf
  <1>4. Undeleted(t)'
    BY <1>2 DEF Alone, TaskOf, Undeleted
  <1>5. Alone(q)
    <2>1. Undeleted(t)
      BY <1>3, <1>4 DEF Lasts
    <2>2. ASSUME NEW r \in Decision, TaskOf(r) = t, r # q PROVE ParagraphOf(r) # p
      <3>1. decision[r].pc # "idle" /\ Moves(r)
        BY <1>3, <2>2, LocalAssumption DEF RequestsInv, Fit, TaskOf, Strides
      <3>2. decision'[r].task = t /\ decision'[r].paragraph = decision[r].paragraph
        BY <2>2, <3>1 DEF Moves, TaskOf
      <3> QED BY <1>2, <2>2, <3>2 DEF Alone, On, TaskOf, ParagraphOf
    <2> QED BY <1>1, <2>1, <2>2 DEF Alone, On
  <1>6. status'[t] = "completed"
    <2>1. decision'[q].pc \in Past
      BY DEF Past
    <2> QED BY <1>2, <1>4, <2>1 DEF PastInv, TaskOf, Undeleted
  <1>7. CASE decision[q].pc \in {"answer", "ok"}
    <2>1. Stands(q)
      BY <1>2, <1>5, <1>7 DEF StandsInv
    <2> QED BY <1>1, <1>2, <1>3, <1>4, <1>5, <1>6, <1>7, <2>1, StandsKept
  <1>8. CASE WritesFindings(q)
    <2>1. /\ decision[q].pc = "writeFindings" /\ decision[q].file \in Files
          /\ finding' = [finding EXCEPT ![t] = Marked(decision[q].file, q)]
          /\ NoneComes("writeFindings") /\ decision'[q].pc = "answer"
      BY <1>1, <1>8, WritesPass DEF WritesFindings, RequestsInv, Fit, Comes
    <2>2. finding'[t][p] = Outcome(decision[q].kind)
      BY <1>1, <1>3, <2>1 DEF RecordsInv, Marked, Files
    <2>3. ASSUME NEW r \in Decision, decision'[r].task = t, decision'[r].pc = "writeFindings"
          PROVE  FALSE
      <3>1. decision[r].pc = "writeFindings" /\ TaskOf(r) = t /\ r # q
        BY <2>1, <2>3 DEF NoneComes, TaskOf
      <3> QED BY <1>1, <1>2, <2>1, <3>1 DEF MeetInv, Collide
    <2> QED BY <1>2, <2>2, <2>3 DEF Stands, On, TaskOf, ParagraphOf
  <1>9. CASE decision[q].pc = "readFindings" /\ finding[TaskOf(q)] = NoFile
    <2>1. Undeleted(t)
      BY <1>3, <1>4 DEF Lasts
    <2>2. status[t] = "completed"
      BY <1>1, <1>9, <2>1 DEF PastInv, Past
    <2> QED BY <1>1, <1>3, <1>9, <2>1, <2>2 DEF WholeInv
  <1> QED BY <1>2, <1>7, <1>8, <1>9 DEF Moves

-----------------------------------------------------------------------------
(* The pipeline goes on as it does alone, but for the findings that a      *)
(* request on a task has written after they were deleted.  Only one that   *)
(* is met can have done so.                                                *)

ErasureInv ==
  \E B \in SUBSET Task : FilesInv(B) /\ \A t \in B : On(t) \cap met # {}

\* A completed task that nobody deletes has all its files.
LEMMA FilesWhole ==
  ASSUME LinkInv, ErasureInv
  PROVE  /\ WholeInv
         /\ \A t \in Task : status[t] = "completed" /\ Undeleted(t) => results[t] = Tables
  <1>1. PICK B \in SUBSET Task : FilesInv(B)
    BY DEF ErasureInv
  <1>2. \A t \in Task : status[t] = "completed" /\ Undeleted(t) => results[t] = Tables
    BY <1>1 DEF FilesInv, TaskInv, FilesFit, DataFits
  <1>3. WholeInv
    BY <1>2 DEF LinkInv, WholeInv, Tables
  <1> QED BY <1>2, <1>3

LEMMA FilesWholeNext ==
  ASSUME LinkInv', ErasureInv'
  PROVE  WholeInv'
  <1>1. PICK B \in SUBSET Task : FilesInv(B)'
    BY DEF ErasureInv
  <1>2. \A t \in Task : status'[t] = "completed" /\ Undeleted(t)' => results'[t] = Tables
    BY <1>1 DEF FilesInv, TaskInv, FilesFit, DataFits
  <1> QED BY <1>2 DEF LinkInv, WholeInv, Tables

\* Who has met has met for ever.
LEMMA MetForEver ==
  ASSUME RequestsInv, Strides, NEW t \in Task, On(t) \cap met # {}
  PROVE  (On(t) \cap met # {})'
  <1>1. PICK q \in Decision : q \in On(t) /\ q \in met
    BY DEF On
  <1>2. decision[q].pc # "idle"
    BY <1>1, LocalAssumption DEF On, TaskOf, RequestsInv, Fit
  <1>3. decision'[q].task = t
    BY <1>1, <1>2 DEF On, TaskOf, Strides, Moves
  <1> QED BY <1>1, <1>3 DEF On, TaskOf, Strides

LEMMA FrameTypes ==
  ASSUME TypeInv, OnceInv, DecisionStep, RequestsInv
  PROVE  TypeInv' /\ OnceInv'
  <1>1. results' \in [Task -> SUBSET Tables]
    <2>1. CASE UNCHANGED results
      BY <2>1 DEF TypeInv, DataInv
    <2>2. ASSUME NEW r \in Decision, WritesFindings(r)
          PROVE  results' \in [Task -> SUBSET Tables]
      BY <2>2 DEF WritesFindings, TypeInv, DataInv, Tables
    <2> QED BY <2>1, <2>2 DEF DecisionStep
  <1>2. TypeInv'
    BY <1>1 DEF DecisionStep, decisionFrame, TypeInv, DataInv, QueueInv, WorkerInv,
       DeletionInv
  <1>3. OnceInv'
    BY DEF DecisionStep, decisionFrame, OnceInv, JobInv, Reading
  <1> QED BY <1>2, <1>3

\* The decisions leave a task's files to the pipeline, except its findings.
LEMMA FrameFiles ==
  ASSUME NEW B, FilesInv(B), UNCHANGED decisionFrame, UNCHANGED results
  PROVE  FilesInv(B)'
  <1>1. \A t \in Task : Calmly(t)
    BY DEF decisionFrame, Calmly, Handles
  <1>2. StepInv'
    BY DEF FilesInv, StepInv, decisionFrame
  <1> QED BY <1>1, <1>2, CalmlyKeeps DEF FilesInv

LEMMA WriteFiles ==
  ASSUME TypeInv, NEW B, FilesInv(B), UNCHANGED decisionFrame,
         NEW u \in Task, Undeleted(u) => results[u] = Tables,
         results' = [results EXCEPT ![u] = results[u] \cup {"risk_findings"}],
         NEW C, C = B \cup {u}
  PROVE  FilesInv(C)'
  <1> USE DEF decisionFrame
  <1>1. StepInv'
    BY DEF FilesInv, StepInv
  <1>2. ASSUME NEW t \in Task, t # u PROVE TaskInv(C, t)'
    <2>1. Calmly(t)
      BY <1>2 DEF Calmly, Handles, TypeInv, DataInv
    <2>2. TaskInv(C, t)
      BY <1>2 DEF FilesInv, TaskInv, Quiet, Removed, Leftover
    <2> QED BY <2>1, <2>2, CalmlyKeeps
  <1>3. TaskInv(C, u)'
    <2>1. TaskInv(B, u) /\ results'[u] = results[u] \cup {"risk_findings"} /\ u \in C
      BY DEF FilesInv, TypeInv, DataInv
    <2>2. OneRun(u)'
      BY <2>1 DEF TaskInv, OneRun, Handles
    <2>3. Undeleted(u)' => FilesFit(u)'
      <3>1. CASE ~Undeleted(u)
        BY <3>1 DEF Undeleted
      <3>2. CASE Undeleted(u)
        <4>1. results'[u] = results[u]
          BY <2>1, <3>2 DEF Tables
        <4> QED BY <2>1, <3>2, <4>1 DEF TaskInv, FilesFit, DataFits, RunFits, Handles
      <3> QED BY <3>1, <3>2
    <2>4. u \in confirmed' \/ ~Undeleted(u)' => upload'[u] = "accepted"
      BY <2>1 DEF TaskInv, Undeleted
    <2>5. ASSUME Quiet(B, u) PROVE Quiet(C, u)'
      <3>1. UnderDeletion(u)' => \A w \in Worker : ~Handles(w, u)'
        BY <2>5 DEF Quiet, UnderDeletion, Handles
      <3>2. \A d \in Request : deletion[d].task = u => Removed(C, deletion[d].pc, u)'
        <4>1. \A d \in Request : deletion[d].task = u => Removed(B, deletion[d].pc, u)
          BY <2>5 DEF Quiet
        <4> QED BY <2>1, <4>1 DEF Removed
      <3>3. u \in confirmed =>
              ~Exists(u)' /\ u \notin documents' /\ results'[u] \subseteq Leftover(C, u)
        <4>1. u \in confirmed =>
                ~Exists(u) /\ u \notin documents /\ results[u] \subseteq Leftover(B, u)
          BY <2>5 DEF Quiet
        <4> QED BY <2>1, <4>1 DEF Leftover, Exists
      <3>4. u \in confirmed => \A w \in Worker : Handles(w, u)' => InVain(worker'[w])
        BY <2>5 DEF Quiet, Handles
      <3> QED BY <3>1, <3>2, <3>3, <3>4 DEF Quiet, Removed, InVain
    <2>6. u \notin overlap' => Quiet(C, u)'
      BY <2>1, <2>5 DEF TaskInv
    <2> QED BY <2>2, <2>3, <2>4, <2>6 DEF TaskInv
  <1> QED BY <1>1, <1>2, <1>3 DEF FilesInv

LEMMA ErasureStays ==
  ASSUME TypeInv, OnceInv, RequestsInv, RecordsInv, PastInv, LinkInv, HeldInv, ErasureInv,
         Strides, DecisionStep \/ [Next]_vars
  PROVE  ErasureInv'
  <1>1. PICK B \in SUBSET Task : FilesInv(B) /\ \A t \in B : On(t) \cap met # {}
    BY DEF ErasureInv
  <1>2. \A t \in B : (On(t) \cap met # {})'
    BY <1>1, MetForEver
  <1>3. ASSUME FilesInv(B)' PROVE ErasureInv'
    BY <1>2, <1>3 DEF ErasureInv
  <1>4. CASE [Next]_vars
    BY <1>1, <1>3, <1>4, NextFiles
  <1>5. CASE UNCHANGED decisionFrame /\ UNCHANGED results
    BY <1>1, <1>3, <1>5, FrameFiles
  <1>6. ASSUME NEW r \in Decision, WritesFindings(r), UNCHANGED decisionFrame
        PROVE  ErasureInv'
    <2>1. PICK u : u = TaskOf(r)
      OBVIOUS
    <2>2. /\ decision[r].pc = "writeFindings" /\ u \in Task /\ met' = met
          /\ decision'[r].task = u
          /\ results' = [results EXCEPT ![u] = results[u] \cup {"risk_findings"}]
      BY <1>6, <2>1 DEF WritesFindings, RequestsInv, Fit, TaskOf, Comes
    <2>3. CASE r \in met
      <3>1. Undeleted(u) => results[u] = Tables
        BY <2>1, <2>2, FilesWhole DEF PastInv, Past
      <3>2. PICK C : C = B \cup {u}
        OBVIOUS
      <3>3. FilesInv(C)'
        BY <1>1, <1>6, <2>2, <3>1, <3>2, WriteFiles
      <3>4. (On(u) \cap met # {})'
        BY <2>2, <2>3 DEF On, TaskOf
      <3>5. C \in SUBSET Task /\ \A t \in C : (On(t) \cap met # {})'
        BY <1>1, <1>2, <2>2, <3>2, <3>4
      <3> QED BY <3>3, <3>5 DEF ErasureInv
    <2>4. CASE r \notin met
      <3>1. finding[u] # NoFile
        BY <2>1, <2>2, <2>4 DEF HeldInv
      <3>2. results' = results
        BY <2>2, <3>1 DEF LinkInv, TypeInv, DataInv
      <3> QED BY <1>5, <1>6, <3>2
    <2> QED BY <2>3, <2>4
  <1> QED BY <1>4, <1>5, <1>6 DEF DecisionStep

-----------------------------------------------------------------------------
(* The inductive invariant                                                 *)

DecisionsInv ==
  /\ TypeInv /\ OnceInv /\ RequestsInv /\ RecordsInv
  /\ MeetInv /\ PastInv /\ LoggedInv /\ ReasonInv
  /\ LinkInv /\ HeldInv /\ StandsInv /\ ErasureInv

LEMMA InitDecisions ==
  ASSUME DecisionsInit
  PROVE  DecisionsInv
  <1>1. TypeInv /\ OnceInv /\ FilesInv({})
    BY TypeInit, InitOnce, InitFiles DEF DecisionsInit
  <1>2. \A q \in Decision :
          /\ decision[q] = IdleDecision /\ decision[q].pc = "idle" /\ TaskOf(q) = NoTask
    BY DEF DecisionsInit, IdleDecision, TaskOf
  <1>3. IdleDecision \in RequestRecord /\ Fit(IdleDecision)
    <2>1. Unread \in Seq(Decision)
      BY DEF Unread
    <2> QED BY <2>1 DEF IdleDecision, RequestRecord, Fit
  <1>4. RequestsInv
    BY <1>2, <1>3 DEF RequestsInv, DecisionsInit
  <1>5. RecordsInv
    BY FileTypes DEF RecordsInv, DecisionsInit
  <1>6. MeetInv /\ LoggedInv /\ HeldInv /\ StandsInv
    BY <1>2 DEF MeetInv, Collide, LoggedInv, AfterLog, HeldInv, StandsInv
  <1>7. PastInv
    BY <1>2 DEF PastInv, Past, DecisionsInit, Init
  <1>8. ReasonInv
    <2>1. \A t \in Task, p \in Paragraph : finding[t][p] = "none"
      BY DEF DecisionsInit, NoFile
    <2> QED BY <1>2, <2>1 DEF ReasonInv, Reason
  <1>9. LinkInv
    BY DEF LinkInv, DecisionsInit, Init
  <1>10. ErasureInv
    BY <1>1 DEF ErasureInv
  <1> QED BY <1>1, <1>4, <1>5, <1>6, <1>7, <1>8, <1>9, <1>10 DEF DecisionsInv

\* A step is one of the pipeline, of a request, or of both at once.
LEMMA NextCases ==
  ASSUME DecisionsInv, [DecisionsNext]_allVars
  PROVE  /\ Strides
         /\ \A t \in Task : Lasts(t)
         /\ PipelineStep => \A t \in Task : Leaves(t)
         /\ DecisionStep \/ [Next]_vars
         /\ \/ UNCHANGED <<results, finding>>
            \/ \E r \in Decision : WritesFindings(r)
            \/ FindingsFollow /\ \A t \in Task : Leaves(t)
  <1> USE DEF DecisionsInv
  <1>1. PipelineStep => \A t \in Task : Leaves(t)
    BY PipelineLeaves DEF ErasureInv
  <1>2. UNCHANGED decisionFrame => \A t \in Task : Lasts(t)
    BY DEF decisionFrame, Lasts, Undeleted, Settled, Handles
  <1>3. CASE PipelineStep /\ FindingsFollow
    <2>1. Next
      BY <1>3 DEF PipelineStep, Next
    <2> QED BY <1>1, <1>3, <2>1, PipelineStrides DEF Leaves
  <1>4. CASE WebCrash /\ DecisionsDie
    <2>1. Next
      BY <1>4 DEF Next
    <2>2. UNCHANGED <<results, finding>>
      BY <1>4 DEF WebCrash, DecisionsDie
    <2> QED BY <1>1, <1>4, <2>1, <2>2, CrashStrides, WebCrashLeaves DEF Leaves
  <1>5. ASSUME NEW r \in Decision, NEW t \in Task, NEW kind \in Kinds, NEW p \in Paragraph,
               Receive(r, t, kind, p)
        PROVE  Strides /\ DecisionStep /\ UNCHANGED <<results, finding>>
    <2>1. UNCHANGED <<results, finding, faults, crashes>> /\ UNCHANGED decisionFrame
      BY <1>5 DEF Receive, pipelineFrame, historyVars, decisionFrame
    <2>2. BoundInv'
      BY <2>1 DEF TypeInv, BoundInv
    <2> QED BY <1>5, <2>1, <2>2, ReceiveStrides DEF DecisionStep
  <1>6. ASSUME NEW r \in Decision, Decide(r)
        PROVE  /\ Strides /\ DecisionStep
               /\ UNCHANGED <<results, finding>> \/ WritesFindings(r)
    <2>1. /\ UNCHANGED pipelineFrame /\ (Works \/ Throws)
          /\ \/ Steps(r) \/ HoldsLog(r) \/ WritesLog(r)
             \/ HoldsFindings(r) \/ WritesFindings(r)
      BY <1>6, DecideCases
    <2>2. UNCHANGED decisionFrame /\ UNCHANGED crashes
      BY <2>1 DEF pipelineFrame, historyVars, decisionFrame
    <2>3. BoundInv'
      BY <2>1, <2>2, SpentInv DEF TypeInv
    <2>4. UNCHANGED <<results, finding>> \/ WritesFindings(r)
      BY <2>1 DEF Steps, HoldsLog, WritesLog, HoldsFindings, decisionData
    <2> QED BY <1>6, <2>2, <2>3, <2>4, DecideStrides DEF DecisionStep
  <1>7. CASE UNCHANGED allVars
    <2>1. UNCHANGED <<vars, decision, log, finding, met>>
      BY <1>7 DEF allVars, decisionVars
    <2>2. UNCHANGED decisionFrame /\ UNCHANGED results
      BY <2>1 DEF vars, historyVars, decisionFrame
    <2>3. Strides
      BY <2>1 DEF Strides, RequestsInv, Fit, RecordsInv, Moves, LogSteps, LogStays,
         FindingSteps, FindingsStay, NoneComes
    <2> QED BY <1>1, <1>2, <2>1, <2>2, <2>3
  <1> QED BY <1>1, <1>2, <1>3, <1>4, <1>5, <1>6, <1>7 DEF DecisionsNext, DecisionStep

LEMMA NextDecisions == DecisionsInv /\ [DecisionsNext]_allVars => DecisionsInv'
  <1> SUFFICES ASSUME DecisionsInv, [DecisionsNext]_allVars PROVE DecisionsInv'
    OBVIOUS
  <1>1. /\ TypeInv /\ OnceInv /\ RequestsInv /\ RecordsInv
        /\ MeetInv /\ PastInv /\ LoggedInv /\ ReasonInv
        /\ LinkInv /\ HeldInv /\ StandsInv /\ ErasureInv
    BY DEF DecisionsInv
  <1>2. /\ Strides
        /\ \A t \in Task : Lasts(t)
        /\ PipelineStep => \A t \in Task : Leaves(t)
        /\ DecisionStep \/ [Next]_vars
        /\ \/ UNCHANGED <<results, finding>>
           \/ \E r \in Decision : WritesFindings(r)
           \/ FindingsFollow /\ \A t \in Task : Leaves(t)
    BY NextCases
  <1>3. TypeInv' /\ OnceInv'
    BY <1>1, <1>2, NextOnce, FrameTypes
  <1>4. RequestsInv' /\ RecordsInv'
    BY <1>2 DEF Strides
  <1>5. MeetInv' /\ LoggedInv'
    BY <1>1, <1>2, MeetStays, LoggedStays
  <1>6. ReasonInv'
    BY <1>1, <1>2, ReasonInvStays
  <1>7. PastInv'
    BY <1>1, <1>2, PastStays
  <1>8. HeldInv'
    BY <1>1, <1>2, HeldStays
  <1>9. LinkInv'
    BY <1>1, <1>2, LinkStays
  <1>10. ErasureInv'
    BY <1>1, <1>2, ErasureStays
  <1>11. WholeInv /\ WholeInv'
    BY <1>1, <1>9, <1>10, FilesWhole, FilesWholeNext
  <1>12. StandsInv'
    BY <1>1, <1>2, <1>7, <1>11, StandsStays
  <1> QED BY <1>3, <1>4, <1>5, <1>6, <1>7, <1>8, <1>9, <1>10, <1>12 DEF DecisionsInv

LEMMA AlwaysDecisions == DecisionsSpec => []DecisionsInv
  <1> QED BY InitDecisions, NextDecisions, PTL DEF DecisionsSpec

-----------------------------------------------------------------------------
(* What the runs check, for every instance                                 *)

\* The files and the requests keep their types, and the findings file is there
\* when it is among the task's files.
THEOREM DecisionsTypeCorrect == DecisionsSpec => []DecisionsTypeOK
  <1>1. DecisionsInv => DecisionsTypeOK
    <2> SUFFICES ASSUME DecisionsInv PROVE DecisionsTypeOK
      OBVIOUS
    <2>1. \A r \in Decision : decision[r] \in RequestRecord /\ Fit(decision[r])
      BY DEF DecisionsInv, RequestsInv
    <2>2. RecordsInv /\ LinkInv
      BY DEF DecisionsInv
    <2> QED BY <2>1, <2>2 DEF DecisionsTypeOK, RecordsInv, LinkInv, Fit, RequestRecord
  <1> QED BY <1>1, AlwaysDecisions, PTL

\* What a decision answered for stays in edit_operations and, when it is the
\* only one on its paragraph, in risk_findings, however many decisions read
\* and write the two files around it, unless another one held a file at the
\* same time.
THEOREM AnsweredIsKept == DecisionsSpec => []DecisionKept
  <1>1. DecisionsInv => DecisionKept
    <2> SUFFICES ASSUME DecisionsInv, NEW r \in Decision \ met, decision[r].pc = "ok",
                        NEW t, t = TaskOf(r), NEW p, p = ParagraphOf(r)
                 PROVE  /\ \E i \in 1..Len(log[t]) : log[t][i] = r
                        /\ (/\ \A d \in Request : deletion[d].task # t
                            /\ \A q \in On(t) \ {r} : ParagraphOf(q) # p)
                             => finding[t][p] = Outcome(decision[r].kind)
      BY DEF DecisionKept
    <2>1. \E i \in 1..Len(log[t]) : log[t][i] = r
      BY DEF DecisionsInv, LoggedInv, AfterLog, Recorded, Logged, In
    <2>2. ASSUME \A d \in Request : deletion[d].task # t,
                 \A q \in On(t) \ {r} : ParagraphOf(q) # p
          PROVE  finding[t][p] = Outcome(decision[r].kind)
      <3>1. Alone(r)
        BY <2>2 DEF Alone, Undeleted
      <3> QED BY <3>1 DEF DecisionsInv, StandsInv, Stands
    <2> QED BY <2>1, <2>2
  <1> QED BY <1>1, AlwaysDecisions, PTL

\* A paragraph that risk_findings says was handled has an operation in
\* edit_operations that says so, or lost it to a decision that held the log at
\* the same time.
THEOREM HandledIsExplained == DecisionsSpec => []HandledHasCause
  <1>1. DecisionsInv => HandledHasCause
    BY DEF DecisionsInv, ReasonInv, Reason, Recorded, Logged, In, On, HandledHasCause
  <1> QED BY <1>1, AlwaysDecisions, PTL

\* After a deletion that deleteTaskData confirmed, and that no worker's run
\* overlapped with, risk_findings stays away whatever decision still writes,
\* unless one had read the file before it was deleted.
THEOREM FindingsStayErased == DecisionsSpec => []FindingsErased
  <1>1. DecisionsInv => FindingsErased
    <2> SUFFICES ASSUME DecisionsInv, NEW t \in confirmed \ overlap, finding[t] # NoFile
                 PROVE  On(t) \cap met # {}
      BY DEF FindingsErased
    <2>1. t \in Task
      BY DEF DecisionsInv, TypeInv, DataInv
    <2>2. PICK B \in SUBSET Task : FilesInv(B) /\ \A u \in B : On(u) \cap met # {}
      BY DEF DecisionsInv, ErasureInv
    <2>3. results[t] \subseteq Leftover(B, t)
      BY <2>1, <2>2 DEF FilesInv, TaskInv, Quiet
    <2>4. "risk_findings" \in results[t]
      BY <2>1 DEF DecisionsInv, LinkInv
    <2>5. t \in B
      BY <2>3, <2>4 DEF Leftover
    <2> QED BY <2>2, <2>5
  <1> QED BY <1>1, AlwaysDecisions, PTL

\* Decisions do not get in the way of the pipeline: with them too a job runs
\* once, and a task nobody asked to delete has its files in agreement with its
\* status, although updateTaskRiskFindingHandlingStatus writes one of them.
THEOREM PipelineUndisturbed == DecisionsSpec => [](RunOnce /\ FilesMatchStatus)
  <1>1. DecisionsInv => RunOnce
    BY DEF DecisionsInv, OnceInv, JobInv, RunOnce
  <1>2. DecisionsInv => FilesMatchStatus
    <2> SUFFICES ASSUME DecisionsInv PROVE FilesMatchStatus
      OBVIOUS
    <2>1. PICK B \in SUBSET Task : FilesInv(B)
      BY DEF DecisionsInv, ErasureInv
    <2> QED BY <2>1 DEF FilesInv, TaskInv, FilesFit, DataFits, Undeleted, FilesMatchStatus
  <1> QED BY <1>1, <1>2, AlwaysDecisions, PTL

===============================================================================
