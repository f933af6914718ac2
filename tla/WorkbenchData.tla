---------------------------- MODULE WorkbenchData ----------------------------
(***************************************************************************)
(* What the services of the paragraph workbench share: the row of one task *)
(* whose first ingestion is over, its findings, and the two things that    *)
(* may happen to them from outside: the queue redelivers the task's job,   *)
(* and the task is deleted.                                                *)
(*                                                                         *)
(* A redelivered job is seen from the workbench: the writes of             *)
(* processTaskJob that reach the row and the findings.  Segments and       *)
(* rewrite options are replaced by equal ones.  What a failing job does is *)
(* in TaskPipeline; here a run may stop anywhere.                          *)
(***************************************************************************)
EXTENDS Naturals

CONSTANTS
  Paragraph,       \* paragraphs with a finding
  Documents,       \* kinds of upload considered
  MaxRedeliveries, \* bound: redeliveries of the job
  MaxFaults        \* bound: calls that throw, or processes that die in one

ASSUME WorkbenchDataAssumption ==
  /\ Documents \subseteq {"pdf", "workbench", "one-click"}
  /\ {MaxRedeliveries, MaxFaults} \subseteq Nat

VARIABLES
  document,     \* the upload: a PDF, or a text in one of the two modes
  task,         \* status and stage in the task's row
  finding,      \* handling status of each paragraph's finding
  ingest,       \* program counter of the redelivered job
  redeliveries, faults  \* spent parts of the bounds

dataVars == <<document, task, finding, ingest, redeliveries, faults>>

TaskState == [status : {"processing", "completed"},
              stage  : {"parse", "scan", "rewrite"}]

Gone == [status |-> "absent", stage |-> "parse"]

Handling == {"pending", "accepted", "rejected", "ignored"}

DataTypeOK ==
  /\ document \in Documents
  /\ task \in TaskState \cup {Gone}
  /\ finding \in [Paragraph -> Handling \cup {"none"}]
  /\ ingest \in {"idle", "parse", "scan", "risks", "complete"}
  /\ redeliveries \in 0..MaxRedeliveries
  /\ faults \in 0..MaxFaults

Scanned == [status |-> "completed", stage |-> "scan"]

DataInit ==
  /\ document \in Documents
  /\ task = Scanned
  /\ finding = [p \in Paragraph |-> "pending"]
  /\ ingest = "idle"
  /\ redeliveries = 0
  /\ faults = 0

Exists == task # Gone

\* isParagraphWorkbenchReady
Ready == task.status = "completed" /\ task.stage \in {"scan", "rewrite"}

\* Mutant of UpdateTask: the columns are mixed up.
UpdateTaskSwapped(status, stage) ==
  task' = IF Exists THEN [status |-> stage, stage |-> status] ELSE task

\* updateTaskRecordState: without the row, nothing happens.
UpdateTask(status, stage) ==
  task' = IF Exists THEN [status |-> status, stage |-> stage] ELSE task

\* Mutant of SetHandling: only a pending finding is updated.
SetHandlingOnce(p, status) ==
  finding' = [finding EXCEPT ![p] = IF @ = "pending" THEN status ELSE @]

\* updateTaskRiskFindingHandlingStatus: without the finding, nothing happens.
SetHandling(p, status) ==
  finding' = [finding EXCEPT ![p] = IF @ = "none" THEN "none" ELSE status]

\* A call returns, or throws with or without having taken effect.
Returns(effect) == effect /\ UNCHANGED faults

Throws(effect, noEffect) ==
  /\ faults < MaxFaults
  /\ faults' = faults + 1
  /\ effect \/ noEffect

-----------------------------------------------------------------------------
(* A redelivered job, seen from the workbench *)

Redeliver ==
  /\ ingest = "idle"
  /\ redeliveries < MaxRedeliveries
  /\ redeliveries' = redeliveries + 1
  /\ ingest' = "parse"
  /\ UNCHANGED <<document, task, finding, faults>>

\* The stage writes throw when the row is gone, and end the run.
IngestStage(stage, next) ==
  /\ ingest = stage
  /\ UpdateTask("processing", stage)
  /\ ingest' = IF Exists THEN next ELSE "idle"
  /\ UNCHANGED <<document, finding, redeliveries, faults>>

\* replaceTaskRiskFindings starts every finding afresh; the foreign key
\* makes it throw when the row is gone.
IngestRisks ==
  /\ ingest = "risks"
  /\ finding' = IF Exists THEN [p \in Paragraph |-> "pending"] ELSE finding
  /\ ingest' = IF Exists THEN "complete" ELSE "idle"
  /\ UNCHANGED <<document, task, redeliveries, faults>>

IngestComplete ==
  /\ ingest = "complete"
  /\ UpdateTask("completed", "scan")
  /\ ingest' = "idle"
  /\ UNCHANGED <<document, finding, redeliveries, faults>>

IngestDies ==
  /\ ingest # "idle"
  /\ ingest' = "idle"
  /\ UNCHANGED <<document, task, finding, redeliveries, faults>>

Ingest ==
  \/ IngestStage("parse", "scan") \/ IngestStage("scan", "risks")
  \/ IngestRisks \/ IngestComplete

-----------------------------------------------------------------------------
(* Deletion *)

\* The row goes and takes the findings along.
EraseTask ==
  /\ Exists
  /\ task' = Gone
  /\ finding' = [p \in Paragraph |-> "none"]
  /\ UNCHANGED <<document, ingest, redeliveries, faults>>

=============================================================================
