---------------------------- MODULE LocalDecisions ----------------------------
(***************************************************************************)
(* The decisions on paragraphs with the local drivers.  The log of a task  *)
(* and its findings are one file each: an operation is added, and a        *)
(* handling status set, by reading the whole file and writing it back, so  *)
(* that decisions on different paragraphs of a task meet in the files.     *)
(* Composed with LocalPipeline: a task takes decisions once its job has    *)
(* completed it, and may be deleted while they run.                        *)
(*                                                                         *)
(* The documents are editable: a PDF takes no decisions but feedback.  An  *)
(* operation is identified with its request, and stamped between the read  *)
(* and the write of the log: the file is in the order of the stamps.       *)
(***************************************************************************)
EXTENDS LocalPipeline, Sequences, SequencesExt

CONSTANTS
  Decision,    \* POST requests that decide on a paragraph
  Kinds,       \* what they may ask for
  Paragraph,   \* paragraphs with a finding
  NoParagraph  \* null value

ASSUME LocalDecisionsAssumption ==
  /\ Kinds \subseteq {"accept", "reject", "feedback", "rollback"}
  /\ Paragraph # {} /\ NoParagraph \notin Paragraph

VARIABLES
  decision,  \* each request: where it is, what it asks, the file it has read
  log,       \* the edit operations file of each task
  finding,   \* the handling statuses in the findings file of each task
  met        \* history: requests that held a file another one was writing
             \* or deleting

decisionVars == <<decision, log, finding, met>>
allVars == <<vars, decisionVars>>

Unread == <<>>
NoFile == [p \in Paragraph |-> "none"]
Pending == [p \in Paragraph |-> "pending"]
DecidePc == {"authorize", "find", "choose", "latest", "readLog", "writeLog",
             "readFindings", "writeFindings", "answer"}

IdleDecision == [pc |-> "idle", task |-> NoTask, kind |-> "accept",
                 paragraph |-> NoParagraph, file |-> Unread]

Files == [Paragraph -> {"none", "pending", "accepted", "rejected", "ignored"}]

DecisionsTypeOK ==
  /\ log \in [Task -> Seq(Decision)]
  /\ finding \in [Task -> Files]
  /\ met \subseteq Decision
  /\ \A r \in Decision :
       /\ decision[r].pc \in {"idle", "ok", "refused", "failed"} \cup DecidePc
       /\ decision[r].task \in Task \cup {NoTask}
       /\ decision[r].paragraph \in Paragraph \cup {NoParagraph}
       /\ decision[r].pc = "writeLog" => decision[r].file \in Seq(Decision)
       /\ decision[r].pc = "writeFindings" => decision[r].file \in Files
  /\ \A t \in Task : (finding[t] = NoFile) = ("risk_findings" \notin results[t])

DecisionsInit ==
  /\ Init
  /\ decision = [r \in Decision |-> IdleDecision]
  /\ log = [t \in Task |-> <<>>]
  /\ finding = [t \in Task |-> NoFile]
  /\ met = {}

TaskOf(r) == decision[r].task
ParagraphOf(r) == decision[r].paragraph

Outcome(kind) ==
  CASE kind = "accept"   -> "accepted"
    [] kind = "reject"   -> "rejected"
    [] kind = "feedback" -> "ignored"
    [] kind = "rollback" -> "pending"

-----------------------------------------------------------------------------
(* The handlers; a request works on one task's files *)

Goto(r, pc) ==
  decision' = [decision EXCEPT ![r].pc = pc, ![r].file = Unread]

\* readFile has answered: the request holds what it read.
Hold(r, pc, file) ==
  /\ decision' = [decision EXCEPT ![r].pc = pc, ![r].file = file]
  /\ LET others == {q \in Decision : decision[q].pc = pc /\ TaskOf(q) = TaskOf(r)}
     IN met' = IF others = {} THEN met ELSE met \cup others \cup {r}

Fails(r) == Throws /\ Goto(r, "failed")

pipelineFrame == <<upload, documents, status, jobFile, worker, deletion,
                   historyVars, crashes>>

Receive(r, t, kind, p) ==
  /\ decision[r].pc = "idle"
  /\ upload[t] = "accepted"
  /\ decision' = [decision EXCEPT ![r] =
       [pc |-> "authorize", task |-> t, kind |-> kind, paragraph |-> p,
        file |-> Unread]]
  /\ UNCHANGED <<results, log, finding, met, faults, pipelineFrame>>

Authorize(r) ==
  /\ decision[r].pc = "authorize"
  /\ \/ /\ Works
        /\ Goto(r, IF status[TaskOf(r)] # "completed" THEN "refused"
                   ELSE IF decision[r].kind \in {"accept", "reject"} THEN "choose"
                   ELSE "find")
     \/ Fails(r)
  /\ UNCHANGED <<results, log, finding, met, pipelineFrame>>

\* Feedback may name an option.
Find(r) ==
  LET found == finding[TaskOf(r)][ParagraphOf(r)] # "none"
  IN /\ decision[r].pc = "find"
     /\ \/ Works /\ found /\ decision[r].kind = "rollback" /\ Goto(r, "latest")
        \/ Works /\ found /\ decision[r].kind = "feedback"
                 /\ \E pc \in {"choose", "readLog"} : Goto(r, pc)
        \/ Works /\ ~found /\ Goto(r, "refused")
        \/ Fails(r)
     /\ UNCHANGED <<results, log, finding, met, pipelineFrame>>

\* A client may name an option the paragraph does not have.
Choose(r) ==
  /\ decision[r].pc = "choose"
  /\ \/ Works /\ "rewrite_options" \in results[TaskOf(r)] /\ Goto(r, "readLog")
     \/ Works /\ Goto(r, "refused")
     \/ Fails(r)
  /\ UNCHANGED <<results, log, finding, met, pipelineFrame>>

\* The operations of one paragraph.
History(ops, p) == SelectSeq(ops, LAMBDA q : ParagraphOf(q) = p)

Undoable(ops, p) ==
  History(ops, p) # <<>> /\ decision[Last(History(ops, p))].kind = "accept"

CheckLatest(r) ==
  /\ decision[r].pc = "latest"
  /\ \/ Works /\ Goto(r, IF Undoable(log[TaskOf(r)], ParagraphOf(r))
                         THEN "readLog" ELSE "refused")
     \/ Fails(r)
  /\ UNCHANGED <<results, log, finding, met, pipelineFrame>>

ReadLog(r) ==
  /\ decision[r].pc = "readLog"
  /\ \/ Works /\ Hold(r, "writeLog", log[TaskOf(r)])
     \/ Fails(r) /\ UNCHANGED met
  /\ UNCHANGED <<results, log, finding, pipelineFrame>>

\* Mutant of Appended: the operations of the paragraph are read, not all.
AppendedToParagraph(ops, r) == Append(History(ops, ParagraphOf(r)), r)

Appended(ops, r) == Append(ops, r)

WriteLog(r) ==
  /\ decision[r].pc = "writeLog"
  /\ \/ /\ Works
        /\ log' = [log EXCEPT ![TaskOf(r)] = Appended(decision[r].file, r)]
        /\ Goto(r, "readFindings")
     \/ Fails(r) /\ UNCHANGED log
  /\ UNCHANGED <<results, finding, met, pipelineFrame>>

\* Without the paragraph's finding the null result is ignored.
ReadFindings(r) ==
  LET file == finding[TaskOf(r)]
  IN /\ decision[r].pc = "readFindings"
     /\ \/ Works /\ file # NoFile /\ Hold(r, "writeFindings", file)
        \/ Works /\ file = NoFile /\ Goto(r, "answer") /\ UNCHANGED met
        \/ Fails(r) /\ UNCHANGED met
     /\ UNCHANGED <<results, log, finding, pipelineFrame>>

\* Mutant of Marked: writes the kind where its outcome belongs.
MarkedKind(file, r) == [file EXCEPT ![ParagraphOf(r)] = decision[r].kind]

\* Mutant of Marked: starts from the findings as they were published.
MarkedAfresh(file, r) == [Pending EXCEPT ![ParagraphOf(r)] = Outcome(decision[r].kind)]

Marked(file, r) == [file EXCEPT ![ParagraphOf(r)] = Outcome(decision[r].kind)]

\* The file is written whether or not it is still there.
WriteFindings(r) ==
  /\ decision[r].pc = "writeFindings"
  /\ \/ /\ Works
        /\ finding' = [finding EXCEPT ![TaskOf(r)] = Marked(decision[r].file, r)]
        /\ results' = [results EXCEPT ![TaskOf(r)] = @ \cup {"risk_findings"}]
        /\ Goto(r, "answer")
     \/ Fails(r) /\ UNCHANGED <<finding, results>>
  /\ UNCHANGED <<log, met, pipelineFrame>>

\* A rollback answers at once, the others look for the next pending finding.
Answer(r) ==
  /\ decision[r].pc = "answer"
  /\ \/ Works /\ Goto(r, "ok")
     \/ decision[r].kind # "rollback" /\ Fails(r)
  /\ UNCHANGED <<results, log, finding, met, pipelineFrame>>

Decide(r) ==
  \/ Authorize(r) \/ Find(r) \/ Choose(r) \/ CheckLatest(r) \/ ReadLog(r)
  \/ WriteLog(r) \/ ReadFindings(r) \/ WriteFindings(r) \/ Answer(r)

-----------------------------------------------------------------------------
(* What a step of the pipeline does to the decisions' files.  Nobody       *)
(* deletes the log.                                                        *)

Published(t) ==
  \E w \in Worker : worker[w].task = t /\ worker[w].pc = "risks"
                                       /\ worker'[w].pc = "segments"

FindingsFollow ==
  /\ finding' = [t \in Task |-> IF Published(t) THEN Pending
                                ELSE IF "risk_findings" \in results'[t] THEN finding[t]
                                ELSE NoFile]
  /\ met' = met \cup {r \in Decision : /\ decision[r].pc = "writeFindings"
                                       /\ finding'[TaskOf(r)] = NoFile}
  /\ UNCHANGED <<decision, log>>

\* Requests under way die with the web process.
DecisionsDie ==
  /\ decision' = [r \in Decision |->
       IF decision[r].pc \in DecidePc
       THEN [decision[r] EXCEPT !.pc = "failed", !.file = Unread] ELSE decision[r]]
  /\ UNCHANGED <<log, finding, met>>

PipelineStep ==
  \/ \E t \in Task : UploadStep(t)
  \/ \E w \in Worker : Drain(w) \/ Process(w) \/ WorkerCrash(w)
  \/ \E d \in Request : EraseStep(d) \/ \E t \in Task : DeleteStart(d, t)

DecisionsNext ==
  \/ PipelineStep /\ FindingsFollow
  \/ WebCrash /\ DecisionsDie
  \/ \E r \in Decision, t \in Task, kind \in Kinds, p \in Paragraph :
       Receive(r, t, kind, p)
  \/ \E r \in Decision : Decide(r)

DecisionsSpec == DecisionsInit /\ [][DecisionsNext]_allVars

-----------------------------------------------------------------------------
(* Properties *)

On(t) == {r \in Decision : TaskOf(r) = t}

\* What a request answered for stays in the log, and in the findings when it
\* is the only one on its paragraph, however many requests decide on other
\* paragraphs of the task, fail or die: unless another one held the file at
\* the same time.
DecisionKept ==
  \A r \in Decision \ met : decision[r].pc = "ok" =>
    LET t == TaskOf(r)
        p == ParagraphOf(r)
    IN /\ \E i \in 1..Len(log[t]) : log[t][i] = r
       /\ (/\ \A d \in Request : deletion[d].task # t
           /\ \A q \in On(t) \ {r} : ParagraphOf(q) # p)
             => finding[t][p] = Outcome(decision[r].kind)

\* A paragraph that counts as handled has an operation in the log that says
\* so, or the operation was overwritten by a request that held the log at
\* the same time.
HandledHasCause ==
  \A t \in Task, p \in Paragraph : finding[t][p] \notin {"none", "pending"} =>
    \E r \in On(t) : /\ ParagraphOf(r) = p
                     /\ Outcome(decision[r].kind) = finding[t][p]
                     /\ r \in met \/ \E i \in 1..Len(log[t]) : log[t][i] = r

\* After a confirmed deletion that no run of the worker overlapped with the
\* findings are gone, and stay gone whatever decision is still under way,
\* unless one had read their file before it was deleted.
FindingsErased ==
  \A t \in confirmed \ overlap :
    finding[t] # NoFile => On(t) \cap met # {}

=============================================================================
