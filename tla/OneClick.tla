------------------------------ MODULE OneClick ------------------------------
(***************************************************************************)
(* The one-click preview of a task: a session file that goes from          *)
(* processing to ready and to rolled back, beside the task's row, which is *)
(* meant to follow it.  Nothing runs in the background: a session becomes  *)
(* ready when a request reads it READY_DELAY_MS after its start.           *)
(*                                                                         *)
(* A client is a tab that sends one request after the other; a request is  *)
(* a sequence of calls, and file and row are written in calls of their     *)
(* own.  Of the preview only its existence is modelled, and of the times   *)
(* only whether READY_DELAY_MS have passed.                                *)
(***************************************************************************)
EXTENDS WorkbenchData

CONSTANT Client  \* tabs open on the task

VARIABLES
  session,  \* state in the task's session file
  elapsed,  \* READY_DELAY_MS have passed since the session's start
  client,   \* each client's request
  mixed     \* history: two requests met, one was cut short or a job started
            \* over, until a request wrote file and row alone

oneClickVars == <<session, elapsed, client, mixed>>

Action == {"read", "start", "rollback"}

ClientPc == {"authorize", "preview", "session", "ready", "readyTask",
             "begin", "beginTask", "recheck", "rollback", "rollbackTask"}

IdleClient == [pc |-> "idle", action |-> "read", open |-> FALSE, alone |-> FALSE]

OneClickTypeOK ==
  /\ session \in {"none", "processing", "ready", "rolled_back"}
  /\ elapsed \in BOOLEAN
  /\ client \in [Client -> [pc     : {"idle"} \cup ClientPc,
                            action : Action,
                            open   : BOOLEAN,
                            alone  : BOOLEAN]]
  /\ mixed \in BOOLEAN

OneClickInit ==
  /\ session = "none"
  /\ elapsed = FALSE
  /\ client = [c \in Client |-> IdleClient]
  /\ mixed = FALSE

Quiet == \A c \in Client : client[c].pc = "idle"

-----------------------------------------------------------------------------
(* readAuthorizedOneClickState, by which every request begins *)

Proceed(c, pc) == client' = [client EXCEPT ![c].pc = pc]

End(c) == client' = [client EXCEPT ![c] = IdleClient]

ReadEnds(c) == End(c) /\ UNCHANGED mixed

\* A call that throws ends the request.
Breaks(c, effect, noEffect) ==
  Throws(effect, noEffect) /\ End(c) /\ mixed' = TRUE

readFrame == <<document, task, finding, ingest, redeliveries, session, elapsed>>

Send(c, action) ==
  /\ client[c].pc = "idle"
  /\ client' = [d \in Client |->
       IF d = c
       THEN [pc |-> "authorize", action |-> action, open |-> FALSE,
             alone |-> Quiet /\ ingest = "idle"]
       ELSE [client[d] EXCEPT !.alone = FALSE]]
  /\ mixed' = (mixed \/ ~Quiet)
  /\ UNCHANGED <<session, elapsed, dataVars>>

\* readAuthorizedTask; resolveBlockedReason judges by what it returned.
AuthorizeClient(c) ==
  /\ client[c].pc = "authorize"
  /\ \/ /\ Returns(Exists)
        /\ client' = [client EXCEPT
             ![c].pc   = "preview",
             ![c].open = Ready /\ document = "one-click"]
        /\ UNCHANGED mixed
     \/ Returns(~Exists) /\ ReadEnds(c)
     \/ Breaks(c, TRUE, TRUE)
  /\ UNCHANGED readFrame

\* buildPreview: pending paragraphs that have a rewrite option.
Preview(c) ==
  /\ client[c].pc = "preview"
  /\ \/ /\ Returns(TRUE)
        /\ client' = [client EXCEPT
             ![c].pc   = "session",
             ![c].open = @ /\ \E p \in Paragraph : finding[p] = "pending"]
        /\ UNCHANGED mixed
     \/ Breaks(c, TRUE, TRUE)
  /\ UNCHANGED readFrame

\* Mutant of CanStart: the session's state is not looked at.
CanStartAnyway(c, state) == client[c].open \/ state = "processing"

\* canStart: not blocked, and in the review state.
CanStart(c, state) == client[c].open /\ state \in {"none", "rolled_back"}

\* What the request does next when the session was resolved to be in state.
Resolved(c, state) ==
  LET action == client[c].action
  IN CASE action = "start" /\ CanStart(c, state) -> Proceed(c, "begin")
       [] action = "rollback"                     -> Proceed(c, "recheck")
       [] OTHER                                   -> End(c)

\* resolveSession: a session whose time has come is made ready.
ReadSession(c) ==
  /\ client[c].pc = "session"
  /\ \/ /\ session = "processing" /\ elapsed
        /\ Returns(Proceed(c, "ready")) /\ UNCHANGED mixed
     \/ /\ ~(session = "processing" /\ elapsed)
        /\ Returns(Resolved(c, session)) /\ UNCHANGED mixed
     \/ Breaks(c, TRUE, TRUE)
  /\ UNCHANGED readFrame

WriteSession(state) == session' = state /\ elapsed' = FALSE

\* Mutant of WriteFile: an error of the file system is ignored.
WriteFileBestEffort(c, pc, state, next) ==
  /\ client[c].pc = pc
  /\ \/ Returns(WriteSession(state))
     \/ Throws(FALSE, UNCHANGED <<session, elapsed>>)
  /\ Proceed(c, next)
  /\ UNCHANGED <<document, task, finding, ingest, redeliveries, mixed>>

\* Each request that writes does so to the file first.
WriteFile(c, pc, state, next) ==
  /\ client[c].pc = pc
  /\ \/ Returns(WriteSession(state)) /\ Proceed(c, next) /\ UNCHANGED mixed
     \/ Breaks(c, WriteSession(state), UNCHANGED <<session, elapsed>>)
  /\ UNCHANGED <<document, task, finding, ingest, redeliveries>>

rowFrame == <<document, finding, ingest, redeliveries, session, elapsed>>

\* Mutant of ReadyTask: the row is not told that the preview is ready.
ReadyTaskSilent(c) ==
  /\ client[c].pc = "readyTask"
  /\ Returns(UNCHANGED task)
  /\ Resolved(c, "ready")
  /\ UNCHANGED <<mixed, rowFrame>>

ReadyTask(c) ==
  LET write == UpdateTask("completed", "rewrite")
  IN /\ client[c].pc = "readyTask"
     /\ \/ Returns(write) /\ Resolved(c, "ready") /\ UNCHANGED mixed
        \/ Breaks(c, write, UNCHANGED task)
     /\ UNCHANGED rowFrame

-----------------------------------------------------------------------------
(* applyAuthorizedOneClickAction *)

\* Mutant of WriteRow: the row is left as it is.
SkipRow(c, pc, status, stage) ==
  /\ client[c].pc = pc
  /\ Returns(UNCHANGED task)
  /\ End(c)
  /\ mixed' = (mixed /\ ~client[c].alone)
  /\ UNCHANGED rowFrame

\* A request that wrote both, alone, brings file and row into agreement.
WriteRow(c, pc, status, stage) ==
  LET write == UpdateTask(status, stage)
  IN /\ client[c].pc = pc
     /\ \/ /\ Returns(write)
           /\ End(c)
           /\ mixed' = (mixed /\ ~client[c].alone)
        \/ Breaks(c, write, UNCHANGED task)
     /\ UNCHANGED rowFrame

\* Only a ready preview is rolled back.
Recheck(c) ==
  /\ client[c].pc = "recheck"
  /\ \/ session = "ready" /\ Returns(Proceed(c, "rollback")) /\ UNCHANGED mixed
     \/ session # "ready" /\ Returns(ReadEnds(c))
     \/ Breaks(c, TRUE, TRUE)
  /\ UNCHANGED readFrame

Serve(c) ==
  \/ AuthorizeClient(c) \/ Preview(c) \/ ReadSession(c)
  \/ WriteFile(c, "ready", "ready", "readyTask") \/ ReadyTask(c)
  \/ WriteFile(c, "begin", "processing", "beginTask")
  \/ WriteRow(c, "beginTask", "processing", "rewrite")
  \/ Recheck(c)
  \/ WriteFile(c, "rollback", "rolled_back", "rollbackTask")
  \/ WriteRow(c, "rollbackTask", "completed", "scan")

Elapse ==
  /\ session = "processing"
  /\ ~elapsed
  /\ elapsed' = TRUE
  /\ UNCHANGED <<session, client, mixed, dataVars>>

PreviewsMeetIngest ==
  /\ client' = [c \in Client |-> [client[c] EXCEPT !.alone = FALSE]]
  /\ mixed' = TRUE
  /\ UNCHANGED <<session, elapsed>>

-----------------------------------------------------------------------------
(* Properties *)

\* The row never speaks of a preview that was never started: however the two
\* writes of a request are cut short or interleaved, the file comes first.
StageHasSession == task.stage = "rewrite" => session # "none"

\* File and row agree between requests, unless requests met, one was cut
\* short or the job was processed again; and a start or a rollback that then
\* runs alone brings them back into agreement.
Follows ==
  CASE session = "none"        -> Scanned
    [] session = "processing"  -> [status |-> "processing", stage |-> "rewrite"]
    [] session = "ready"       -> [status |-> "completed", stage |-> "rewrite"]
    [] session = "rolled_back" -> Scanned

RowFollowsSession == Exists /\ Quiet /\ ~mixed => task = Follows

\* A preview that is being generated becomes ready as long as a client keeps
\* asking, unless its task is deleted.
PreviewResolves == session = "processing" ~> session # "processing" \/ ~Exists

\* NFR15, NFR20: a task that prepares a preview returns to the workbench.
TaskReturns ==
  task = [status |-> "processing", stage |-> "rewrite"] ~>
    task.status # "processing"

=============================================================================
