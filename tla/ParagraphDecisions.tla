------------------------- MODULE ParagraphDecisions -------------------------
(***************************************************************************)
(* The decisions a user takes on a paragraph: accept or reject a rewrite,  *)
(* give feedback, roll an acceptance back.  Each is a POST request that    *)
(* checks the task, the paragraph and the log of operations, appends an    *)
(* operation to the log and then sets the handling status of the           *)
(* paragraph's finding, all in calls of their own.                         *)
(*                                                                         *)
(* An operation is identified with its request.  It is stamped with the    *)
(* clock before it is inserted, and the log is read in the order of the    *)
(* stamps: two requests may stamp in one order and insert in the other.    *)
(* Equal stamps are left out, and so are the texts.  Only the order of the *)
(* stamps matters, so the clock moves only when it is read.                *)
(***************************************************************************)
EXTENDS WorkbenchData

CONSTANTS
  Request,     \* POST requests
  NoParagraph  \* null value

VARIABLES
  request,   \* each request: where it is and what it asks for
  clock,     \* when it was last read
  stamp,     \* createdAt of each request's operation, 0 before it has one
  log,       \* edit_operations: requests whose operation is inserted
  disturbed  \* history: paragraphs where two requests met, one was cut short
             \* or a job started over, until a request ran there alone

stampVars == <<clock, stamp>>

decisionVars == <<request, stampVars, log, disturbed>>

Kind == {"accept", "reject", "feedback", "rollback"}

RequestPc == {"authorize", "options", "findings", "option", "latest",
              "insert", "update", "answer"}

IdleRequest == [pc |-> "idle", kind |-> "accept",
                paragraph |-> NoParagraph, alone |-> FALSE]

DecisionTypeOK ==
  /\ request \in [Request ->
       [pc        : {"idle", "ok", "refused", "failed"} \cup RequestPc,
        kind      : Kind,
        paragraph : Paragraph \cup {NoParagraph},
        alone     : BOOLEAN]]
  /\ clock \in Nat
  /\ stamp \in [Request -> Nat]
  /\ log \subseteq Request
  /\ disturbed \subseteq Paragraph

DecisionInit ==
  /\ request = [r \in Request |-> IdleRequest]
  /\ clock = 0
  /\ stamp = [r \in Request |-> 0]
  /\ log = {}
  /\ disturbed = {}

ParagraphOf(r) == request[r].paragraph

Outcome(kind) ==
  CASE kind = "accept"   -> "accepted"
    [] kind = "reject"   -> "rejected"
    [] kind = "feedback" -> "ignored"
    [] kind = "rollback" -> "pending"

\* What listTaskEditOperations returns last for a paragraph: it orders the
\* operations by createdAt.
Latest(r, p) ==
  /\ r \in log /\ ParagraphOf(r) = p
  /\ \A q \in log : ParagraphOf(q) = p => stamp[q] <= stamp[r]

\* The handling status the log speaks for.
Records(p, status) ==
  \/ status = "pending" /\ \A r \in log : ParagraphOf(r) # p
  \/ \E r \in log : Latest(r, p) /\ status = Outcome(request[r].kind)

Under(r, p) == request[r].pc \in RequestPc /\ ParagraphOf(r) = p

Active(p) == \E r \in Request : Under(r, p)

-----------------------------------------------------------------------------
(* The handlers *)

Goto(r, pc) == request' = [request EXCEPT ![r].pc = pc]

Receive(r, kind, p) ==
  /\ request[r].pc = "idle"
  /\ request' = [q \in Request |->
       IF q = r
       THEN [pc |-> "authorize", kind |-> kind, paragraph |-> p,
             alone |-> ~Active(p) /\ ingest = "idle"]
       ELSE [request[q] EXCEPT !.alone = @ /\ ~Under(q, p)]]
  /\ disturbed' = IF Active(p) THEN disturbed \cup {p} ELSE disturbed
  /\ UNCHANGED <<stampVars, log, dataVars>>

\* A request that ran alone to its end leaves the paragraph undisturbed.
Finish(r) ==
  /\ Goto(r, "ok")
  /\ disturbed' = IF request[r].alone THEN disturbed \ {ParagraphOf(r)}
                  ELSE disturbed

\* A read that throws only ends the request.
FailClean(r) ==
  /\ Throws(TRUE, TRUE)
  /\ Goto(r, "failed")

\* readAuthorizedTask, the PDF boundary (which feedback does not have) and
\* isParagraphWorkbenchReady.
Authorized(r) == Ready /\ (document # "pdf" \/ request[r].kind = "feedback")

Authorize(r) ==
  /\ request[r].pc = "authorize"
  /\ \/ /\ Authorized(r)
        /\ Returns(Goto(r, IF request[r].kind \in {"accept", "reject"}
                           THEN "options" ELSE "findings"))
     \/ ~Authorized(r) /\ Returns(Goto(r, "refused"))
     \/ FailClean(r)
  /\ UNCHANGED <<document, task, finding, ingest, redeliveries, stampVars, log,
                 disturbed>>

\* The clock is read as soon as the last check has passed.
Stamp(r) ==
  /\ Goto(r, "insert")
  /\ clock' = clock + 1
  /\ stamp' = [stamp EXCEPT ![r] = clock']

\* A client may name an option the paragraph does not have.
CheckOption(r, pc) ==
  /\ request[r].pc = pc
  /\ \/ Exists /\ Returns(Stamp(r))
     \/ Returns(Goto(r, "refused")) /\ UNCHANGED stampVars
     \/ FailClean(r) /\ UNCHANGED stampVars
  /\ UNCHANGED <<document, task, finding, ingest, redeliveries, log, disturbed>>

\* Feedback may name an option; then the option is checked too.
CheckFinding(r) ==
  LET found == finding[ParagraphOf(r)] # "none"
  IN /\ request[r].pc = "findings"
     /\ \/ /\ found /\ request[r].kind = "rollback"
           /\ Returns(Goto(r, "latest")) /\ UNCHANGED stampVars
        \/ /\ found /\ request[r].kind = "feedback"
           /\ \/ Returns(Stamp(r))
              \/ Returns(Goto(r, "option")) /\ UNCHANGED stampVars
        \/ ~found /\ Returns(Goto(r, "refused")) /\ UNCHANGED stampVars
        \/ FailClean(r) /\ UNCHANGED stampVars
     /\ UNCHANGED <<document, task, finding, ingest, redeliveries, log, disturbed>>

\* Mutant of Undoable: whatever was decided last is rolled back.
UndoableAny(p) == \E r \in log : Latest(r, p)

Undoable(p) == \E r \in log : Latest(r, p) /\ request[r].kind = "accept"

CheckLatest(r) ==
  /\ request[r].pc = "latest"
  /\ \/ Undoable(ParagraphOf(r)) /\ Returns(Stamp(r))
     \/ /\ ~Undoable(ParagraphOf(r))
        /\ Returns(Goto(r, "refused")) /\ UNCHANGED stampVars
     \/ FailClean(r) /\ UNCHANGED stampVars
  /\ UNCHANGED <<document, task, finding, ingest, redeliveries, log, disturbed>>

\* Between the insert and the end a failure leaves the paragraph disturbed.
CutShort(r) ==
  /\ Goto(r, "failed")
  /\ disturbed' = disturbed \cup {ParagraphOf(r)}

\* Mutant of Inserted: there is no foreign key.
InsertedAnyway == TRUE

\* The foreign key on task_id makes the insert throw without the row.
Inserted == Exists

\* Mutant of Insert: the log is kept on a best-effort basis.
InsertBestEffort(r) ==
  /\ request[r].pc = "insert"
  /\ \/ Returns(Inserted /\ log' = log \cup {r})
     \/ ~Inserted /\ Returns(UNCHANGED log)
     \/ Throws(FALSE, UNCHANGED log)
  /\ Goto(r, "update")
  /\ UNCHANGED <<document, task, finding, ingest, redeliveries, stampVars,
                 disturbed>>

Insert(r) ==
  LET insert == Inserted /\ log' = log \cup {r}
  IN /\ request[r].pc = "insert"
     /\ \/ Returns(insert) /\ Goto(r, "update") /\ UNCHANGED disturbed
        \/ /\ ~Inserted
           /\ Returns(UNCHANGED log)
           /\ CutShort(r)
        \/ Throws(insert, UNCHANGED log) /\ CutShort(r)
     /\ UNCHANGED <<document, task, finding, ingest, redeliveries, stampVars>>

Update(r) ==
  LET set == SetHandling(ParagraphOf(r), Outcome(request[r].kind))
  IN /\ request[r].pc = "update"
     /\ \/ /\ Returns(set)
           /\ IF request[r].kind = "rollback"
              THEN Finish(r)
              ELSE Goto(r, "answer") /\ UNCHANGED disturbed
        \/ Throws(set, UNCHANGED finding) /\ CutShort(r)
     /\ UNCHANGED <<document, task, ingest, redeliveries, stampVars, log>>

\* The next pending paragraph is looked up for the answer.
Answer(r) ==
  /\ request[r].pc = "answer"
  /\ \/ Returns(Finish(r))
     \/ FailClean(r) /\ UNCHANGED disturbed
  /\ UNCHANGED <<document, task, finding, ingest, redeliveries, stampVars, log>>

Decide(r) ==
  \/ Authorize(r) \/ CheckOption(r, "options") \/ CheckOption(r, "option")
  \/ CheckFinding(r) \/ CheckLatest(r) \/ Insert(r) \/ Update(r) \/ Answer(r)

-----------------------------------------------------------------------------
(* What happens to the decisions from outside *)

\* A redelivered job meets whatever request is under way.
DecisionsMeetIngest ==
  /\ request' = [r \in Request |->
       [request[r] EXCEPT !.alone = @ /\ request[r].pc \notin RequestPc]]
  /\ disturbed' = Paragraph
  /\ UNCHANGED <<stampVars, log>>

\* edit_operations go with the task's row.
EraseLog == log' = {} /\ UNCHANGED <<request, stampVars, disturbed>>

-----------------------------------------------------------------------------
(* Properties *)

\* A paragraph that counts as handled has an operation in the log that says
\* so, whatever interleaves, fails or is processed again: the log is
\* written before the status.
StatusHasEvidence ==
  \A p \in Paragraph : finding[p] \notin {"none", "pending"} =>
    \E r \in log : ParagraphOf(r) = p /\ Outcome(request[r].kind) = finding[p]

\* Status and log agree on a paragraph nobody is deciding on, unless requests
\* met there, one failed half way or the job was processed again; and a later
\* request that runs alone brings them back into agreement.
LogAgreesWithStatus ==
  \A p \in Paragraph :
    Exists /\ ~Active(p) /\ p \notin disturbed => Records(p, finding[p])

\* An operation of the same paragraph with none between the two.
Precedes(q, r) ==
  /\ ParagraphOf(q) = ParagraphOf(r) /\ stamp[q] < stamp[r]
  /\ \A s \in log : ParagraphOf(s) = ParagraphOf(r) =>
       stamp[s] <= stamp[q] \/ stamp[r] <= stamp[s]

\* A rollback that ran alone follows directly on the acceptance it undoes.
RollbackUndoesAccept ==
  \A r \in log : request[r].kind = "rollback" /\ request[r].alone =>
    \E q \in log : Precedes(q, r) /\ request[q].kind = "accept"

\* Nothing of a deleted task's decisions remains or is written again, though
\* its requests may still be under way.
DecisionsErased ==
  ~Exists => log = {} /\ \A p \in Paragraph : finding[p] = "none"

=============================================================================
