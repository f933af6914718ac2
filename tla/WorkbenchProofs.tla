--------------------------- MODULE WorkbenchProofs ---------------------------
(***************************************************************************)
(* Proofs about the workbench, for any number of paragraphs, requests,     *)
(* tabs, redeliveries and failing calls: it is well typed, a handled       *)
(* paragraph always has its operation in the log, nothing of a deleted     *)
(* task's decisions remains, the row never gets ahead of the session and   *)
(* agrees with it whenever a request ran alone, and so does the log with   *)
(* the findings; a rollback that ran alone undoes the acceptance before it.*)
(***************************************************************************)
EXTENDS Workbench, TLAPS

LEMMA TypeInit == Init => TypeOK
  <1> SUFFICES ASSUME Init PROVE TypeOK
    OBVIOUS
  <1>1. DataTypeOK
    BY WorkbenchDataAssumption DEF Init, DataInit, DataTypeOK, Scanned, TaskState, Handling
  <1>2. DecisionTypeOK
    BY DEF Init, DecisionInit, DecisionTypeOK, IdleRequest, RequestPc, Kind
  <1>3. OneClickTypeOK
    BY DEF Init, OneClickInit, OneClickTypeOK, IdleClient, ClientPc, Action
  <1> QED BY <1>1, <1>2, <1>3 DEF TypeOK

(* What the actions of each group do to the variables of the others.       *)

\* A request touches one finding and spends at most one fault.
LEMMA DecideEffect ==
  ASSUME DataTypeOK, DecisionTypeOK, NEW r \in Request, Decide(r)
  PROVE  /\ UNCHANGED <<document, task, ingest, redeliveries>>
         /\ faults' \in 0..MaxFaults
         /\ finding' \in [Paragraph -> Handling \cup {"none"}]
  <1>1. UNCHANGED <<document, task, ingest, redeliveries>>
    BY DEF Decide, Authorize, CheckOption, CheckFinding, CheckLatest, Insert,
           Update, Answer
  <1>2. UNCHANGED faults \/ (faults < MaxFaults /\ faults' = faults + 1)
    BY DEF Decide, Authorize, CheckOption, CheckFinding, CheckLatest, Insert,
           Update, Answer, FailClean, Returns, Throws
  <1>3. faults' \in 0..MaxFaults
    BY <1>2, WorkbenchDataAssumption DEF DataTypeOK
  <1>4. \/ UNCHANGED finding
        \/ SetHandling(ParagraphOf(r), Outcome(request[r].kind))
    BY DEF Decide, Authorize, CheckOption, CheckFinding, CheckLatest, Insert,
           Update, Answer, Returns, Throws
  <1>5. Outcome(request[r].kind) \in Handling
    BY DEF DecisionTypeOK, Outcome, Kind, Handling
  <1>6. finding' \in [Paragraph -> Handling \cup {"none"}]
    BY <1>4, <1>5 DEF SetHandling, DataTypeOK
  <1> QED BY <1>1, <1>3, <1>6

LEMMA RowKept ==
  ASSUME DataTypeOK, NEW status \in {"processing", "completed"},
         NEW stage \in {"parse", "scan", "rewrite"},
         UpdateTask(status, stage) \/ UNCHANGED task
  PROVE  /\ task' \in TaskState \cup {Gone}
         /\ Exists' <=> Exists
  BY DEF DataTypeOK, UpdateTask, Exists, Gone, TaskState

\* A client leaves the findings alone and neither creates nor deletes the row.
LEMMA ServeEffect ==
  ASSUME DataTypeOK, NEW c \in Client, Serve(c)
  PROVE  /\ UNCHANGED <<document, finding, ingest, redeliveries>>
         /\ faults' \in 0..MaxFaults
         /\ task' \in TaskState \cup {Gone}
         /\ Exists' <=> Exists
  <1>1. UNCHANGED <<document, finding, ingest, redeliveries>>
    BY DEF Serve, AuthorizeClient, Preview, ReadSession, WriteFile, ReadyTask,
           WriteRow, Recheck, readFrame, rowFrame
  <1>2. UNCHANGED faults \/ (faults < MaxFaults /\ faults' = faults + 1)
    BY DEF Serve, AuthorizeClient, Preview, ReadSession, WriteFile, ReadyTask,
           WriteRow, Recheck, Breaks, Returns, Throws
  <1>3. \/ UNCHANGED task
        \/ UpdateTask("completed", "rewrite")
        \/ UpdateTask("processing", "rewrite")
        \/ UpdateTask("completed", "scan")
    BY DEF Serve, AuthorizeClient, Preview, ReadSession, WriteFile, ReadyTask,
           WriteRow, Recheck, Breaks, Returns, Throws, readFrame
  <1>4. task' \in TaskState \cup {Gone} /\ (Exists' <=> Exists)
    BY <1>3, RowKept
  <1>5. faults' \in 0..MaxFaults
    BY <1>2, WorkbenchDataAssumption DEF DataTypeOK
  <1> QED BY <1>1, <1>4, <1>5

\* A redelivered job does not create or delete the row, and starts the
\* findings afresh only while there is one.
LEMMA IngestEffect ==
  ASSUME DataTypeOK, Ingest \/ IngestDies
  PROVE  /\ DataTypeOK'
         /\ Exists' <=> Exists
         /\ UNCHANGED finding \/ (Exists /\ finding' = [p \in Paragraph |-> "pending"])
         /\ task' = task \/ task'.stage # "rewrite"
  <1>1. CASE IngestStage("parse", "scan")
    BY <1>1, RowKept DEF IngestStage, DataTypeOK, UpdateTask
  <1>2. CASE IngestStage("scan", "risks")
    BY <1>2, RowKept DEF IngestStage, DataTypeOK, UpdateTask
  <1>3. CASE IngestRisks
    BY <1>3 DEF IngestRisks, DataTypeOK, Handling, Exists
  <1>4. CASE IngestComplete
    BY <1>4, RowKept DEF IngestComplete, DataTypeOK, UpdateTask
  <1>5. CASE IngestDies
    BY <1>5 DEF IngestDies, DataTypeOK, Exists
  <1> QED BY <1>1, <1>2, <1>3, <1>4, <1>5 DEF Ingest

(* The three parts of the type invariant. *)

LEMMA DataType ==
  ASSUME TypeOK, [Next]_vars
  PROVE  DataTypeOK'
  <1> USE DEF TypeOK
  <1>1. CASE Decisions
    <2>1. CASE \E r \in Request : Decide(r)
      BY <2>1, DecideEffect DEF DataTypeOK
    <2>2. CASE \E r \in Request, kind \in Kind, p \in Paragraph : Receive(r, kind, p)
      BY <2>2 DEF Receive, DataTypeOK, dataVars
    <2> QED BY <1>1, <2>1, <2>2 DEF Decisions
  <1>2. CASE \E c \in Client : ClientServed(c)
    BY <1>2, ServeEffect DEF ClientServed, DataTypeOK
  <1>3. CASE \E c \in Client, action \in Action : ClientSends(c, action)
    BY <1>3 DEF ClientSends, Send, DataTypeOK, dataVars
  <1>4. CASE TimePasses
    BY <1>4 DEF TimePasses, Elapse, DataTypeOK, dataVars
  <1>5. CASE JobRedelivered
    BY <1>5, WorkbenchDataAssumption DEF JobRedelivered, Redeliver, DataTypeOK
  <1>6. CASE JobRuns
    BY <1>6, IngestEffect DEF JobRuns
  <1>7. CASE TaskDeleted
    BY <1>7 DEF TaskDeleted, EraseTask, DataTypeOK
  <1>8. CASE UNCHANGED vars
    BY <1>8 DEF vars, dataVars, DataTypeOK
  <1> QED BY <1>1, <1>2, <1>3, <1>4, <1>5, <1>6, <1>7, <1>8 DEF Next

\* Every request that was received is about a paragraph.
RequestsNameParagraphs ==
  \A r \in Request : request[r].pc # "idle" => request[r].paragraph \in Paragraph

LEMMA GotoType ==
  ASSUME DecisionTypeOK, RequestsNameParagraphs, NEW r \in Request,
         request[r].pc # "idle",
         NEW pc \in {"ok", "refused", "failed"} \cup RequestPc, Goto(r, pc)
  PROVE  /\ request' \in [Request ->
              [pc        : {"idle", "ok", "refused", "failed"} \cup RequestPc,
               kind      : Kind,
               paragraph : Paragraph \cup {NoParagraph},
               alone     : BOOLEAN]]
         /\ RequestsNameParagraphs'
  BY DEF DecisionTypeOK, RequestsNameParagraphs, Goto

\* What a request does: it moves on, perhaps stamps or inserts its operation.
LEMMA DecideMoves ==
  ASSUME DecisionTypeOK, NEW r \in Request, Decide(r)
  PROVE  /\ request[r].pc # "idle"
         /\ \E pc \in {"ok", "refused", "failed"} \cup RequestPc : Goto(r, pc)
         /\ UNCHANGED stampVars \/ Stamp(r)
         /\ log' = log \/ (request[r].pc = "insert" /\ Exists /\ log' = log \cup {r})
         /\ \/ UNCHANGED disturbed
            \/ disturbed' = disturbed \ {ParagraphOf(r)}
            \/ disturbed' = disturbed \cup {ParagraphOf(r)}
  <1> USE DEF RequestPc
  <1>1. CASE Authorize(r)
    BY <1>1, Zenon DEF Authorize, FailClean, Returns, Throws
  <1>2. CASE CheckOption(r, "options") \/ CheckOption(r, "option")
    BY <1>2 DEF CheckOption, FailClean, Returns, Throws, Stamp
  <1>3. CASE CheckFinding(r)
    BY <1>3 DEF CheckFinding, FailClean, Returns, Throws, Stamp
  <1>4. CASE CheckLatest(r)
    BY <1>4 DEF CheckLatest, FailClean, Returns, Throws, Stamp
  <1>5. CASE Insert(r)
    BY <1>5 DEF Insert, Inserted, Returns, Throws, CutShort
  <1>6. CASE Update(r)
    BY <1>6 DEF Update, Returns, Throws, CutShort, Finish
  <1>7. CASE Answer(r)
    BY <1>7 DEF Answer, FailClean, Returns, Throws, Finish
  <1> QED BY <1>1, <1>2, <1>3, <1>4, <1>5, <1>6, <1>7 DEF Decide

LEMMA StampsType ==
  ASSUME DecisionTypeOK, NEW r \in Request, UNCHANGED stampVars \/ Stamp(r)
  PROVE  clock' \in Nat /\ stamp' \in [Request -> Nat]
  BY DEF DecisionTypeOK, stampVars, Stamp

LEMMA DecisionType ==
  ASSUME TypeOK, RequestsNameParagraphs, [Next]_vars
  PROVE  DecisionTypeOK' /\ RequestsNameParagraphs'
  <1> USE DEF TypeOK
  <1>1. CASE Decisions
    <2>1. ASSUME NEW r \in Request, Decide(r)
          PROVE  DecisionTypeOK' /\ RequestsNameParagraphs'
      <3>1. request[r].pc # "idle" /\ ParagraphOf(r) \in Paragraph
        BY <2>1, DecideMoves DEF RequestsNameParagraphs, ParagraphOf
      <3>2. PICK pc \in {"ok", "refused", "failed"} \cup RequestPc : Goto(r, pc)
        BY <2>1, DecideMoves
      <3>3. /\ request' \in [Request ->
                 [pc        : {"idle", "ok", "refused", "failed"} \cup RequestPc,
                  kind      : Kind,
                  paragraph : Paragraph \cup {NoParagraph},
                  alone     : BOOLEAN]]
            /\ RequestsNameParagraphs'
        BY <3>1, <3>2, GotoType
      <3>a. UNCHANGED stampVars \/ Stamp(r)
        BY <2>1, DecideMoves
      <3>b. log' = log \/ log' = log \cup {r}
        BY <2>1, DecideMoves
      <3>4. clock' \in Nat /\ stamp' \in [Request -> Nat] /\ log' \subseteq Request
        BY <2>1, <3>a, <3>b, StampsType DEF DecisionTypeOK
      <3>5. disturbed' \subseteq Paragraph
        BY <2>1, <3>1, DecideMoves DEF DecisionTypeOK
      <3> QED BY <3>3, <3>4, <3>5 DEF DecisionTypeOK
    <2>2. ASSUME NEW r \in Request, NEW kind \in Kind, NEW p \in Paragraph,
                 Receive(r, kind, p)
          PROVE  DecisionTypeOK' /\ RequestsNameParagraphs'
      <3> DEFINE still == ~Active(p) /\ ingest = "idle"
      <3> DEFINE kept(q) == request[q].alone /\ ~Under(q, p)
      <3>1. still \in BOOLEAN /\ \A q \in Request : kept(q) \in BOOLEAN
        BY DEF DecisionTypeOK
      <3>a. request' = [q \in Request |->
              IF q = r
              THEN [pc |-> "authorize", kind |-> kind, paragraph |-> p, alone |-> still]
              ELSE [request[q] EXCEPT !.alone = kept(q)]]
        BY <2>2 DEF Receive
      <3> HIDE DEF still, kept
      <3>2. request' \in [Request ->
              [pc        : {"idle", "ok", "refused", "failed"} \cup RequestPc,
               kind      : Kind,
               paragraph : Paragraph \cup {NoParagraph},
               alone     : BOOLEAN]]
        BY <3>1, <3>a DEF DecisionTypeOK, RequestPc
      <3>3. RequestsNameParagraphs'
        BY <2>2 DEF Receive, DecisionTypeOK, RequestsNameParagraphs
      <3>4. /\ clock' \in Nat /\ stamp' \in [Request -> Nat]
            /\ log' \subseteq Request
            /\ disturbed' \subseteq Paragraph
        BY <2>2 DEF Receive, DecisionTypeOK, stampVars
      <3> QED BY <3>2, <3>3, <3>4 DEF DecisionTypeOK
    <2> QED BY <1>1, <2>1, <2>2 DEF Decisions
  <1>2. CASE UNCHANGED decisionVars
    BY <1>2 DEF decisionVars, stampVars, DecisionTypeOK, RequestsNameParagraphs
  <1>3. CASE JobRedelivered
    <2>1. \A r \in Request :
            (request[r].alone /\ request[r].pc \notin RequestPc) \in BOOLEAN
      BY DEF DecisionTypeOK
    <2> QED BY <1>3, <2>1 DEF JobRedelivered, DecisionsMeetIngest, DecisionTypeOK,
                stampVars, RequestsNameParagraphs
  <1>4. CASE TaskDeleted
    BY <1>4 DEF TaskDeleted, EraseLog, DecisionTypeOK, stampVars, RequestsNameParagraphs
  <1>5. \/ Decisions \/ UNCHANGED decisionVars \/ JobRedelivered \/ TaskDeleted
    BY DEF Next, vars, ClientServed, ClientSends, TimePasses, JobRuns
  <1> QED BY <1>1, <1>2, <1>3, <1>4, <1>5

ClientType == [Client -> [pc     : {"idle"} \cup ClientPc,
                          action : Action,
                          open   : BOOLEAN,
                          alone  : BOOLEAN]]

\* The three ways a request changes its client.
LEMMA ClientMoves ==
  ASSUME client \in ClientType, NEW c \in Client, NEW pc \in {"idle"} \cup ClientPc,
         NEW open \in BOOLEAN,
         \/ client' = client
         \/ client' = [client EXCEPT ![c].pc = pc]
         \/ client' = [client EXCEPT ![c].pc = pc, ![c].open = open]
         \/ client' = [client EXCEPT ![c] = IdleClient]
  PROVE  client' \in ClientType
  <1>1. CASE client' = client
    BY <1>1
  <1>2. CASE client' = [client EXCEPT ![c].pc = pc]
    BY <1>2 DEF ClientType
  <1>3. CASE client' = [client EXCEPT ![c].pc = pc, ![c].open = open]
    BY <1>3 DEF ClientType
  <1>4. CASE client' = [client EXCEPT ![c] = IdleClient]
    BY <1>4 DEF ClientType, IdleClient, Action
  <1> QED BY <1>1, <1>2, <1>3, <1>4

LEMMA ServeMoves ==
  ASSUME OneClickTypeOK, NEW c \in Client, Serve(c)
  PROVE  /\ \E pc \in {"idle"} \cup ClientPc, open \in BOOLEAN :
              \/ client' = [client EXCEPT ![c].pc = pc]
              \/ client' = [client EXCEPT ![c].pc = pc, ![c].open = open]
              \/ client' = [client EXCEPT ![c] = IdleClient]
         /\ \/ UNCHANGED <<session, elapsed>>
            \/ \E state \in {"processing", "ready", "rolled_back"} : WriteSession(state)
         /\ mixed' \in BOOLEAN
  <1> DEFINE Moves ==
        \E pc \in {"idle"} \cup ClientPc, open \in BOOLEAN :
          \/ client' = [client EXCEPT ![c].pc = pc]
          \/ client' = [client EXCEPT ![c].pc = pc, ![c].open = open]
          \/ client' = [client EXCEPT ![c] = IdleClient]
  <1> DEFINE Writes ==
        \/ UNCHANGED <<session, elapsed>>
        \/ \E state \in {"processing", "ready", "rolled_back"} : WriteSession(state)
  <1> DEFINE Mixed == mixed' \in BOOLEAN
  <1>0. ASSUME NEW effect, NEW noEffect, Breaks(c, effect, noEffect)
        PROVE  Moves /\ Mixed
    BY <1>0 DEF Breaks, End, ClientPc
  <1>1. ASSUME NEW pc \in ClientPc, Proceed(c, pc) PROVE Moves
    BY <1>1 DEF Proceed
  <1>2. ASSUME End(c) PROVE Moves
    BY <1>2 DEF End
  <1>3. ASSUME NEW state, Resolved(c, state) PROVE Moves
    BY <1>1, <1>2, <1>3 DEF Resolved, ClientPc
  <1>4. ASSUME UNCHANGED mixed PROVE Mixed
    BY <1>4 DEF OneClickTypeOK
  <1>5. CASE AuthorizeClient(c)
    <2>1. ASSUME NEW open \in BOOLEAN,
                 client' = [client EXCEPT ![c].pc = "preview", ![c].open = open]
          PROVE  Moves
      BY <2>1 DEF ClientPc
    <2>2. (Ready /\ document = "one-click") \in BOOLEAN
      BY DEF Ready
    <2>3. Moves /\ Mixed
      BY <1>0, <1>2, <1>4, <1>5, <2>1, <2>2 DEF AuthorizeClient, ReadEnds, Returns
    <2> QED BY <1>5, <2>3 DEF AuthorizeClient, readFrame
  <1>6. CASE Preview(c)
    <2>1. ASSUME NEW open \in BOOLEAN,
                 client' = [client EXCEPT ![c].pc = "session", ![c].open = open]
          PROVE  Moves
      BY <2>1 DEF ClientPc
    <2>2. (client[c].open /\ \E p \in Paragraph : finding[p] = "pending") \in BOOLEAN
      BY DEF OneClickTypeOK
    <2>3. Moves /\ Mixed
      BY <1>0, <1>4, <1>6, <2>1, <2>2 DEF Preview, Returns
    <2> QED BY <1>6, <2>3 DEF Preview, readFrame
  <1>7. CASE ReadSession(c)
    <2>1. Moves /\ Mixed
      BY <1>0, <1>1, <1>3, <1>4, <1>7 DEF ReadSession, Returns, ClientPc
    <2> QED BY <1>7, <2>1 DEF ReadSession, readFrame
  <1>8. ASSUME NEW pc, NEW state \in {"processing", "ready", "rolled_back"},
               NEW next \in ClientPc, WriteFile(c, pc, state, next)
        PROVE  Moves /\ Writes /\ Mixed
    <2>1. Moves /\ Mixed
      BY <1>0, <1>1, <1>4, <1>8 DEF WriteFile
    <2>2. Writes
      BY <1>8 DEF WriteFile, Breaks, Returns, Throws
    <2> QED BY <2>1, <2>2
  <1>9. CASE ReadyTask(c)
    <2>1. Moves /\ Mixed
      BY <1>0, <1>3, <1>4, <1>9 DEF ReadyTask
    <2> QED BY <1>9, <2>1 DEF ReadyTask, rowFrame
  <1>10. ASSUME NEW pc, NEW status, NEW stage, WriteRow(c, pc, status, stage)
         PROVE  Moves /\ Writes /\ Mixed
    <2>1. (mixed /\ ~client[c].alone) \in BOOLEAN
      BY DEF OneClickTypeOK
    <2>2. Moves /\ Mixed
      BY <1>0, <1>2, <1>10, <2>1 DEF WriteRow
    <2> QED BY <1>10, <2>2 DEF WriteRow, rowFrame
  <1>11. CASE Recheck(c)
    <2>1. Moves /\ Mixed
      BY <1>0, <1>1, <1>2, <1>4, <1>11 DEF Recheck, ReadEnds, Returns, ClientPc
    <2> QED BY <1>11, <2>1 DEF Recheck, readFrame
  <1>12. Moves /\ Writes /\ Mixed
    BY <1>5, <1>6, <1>7, <1>8, <1>9, <1>10, <1>11 DEF Serve, ClientPc
  <1> QED BY <1>12

LEMMA OneClickType ==
  ASSUME TypeOK, [Next]_vars
  PROVE  OneClickTypeOK'
  <1> USE DEF TypeOK
  <1>0. OneClickTypeOK <=>
          /\ session \in {"none", "processing", "ready", "rolled_back"}
          /\ elapsed \in BOOLEAN
          /\ client \in ClientType
          /\ mixed \in BOOLEAN
    BY DEF OneClickTypeOK, ClientType
  <1>1. ASSUME NEW c \in Client, ClientServed(c)
        PROVE  OneClickTypeOK'
    <2>1. Serve(c)
      BY <1>1 DEF ClientServed
    <2>2. client' \in ClientType
      BY <1>0, <2>1, ServeMoves, ClientMoves
    <2>3. session' \in {"none", "processing", "ready", "rolled_back"} /\ elapsed' \in BOOLEAN
      BY <1>0, <2>1, ServeMoves DEF WriteSession
    <2>4. mixed' \in BOOLEAN
      BY <2>1, ServeMoves
    <2> QED BY <2>2, <2>3, <2>4 DEF OneClickTypeOK, ClientType
  <1>2. ASSUME NEW c \in Client, NEW action \in Action, ClientSends(c, action)
        PROVE  OneClickTypeOK'
    <2> DEFINE quiet == Quiet /\ ingest = "idle"
    <2>1. quiet \in BOOLEAN /\ (mixed \/ ~Quiet) \in BOOLEAN
      BY DEF OneClickTypeOK
    <2>2. client' = [d \in Client |->
             IF d = c
             THEN [pc |-> "authorize", action |-> action, open |-> FALSE, alone |-> quiet]
             ELSE [client[d] EXCEPT !.alone = FALSE]]
      BY <1>2 DEF ClientSends, Send
    <2> HIDE DEF quiet
    <2>3. client' \in ClientType
      BY <1>0, <2>1, <2>2 DEF ClientType, ClientPc
    <2>4. mixed' \in BOOLEAN /\ UNCHANGED <<session, elapsed>>
      BY <1>2, <2>1 DEF ClientSends, Send
    <2> QED BY <1>0, <2>3, <2>4 DEF OneClickTypeOK, ClientType
  <1>3. CASE TimePasses
    BY <1>3 DEF TimePasses, Elapse, OneClickTypeOK
  <1>4. CASE JobRedelivered
    BY <1>4 DEF JobRedelivered, PreviewsMeetIngest, OneClickTypeOK
  <1>5. CASE UNCHANGED oneClickVars
    BY <1>5 DEF oneClickVars, OneClickTypeOK
  <1>6. \/ \E c \in Client : ClientServed(c)
        \/ \E c \in Client, action \in Action : ClientSends(c, action)
        \/ TimePasses \/ JobRedelivered \/ UNCHANGED oneClickVars
    BY DEF Next, vars, Decisions, JobRuns, TaskDeleted
  <1> QED BY <1>1, <1>2, <1>3, <1>4, <1>5, <1>6

TypeInv == TypeOK /\ RequestsNameParagraphs

LEMMA TypeStep ==
  ASSUME TypeInv, [Next]_vars
  PROVE  TypeInv'
  BY DataType, DecisionType, OneClickType DEF TypeInv, TypeOK

LEMMA TypeInvariant == Spec => []TypeInv
  <1>1. Init => TypeInv
    BY TypeInit DEF Init, DecisionInit, IdleRequest, TypeInv, RequestsNameParagraphs
  <1>2. TypeInv /\ [Next]_vars => TypeInv'
    BY TypeStep
  <1> QED BY <1>1, <1>2, PTL DEF Spec

\* Every reachable state of the workbench is well typed.
THEOREM WorkbenchTypeCorrect == Spec => []TypeOK
  <1>1. TypeInv => TypeOK
    BY DEF TypeInv
  <1> QED BY <1>1, TypeInvariant, PTL

-----------------------------------------------------------------------------
(* A handled paragraph has its operation in the log *)

\* An operation in the log belongs to a request that was received, so that
\* what it asks for no longer changes.
LoggedWasReceived == \A r \in log : request[r].pc # "idle"

\* A request that sets the status has inserted its operation before, and only
\* the deletion of the task removed it since.
UpdateIsLogged == \A r \in Request : request[r].pc = "update" /\ Exists => r \in log

EvidenceInv ==
  /\ TypeInv
  /\ LoggedWasReceived
  /\ UpdateIsLogged
  /\ DecisionsErased
  /\ StatusHasEvidence

\* A request that was received stays the request it is.
Lasting ==
  \A r \in Request : request[r].pc # "idle" =>
    /\ request'[r].pc # "idle"
    /\ request'[r].kind = request[r].kind
    /\ request'[r].paragraph = request[r].paragraph

LEMMA DecideLasts ==
  ASSUME TypeOK, NEW r \in Request, Decide(r)
  PROVE  /\ Lasting
         /\ \A q \in Request \ {r} : request'[q].pc = request[q].pc
  <1>1. PICK pc \in {"ok", "refused", "failed"} \cup RequestPc : Goto(r, pc)
    BY DecideMoves DEF TypeOK
  <1>2. pc # "idle"
    BY DEF RequestPc
  <1> QED BY <1>1, <1>2 DEF Goto, Lasting, TypeOK, DecisionTypeOK

\* The log is written before the status, and nothing but an update writes it.
LEMMA DecideWrites ==
  ASSUME TypeOK, NEW r \in Request, Decide(r)
  PROVE  /\ request'[r].pc = "update" => request[r].pc = "insert" /\ r \in log'
         /\ \/ UNCHANGED finding
            \/ /\ request[r].pc = "update"
               /\ SetHandling(ParagraphOf(r), Outcome(request[r].kind))
  <1>0. ASSUME NEW pc, Goto(r, pc) PROVE request'[r].pc = pc
    BY <1>0 DEF Goto, TypeOK, DecisionTypeOK
  <1>1. CASE Authorize(r)
    BY <1>0, <1>1 DEF Authorize, FailClean, Returns, Throws
  <1>2. CASE CheckOption(r, "options") \/ CheckOption(r, "option")
    BY <1>0, <1>2 DEF CheckOption, FailClean, Returns, Throws, Stamp
  <1>3. CASE CheckFinding(r)
    BY <1>0, <1>3 DEF CheckFinding, FailClean, Returns, Throws, Stamp
  <1>4. CASE CheckLatest(r)
    BY <1>0, <1>4 DEF CheckLatest, FailClean, Returns, Throws, Stamp
  <1>5. CASE Insert(r)
    BY <1>0, <1>5 DEF Insert, Returns, Throws, CutShort
  <1>6. CASE Update(r)
    BY <1>0, <1>6 DEF Update, Returns, Throws, CutShort, Finish
  <1>7. CASE Answer(r)
    BY <1>0, <1>7 DEF Answer, FailClean, Returns, Throws, Finish
  <1> QED BY <1>1, <1>2, <1>3, <1>4, <1>5, <1>6, <1>7 DEF Decide

\* Received requests, the log and the row stay as they are, and findings
\* either stay or start afresh.
LEMMA EvidenceKept ==
  ASSUME EvidenceInv, Lasting,
         log' = log, Exists' <=> Exists,
         \A r \in Request : request'[r].pc = "update" => request[r].pc = "update",
         UNCHANGED finding \/ (Exists /\ finding' = [p \in Paragraph |-> "pending"])
  PROVE  LoggedWasReceived' /\ UpdateIsLogged' /\ DecisionsErased' /\ StatusHasEvidence'
  <1> USE DEF EvidenceInv, TypeInv, TypeOK, DecisionTypeOK
  <1>1. LoggedWasReceived'
    BY DEF LoggedWasReceived, Lasting
  <1>2. UpdateIsLogged'
    BY DEF UpdateIsLogged
  <1>3. DecisionsErased'
    BY DEF DecisionsErased
  <1>4. \A q \in log : /\ ParagraphOf(q)' = ParagraphOf(q)
                       /\ Outcome(request'[q].kind) = Outcome(request[q].kind)
    BY DEF LoggedWasReceived, Lasting, ParagraphOf
  <1>5. StatusHasEvidence'
    <2>1. CASE UNCHANGED finding
      BY <1>4, <2>1 DEF StatusHasEvidence
    <2>2. CASE finding' = [p \in Paragraph |-> "pending"]
      BY <2>2 DEF StatusHasEvidence
    <2> QED BY <2>1, <2>2
  <1> QED BY <1>1, <1>2, <1>3, <1>5

LEMMA DecideEvidence ==
  ASSUME EvidenceInv, NEW r \in Request, Decide(r)
  PROVE  LoggedWasReceived' /\ UpdateIsLogged' /\ DecisionsErased' /\ StatusHasEvidence'
  <1> USE DEF EvidenceInv, TypeInv
  <1>1. Lasting /\ \A q \in Request \ {r} : request'[q].pc = request[q].pc
    BY DecideLasts
  <1>2. /\ request'[r].pc = "update" => request[r].pc = "insert" /\ r \in log'
        /\ \/ UNCHANGED finding
           \/ /\ request[r].pc = "update"
              /\ SetHandling(ParagraphOf(r), Outcome(request[r].kind))
    BY DecideWrites
  <1>3. /\ request[r].pc # "idle"
        /\ log' = log \/ (Exists /\ log' = log \cup {r})
    BY DecideMoves DEF TypeOK
  <1>4. task' = task /\ (Exists' <=> Exists)
    BY DecideEffect DEF TypeOK, Exists
  <1>5. log \subseteq log' /\ log \subseteq Request
    BY <1>3 DEF TypeOK, DecisionTypeOK
  <1>6. LoggedWasReceived'
    BY <1>1, <1>3, <1>5 DEF LoggedWasReceived, Lasting
  <1>7. UpdateIsLogged'
    BY <1>1, <1>2, <1>4, <1>5 DEF UpdateIsLogged
  <1>8. DecisionsErased'
    BY <1>2, <1>3, <1>4 DEF DecisionsErased, SetHandling, TypeOK, DataTypeOK
  <1>9. StatusHasEvidence'
    <2>1. ASSUME NEW q \in log
          PROVE  /\ q \in log'
                 /\ ParagraphOf(q)' = ParagraphOf(q)
                 /\ Outcome(request'[q].kind) = Outcome(request[q].kind)
      BY <1>1, <1>5 DEF LoggedWasReceived, Lasting, ParagraphOf
    <2>2. CASE UNCHANGED finding
      BY <2>1, <2>2 DEF StatusHasEvidence
    <2>3. CASE /\ request[r].pc = "update"
               /\ SetHandling(ParagraphOf(r), Outcome(request[r].kind))
      <3>1. CASE ~Exists
        BY <1>4, <1>8, <3>1 DEF DecisionsErased, StatusHasEvidence
      <3>2. CASE Exists
        <4>1. r \in log
          BY <2>3, <3>2 DEF UpdateIsLogged
        <4>2. SUFFICES ASSUME NEW p \in Paragraph, finding'[p] \notin {"none", "pending"}
                       PROVE  \E q \in log' : /\ ParagraphOf(q)' = p
                                              /\ Outcome(request'[q].kind) = finding'[p]
          BY DEF StatusHasEvidence, ParagraphOf, Outcome
        <4>3. CASE p = ParagraphOf(r)
          <5>1. finding'[p] = Outcome(request[r].kind)
            BY <2>3, <4>2, <4>3 DEF SetHandling, TypeOK, DataTypeOK
          <5> QED BY <2>1, <4>1, <4>3, <5>1
        <4>4. CASE p # ParagraphOf(r)
          <5>1. finding'[p] = finding[p]
            BY <2>3, <4>4 DEF SetHandling, TypeOK, DataTypeOK
          <5> QED BY <2>1, <4>2, <5>1 DEF StatusHasEvidence
        <4> QED BY <4>3, <4>4
      <3> QED BY <3>1, <3>2
    <2> QED BY <1>2, <2>2, <2>3
  <1> QED BY <1>6, <1>7, <1>8, <1>9

LEMMA EvidenceStep ==
  ASSUME EvidenceInv, [Next]_vars
  PROVE  EvidenceInv'
  <1> USE DEF EvidenceInv
  <1> DEFINE Rest == LoggedWasReceived /\ UpdateIsLogged /\ DecisionsErased /\ StatusHasEvidence
  <1> SUFFICES Rest'
    BY TypeStep
  <1>0. DataTypeOK /\ DecisionTypeOK
    BY DEF TypeInv, TypeOK
  <1>1. ASSUME UNCHANGED decisionVars, Exists' <=> Exists,
               UNCHANGED finding \/ (Exists /\ finding' = [p \in Paragraph |-> "pending"])
        PROVE  Rest'
    BY <1>1, EvidenceKept DEF decisionVars, Lasting
  <1>2. CASE Decisions
    <2>1. CASE \E r \in Request : Decide(r)
      BY <2>1, DecideEvidence
    <2>2. ASSUME NEW r \in Request, NEW kind \in Kind, NEW p \in Paragraph,
                 Receive(r, kind, p)
          PROVE  Rest'
      <3>1. /\ Lasting
            /\ \A q \in Request : request'[q].pc = "update" => request[q].pc = "update"
        BY <1>0, <2>2 DEF Receive, Lasting, DecisionTypeOK
      <3>2. log' = log /\ UNCHANGED finding /\ (Exists' <=> Exists)
        BY <2>2 DEF Receive, dataVars, Exists
      <3> QED BY <3>1, <3>2, EvidenceKept
    <2> QED BY <1>2, <2>1, <2>2 DEF Decisions
  <1>3. CASE \E c \in Client : ClientServed(c)
    BY <1>0, <1>1, <1>3, ServeEffect DEF ClientServed
  <1>4. CASE \/ \E c \in Client, action \in Action : ClientSends(c, action)
             \/ TimePasses
             \/ UNCHANGED vars
    BY <1>1, <1>4 DEF ClientSends, Send, TimePasses, Elapse, vars, dataVars, Exists
  <1>5. CASE JobRedelivered
    <2>1. /\ Lasting
          /\ \A q \in Request : request'[q].pc = "update" => request[q].pc = "update"
      BY <1>0, <1>5 DEF JobRedelivered, DecisionsMeetIngest, Lasting, DecisionTypeOK
    <2>2. log' = log /\ UNCHANGED finding /\ (Exists' <=> Exists)
      BY <1>5 DEF JobRedelivered, DecisionsMeetIngest, Redeliver, Exists
    <2> QED BY <2>1, <2>2, EvidenceKept
  <1>6. CASE JobRuns
    BY <1>0, <1>1, <1>6, IngestEffect DEF JobRuns, oneClickVars
  <1>7. CASE TaskDeleted
    <2>1. /\ ~Exists' /\ log' = {} /\ request' = request
          /\ finding' = [p \in Paragraph |-> "none"]
      BY <1>7 DEF TaskDeleted, EraseTask, EraseLog, Exists
    <2> QED BY <2>1 DEF LoggedWasReceived, UpdateIsLogged, DecisionsErased,
                StatusHasEvidence
  <1> QED BY <1>2, <1>3, <1>4, <1>5, <1>6, <1>7 DEF Next

LEMMA EvidenceInvariant == Spec => []EvidenceInv
  <1>1. Init => EvidenceInv
    <2> SUFFICES ASSUME Init PROVE EvidenceInv
      OBVIOUS
    <2>1. TypeInv
      BY TypeInit DEF Init, DecisionInit, IdleRequest, TypeInv, RequestsNameParagraphs
    <2>2. /\ log = {} /\ finding = [p \in Paragraph |-> "pending"] /\ Exists
          /\ \A r \in Request : request[r].pc = "idle"
      BY DEF Init, DecisionInit, DataInit, IdleRequest, Exists, Gone, Scanned
    <2> QED BY <2>1, <2>2 DEF EvidenceInv, LoggedWasReceived, UpdateIsLogged,
                DecisionsErased, StatusHasEvidence
  <1>2. EvidenceInv /\ [Next]_vars => EvidenceInv'
    BY EvidenceStep
  <1> QED BY <1>1, <1>2, PTL DEF Spec

\* Whatever interleaves, fails or is processed again, a paragraph that counts
\* as handled has an operation in the log that says so.
THEOREM HandledIsLogged == Spec => []StatusHasEvidence
  <1>1. EvidenceInv => StatusHasEvidence
    BY DEF EvidenceInv
  <1> QED BY <1>1, EvidenceInvariant, PTL

\* Requests still under way write nothing about a deleted task.
THEOREM NothingDecidedRemains == Spec => []DecisionsErased
  <1>1. EvidenceInv => DecisionsErased
    BY DEF EvidenceInv
  <1> QED BY <1>1, EvidenceInvariant, PTL

-----------------------------------------------------------------------------
(* The row does not get ahead of the session *)

\* A client that is about to write the row has written the file before, and
\* no file is ever removed.
RowWriterHasSession ==
  \A c \in Client : client[c].pc \in {"readyTask", "beginTask"} => session # "none"

SessionInv == TypeInv /\ RowWriterHasSession /\ StageHasSession

LEMMA ServeSession ==
  ASSUME SessionInv, NEW c \in Client, Serve(c)
  PROVE  RowWriterHasSession' /\ StageHasSession'
  <1> USE DEF SessionInv, TypeInv, TypeOK, OneClickTypeOK
  <1>1. session' = session \/ session' # "none"
    BY ServeMoves DEF WriteSession
  <1>2. \A d \in Client \ {c} : client'[d].pc = client[d].pc
    BY ServeMoves
  <1>3. client'[c].pc \in {"readyTask", "beginTask"} => session' # "none"
    <2>0. ASSUME NEW pc, Proceed(c, pc) PROVE client'[c].pc = pc
      BY <2>0 DEF Proceed
    <2>1. ASSUME End(c) PROVE client'[c].pc = "idle"
      BY <2>1 DEF End, IdleClient
    <2>2. ASSUME NEW state, Resolved(c, state)
          PROVE  client'[c].pc \notin {"readyTask", "beginTask"}
      BY <2>0, <2>1, <2>2 DEF Resolved
    <2>3. ASSUME NEW effect, NEW noEffect, Breaks(c, effect, noEffect)
          PROVE  client'[c].pc = "idle"
      BY <2>1, <2>3 DEF Breaks
    <2>4. CASE AuthorizeClient(c)
      BY <2>1, <2>3, <2>4 DEF AuthorizeClient, ReadEnds, Returns
    <2>5. CASE Preview(c)
      BY <2>3, <2>5 DEF Preview
    <2>6. CASE ReadSession(c)
      BY <2>0, <2>2, <2>3, <2>6 DEF ReadSession, Returns
    <2>7. ASSUME NEW pc, NEW state \in {"processing", "ready", "rolled_back"}, NEW next,
                 WriteFile(c, pc, state, next)
          PROVE  session' # "none" \/ client'[c].pc = "idle"
      BY <2>3, <2>7 DEF WriteFile, Returns, WriteSession
    <2>8. CASE ReadyTask(c)
      BY <2>2, <2>3, <2>8 DEF ReadyTask
    <2>9. ASSUME NEW pc, NEW status, NEW stage, WriteRow(c, pc, status, stage)
          PROVE  client'[c].pc = "idle"
      BY <2>1, <2>3, <2>9 DEF WriteRow
    <2>10. CASE Recheck(c)
      BY <2>0, <2>1, <2>3, <2>10 DEF Recheck, ReadEnds, Returns
    <2> QED BY <2>4, <2>5, <2>6, <2>7, <2>8, <2>9, <2>10 DEF Serve
  <1>4. RowWriterHasSession'
    BY <1>1, <1>2, <1>3 DEF RowWriterHasSession
  <1>5. \/ UNCHANGED task
        \/ client[c].pc \in {"readyTask", "beginTask"}
        \/ UpdateTask("completed", "scan")
    BY DEF Serve, AuthorizeClient, Preview, ReadSession, WriteFile, ReadyTask,
           WriteRow, Recheck, Breaks, Returns, Throws, readFrame
  <1>6. StageHasSession'
    <2>1. CASE UNCHANGED task
      BY <1>1, <2>1 DEF StageHasSession
    <2>2. CASE client[c].pc \in {"readyTask", "beginTask"}
      BY <1>1, <2>2 DEF RowWriterHasSession, StageHasSession
    <2>3. CASE UpdateTask("completed", "scan")
      BY <1>1, <2>3 DEF UpdateTask, StageHasSession
    <2> QED BY <1>5, <2>1, <2>2, <2>3
  <1> QED BY <1>4, <1>6

LEMMA SessionStep ==
  ASSUME SessionInv, [Next]_vars
  PROVE  SessionInv'
  <1> USE DEF SessionInv
  <1> SUFFICES RowWriterHasSession' /\ StageHasSession'
    BY TypeStep
  <1>0. DataTypeOK /\ OneClickTypeOK
    BY DEF TypeInv, TypeOK
  <1>1. CASE \E c \in Client : ClientServed(c)
    BY <1>0, <1>1, ServeSession DEF ClientServed
  <1>2. CASE \E c \in Client, action \in Action : ClientSends(c, action)
    BY <1>0, <1>2 DEF ClientSends, Send, dataVars, OneClickTypeOK,
       RowWriterHasSession, StageHasSession
  <1>3. CASE TimePasses
    BY <1>3 DEF TimePasses, Elapse, dataVars, RowWriterHasSession, StageHasSession
  <1>4. CASE JobRedelivered
    BY <1>0, <1>4 DEF JobRedelivered, Redeliver, PreviewsMeetIngest, OneClickTypeOK,
       RowWriterHasSession, StageHasSession
  <1>5. CASE UNCHANGED oneClickVars /\ (task' = task \/ task'.stage # "rewrite")
    BY <1>5 DEF oneClickVars, RowWriterHasSession, StageHasSession
  <1>6. CASE Decisions
    <2>1. task' = task
      BY <1>0, <1>6, DecideEffect DEF Decisions, Receive, dataVars, TypeInv, TypeOK
    <2> QED BY <1>5, <1>6, <2>1 DEF Decisions
  <1>7. CASE JobRuns
    BY <1>0, <1>5, <1>7, IngestEffect DEF JobRuns
  <1>8. CASE TaskDeleted
    BY <1>5, <1>8 DEF TaskDeleted, EraseTask, Gone
  <1>9. CASE UNCHANGED vars
    BY <1>5, <1>9 DEF vars, dataVars
  <1> QED BY <1>0, <1>1, <1>2, <1>3, <1>4, <1>6, <1>7, <1>8, <1>9 DEF Next

\* The row never speaks of a preview that was never started.
THEOREM RowBehindSession == Spec => []StageHasSession
  <1>1. Init => SessionInv
    BY TypeInit DEF Init, DecisionInit, DataInit, OneClickInit, IdleRequest, IdleClient,
       Scanned, SessionInv, TypeInv, RequestsNameParagraphs, RowWriterHasSession,
       StageHasSession
  <1>2. SessionInv /\ [Next]_vars => SessionInv'
    BY SessionStep
  <1>3. SessionInv => StageHasSession
    BY DEF SessionInv
  <1> QED BY <1>1, <1>2, <1>3, PTL DEF Spec

-----------------------------------------------------------------------------
(* Row and session agree between requests *)

\* About to write the row, having written the file.
RowWriting == {"readyTask", "beginTask", "rollbackTask"}

FilePut(pc) ==
  CASE pc = "readyTask"    -> "ready"
    [] pc = "beginTask"    -> "processing"
    [] pc = "rollbackTask" -> "rolled_back"

\* Nobody met a request that is alone.
AloneInv ==
  \A c \in Client : client[c].alone =>
    ingest = "idle" /\ \A d \in Client \ {c} : client[d].pc = "idle"

\* What "mixed" says of the present.
MeetInv ==
  ~mixed => /\ ingest = "idle"
            /\ \A c, d \in Client :
                 client[c].pc # "idle" /\ client[d].pc # "idle" => c = d

\* No other request has written the file since this one did.
FileInv ==
  \A c \in Client : (client[c].alone \/ ~mixed) /\ client[c].pc \in RowWriting =>
    session = FilePut(client[c].pc)

RowInv ==
  ~mixed /\ Exists /\ (\A c \in Client : client[c].pc \notin RowWriting) => task = Follows

FollowInv == TypeInv /\ AloneInv /\ MeetInv /\ FileInv /\ RowInv

\* A request goes on to pc, or ends.
GoesTo(c, pcs) ==
  /\ \A d \in Client \ {c} : client'[d] = client[d]
  /\ client'[c].pc \in pcs \cup {"idle"}
  /\ client'[c].alone => client[c].alone

ReadsOn(c) ==
  /\ client[c].pc \notin RowWriting /\ GoesTo(c, ClientPc \ RowWriting)
  /\ UNCHANGED <<task, session, mixed>>

PutsFile(c) ==
  /\ GoesTo(c, RowWriting) /\ client'[c].pc # "idle"
  /\ session' = FilePut(client'[c].pc)
  /\ UNCHANGED <<task, mixed>>

\* In agreement with the file the request put there.
PutsRow(c) ==
  /\ client[c].pc \in RowWriting /\ GoesTo(c, ClientPc \ RowWriting)
  /\ session = FilePut(client[c].pc) /\ Exists => task' = Follows
  /\ session' = session
  /\ \/ mixed' = mixed
     \/ mixed' = (mixed /\ ~client[c].alone) /\ client'[c].pc = "idle"

BreaksOff(c) == GoesTo(c, {}) /\ mixed' = TRUE

LEMMA ServeSteps ==
  ASSUME TypeInv, NEW c \in Client, Serve(c)
  PROVE  /\ client[c].pc # "idle"
         /\ ReadsOn(c) \/ PutsFile(c) \/ PutsRow(c) \/ BreaksOff(c)
  <1>0. client \in ClientType
    BY DEF TypeInv, TypeOK, OneClickTypeOK, ClientType
  <1>1. ASSUME NEW pc, Proceed(c, pc)
        PROVE  GoesTo(c, {pc}) /\ client'[c].pc = pc
    BY <1>0, <1>1 DEF Proceed, GoesTo, ClientType
  <1>2. ASSUME End(c) PROVE GoesTo(c, {})
    BY <1>0, <1>2 DEF End, GoesTo, IdleClient, ClientType
  <1>3. ASSUME NEW effect, NEW noEffect, Breaks(c, effect, noEffect)
        PROVE  BreaksOff(c)
    BY <1>2, <1>3 DEF Breaks, BreaksOff
  <1>4. ASSUME NEW state, Resolved(c, state)
        PROVE  GoesTo(c, ClientPc \ RowWriting)
    BY <1>1, <1>2, <1>4 DEF Resolved, GoesTo, ClientPc, RowWriting
  <1>5. CASE AuthorizeClient(c)
    <2>1. client[c].pc = "authorize"
      BY <1>5 DEF AuthorizeClient
    <2>2. ASSUME NEW open, client' = [client EXCEPT ![c].pc = "preview", ![c].open = open]
          PROVE  GoesTo(c, ClientPc \ RowWriting)
      BY <1>0, <2>2 DEF GoesTo, ClientType, ClientPc, RowWriting
    <2>3. \/ BreaksOff(c)
          \/ GoesTo(c, ClientPc \ RowWriting) /\ UNCHANGED <<task, session, mixed>>
      BY <1>2, <1>3, <1>5, <2>2 DEF AuthorizeClient, ReadEnds, Returns, readFrame, GoesTo
    <2> QED BY <2>1, <2>3 DEF ReadsOn, RowWriting
  <1>6. CASE Preview(c)
    <2>1. client[c].pc = "preview"
      BY <1>6 DEF Preview
    <2>2. ASSUME NEW open, client' = [client EXCEPT ![c].pc = "session", ![c].open = open]
          PROVE  GoesTo(c, ClientPc \ RowWriting)
      BY <1>0, <2>2 DEF GoesTo, ClientType, ClientPc, RowWriting
    <2>3. \/ BreaksOff(c)
          \/ GoesTo(c, ClientPc \ RowWriting) /\ UNCHANGED <<task, session, mixed>>
      BY <1>3, <1>6, <2>2 DEF Preview, Returns, readFrame
    <2> QED BY <2>1, <2>3 DEF ReadsOn, RowWriting
  <1>7. CASE ReadSession(c)
    <2>1. client[c].pc = "session" /\ UNCHANGED <<task, session>>
      BY <1>7 DEF ReadSession, readFrame
    <2>2. ASSUME Proceed(c, "ready") PROVE GoesTo(c, ClientPc \ RowWriting)
      BY <1>1, <2>2 DEF GoesTo, ClientPc, RowWriting
    <2>3. \/ BreaksOff(c)
          \/ GoesTo(c, ClientPc \ RowWriting) /\ UNCHANGED mixed
      BY <1>3, <1>4, <1>7, <2>2 DEF ReadSession, Returns
    <2> QED BY <2>1, <2>3 DEF ReadsOn, RowWriting
  <1>8. ASSUME NEW pc \in ClientPc \ {"idle"}, NEW next \in RowWriting,
               WriteFile(c, pc, FilePut(next), next)
        PROVE  client[c].pc # "idle" /\ (PutsFile(c) \/ BreaksOff(c))
    <2>1. \/ BreaksOff(c)
          \/ Proceed(c, next) /\ session' = FilePut(next) /\ UNCHANGED mixed
      BY <1>3, <1>8 DEF WriteFile, Returns, WriteSession
    <2>2. task' = task /\ client[c].pc = pc
      BY <1>8 DEF WriteFile
    <2>3. Proceed(c, next) => GoesTo(c, RowWriting) /\ client'[c].pc = next
      BY <1>1 DEF GoesTo
    <2> QED BY <2>1, <2>2, <2>3 DEF PutsFile, RowWriting
  <1>9. ASSUME NEW status, NEW stage, client[c].pc \in RowWriting,
               UpdateTask(status, stage),
               session = FilePut(client[c].pc) => Follows = [status |-> status, stage |-> stage]
        PROVE  session = FilePut(client[c].pc) /\ Exists => task' = Follows
    BY <1>9 DEF UpdateTask
  <1>10. CASE ReadyTask(c)
    <2>1. client[c].pc = "readyTask" /\ session' = session
      BY <1>10 DEF ReadyTask, rowFrame
    <2>2. session = FilePut(client[c].pc)
            => Follows = [status |-> "completed", stage |-> "rewrite"]
      BY <2>1 DEF FilePut, Follows
    <2>3. \/ BreaksOff(c)
          \/ /\ UpdateTask("completed", "rewrite")
             /\ GoesTo(c, ClientPc \ RowWriting) /\ UNCHANGED mixed
      BY <1>3, <1>4, <1>10 DEF ReadyTask, Returns
    <2> QED BY <1>9, <2>1, <2>2, <2>3 DEF PutsRow, RowWriting
  <1>11. ASSUME NEW pc \in RowWriting, NEW status, NEW stage, WriteRow(c, pc, status, stage),
                session = FilePut(pc) => Follows = [status |-> status, stage |-> stage]
         PROVE  client[c].pc # "idle" /\ (PutsRow(c) \/ BreaksOff(c))
    <2>1. client[c].pc = pc /\ session' = session
      BY <1>11 DEF WriteRow, rowFrame
    <2>2. \/ BreaksOff(c)
          \/ /\ UpdateTask(status, stage) /\ GoesTo(c, {})
             /\ mixed' = (mixed /\ ~client[c].alone)
      BY <1>2, <1>3, <1>11 DEF WriteRow, Returns
    <2>3. GoesTo(c, {}) => GoesTo(c, ClientPc \ RowWriting) /\ client'[c].pc = "idle"
      BY DEF GoesTo
    <2> QED BY <1>9, <1>11, <2>1, <2>2, <2>3 DEF PutsRow, RowWriting
  <1>12. CASE Recheck(c)
    <2>1. client[c].pc = "recheck" /\ UNCHANGED <<task, session>>
      BY <1>12 DEF Recheck, readFrame
    <2>2. ASSUME Proceed(c, "rollback") PROVE GoesTo(c, ClientPc \ RowWriting)
      BY <1>1, <2>2 DEF GoesTo, ClientPc, RowWriting
    <2>3. \/ BreaksOff(c)
          \/ GoesTo(c, ClientPc \ RowWriting) /\ UNCHANGED mixed
      BY <1>2, <1>3, <1>12, <2>2 DEF Recheck, Returns, ReadEnds, GoesTo
    <2> QED BY <2>1, <2>3 DEF ReadsOn, RowWriting
  <1>13. CASE \/ WriteFile(c, "ready", "ready", "readyTask")
              \/ WriteFile(c, "begin", "processing", "beginTask")
              \/ WriteFile(c, "rollback", "rolled_back", "rollbackTask")
    <2>1. PICK pc \in ClientPc \ {"idle"}, next \in RowWriting :
            WriteFile(c, pc, FilePut(next), next)
      BY <1>13 DEF ClientPc, RowWriting, FilePut
    <2> QED BY <1>8, <2>1
  <1>14. CASE WriteRow(c, "beginTask", "processing", "rewrite")
    <2>1. session = FilePut("beginTask")
            => Follows = [status |-> "processing", stage |-> "rewrite"]
      BY DEF FilePut, Follows
    <2> QED BY <1>11, <1>14, <2>1 DEF RowWriting
  <1>15. CASE WriteRow(c, "rollbackTask", "completed", "scan")
    <2>1. session = FilePut("rollbackTask")
            => Follows = [status |-> "completed", stage |-> "scan"]
      BY DEF FilePut, Follows, Scanned
    <2> QED BY <1>11, <1>15, <2>1 DEF RowWriting
  <1> QED BY <1>5, <1>6, <1>7, <1>10, <1>12, <1>13, <1>14, <1>15 DEF Serve

LEMMA ServeFollows ==
  ASSUME FollowInv, NEW c \in Client, Serve(c)
  PROVE  AloneInv' /\ MeetInv' /\ FileInv' /\ RowInv'
  <1>1. /\ client[c].pc # "idle"
        /\ ReadsOn(c) \/ PutsFile(c) \/ PutsRow(c) \/ BreaksOff(c)
    BY ServeSteps DEF FollowInv
  <1>2. /\ \A d \in Client \ {c} : client'[d] = client[d]
        /\ client'[c].alone => client[c].alone
    BY <1>1 DEF ReadsOn, PutsFile, PutsRow, BreaksOff, GoesTo
  <1>3. ingest' = ingest /\ (Exists' <=> Exists)
    BY ServeEffect DEF FollowInv, TypeInv, TypeOK
  <1>4. ~mixed' => ~mixed \/ (client[c].alone /\ client'[c].pc = "idle")
    BY <1>1 DEF ReadsOn, PutsFile, PutsRow, BreaksOff
  <1>5. \A d \in Client \ {c} : ~client[d].alone
    BY <1>1 DEF FollowInv, AloneInv
  <1>6. ~mixed' \/ client[c].alone => \A d \in Client \ {c} : client'[d].pc = "idle"
    BY <1>1, <1>2, <1>4 DEF FollowInv, AloneInv, MeetInv
  <1>7. AloneInv'
    BY <1>2, <1>3, <1>5, <1>6 DEF FollowInv, AloneInv
  <1>8. MeetInv'
    BY <1>3, <1>4, <1>6 DEF FollowInv, MeetInv, AloneInv
  <1>9. FileInv'
    <2>1. client'[c].pc \in RowWriting => session' = FilePut(client'[c].pc)
      BY <1>1 DEF ReadsOn, PutsFile, PutsRow, BreaksOff, GoesTo, RowWriting
    <2>2. \A d \in Client \ {c} : client'[d].alone \/ ~mixed' => client'[d].pc \notin RowWriting
      BY <1>2, <1>5, <1>6 DEF RowWriting
    <2> QED BY <2>1, <2>2 DEF FileInv
  <1>10. RowInv'
    <2>1. SUFFICES ASSUME ~mixed', Exists', \A d \in Client : client'[d].pc \notin RowWriting
                   PROVE  task' = Follows'
      BY DEF RowInv
    <2>2. CASE ReadsOn(c)
      <3>1. \A d \in Client : client[d].pc \notin RowWriting
        BY <1>2, <2>1, <2>2 DEF ReadsOn
      <3>2. task = Follows
        BY <1>3, <2>1, <2>2, <3>1 DEF ReadsOn, FollowInv, RowInv
      <3> QED BY <2>2, <3>2 DEF ReadsOn, Follows
    <2>3. CASE PutsFile(c)
      BY <2>1, <2>3 DEF PutsFile, GoesTo
    <2>4. CASE PutsRow(c)
      <3>1. session = FilePut(client[c].pc)
        BY <1>4, <2>1, <2>4 DEF PutsRow, FollowInv, FileInv
      <3> QED BY <1>3, <2>1, <2>4, <3>1 DEF PutsRow, Follows
    <2>5. CASE BreaksOff(c)
      BY <2>1, <2>5 DEF BreaksOff
    <2> QED BY <1>1, <2>2, <2>3, <2>4, <2>5
  <1> QED BY <1>7, <1>8, <1>9, <1>10

LEMMA FollowStep ==
  ASSUME FollowInv, [Next]_vars
  PROVE  FollowInv'
  <1> DEFINE Rest == AloneInv /\ MeetInv /\ FileInv /\ RowInv
  <1> SUFFICES Rest'
    BY TypeStep DEF FollowInv
  <1>0. DataTypeOK /\ DecisionTypeOK /\ client \in ClientType
    BY DEF FollowInv, TypeInv, TypeOK, OneClickTypeOK, ClientType
  <1>1. CASE \E c \in Client : ClientServed(c)
    BY <1>1, ServeFollows DEF ClientServed
  <1>2. ASSUME NEW c \in Client, NEW action \in Action, ClientSends(c, action)
        PROVE  Rest'
    <2>1. /\ client[c].pc = "idle" /\ mixed' = (mixed \/ ~Quiet)
          /\ UNCHANGED <<task, ingest, session>>
      BY <1>2 DEF ClientSends, Send, dataVars
    <2>2. /\ client'[c].pc = "authorize" /\ (client'[c].alone => Quiet /\ ingest = "idle")
          /\ \A d \in Client \ {c} : client'[d].pc = client[d].pc /\ ~client'[d].alone
      BY <1>0, <1>2 DEF ClientSends, Send, ClientType
    <2>3. AloneInv'
      BY <2>1, <2>2 DEF AloneInv, Quiet
    <2>4. MeetInv'
      BY <2>1, <2>2 DEF FollowInv, MeetInv, Quiet
    <2>5. FileInv'
      BY <2>1, <2>2 DEF FileInv, Quiet, RowWriting
    <2>6. RowInv'
      BY <2>1, <2>2 DEF FollowInv, RowInv, Exists, Follows, Quiet, RowWriting
    <2> QED BY <2>3, <2>4, <2>5, <2>6
  <1>3. ASSUME UNCHANGED <<client, session, mixed, ingest>>, UNCHANGED task \/ ~Exists'
        PROVE  Rest'
    BY <1>3 DEF FollowInv, AloneInv, MeetInv, FileInv, RowInv, Exists, Follows
  <1>4. CASE TimePasses \/ UNCHANGED vars
    BY <1>3, <1>4 DEF TimePasses, Elapse, dataVars, vars, oneClickVars
  <1>5. CASE Decisions
    <2>1. UNCHANGED <<task, ingest>>
      BY <1>0, <1>5, DecideEffect DEF Decisions, Receive, dataVars
    <2> QED BY <1>3, <1>5, <2>1 DEF Decisions, oneClickVars
  <1>6. CASE TaskDeleted
    BY <1>3, <1>6 DEF TaskDeleted, EraseTask, Exists, oneClickVars
  <1>7. CASE JobRedelivered
    <2>1. mixed' /\ \A c \in Client : ~client'[c].alone
      BY <1>0, <1>7 DEF JobRedelivered, PreviewsMeetIngest, ClientType
    <2> QED BY <2>1 DEF AloneInv, MeetInv, FileInv, RowInv
  <1>8. CASE JobRuns
    <2>1. ingest # "idle" /\ UNCHANGED <<client, session, mixed>>
      BY <1>8 DEF JobRuns, Ingest, IngestStage, IngestRisks, IngestComplete, IngestDies,
         oneClickVars
    <2>2. mixed /\ \A c \in Client : ~client[c].alone
      BY <2>1 DEF FollowInv, MeetInv, AloneInv
    <2> QED BY <2>1, <2>2 DEF AloneInv, MeetInv, FileInv, RowInv
  <1> QED BY <1>1, <1>2, <1>4, <1>5, <1>6, <1>7, <1>8 DEF Next

\* However requests of several tabs are cut short or interleave with each
\* other, the job and a deletion, the last one that ran alone to its end has
\* left the task's row in agreement with the session file.
THEOREM RowAgreesWithSession == Spec => []RowFollowsSession
  <1>1. Init => FollowInv
    <2> SUFFICES ASSUME Init PROVE FollowInv
      OBVIOUS
    <2>1. TypeInv
      BY TypeInit DEF Init, DecisionInit, IdleRequest, TypeInv, RequestsNameParagraphs
    <2>2. /\ \A c \in Client : client[c].pc = "idle" /\ ~client[c].alone
          /\ ingest = "idle" /\ task = Scanned /\ session = "none"
      BY DEF Init, DataInit, OneClickInit, IdleClient
    <2> QED
      BY <2>1, <2>2 DEF FollowInv, AloneInv, MeetInv, FileInv, RowInv, RowWriting, Follows
  <1>2. FollowInv /\ [Next]_vars => FollowInv'
    BY FollowStep
  <1>3. FollowInv => RowFollowsSession
    BY DEF FollowInv, RowInv, RowFollowsSession, Quiet, RowWriting
  <1> QED BY <1>1, <1>2, <1>3, PTL DEF Spec

-----------------------------------------------------------------------------
(* Log and status agree, and a rollback follows what it undoes *)

\* Not past the insert of its operation.
Inserting == {"idle", "authorize", "options", "findings", "option", "latest", "insert"}

\* Nobody met a request that is alone.
CompanyInv ==
  \A r \in Request : request[r].alone /\ request[r].pc \in RequestPc =>
    ingest = "idle" /\ \A q \in Request \ {r} : ~Under(q, ParagraphOf(r))

\* What "undisturbed" says of the present.
CalmInv ==
  \A p \in Paragraph \ disturbed :
    ingest = "idle" /\ \A r \in Request : Under(r, p) => request[r].alone

LoggedInv == \A r \in log : request[r].pc \notin Inserting

FoundInv == Exists => \A p \in Paragraph : finding[p] # "none"

ClockInv == \A r \in Request : stamp[r] <= clock

\* Whoever inserts next to a request that was alone was stamped after it.
OrderInv ==
  \A r, s \in Request :
    /\ r \in log /\ request[r].alone
    /\ request[s].pc = "insert" /\ ParagraphOf(s) = ParagraphOf(r)
    => stamp[r] < stamp[s]

\* An operation that runs alone is the last of its paragraph from its stamp on.
NewestInv ==
  \A r \in Request : request[r].alone /\ request[r].pc \in {"insert", "update", "answer"} =>
    \A q \in log \ {r} : ParagraphOf(q) = ParagraphOf(r) => stamp[q] < stamp[r]

\* A rollback that is about to insert alone has the acceptance it saw.
UndoInv ==
  \A r \in Request :
    /\ Exists /\ request[r].alone
    /\ request[r].pc = "insert" /\ request[r].kind = "rollback"
    => Undoable(ParagraphOf(r))

\* The status is not about to be set, or was set by a request that is alone.
Settled(p) ==
  \/ p \notin disturbed /\ \A r \in Request : Under(r, p) => request[r].pc # "update"
  \/ \E r \in Request :
       ParagraphOf(r) = p /\ request[r].alone /\ request[r].pc = "answer"

AgreeInv == \A p \in Paragraph : Exists /\ Settled(p) => Records(p, finding[p])

KindInv ==
  \A r \in Request : request[r].pc \in {"options", "option"} => request[r].kind # "rollback"

LogInv ==
  /\ KindInv /\ LoggedInv /\ ClockInv /\ OrderInv /\ NewestInv /\ UndoInv
  /\ RollbackUndoesAccept

StatusInv == CompanyInv /\ CalmInv /\ FoundInv /\ AgreeInv

LedgerInv == TypeInv /\ LogInv /\ StatusInv

(* What a request does, one call at a time. *)

Looks(r) ==
  /\ request[r].pc \in RequestPc \ {"insert", "update", "answer"}
  /\ \E pc \in {"options", "findings", "option", "latest", "refused", "failed"} :
       Goto(r, pc) /\ (pc \in {"options", "option"} => request[r].kind # "rollback")
  /\ UNCHANGED <<stampVars, log, finding, disturbed>>

Stamps(r) ==
  /\ request[r].pc \in {"options", "option", "findings", "latest"}
  /\ Stamp(r)
  /\ request[r].kind = "rollback" => Undoable(ParagraphOf(r))
  /\ UNCHANGED <<log, finding, disturbed>>

Logs(r) ==
  /\ request[r].pc = "insert" /\ Goto(r, "update")
  /\ Exists /\ log' = log \cup {r}
  /\ UNCHANGED <<stampVars, finding, disturbed>>

Sets(r) ==
  /\ request[r].pc = "update"
  /\ SetHandling(ParagraphOf(r), Outcome(request[r].kind))
  /\ (Goto(r, "answer") /\ UNCHANGED disturbed) \/ Finish(r)
  /\ UNCHANGED <<stampVars, log>>

Answers(r) ==
  /\ request[r].pc = "answer"
  /\ Finish(r) \/ (Goto(r, "failed") /\ UNCHANGED disturbed)
  /\ UNCHANGED <<stampVars, log, finding>>

Aborts(r) ==
  /\ CutShort(r) /\ UNCHANGED stampVars
  /\ \/ /\ request[r].pc = "insert" /\ UNCHANGED finding
        /\ UNCHANGED log \/ (Exists /\ log' = log \cup {r})
     \/ /\ request[r].pc = "update" /\ UNCHANGED log
        /\ \/ UNCHANGED finding
           \/ SetHandling(ParagraphOf(r), Outcome(request[r].kind))

LEMMA DecideSteps ==
  ASSUME KindInv, NEW r \in Request, Decide(r)
  PROVE  Looks(r) \/ Stamps(r) \/ Logs(r) \/ Sets(r) \/ Answers(r) \/ Aborts(r)
  <1>1. CASE Authorize(r)
    BY <1>1 DEF Authorize, FailClean, Returns, Throws, Looks, RequestPc, Kind
  <1>2. ASSUME NEW pc \in {"options", "option"}, CheckOption(r, pc)
        PROVE  Looks(r) \/ Stamps(r)
    BY <1>2 DEF CheckOption, FailClean, Returns, Throws, Looks, Stamps, RequestPc, KindInv
  <1>3. CASE CheckFinding(r)
    BY <1>3 DEF CheckFinding, FailClean, Returns, Throws, Looks, Stamps, RequestPc
  <1>4. CASE CheckLatest(r)
    BY <1>4 DEF CheckLatest, FailClean, Returns, Throws, Looks, Stamps, RequestPc
  <1>5. CASE Insert(r)
    BY <1>5 DEF Insert, Inserted, Returns, Throws, Logs, Aborts
  <1>6. CASE Update(r)
    BY <1>6 DEF Update, Returns, Throws, Sets, Aborts
  <1>7. CASE Answer(r)
    BY <1>7 DEF Answer, FailClean, Returns, Throws, Answers
  <1> QED BY <1>1, <1>2, <1>3, <1>4, <1>5, <1>6, <1>7 DEF Decide

\* A request that takes a step changes its own place and nothing else of any
\* request, and leaves the row and the job alone.
LEMMA DecideKeeps ==
  ASSUME TypeInv, NEW r \in Request, Decide(r)
  PROVE  /\ request[r].pc \in RequestPc
         /\ \A q \in Request : /\ request'[q].kind = request[q].kind
                               /\ request'[q].paragraph = request[q].paragraph
                               /\ request'[q].alone = request[q].alone
         /\ \A q \in Request \ {r} : request'[q].pc = request[q].pc
         /\ \A pc : Goto(r, pc) => request'[r].pc = pc
         /\ Exists' <=> Exists
         /\ ingest' = ingest
  <1>0. DataTypeOK /\ DecisionTypeOK
    BY DEF TypeInv, TypeOK
  <1>1. PICK pc \in {"ok", "refused", "failed"} \cup RequestPc : Goto(r, pc)
    BY <1>0, DecideMoves
  <1>2. request[r].pc \in RequestPc
    BY DEF Decide, Authorize, CheckOption, CheckFinding, CheckLatest, Insert, Update,
       Answer, RequestPc
  <1>3. task' = task /\ ingest' = ingest
    BY <1>0, DecideEffect
  <1> QED BY <1>0, <1>1, <1>2, <1>3 DEF Goto, DecisionTypeOK, Exists

\* What is read from the log of a paragraph depends on its operations, their
\* stamps and what they ask for.
LEMMA LogRead ==
  ASSUME NEW p, NEW status,
         \A q : q \in log' /\ request'[q].paragraph = p <=> q \in log /\ request[q].paragraph = p,
         \A q \in log : request[q].paragraph = p =>
           request'[q].kind = request[q].kind /\ stamp'[q] = stamp[q]
  PROVE  /\ Records(p, status)' <=> Records(p, status)
         /\ Undoable(p)' <=> Undoable(p)
  <1>1. ASSUME NEW q PROVE Latest(q, p)' <=> Latest(q, p)
    BY DEF Latest, ParagraphOf
  <1>2. ASSUME NEW q, Latest(q, p)
        PROVE  q \in log /\ q \in log' /\ request'[q].kind = request[q].kind
    BY <1>2 DEF Latest, ParagraphOf
  <1>3. Undoable(p)' <=> Undoable(p)
    BY <1>1, <1>2 DEF Undoable
  <1>4. (\A q \in log' : request'[q].paragraph # p) <=> (\A q \in log : request[q].paragraph # p)
    OBVIOUS
  <1>5. (\E q \in log' : Latest(q, p)' /\ status = Outcome(request'[q].kind))
          <=> (\E q \in log : Latest(q, p) /\ status = Outcome(request[q].kind))
    BY <1>1, <1>2
  <1> QED BY <1>3, <1>4, <1>5 DEF Records, Outcome, ParagraphOf

\* Company: who was alone stays so, who ends alone leaves an undisturbed
\* paragraph.
LEMMA DecideCompany ==
  ASSUME LedgerInv, NEW r \in Request, Decide(r)
  PROVE  CompanyInv' /\ CalmInv' /\ FoundInv'
  <1> USE DEF LedgerInv, LogInv, StatusInv
  <1>0. DataTypeOK /\ DecisionTypeOK
    BY DEF TypeInv, TypeOK
  <1>1. /\ request[r].pc \in RequestPc
        /\ \A q \in Request : /\ request'[q].paragraph = request[q].paragraph
                              /\ request'[q].alone = request[q].alone
        /\ \A q \in Request \ {r} : request'[q].pc = request[q].pc
        /\ \A pc : Goto(r, pc) => request'[r].pc = pc
        /\ Exists' <=> Exists
        /\ ingest' = ingest
    BY DecideKeeps
  <1>2. Looks(r) \/ Stamps(r) \/ Logs(r) \/ Sets(r) \/ Answers(r) \/ Aborts(r)
    BY DecideSteps
  <1>3. ASSUME NEW q \in Request, NEW p, Under(q, p)'
        PROVE  Under(q, p)
    BY <1>1, <1>3 DEF Under, ParagraphOf
  <1>4. CompanyInv'
    BY <1>1, <1>3 DEF CompanyInv, Under, ParagraphOf
  <1>5. \/ disturbed \subseteq disturbed'
        \/ /\ disturbed' = disturbed \ {ParagraphOf(r)}
           /\ request[r].alone /\ request'[r].pc = "ok"
    BY <1>1, <1>2 DEF Looks, Stamps, Logs, Sets, Answers, Aborts, CutShort, Finish
  <1>6. CalmInv'
    <2>1. SUFFICES ASSUME NEW p \in Paragraph, p \notin disturbed'
                   PROVE  ingest' = "idle" /\ \A q \in Request : Under(q, p)' => request'[q].alone
      BY DEF CalmInv
    <2>2. CASE p \notin disturbed
      BY <1>1, <1>3, <2>2 DEF CalmInv
    <2>3. CASE p \in disturbed
      <3>1. p = ParagraphOf(r) /\ request[r].alone /\ request'[r].pc = "ok"
        BY <1>5, <2>1, <2>3
      <3>2. ingest = "idle" /\ \A q \in Request \ {r} : ~Under(q, p)
        BY <1>1, <3>1 DEF CompanyInv
      <3> QED BY <1>1, <1>3, <3>1, <3>2 DEF Under, RequestPc
    <2> QED BY <2>2, <2>3
  <1>7. UNCHANGED finding \/ SetHandling(ParagraphOf(r), Outcome(request[r].kind))
    BY <1>2 DEF Looks, Stamps, Logs, Sets, Answers, Aborts
  <1>8. Outcome(request[r].kind) # "none"
    BY <1>0 DEF DecisionTypeOK, Outcome, Kind
  <1>9. FoundInv'
    BY <1>0, <1>1, <1>7, <1>8 DEF FoundInv, SetHandling, DataTypeOK
  <1> QED BY <1>4, <1>6, <1>9

\* An insert by a request that is alone comes after all of the paragraph's
\* operations, one by another request after those that ran alone.
LEMMA DecideLog ==
  ASSUME LedgerInv, NEW r \in Request, Decide(r)
  PROVE  LogInv'
  <1> USE DEF LedgerInv, LogInv, StatusInv
  <1>0. DataTypeOK /\ DecisionTypeOK
    BY DEF TypeInv, TypeOK
  <1>1. /\ request[r].pc \in RequestPc
        /\ \A q \in Request : /\ request'[q].kind = request[q].kind
                              /\ request'[q].paragraph = request[q].paragraph
                              /\ request'[q].alone = request[q].alone
        /\ \A q \in Request \ {r} : request'[q].pc = request[q].pc
        /\ \A pc : Goto(r, pc) => request'[r].pc = pc
        /\ Exists' <=> Exists
    BY DecideKeeps
  <1>2. Looks(r) \/ Stamps(r) \/ Logs(r) \/ Sets(r) \/ Answers(r) \/ Aborts(r)
    BY DecideSteps
  <1>3. \/ UNCHANGED stampVars /\ request'[r].pc # "insert"
        \/ /\ Stamp(r) /\ UNCHANGED log /\ request[r].pc \in Inserting \ {"insert"}
           /\ request'[r].pc = "insert"
           /\ request[r].kind = "rollback" => Undoable(ParagraphOf(r))
    BY <1>1, <1>2 DEF Looks, Stamps, Logs, Sets, Answers, Aborts, Finish, CutShort, Inserting,
       Stamp
  <1>4. \/ UNCHANGED log
        \/ /\ request[r].pc = "insert" /\ Exists /\ log' = log \cup {r}
           /\ request'[r].pc \in {"update", "failed"} /\ UNCHANGED stampVars
    <2>1. CASE Logs(r)
      BY <1>1, <2>1 DEF Logs
    <2>2. CASE Aborts(r)
      BY <1>1, <2>2 DEF Aborts, CutShort
    <2>3. CASE Looks(r) \/ Stamps(r) \/ Sets(r) \/ Answers(r)
      BY <2>3 DEF Looks, Stamps, Sets, Answers
    <2> QED BY <1>2, <2>1, <2>2, <2>3
  <1>5. request[r].pc \notin Inserting => request'[r].pc \notin Inserting
    <2>1. CASE Looks(r) \/ Stamps(r)
      BY <2>1 DEF Looks, Stamps, Inserting, RequestPc
    <2>2. CASE Logs(r) \/ Sets(r) \/ Answers(r) \/ Aborts(r)
      BY <1>1, <2>2 DEF Logs, Sets, Answers, Aborts, Finish, CutShort, Inserting
    <2> QED BY <1>2, <2>1, <2>2
  <1>6. log \subseteq log' /\ log \subseteq Request
    BY <1>0, <1>4 DEF DecisionTypeOK
  <1>7. /\ \A q \in Request : stamp[q] \in Nat /\ stamp'[q] \in Nat
        /\ \A q \in Request \ {r} : stamp'[q] = stamp[q]
        /\ \A q \in log : stamp'[q] = stamp[q]
    BY <1>0, <1>3, <1>6 DEF DecisionTypeOK, stampVars, Stamp, LoggedInv
  <1>8. KindInv'
    <2>1. request'[r].pc \in {"options", "option"} => request[r].kind # "rollback"
      BY <1>1, <1>2 DEF Looks, Stamps, Logs, Sets, Answers, Aborts, Finish, CutShort, Stamp
    <2> QED BY <1>1, <2>1 DEF KindInv
  <1>9. LoggedInv'
    <2>1. ASSUME NEW q \in log PROVE request'[q].pc \notin Inserting
      BY <1>1, <1>5, <1>6 DEF LoggedInv
    <2> QED BY <1>4, <2>1 DEF LoggedInv, Inserting
  <1>10. ClockInv'
    BY <1>0, <1>3 DEF ClockInv, DecisionTypeOK, stampVars, Stamp
  <1>11. OrderInv'
    <2>1. SUFFICES ASSUME NEW q \in log', NEW s \in Request, request[q].alone,
                          request'[s].pc = "insert",
                          request[s].paragraph = request[q].paragraph
                   PROVE  stamp'[q] < stamp'[s]
      BY <1>1, <1>6 DEF OrderInv, ParagraphOf
    <2>2. q # s
      BY <1>9, <2>1 DEF LoggedInv, Inserting
    <2>3. CASE q \notin log
      <3>1. q = r /\ request[r].pc = "insert"
        BY <1>4, <2>1, <2>3
      <3>2. ~Under(s, ParagraphOf(r))
        BY <2>1, <2>2, <3>1 DEF CompanyInv, RequestPc
      <3> QED BY <1>1, <2>1, <2>2, <3>1, <3>2 DEF Under, ParagraphOf, RequestPc
    <2>4. CASE q \in log /\ s # r
      BY <1>1, <1>6, <1>7, <2>1, <2>4 DEF OrderInv, ParagraphOf
    <2>5. CASE q \in log /\ s = r
      <3>1. stamp'[r] = clock + 1
        BY <1>0, <1>3, <2>1, <2>5 DEF Stamp, DecisionTypeOK
      <3>2. stamp[q] <= clock
        BY <1>6, <2>5 DEF ClockInv
      <3> QED BY <1>0, <1>6, <1>7, <2>5, <3>1, <3>2 DEF DecisionTypeOK
    <2> QED BY <2>3, <2>4, <2>5
  <1>12. NewestInv'
    <2>1. SUFFICES ASSUME NEW s \in Request, request[s].alone,
                          request'[s].pc \in {"insert", "update", "answer"},
                          NEW q \in log' \ {s}, request[q].paragraph = request[s].paragraph
                   PROVE  stamp'[q] < stamp'[s]
      BY <1>0, <1>1, <1>4, <1>6 DEF NewestInv, ParagraphOf
    <2>2. CASE s # r
      <3>1. request[s].pc \in {"insert", "update", "answer"}
        BY <1>1, <2>1, <2>2
      <3>2. ~Under(r, ParagraphOf(s))
        BY <2>1, <2>2, <3>1 DEF CompanyInv, RequestPc
      <3>3. q # r
        BY <1>1, <2>1, <3>2 DEF Under, ParagraphOf
      <3>4. q \in log
        BY <1>4, <2>1, <3>3
      <3> QED BY <1>6, <1>7, <2>1, <2>2, <3>1, <3>4 DEF NewestInv, ParagraphOf
    <2>3. CASE s = r /\ request'[r].pc = "insert"
      <3>1. stamp'[r] = clock + 1 /\ log' = log
        BY <1>0, <1>3, <2>3 DEF Stamp, DecisionTypeOK
      <3>2. stamp[q] <= clock
        BY <1>6, <2>1, <3>1 DEF ClockInv
      <3> QED BY <1>0, <1>6, <1>7, <2>1, <2>3, <3>1, <3>2 DEF DecisionTypeOK
    <2>4. CASE s = r /\ request'[r].pc # "insert"
      <3>1. request[r].pc \in {"insert", "update"} /\ stamp' = stamp
        <4>1. CASE Logs(r) \/ Sets(r)
          BY <4>1 DEF Logs, Sets, stampVars
        <4>2. CASE Looks(r) \/ Stamps(r)
          BY <1>1, <2>1, <2>4, <4>2 DEF Looks, Stamps, Stamp
        <4>3. CASE Answers(r) \/ Aborts(r)
          BY <1>1, <2>1, <2>4, <4>3 DEF Answers, Aborts, Finish, CutShort
        <4> QED BY <1>2, <4>1, <4>2, <4>3
      <3>2. q \in log
        BY <1>4, <2>1, <2>4
      <3> QED BY <2>1, <2>4, <3>1, <3>2 DEF NewestInv, ParagraphOf
    <2> QED BY <2>2, <2>3, <2>4
  <1>13. UndoInv'
    <2>1. SUFFICES ASSUME NEW s \in Request, Exists, request[s].alone,
                          request'[s].pc = "insert", request[s].kind = "rollback"
                   PROVE  Undoable(ParagraphOf(s))'
      BY <1>1 DEF UndoInv
    <2>2. /\ Undoable(ParagraphOf(s))
          /\ \A q : q \in log' /\ request'[q].paragraph = ParagraphOf(s)
                      <=> q \in log /\ request[q].paragraph = ParagraphOf(s)
      <3>1. CASE s = r
        BY <1>1, <1>3, <1>4, <1>6, <2>1, <3>1
      <3>2. CASE s # r
        <4>1. request[s].pc = "insert"
          BY <1>1, <2>1, <3>2
        <4>2. ~Under(r, ParagraphOf(s))
          BY <2>1, <3>2, <4>1 DEF CompanyInv, RequestPc
        <4>3. request[r].paragraph # request[s].paragraph
          BY <1>1, <4>2 DEF Under, ParagraphOf
        <4>4. /\ Undoable(ParagraphOf(s))
              /\ \A q : q \in log' /\ request'[q].paragraph = ParagraphOf(s)
                          <=> q \in log /\ request[q].paragraph = ParagraphOf(s)
          BY <1>1, <1>4, <1>6, <2>1, <4>1, <4>3 DEF UndoInv, ParagraphOf
        <4> QED BY <4>4
      <3> QED BY <3>1, <3>2
    <2>3. \A p : p = ParagraphOf(s) => (Undoable(p)' <=> Undoable(p))
      BY <1>1, <1>6, <1>7, <2>2, LogRead
    <2>4. ParagraphOf(s)' = ParagraphOf(s)
      BY <1>1 DEF ParagraphOf
    <2> QED BY <2>2, <2>3, <2>4 DEF Undoable, Latest
  <1>14. RollbackUndoesAccept'
    <2>1. SUFFICES ASSUME NEW s \in log', request[s].kind = "rollback", request[s].alone
                   PROVE  \E q \in log' : Precedes(q, s)' /\ request[q].kind = "accept"
      BY <1>0, <1>1, <1>4, <1>6 DEF RollbackUndoesAccept
    <2>2. CASE s \in log
      <3>1. PICK q \in log : Precedes(q, s) /\ request[q].kind = "accept"
        BY <2>1, <2>2 DEF RollbackUndoesAccept
      <3>2. \A t \in log' \ log : request[t].paragraph = request[s].paragraph =>
              stamp[s] < stamp[t]
        BY <1>4, <1>6, <2>1, <2>2 DEF OrderInv, ParagraphOf
      <3>3. \A t \in log' \ log : stamp'[t] = stamp[t]
        BY <1>4 DEF stampVars
      <3>4. \A t \in log' : stamp'[t] = stamp[t] /\ request'[t].paragraph = request[t].paragraph
        BY <1>0, <1>1, <1>4, <1>7, <3>3 DEF DecisionTypeOK
      <3>5. \A t \in log' : request[t].paragraph = request[s].paragraph =>
              stamp[t] <= stamp[q] \/ stamp[s] <= stamp[t]
        BY <1>0, <1>4, <1>6, <1>7, <2>2, <3>1, <3>2 DEF Precedes, ParagraphOf
      <3>6. Precedes(q, s)'
        BY <1>6, <2>2, <3>1, <3>4, <3>5 DEF Precedes, ParagraphOf
      <3> QED BY <1>6, <3>1, <3>6
    <2>3. CASE s \notin log
      <3>1. /\ s = r /\ request[r].pc = "insert" /\ Exists
            /\ log' = log \cup {r} /\ UNCHANGED stampVars
        BY <1>4, <2>1, <2>3
      <3>2. PICK q \in log : Latest(q, ParagraphOf(r)) /\ request[q].kind = "accept"
        BY <2>1, <3>1 DEF UndoInv, Undoable
      <3>3. stamp[q] < stamp[r]
        BY <2>1, <2>3, <3>1, <3>2 DEF NewestInv, Latest
      <3>4. \A t \in log' : request[t].paragraph = request[r].paragraph =>
              stamp[t] <= stamp[q] \/ stamp[r] <= stamp[t]
        BY <1>7, <3>1, <3>2 DEF Latest, ParagraphOf
      <3>5. \A t \in log' : stamp'[t] = stamp[t] /\ request'[t].paragraph = request[t].paragraph
        BY <1>0, <1>1, <1>6, <3>1 DEF stampVars
      <3>6. Precedes(q, r)'
        BY <1>6, <3>1, <3>2, <3>3, <3>4, <3>5 DEF Precedes, Latest, ParagraphOf
      <3> QED BY <1>6, <3>1, <3>2, <3>6
    <2> QED BY <2>2, <2>3
  <1> QED BY <1>8, <1>9, <1>10, <1>11, <1>12, <1>13, <1>14 DEF LogInv

\* A request that is alone sets the status to what its operation, the last of
\* the paragraph, says.
LEMMA DecideAgrees ==
  ASSUME LedgerInv, UpdateIsLogged, NEW r \in Request, Decide(r)
  PROVE  AgreeInv'
  <1> USE DEF LedgerInv, LogInv, StatusInv
  <1>0. DataTypeOK /\ DecisionTypeOK
    BY DEF TypeInv, TypeOK
  <1>1. /\ request[r].pc \in RequestPc
        /\ \A q \in Request : /\ request'[q].kind = request[q].kind
                              /\ request'[q].paragraph = request[q].paragraph
                              /\ request'[q].alone = request[q].alone
        /\ \A q \in Request \ {r} : request'[q].pc = request[q].pc
        /\ \A pc : Goto(r, pc) => request'[r].pc = pc
        /\ Exists' <=> Exists
    BY DecideKeeps
  <1>2. SUFFICES ASSUME NEW p \in Paragraph, Exists, Settled(p)'
                 PROVE  Records(p, finding[p])'
    BY <1>1 DEF AgreeInv
  <1>3. \/ p \notin disturbed' /\ \A q \in Request : Under(q, p)' => request'[q].pc # "update"
        \/ \E q \in Request : /\ request[q].paragraph = p /\ request[q].alone
                              /\ request'[q].pc = "answer"
    BY <1>1, <1>2 DEF Settled, ParagraphOf
  <1>4. ASSUME Settled(p), finding'[p] = finding[p], log' = log,
               \A q \in log : stamp'[q] = stamp[q]
        PROVE  Records(p, finding[p])'
    <2>1. Records(p, finding[p])
      BY <1>2, <1>4 DEF AgreeInv
    <2>2. \A status : Records(p, status)' <=> Records(p, status)
      BY <1>0, <1>1, <1>4, LogRead DEF DecisionTypeOK
    <2> QED BY <1>4, <2>1, <2>2 DEF Records
  <1>5. \A q \in log : stamp'[q] = stamp[q]
    <2>1. UNCHANGED stampVars \/ (Stamp(r) /\ r \notin log)
      BY DecideSteps DEF Looks, Stamps, Logs, Sets, Answers, Aborts, LoggedInv, Inserting
    <2> QED BY <1>0, <2>1 DEF stampVars, Stamp, DecisionTypeOK
  <1>6. CASE p = ParagraphOf(r)
    <2>1. \A q \in Request \ {r} :
            request[q].paragraph = p /\ request[q].alone => request[q].pc # "answer"
      BY <1>1, <1>6 DEF CompanyInv, Under, ParagraphOf, RequestPc
    <2>2. CASE Looks(r) \/ Stamps(r)
      <3>1. log' = log /\ finding' = finding /\ disturbed' = disturbed
        BY <2>2 DEF Looks, Stamps
      <3>2. request[r].pc \notin {"update", "answer"} /\ request'[r].pc # "answer"
        BY <1>1, <2>2 DEF Looks, Stamps, Stamp
      <3>3. Settled(p)
        BY <1>1, <1>3, <2>1, <3>1, <3>2 DEF Settled, Under, ParagraphOf
      <3> QED BY <1>4, <1>5, <3>1, <3>3
    <2>3. CASE Logs(r)
      <3>1. request'[r].pc = "update"
        BY <1>1, <2>3 DEF Logs
      <3>2. Under(r, p)'
        BY <1>1, <1>6, <3>1 DEF Under, ParagraphOf, RequestPc
      <3> QED BY <1>1, <1>3, <2>1, <3>1, <3>2
    <2>4. CASE Sets(r)
      <3>1. request[r].pc = "update" /\ request'[r].pc \in {"answer", "ok"} /\ log' = log
        BY <1>1, <2>4 DEF Sets, Finish
      <3>2. request[r].alone
        <4>1. CASE p \notin disturbed
          BY <1>1, <1>6, <4>1 DEF CalmInv, Under
        <4>2. CASE p \in disturbed /\ p \notin disturbed'
          BY <1>6, <2>4, <4>2 DEF Sets, Finish
        <4>3. CASE \E q \in Request : /\ request[q].paragraph = p /\ request[q].alone
                                      /\ request'[q].pc = "answer"
          BY <1>1, <2>1, <4>3
        <4> QED BY <1>3, <4>1, <4>2, <4>3
      <3>3. Latest(r, p)
        <4>1. r \in log
          BY <1>2, <3>1 DEF UpdateIsLogged
        <4>2. \A q \in log \ {r} : ParagraphOf(q) = p => stamp[q] < stamp[r]
          BY <1>6, <3>1, <3>2 DEF NewestInv
        <4>3. \A q \in log : stamp[q] \in Nat
          BY <1>0 DEF DecisionTypeOK
        <4> QED BY <1>6, <4>1, <4>2, <4>3 DEF Latest
      <3>4. finding'[p] = Outcome(request[r].kind)
        BY <1>0, <1>2, <1>6, <2>4 DEF Sets, SetHandling, FoundInv, DataTypeOK
      <3>5. Latest(r, p)'
        BY <1>0, <1>1, <1>5, <3>1, <3>3 DEF Latest, ParagraphOf, DecisionTypeOK
      <3>6. Outcome(request'[r].kind) = Outcome(request[r].kind)
        BY <1>1
      <3> QED BY <3>3, <3>4, <3>5, <3>6, <3>1 DEF Records, Latest, Outcome
    <2>5. CASE Answers(r)
      <3>1. log' = log /\ finding' = finding /\ request[r].pc = "answer"
        BY <2>5 DEF Answers
      <3>2. request'[r].pc \in {"ok", "failed"}
        BY <1>1, <2>5 DEF Answers, Finish
      <3>3. Settled(p)
        <4>1. p \notin disturbed' /\ \A q \in Request : Under(q, p)' => request'[q].pc # "update"
          BY <1>1, <1>3, <2>1, <3>2
        <4>2. CASE p \in disturbed
          BY <1>6, <2>5, <3>1, <4>1, <4>2 DEF Answers, Finish, Settled
        <4>3. CASE p \notin disturbed
          BY <1>1, <3>1, <4>1, <4>3 DEF Settled, Under, ParagraphOf
        <4> QED BY <4>2, <4>3
      <3> QED BY <1>4, <1>5, <3>1, <3>3
    <2>6. CASE Aborts(r)
      <3>1. p \in disturbed' /\ request'[r].pc = "failed"
        BY <1>1, <1>6, <2>6 DEF Aborts, CutShort
      <3> QED BY <1>1, <1>3, <2>1, <3>1
    <2> QED BY <2>2, <2>3, <2>4, <2>5, <2>6, DecideSteps
  <1>7. CASE p # ParagraphOf(r)
    <2>1. Looks(r) \/ Stamps(r) \/ Logs(r) \/ Sets(r) \/ Answers(r) \/ Aborts(r)
      BY DecideSteps
    <2>2. p \in disturbed => p \in disturbed'
      BY <1>7, <2>1 DEF Looks, Stamps, Logs, Sets, Answers, Aborts, Finish, CutShort
    <2>3. Settled(p)
      BY <1>1, <1>3, <1>7, <2>2 DEF Settled, Under, ParagraphOf
    <2>4. Records(p, finding[p])
      BY <1>2, <2>3 DEF AgreeInv
    <2>5. finding'[p] = finding[p]
      <3>1. UNCHANGED finding \/ SetHandling(ParagraphOf(r), Outcome(request[r].kind))
        BY <2>1 DEF Looks, Stamps, Logs, Sets, Answers, Aborts
      <3> QED BY <1>0, <1>7, <3>1 DEF SetHandling, DataTypeOK
    <2>6. log' = log \/ log' = log \cup {r}
      BY <2>1 DEF Looks, Stamps, Logs, Sets, Answers, Aborts
    <2>7. \A status : Records(p, status)' <=> Records(p, status)
      <3>1. \A q : q \in log' /\ request'[q].paragraph = p
                     <=> q \in log /\ request[q].paragraph = p
        BY <1>0, <1>1, <1>7, <2>6 DEF ParagraphOf, DecisionTypeOK
      <3> QED BY <1>0, <1>1, <1>5, <3>1, LogRead DEF DecisionTypeOK
    <2> QED BY <2>4, <2>5, <2>7 DEF Records
  <1> QED BY <1>6, <1>7

\* Requests may be received and may lose their being alone; log, stamps and
\* what is under way stay.
LEMMA LogKept ==
  ASSUME LedgerInv, Lasting, UNCHANGED <<stampVars, log>>, Exists' => Exists,
         \A q \in Request :
           \/ /\ request'[q].pc = request[q].pc
              /\ request'[q].alone => request[q].alone
           \/ request[q].pc = "idle" /\ request'[q].pc = "authorize"
  PROVE  /\ LogInv'
         /\ \A p \in Paragraph : \A status : Records(p, status)' <=> Records(p, status)
  <1> USE DEF LedgerInv, LogInv
  <1>0. DecisionTypeOK /\ log \subseteq Request /\ stamp' = stamp
    BY DEF TypeInv, TypeOK, DecisionTypeOK, stampVars
  <1>1. \A q \in log : /\ request[q].pc # "idle"
                       /\ request'[q].pc = request[q].pc
                       /\ request'[q].kind = request[q].kind
                       /\ request'[q].paragraph = request[q].paragraph
                       /\ request'[q].alone => request[q].alone
    BY <1>0 DEF LoggedInv, Inserting, Lasting
  <1>2. \A q \in Request : request'[q].pc \notin {"idle", "authorize"} =>
          /\ request'[q].pc = request[q].pc
          /\ request'[q].kind = request[q].kind
          /\ request'[q].paragraph = request[q].paragraph
          /\ request'[q].alone => request[q].alone
    BY DEF Lasting
  <1>3. KindInv'
    BY <1>2 DEF KindInv
  <1>4. LoggedInv'
    BY <1>1 DEF LoggedInv
  <1>5. ClockInv'
    BY DEF ClockInv, stampVars
  <1>6. OrderInv'
    BY <1>0, <1>1, <1>2 DEF OrderInv, ParagraphOf
  <1>7. NewestInv'
    BY <1>0, <1>1, <1>2 DEF NewestInv, ParagraphOf
  <1>8. ASSUME NEW p, NEW status
        PROVE  /\ Records(p, status)' <=> Records(p, status)
               /\ Undoable(p)' <=> Undoable(p)
    BY <1>0, <1>1, LogRead
  <1>9. UndoInv'
    <2>1. SUFFICES ASSUME NEW r \in Request, Exists', request'[r].alone,
                          request'[r].pc = "insert", request'[r].kind = "rollback"
                   PROVE  Undoable(ParagraphOf(r))'
      BY DEF UndoInv
    <2>2. Undoable(ParagraphOf(r))
      BY <1>2, <2>1 DEF UndoInv
    <2>3. ParagraphOf(r)' = ParagraphOf(r)
      BY <1>2, <2>1 DEF ParagraphOf
    <2>4. \A p : p = ParagraphOf(r) => (Undoable(p)' <=> Undoable(p))
      BY <1>8
    <2> QED BY <2>2, <2>3, <2>4 DEF Undoable, Latest
  <1>10. RollbackUndoesAccept'
    <2>1. SUFFICES ASSUME NEW r \in log, request[r].kind = "rollback", request[r].alone
                   PROVE  \E q \in log : Precedes(q, r)' /\ request'[q].kind = "accept"
      BY <1>1 DEF RollbackUndoesAccept
    <2>2. PICK q \in log : Precedes(q, r) /\ request[q].kind = "accept"
      BY <2>1 DEF RollbackUndoesAccept
    <2>3. Precedes(q, r)'
      BY <1>0, <1>1, <2>2 DEF Precedes, ParagraphOf
    <2> QED BY <1>1, <2>2, <2>3
  <1> QED BY <1>3, <1>4, <1>5, <1>6, <1>7, <1>8, <1>9, <1>10 DEF LogInv

\* A request that comes to others ends their being alone.
LEMMA ReceiveLedger ==
  ASSUME LedgerInv, NEW r \in Request, NEW kind \in Kind, NEW p \in Paragraph,
         Receive(r, kind, p)
  PROVE  LogInv' /\ StatusInv'
  <1> USE DEF LedgerInv, StatusInv
  <1>0. DecisionTypeOK
    BY DEF TypeInv, TypeOK
  <1>1. /\ request[r].pc = "idle" /\ request'[r].pc = "authorize"
        /\ request'[r].paragraph = p
        /\ request'[r].alone => ~Active(p) /\ ingest = "idle"
        /\ ~Active(p) /\ ingest = "idle" => request'[r].alone
    BY <1>0 DEF Receive, DecisionTypeOK
  <1>2. \A q \in Request \ {r} :
          /\ request'[q].pc = request[q].pc
          /\ request'[q].kind = request[q].kind
          /\ request'[q].paragraph = request[q].paragraph
          /\ request'[q].alone <=> request[q].alone /\ ~Under(q, p)
    BY <1>0 DEF Receive, DecisionTypeOK
  <1>3. /\ disturbed' = IF Active(p) THEN disturbed \cup {p} ELSE disturbed
        /\ UNCHANGED <<stampVars, log, task, finding, ingest>>
    BY DEF Receive, dataVars
  <1>4. /\ LogInv'
        /\ \A s \in Paragraph : \A status : Records(s, status)' <=> Records(s, status)
        /\ Exists' <=> Exists
    <2>1. Lasting
      BY <1>1, <1>2 DEF Lasting
    <2>2. Exists' <=> Exists
      BY <1>3 DEF Exists
    <2> QED BY <1>1, <1>2, <1>3, <2>1, <2>2, LogKept
  <1>5. \A q \in Request \ {r} : \A s : Under(q, s)' <=> Under(q, s)
    BY <1>2 DEF Under, ParagraphOf
  <1>6. CompanyInv'
    <2>1. SUFFICES ASSUME NEW q \in Request, request'[q].alone, request'[q].pc \in RequestPc
                   PROVE  /\ ingest' = "idle"
                          /\ \A s \in Request \ {q} :
                               request'[s].pc \in RequestPc =>
                                 request'[s].paragraph # request'[q].paragraph
      BY DEF CompanyInv, Under, ParagraphOf
    <2>2. CASE q = r
      BY <1>1, <1>2, <1>3, <2>1, <2>2 DEF Active, Under, ParagraphOf
    <2>3. CASE q # r
      <3>1. ingest = "idle" /\ \A s \in Request \ {q} : ~Under(s, request[q].paragraph)
        BY <1>2, <2>1, <2>3 DEF CompanyInv, ParagraphOf
      <3>2. request[q].paragraph # p
        BY <1>2, <2>1, <2>3 DEF Under, ParagraphOf
      <3> QED BY <1>1, <1>2, <1>3, <1>5, <2>3, <3>1, <3>2 DEF Under, ParagraphOf
    <2> QED BY <2>2, <2>3
  <1>7. CalmInv'
    <2>1. SUFFICES ASSUME NEW s \in Paragraph, s \notin disturbed'
                   PROVE  ingest' = "idle" /\ \A q \in Request : Under(q, s)' => request'[q].alone
      BY DEF CalmInv
    <2>2. ingest = "idle" /\ \A q \in Request : Under(q, s) => request[q].alone
      BY <1>3, <2>1 DEF CalmInv
    <2>3. ASSUME NEW q \in Request, Under(q, s)' PROVE request'[q].alone
      <3>1. CASE q = r
        <4>1. s = p
          BY <1>1, <2>3, <3>1 DEF Under, ParagraphOf
        <4> QED BY <1>1, <1>3, <2>1, <2>2, <3>1, <4>1
      <3>2. CASE q # r
        <4>1. Under(q, s)
          BY <1>5, <2>3, <3>2
        <4>2. ~Under(q, p)
          BY <1>3, <2>1, <4>1 DEF Under, Active
        <4> QED BY <1>2, <2>2, <3>2, <4>1, <4>2
      <3> QED BY <3>1, <3>2
    <2> QED BY <1>3, <2>2, <2>3
  <1>8. FoundInv'
    BY <1>3, <1>4 DEF FoundInv
  <1>9. AgreeInv'
    <2>1. SUFFICES ASSUME NEW s \in Paragraph, Exists, Settled(s)'
                   PROVE  Records(s, finding[s])'
      BY <1>3, <1>4 DEF AgreeInv
    <2>2. Settled(s)
      BY <1>1, <1>2, <1>3, <1>5, <2>1 DEF Settled, ParagraphOf, Under
    <2>3. Records(s, finding[s])
      BY <2>1, <2>2 DEF AgreeInv
    <2> QED BY <1>3, <1>4, <2>3 DEF Records
  <1> QED BY <1>4, <1>6, <1>7, <1>8, <1>9

\* Nothing happens to requests and log, and findings stay or start afresh
\* while no request is alone and no paragraph undisturbed.
LEMMA LedgerKept ==
  ASSUME LedgerInv, UNCHANGED decisionVars, Exists' <=> Exists,
         \/ UNCHANGED <<finding, ingest>>
         \/ /\ ingest # "idle"
            /\ UNCHANGED finding \/ finding' = [p \in Paragraph |-> "pending"]
  PROVE  LogInv' /\ StatusInv'
  <1> USE DEF LedgerInv, StatusInv, decisionVars
  <1>1. /\ LogInv'
        /\ \A p \in Paragraph : \A status : Records(p, status)' <=> Records(p, status)
    BY LogKept DEF Lasting
  <1>2. CASE UNCHANGED <<finding, ingest>>
    BY <1>1, <1>2 DEF CompanyInv, CalmInv, FoundInv, AgreeInv, Settled, Records, Under,
       ParagraphOf
  <1>3. CASE /\ ingest # "idle"
             /\ UNCHANGED finding \/ finding' = [p \in Paragraph |-> "pending"]
    <2>1. /\ \A r \in Request : ~(request[r].alone /\ request[r].pc \in RequestPc)
          /\ \A p \in Paragraph : p \in disturbed
      BY <1>3 DEF CompanyInv, CalmInv
    <2>2. \A p \in Paragraph : ~Settled(p)'
      BY <2>1 DEF Settled, RequestPc
    <2>3. CompanyInv' /\ CalmInv'
      BY <2>1 DEF CompanyInv, CalmInv
    <2>4. FoundInv'
      BY <1>3 DEF FoundInv
    <2> QED BY <1>1, <2>2, <2>3, <2>4 DEF AgreeInv
  <1> QED BY <1>1, <1>2, <1>3

LEMMA LedgerStep ==
  ASSUME LedgerInv, UpdateIsLogged, [Next]_vars
  PROVE  LedgerInv'
  <1> SUFFICES LogInv' /\ StatusInv'
    BY TypeStep DEF LedgerInv
  <1>0. DataTypeOK /\ DecisionTypeOK
    BY DEF LedgerInv, TypeInv, TypeOK
  <1>1. CASE Decisions
    <2>1. ASSUME NEW r \in Request, Decide(r) PROVE LogInv' /\ StatusInv'
      BY <2>1, DecideCompany, DecideLog, DecideAgrees DEF StatusInv
    <2> QED BY <1>1, <2>1, ReceiveLedger DEF Decisions
  <1>2. CASE \E c \in Client : ClientServed(c)
    BY <1>0, <1>2, LedgerKept, ServeEffect DEF ClientServed
  <1>3. CASE \/ \E c \in Client, action \in Action : ClientSends(c, action)
             \/ TimePasses
             \/ UNCHANGED vars
    BY <1>3, LedgerKept DEF ClientSends, Send, TimePasses, Elapse, vars, dataVars, Exists
  <1>4. CASE JobRuns
    <2>1. ingest # "idle" /\ UNCHANGED decisionVars
      BY <1>4 DEF JobRuns, Ingest, IngestStage, IngestRisks, IngestComplete, IngestDies
    <2> QED BY <1>0, <1>4, <2>1, LedgerKept, IngestEffect DEF JobRuns
  <1>5. CASE JobRedelivered
    <2>1. /\ \A r \in Request : /\ request'[r].pc = request[r].pc
                                /\ request'[r].kind = request[r].kind
                                /\ request'[r].paragraph = request[r].paragraph
                                /\ request'[r].alone => /\ request[r].alone
                                                        /\ request[r].pc \notin RequestPc
          /\ disturbed' = Paragraph
          /\ UNCHANGED <<stampVars, log, finding, task>>
      BY <1>0, <1>5 DEF JobRedelivered, Redeliver, DecisionsMeetIngest, DecisionTypeOK
    <2>2. LogInv'
      BY <2>1, LogKept DEF Lasting, Exists
    <2>3. CompanyInv' /\ CalmInv' /\ FoundInv'
      BY <2>1 DEF LedgerInv, StatusInv, CompanyInv, CalmInv, FoundInv, Exists
    <2>4. AgreeInv'
      BY <2>1 DEF AgreeInv, Settled, RequestPc
    <2> QED BY <2>2, <2>3, <2>4 DEF StatusInv
  <1>6. CASE TaskDeleted
    <2>1. /\ log' = {} /\ ~Exists' /\ UNCHANGED <<request, stampVars, disturbed, ingest>>
      BY <1>6 DEF TaskDeleted, EraseTask, EraseLog, Exists
    <2>2. LogInv'
      BY <2>1 DEF LedgerInv, LogInv, KindInv, LoggedInv, ClockInv, OrderInv, NewestInv, UndoInv,
         RollbackUndoesAccept, stampVars
    <2>3. StatusInv'
      BY <2>1 DEF LedgerInv, StatusInv, CompanyInv, CalmInv, FoundInv, AgreeInv, Under,
         ParagraphOf
    <2> QED BY <2>2, <2>3
  <1> QED BY <1>1, <1>2, <1>3, <1>4, <1>5, <1>6 DEF Next

LEMMA LedgerInvariant == Spec => []LedgerInv
  <1>1. Init => LedgerInv
    <2> SUFFICES ASSUME Init PROVE LedgerInv
      OBVIOUS
    <2>1. TypeInv
      BY TypeInit DEF Init, DecisionInit, IdleRequest, TypeInv, RequestsNameParagraphs
    <2>2. /\ log = {} /\ clock = 0 /\ ingest = "idle"
          /\ \A p \in Paragraph : finding[p] = "pending"
          /\ \A r \in Request : /\ request[r].pc = "idle" /\ ~request[r].alone
                                /\ stamp[r] = 0
      BY DEF Init, DecisionInit, DataInit, IdleRequest
    <2>3. LogInv
      BY <2>2 DEF LogInv, KindInv, LoggedInv, ClockInv, OrderInv, NewestInv, UndoInv,
         RollbackUndoesAccept
    <2>4. StatusInv
      BY <2>2 DEF StatusInv, CompanyInv, CalmInv, FoundInv, AgreeInv, Records, Under, RequestPc
    <2> QED BY <2>1, <2>3, <2>4 DEF LedgerInv
  <1>2. LedgerInv /\ EvidenceInv /\ [Next]_vars => LedgerInv'
    BY LedgerStep DEF EvidenceInv
  <1> QED BY <1>1, <1>2, EvidenceInvariant, PTL DEF Spec

\* However requests on a paragraph interleave, stamp in one order and insert
\* in another, fail half way or meet the job, the last one that ran alone to
\* its end has left status and log in agreement.
THEOREM LogFollowed == Spec => []LogAgreesWithStatus
  <1>1. LedgerInv => LogAgreesWithStatus
    <2> SUFFICES ASSUME LedgerInv, NEW p \in Paragraph, Exists, ~Active(p), p \notin disturbed
                 PROVE  Records(p, finding[p])
      BY DEF LogAgreesWithStatus
    <2>1. Settled(p)
      BY DEF Settled, Active
    <2> QED BY <2>1 DEF LedgerInv, StatusInv, AgreeInv
  <1> QED BY <1>1, LedgerInvariant, PTL

\* A rollback that ran alone undoes the acceptance right before it in the log,
\* whatever is inserted before or after it.
THEOREM RollbackFollowsAccept == Spec => []RollbackUndoesAccept
  <1>1. LedgerInv => RollbackUndoesAccept
    BY DEF LedgerInv, LogInv
  <1> QED BY <1>1, LedgerInvariant, PTL

=============================================================================
