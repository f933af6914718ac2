------------------------------ MODULE Workbench ------------------------------
(***************************************************************************)
(* The paragraph workbench of one task: the user's decisions and the       *)
(* one-click preview, which share the task's row and its findings, while   *)
(* the task's job may be redelivered and the task deleted.                 *)
(***************************************************************************)
EXTENDS ParagraphDecisions, OneClick

vars == <<dataVars, decisionVars, oneClickVars>>

TypeOK == DataTypeOK /\ DecisionTypeOK /\ OneClickTypeOK

Init == DataInit /\ DecisionInit /\ OneClickInit

Decisions ==
  /\ \E r \in Request : \/ Decide(r)
                        \/ \E kind \in Kind, p \in Paragraph : Receive(r, kind, p)
  /\ UNCHANGED oneClickVars

ClientServed(c) == Serve(c) /\ UNCHANGED decisionVars

ClientSends(c, action) == Send(c, action) /\ UNCHANGED decisionVars

TimePasses == Elapse /\ UNCHANGED decisionVars

JobRedelivered == Redeliver /\ DecisionsMeetIngest /\ PreviewsMeetIngest

JobRuns == (Ingest \/ IngestDies) /\ UNCHANGED <<decisionVars, oneClickVars>>

TaskDeleted == EraseTask /\ EraseLog /\ UNCHANGED oneClickVars

Next ==
  \/ Decisions
  \/ \E c \in Client : \/ ClientServed(c)
                       \/ \E action \in Action : ClientSends(c, action)
  \/ TimePasses
  \/ JobRedelivered
  \/ JobRuns
  \/ TaskDeleted

Spec == Init /\ [][Next]_vars

\* A request under way is served; time passes; a tab that shows a preview
\* being generated asks again every second (refetchInterval), and the page
\* tells its user to keep it open.
Fairness ==
  /\ WF_vars(TimePasses)
  /\ \A c \in Client : WF_vars(ClientServed(c)) /\ WF_vars(ClientSends(c, "read"))

FairSpec == Spec /\ Fairness

=============================================================================
