----------------------------- MODULE ReviewPage -----------------------------
(***************************************************************************)
(* The risk workbench of a task in the browser: the list of findings in a  *)
(* view (a filter and an order), the selected paragraph, the decision bar  *)
(* and the history panel.  What is shown comes from a cache of answers     *)
(* filled by requests of their own, beside the findings and operations of  *)
(* the server.                                                             *)
(*                                                                         *)
(* The cache is a QueryClient: a list has an entry per view; showing an    *)
(* entry fetches it, unless a fetch is under way; a refresh gives up the   *)
(* fetch under way and starts another, but joins it while the entry has no *)
(* data yet.  The bar allows one decision at a time, but a bar that is     *)
(* built anew for another paragraph does not know of the decision before.  *)
(* No other browser decides: see ParagraphDecisions for that.              *)
(***************************************************************************)
EXTENDS RiskOrder

CONSTANTS
  NoParagraph,   \* null value
  View,          \* views of the list; the page opens with FirstView
  FirstView,
  Filter,        \* handling status each view asks for, or "all"
  Order,         \* order of each view
  Kind,          \* decisions offered
  Earlier,       \* last decisions on each paragraph, taken on earlier visits
  MaxDecisions,  \* bound: decisions sent
  NoDecision,
  MaxExtras      \* bound: refreshes by hand, and reads and decisions that fail
                 \* or whose answers are lost

ASSUME ReviewPageAssumption ==
  /\ NoParagraph \notin Paragraph
  /\ NoDecision \notin 1..MaxDecisions
  /\ FirstView \in View
  /\ Filter \in [View -> Handling \cup {"all"}]
  /\ Order \in [View -> SortMode]
  /\ Kind \subseteq {"accept", "reject", "feedback", "rollback"}
  /\ Earlier \subseteq [Paragraph -> Kind \cup {"none"}]
  /\ {MaxDecisions, MaxExtras} \subseteq Nat

VARIABLES
  ready,     \* server: the task's results may be shown
  status,    \* server: handling status of each finding
  last,      \* server: kind of the last operation recorded for each paragraph
  filter,    \* the view shown
  selected,  \* selectedParagraphId
  list,      \* cache entry of each view
  history,   \* cache entry of the history panel
  deed,      \* what has become of each decision
  busy,      \* the decision the bar waits for: isSubmitting
  extras     \* spent part of the bound

server == <<ready, status, last>>
vars == <<server, filter, selected, list, history, deed, busy, extras>>

\* Decisions are numbered as they are sent.
Decision == 1..MaxDecisions

Outcome(kind) ==
  CASE kind = "accept"   -> "accepted"
    [] kind = "reject"   -> "rejected"
    [] kind = "feedback" -> "ignored"
    [] kind \in {"rollback", "none"} -> "pending"

Untouched == [p \in Paragraph |-> "pending"]

Nothing == [state |-> "none", items |-> Untouched]

\* data is what is shown and answer what is on its way; sound is auxiliary:
\* the fetch under way, or the data when there is none, does not miss a
\* decision because a decision or a read failed or a refresh did not reach it.
NoEntry == [data |-> Nothing, fetch |-> "idle", answer |-> Nothing, sound |-> TRUE]

\* The panel lists the processed paragraphs with their last operations; read
\* has the paragraphs of the first read, and in the end the processed ones that
\* have no operation.  met is auxiliary: an operation or a status changed
\* between the two reads.
NoHistory == [fetch |-> "idle", loaded |-> FALSE, met |-> FALSE, read |-> {}]

\* A decision that is yet to come or over.
Deed(pc) == [pc |-> pc, kind |-> "none", paragraph |-> NoParagraph]

Answers == [state : {"none", "pending", "ready"}, items : [Paragraph -> Handling]]

TypeOK ==
  /\ ready \in BOOLEAN
  /\ status \in [Paragraph -> Handling]
  /\ last \in [Paragraph -> Kind \cup {"none"}]
  /\ filter \in View
  /\ selected \in Paragraph \cup {NoParagraph}
  /\ list \in [View -> [data : Answers, fetch : {"idle", "sent", "answered"},
                        answer : Answers, sound : BOOLEAN]]
  /\ history \in [fetch : {"idle", "sent", "findings", "operations"},
                  loaded : BOOLEAN, met : BOOLEAN, read : SUBSET Paragraph]
  /\ \A d \in Decision :
       deed[d] \in {Deed("none"), Deed("over")}
                   \cup [pc : {"sent", "recorded", "answered"}, kind : Kind,
                         paragraph : Paragraph]
  /\ busy # NoDecision => deed[busy].pc \in {"sent", "recorded", "answered"}
  /\ extras \in 0..MaxExtras

\* The page is opened while the scan, or a preview begun on an earlier visit,
\* is under way, or later; it asks at once.
Init ==
  /\ ready \in BOOLEAN
  /\ last \in Earlier
  /\ status = [p \in Paragraph |-> Outcome(last[p])]
  /\ filter = FirstView
  /\ selected = NoParagraph
  /\ list = [[v \in View |-> NoEntry] EXCEPT ![FirstView].fetch = "sent"]
  /\ history = NoHistory
  /\ deed = [d \in Decision |-> Deed("none")]
  /\ busy = NoDecision
  /\ extras = 0

\* A refresh by hand, or a fault.
Extra ==
  /\ extras < MaxExtras
  /\ extras' = extras + 1

-----------------------------------------------------------------------------
(* The list *)

\* readAuthorizedTaskRisks
CurrentAnswer ==
  IF ready THEN [state |-> "ready", items |-> status]
  ELSE [state |-> "pending", items |-> Untouched]

Matches(v, handling) == Filter[v] \in {"all", handling}

\* The paragraphs a list shows: a list that is loading or pending shows none.
Listed(v, data) ==
  IF data.state = "ready" THEN {p \in Paragraph : Matches(v, data.items[p])} ELSE {}

Shown == Listed(filter, list[filter].data)

\* Another paragraph has another history; and another bar, unless all its texts
\* are at hand already.
TurnTo(p) ==
  /\ selected' = p
  /\ busy' \in IF p = selected THEN {busy}
               ELSE IF p = NoParagraph THEN {NoDecision} ELSE {NoDecision, busy}
  /\ history' = IF p = selected THEN history
                ELSE IF p = NoParagraph THEN NoHistory
                ELSE [NoHistory EXCEPT !.fetch = "sent"]

\* A selection that is not listed moves to the top of the list.
Reselect ==
  LET data   == list'[filter'].data
      listed == Listed(filter', data)
  IN IF listed = {} THEN TurnTo(NoParagraph)
     ELSE IF selected \in listed THEN TurnTo(selected)
     ELSE TurnTo(Top(Order[filter'], data.items, listed))

Start(entry) == [entry EXCEPT !.fetch = "sent", !.answer = Nothing, !.sound = TRUE]

\* Showing an entry fetches it, unless that is under way.
Mounted(entry) == IF entry.fetch = "idle" THEN Start(entry) ELSE entry

\* What a decision did is not in it; nothing is missing where there is nothing.
Unsound(entry) == IF entry = NoEntry THEN entry ELSE [entry EXCEPT !.sound = FALSE]

\* Mutant of Refetched: a refresh joins whatever is under way.
RefetchedOnce(entry) == Mounted(entry)

\* cancelRefetch: a fetch is given up for a new one, if there is data to show.
Refetched(entry) ==
  IF entry.fetch = "idle" \/ entry.data.state # "none" THEN Start(entry)
  ELSE Unsound(entry)

ListAnswered(v) ==
  /\ list[v].fetch = "sent"
  /\ list' = [list EXCEPT ![v].fetch = "answered", ![v].answer = CurrentAnswer]
  /\ UNCHANGED <<server, filter, selected, history, deed, busy, extras>>

ListShown(v) ==
  /\ list[v].fetch = "answered"
  /\ list' = [list EXCEPT ![v].fetch = "idle", ![v].answer = Nothing,
                          ![v].data = list[v].answer]
  /\ UNCHANGED filter
  /\ Reselect
  /\ UNCHANGED <<server, deed, extras>>

\* A failed fetch leaves what is shown.
Failed(entry) == Unsound([NoEntry EXCEPT !.data = entry.data])

ListLost(v) ==
  /\ list[v].fetch # "idle"
  /\ Extra
  /\ list' = [list EXCEPT ![v] = Failed(@)]
  /\ UNCHANGED filter
  /\ Reselect
  /\ UNCHANGED <<server, deed>>

\* refetchInterval
ListTick ==
  /\ list[filter].data.state = "pending"
  /\ list[filter].fetch = "idle"
  /\ list' = [list EXCEPT ![filter] = Start(@)]
  /\ UNCHANGED <<server, filter, selected, history, deed, busy, extras>>

-----------------------------------------------------------------------------
(* The history panel: readAuthorizedTaskEditHistory reads side by side *)

Processed == {p \in Paragraph : status[p] # "pending"}
Operated == {p \in Paragraph : last[p] # "none"}

ReadFirst(kind, paragraphs) ==
  /\ history.fetch = "sent"
  /\ history' = [history EXCEPT !.fetch = kind, !.met = FALSE, !.read = paragraphs]

ReadSecond(kind, paragraphs) ==
  /\ history.fetch = kind
  /\ history' = [history EXCEPT !.fetch = "idle", !.loaded = TRUE, !.read = paragraphs]

HistoryReads ==
  /\ \/ ReadFirst("findings", Processed)
     \/ ReadFirst("operations", Operated)
     \/ ReadSecond("findings", history.read \ Operated)
     \/ ReadSecond("operations", Processed \ history.read)
  /\ UNCHANGED <<server, filter, selected, list, deed, busy, extras>>

HistoryLost ==
  /\ history.fetch # "idle"
  /\ Extra
  /\ history' = NoHistory
  /\ UNCHANGED <<server, filter, selected, list, deed, busy>>

\* An operation or a status that changes meets a read of the history.
Meets == [history EXCEPT !.met = @ \/ history.fetch \in {"findings", "operations"}]

-----------------------------------------------------------------------------
(* The user *)

ChooseView(v) ==
  /\ v # filter
  /\ filter' = v
  /\ list' = [list EXCEPT ![v] = Mounted(@)]
  /\ Reselect
  /\ UNCHANGED <<server, deed, extras>>

\* From the list, or from the history panel: what is not listed does not stay
\* selected.
Select(p) ==
  /\ p \in Shown
  /\ p # selected
  /\ TurnTo(p)
  /\ UNCHANGED <<server, filter, list, deed, extras>>

\* findNextPendingParagraphId, and the button that goes there.
Continue ==
  LET data == list[filter].data
      next == {p \in Shown \ {selected} : data.items[p] = "pending"}
  IN /\ busy = NoDecision
     /\ next # {}
     /\ TurnTo(Top(Order[filter], data.items, next))
     /\ UNCHANGED <<server, filter, list, deed, extras>>

RefreshList ==
  /\ Extra
  /\ list' = [list EXCEPT ![filter] = IF @.data.state = "none" THEN Mounted(@)
                                      ELSE Start(@)]
  /\ UNCHANGED <<server, filter, selected, history, deed, busy>>

\* What the bar offers for the status it shows.
Offered(kind, handling) ==
  CASE kind = "accept"   -> handling # "accepted"
    [] kind = "reject"   -> TRUE
    [] kind = "feedback" -> handling = "pending"
    [] kind = "rollback" -> handling = "accepted"

Decide(d, kind) ==
  /\ \A e \in Decision : deed[e].pc = "none" <=> e >= d
  /\ busy = NoDecision
  /\ selected \in Shown
  /\ Offered(kind, list[filter].data.items[selected])
  /\ deed' = [deed EXCEPT ![d] = [pc |-> "sent", kind |-> kind, paragraph |-> selected]]
  /\ busy' = d
  /\ UNCHANGED <<server, filter, selected, list, history, extras>>

-----------------------------------------------------------------------------
(* A decision and what follows it *)

\* Mutant of Ends: a failure leaves the bar waiting.
EndsBusy(d) ==
  /\ deed' = [deed EXCEPT ![d] = Deed("over")]
  /\ UNCHANGED busy

\* The bar, if it is still there, is free again.
Ends(d) ==
  /\ deed' = [deed EXCEPT ![d] = Deed("over")]
  /\ busy' = IF busy = d THEN NoDecision ELSE busy

\* A failed decision refreshes nothing, whatever it has done.
FailsToEnd(d) ==
  /\ Ends(d)
  /\ list' = [v \in View |-> Unsound(list[v])]

Refused(d) == deed[d].kind = "rollback" /\ last[deed[d].paragraph] # "accept"

\* Mutant of Recorded: the operation is recorded on a best-effort basis.
RecordedBestEffort(d) ==
  /\ deed[d].pc = "sent" /\ ~Refused(d)
  /\ \/ last' = [last EXCEPT ![deed[d].paragraph] = deed[d].kind] /\ UNCHANGED extras
     \/ Extra /\ UNCHANGED last
  /\ deed' = [deed EXCEPT ![d].pc = "recorded"]
  /\ history' = Meets
  /\ UNCHANGED <<ready, status, filter, selected, list, busy>>

Recorded(d) ==
  /\ deed[d].pc = "sent" /\ ~Refused(d)
  /\ last' = [last EXCEPT ![deed[d].paragraph] = deed[d].kind]
  /\ deed' = [deed EXCEPT ![d].pc = "recorded"]
  /\ history' = Meets
  /\ UNCHANGED <<ready, status, filter, selected, list, busy, extras>>

DecisionRefused(d) ==
  /\ deed[d].pc = "sent" /\ Refused(d)
  /\ FailsToEnd(d)
  /\ UNCHANGED <<server, filter, selected, history, extras>>

Updated(d) ==
  /\ deed[d].pc = "recorded"
  /\ status' = [status EXCEPT ![deed[d].paragraph] = Outcome(deed[d].kind)]
  /\ deed' = [deed EXCEPT ![d].pc = "answered"]
  /\ history' = Meets
  /\ UNCHANGED <<ready, last, filter, selected, list, busy, extras>>

\* A call of the handler throws, or the answer is lost.
DecisionLost(d) ==
  /\ deed[d].pc \in {"sent", "recorded", "answered"}
  /\ Extra
  /\ FailsToEnd(d)
  /\ UNCHANGED <<server, filter, selected, history>>

\* refreshTaskQueries: the entries shown are fetched again; a list that is not
\* shown is fetched when it is, but not while an older fetch is under way.
Refresh(d) ==
  /\ deed[d].pc = "answered"
  /\ Ends(d)
  /\ list' = [v \in View |-> IF v = filter THEN Refetched(list[v]) ELSE Unsound(list[v])]
  /\ history' = IF selected # NoParagraph /\ (history.fetch = "idle" \/ history.loaded)
                THEN [NoHistory EXCEPT !.fetch = "sent", !.loaded = history.loaded]
                ELSE history
  /\ UNCHANGED <<server, filter, selected, extras>>

\* The worker completes the scan, or the preview is ready.
Complete ==
  /\ ~ready
  /\ ready' = TRUE
  /\ UNCHANGED <<status, last, filter, selected, list, history, deed, busy, extras>>

-----------------------------------------------------------------------------

User ==
  \/ \E v \in View : ChooseView(v)
  \/ \E p \in Paragraph : Select(p)
  \/ \E d \in Decision, kind \in Kind : Decide(d, kind)
  \/ Continue \/ RefreshList

Decides(d) ==
  Recorded(d) \/ DecisionRefused(d) \/ Updated(d) \/ Refresh(d) \/ DecisionLost(d)

Reads(v) == ListAnswered(v) \/ ListShown(v)

Next ==
  \/ User \/ Complete
  \/ \E d \in Decision : Decides(d)
  \/ \E v \in View : Reads(v) \/ ListLost(v)
  \/ ListTick
  \/ HistoryReads \/ HistoryLost

Spec == Init /\ [][Next]_vars

-----------------------------------------------------------------------------
(* Properties *)

Over == \A d \in Decision : deed[d].pc \in {"none", "over"}

\* Once the decisions of this page are over and nothing is being fetched, the
\* list shows every finding as the server has it, whichever views, selections,
\* refreshes and further decisions went on meanwhile; unless a read or a
\* decision failed, or a refresh only joined a fetch, since the list was fetched.
ListIsCurrent ==
  LET entry == list[filter]
  IN Over /\ entry.fetch = "idle" /\ entry.data.state = "ready" /\ entry.sound
       => /\ Shown = Listed(filter, CurrentAnswer)
          /\ \A p \in Shown : entry.data.items[p] = status[p]

\* A paragraph that the history panel lists as processed comes with its last
\* operation, also after decisions that failed half way; unless a decision came
\* between the two reads the panel is made of.
ProcessedHasOperation ==
  history.loaded /\ history.fetch = "idle" /\ ~history.met => history.read = {}

=============================================================================
