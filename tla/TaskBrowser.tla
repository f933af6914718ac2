----------------------------- MODULE TaskBrowser -----------------------------
(***************************************************************************)
(* One browser: its only cookie, which holds the one task context the      *)
(* server signed for it, the tabs that show pages, and the requests those  *)
(* pages send.  A request carries the cookie it was sent with, is served   *)
(* later, and is answered later still: a context the answer sets replaces  *)
(* whatever the browser holds by then.                                     *)
(*                                                                         *)
(* Of a task the browser's side only sees the row.  What moves the row is  *)
(* in TaskPipeline; here it may move as that module allows.  The tokens in *)
(* a context are as good as its identity: they are random, and the context *)
(* is signed.  Loading a page and sending its first request is one step:   *)
(* a page is free to stay open while everything else moves on.             *)
(***************************************************************************)
EXTENDS Integers

CONSTANTS
  Tab,        \* open tabs
  Call,       \* requests that may set the cookie, under way at a time
  MaxTasks,   \* bound: tasks accepted
  MaxChoices, \* bound: choices of a mode, each with a context of its own
  MaxAge,     \* how far the clock goes: 0, past a row's, past a context's limit
  MaxLosses   \* bound: requests or answers the network loses

ASSUME TaskBrowserAssumption ==
  /\ Tab # {}
  /\ {MaxTasks, MaxChoices, MaxAge, MaxLosses} \subseteq Nat

VARIABLES
  cookie,   \* task context the browser holds
  page,     \* what each tab shows
  poll,     \* each tab's status read under way: the context it was sent with
  call,     \* requests that may set the cookie
  row,      \* each task's row
  age,      \* each task: kept, its row expired, its context expired as well
  choices,  \* contexts handed out by POST /api/task-contexts
  losses    \* spent part of the bound

vars == <<cookie, page, poll, call, row, age, choices, losses>>

Task == 1..MaxTasks
Choice == 1..MaxChoices

-----------------------------------------------------------------------------
(* Contexts, pages and requests *)

NoContext == [kind |-> "none", n |-> 0]
Bootstrap(n) == [kind |-> "bootstrap", n |-> n]
Access(t) == [kind |-> "task", n |-> t]
Deleted(t) == [kind |-> "deleted", n |-> t]

Context ==
  {NoContext} \cup {Bootstrap(n) : n \in Choice}
  \cup {Access(t) : t \in Task} \cup {Deleted(t) : t \in Task}

\* What the copy of an answer tells its reader.
Verdict == {"none", "deleted", "expired", "unauthorized", "missing", "failed"}

Home == [at |-> "home", n |-> 0, state |-> "idle", told |-> "none",
         shown |-> "none", error |-> "none", next |-> 0,
         made |-> 0, left |-> 0]

\* The upload page without a bootstrap context.
NoEntry == [Home EXCEPT !.at = "noEntry"]

\* The upload form of context n; made and left are history.
Form(n) == [Home EXCEPT !.at = "form", !.n = n]

\* The page of a task the server refused to show.
Denied(t, verdict) == [Home EXCEPT !.at = "denied", !.n = t, !.error = verdict]

TaskPage(t, status) == [Home EXCEPT !.at = "task", !.n = t, !.shown = status]

NoPoll == [sent |-> FALSE, context |-> NoContext]

\* An answer reaches the page that asked, or just the browser's cookie once
\* the tab shows another page, or nobody after the document was unloaded.
NoCall == [pc |-> "idle", kind |-> "choose", tab |-> CHOOSE x \in Tab : TRUE,
           n |-> 0, context |-> NoContext, reach |-> "page", answer |-> "none"]

\* A row under way, or in a terminal status: completed or failed.
Status == {"active", "terminal"}

TypeOK ==
  /\ cookie \in Context
  /\ page \in [Tab ->
       [at    : {"home", "noEntry", "form", "denied", "task"},
        n     : Nat,
        state : {"idle", "submitting", "accepted", "error", "confirm", "deleted"},
        told  : Verdict,
        shown : Status \cup {"none"},
        error : Verdict \cup {"network"},
        next  : 0..MaxTasks,
        made  : Nat,
        left  : Nat]]
  /\ poll \in [Tab -> [sent : BOOLEAN, context : Context]]
  /\ call \in [Call ->
       [pc      : {"idle", "sent", "answered"},
        kind    : {"choose", "upload", "delete"},
        tab     : Tab,
        n       : Nat,
        context : Context,
        reach   : {"page", "cookie", "nobody"},
        answer  : Verdict \cup {"ok"}]]
  /\ row \in [Task -> Status \cup {"none", "gone"}]
  /\ age \in [Task -> 0..MaxAge]
  /\ choices \in 0..MaxChoices
  /\ losses \in 0..MaxLosses

Init ==
  /\ cookie = NoContext
  /\ page = [x \in Tab |-> Home]
  /\ poll = [x \in Tab |-> NoPoll]
  /\ call = [c \in Call |-> NoCall]
  /\ row = [t \in Task |-> "none"]
  /\ age = [t \in Task |-> 0]
  /\ choices = 0
  /\ losses = 0

Present(t) == row[t] \in Status

-----------------------------------------------------------------------------
(* The server *)

\* Mutant of ReadVerdict: a missing row is taken for an expired one.
ReadVerdictBlunt(t, context) ==
  IF context = Deleted(t) THEN "deleted"
  ELSE IF context # Access(t) THEN "unauthorized"
  ELSE IF ~Present(t) \/ age[t] >= 1 THEN "expired"
  ELSE "ok"

\* readAuthorizedTask.
ReadVerdict(t, context) ==
  IF context = Deleted(t) THEN "deleted"
  ELSE IF context # Access(t) THEN "unauthorized"
  ELSE IF ~Present(t) THEN (IF age[t] >= 2 THEN "expired" ELSE "missing")
  ELSE IF age[t] >= 1 THEN "expired"
  ELSE "ok"

\* What DELETE finds before it deletes: the token of another task's context
\* does not match, and a missing row is never called expired.
DeleteVerdict(t, context) ==
  IF context.kind = "task" /\ context.n # t THEN "failed"
  ELSE IF context = Deleted(t) THEN "deleted"
  ELSE IF context # Access(t) THEN "unauthorized"
  ELSE IF ~Present(t) THEN "missing"
  ELSE IF age[t] >= 1 THEN "expired"
  ELSE "ok"

\* What POST /api/uploads finds before it reads the file.
UploadVerdict(n, context) ==
  IF context.kind # "bootstrap" THEN "unauthorized"
  ELSE IF context.n # n THEN "failed"
  ELSE "ok"

\* An answer nobody waits for is gone at once.
Answered(c, verdict, n) ==
  call' = [call EXCEPT ![c] =
    IF @.reach = "nobody" THEN NoCall
    ELSE [@ EXCEPT !.pc = "answered", !.answer = verdict, !.n = n, !.context = NoContext]]

ServeChoose(c) ==
  /\ call[c].kind = "choose"
  /\ choices < MaxChoices
  /\ choices' = choices + 1
  /\ Answered(c, "ok", choices + 1)
  /\ UNCHANGED <<row, page>>

\* The form counts the tasks it made, and those it was not told of.
Credit(c, left) ==
  page' = IF call[c].reach = "page"
          THEN [page EXCEPT ![call[c].tab].made = @ + 1, ![call[c].tab].left = @ + left]
          ELSE page

\* The row that createTaskRecord inserts; it may be failed again already.
NewTask(t) ==
  /\ row[t] = "none"
  /\ \A u \in Task : u < t => row[u] # "none"
  /\ \E status \in Status : row' = [row EXCEPT ![t] = status]

\* acceptUploadSubmission returns a task context; or it fails although the row
\* is there, and perhaps the job: the insert was committed and threw, or
\* neither the job nor the failed status is known to be written; or it fails
\* with no row.
ServeUpload(c) ==
  LET verdict == UploadVerdict(call[c].n, call[c].context)
  IN /\ call[c].kind = "upload"
     /\ UNCHANGED choices
     /\ \/ /\ verdict = "ok"
           /\ \E t \in Task : NewTask(t) /\ Answered(c, "ok", t)
           /\ Credit(c, 0)
        \/ /\ verdict = "ok"
           /\ \E t \in Task : NewTask(t)
           /\ Answered(c, "failed", 0)
           /\ Credit(c, 1)
        \/ /\ Answered(c, IF verdict = "ok" THEN "failed" ELSE verdict, 0)
           /\ UNCHANGED <<row, page>>

\* deleteTaskData fails before the row is deleted, or after.
ServeDelete(c) ==
  LET verdict == DeleteVerdict(call[c].n, call[c].context)
      erase   == row' = [row EXCEPT ![call[c].n] = "gone"]
  IN /\ call[c].kind = "delete"
     /\ UNCHANGED <<choices, page>>
     /\ IF verdict = "ok"
        THEN \/ erase /\ Answered(c, "ok", call[c].n)
             \/ (erase \/ UNCHANGED row) /\ Answered(c, "failed", call[c].n)
        ELSE Answered(c, verdict, call[c].n) /\ UNCHANGED row

Serve(c) ==
  /\ call[c].pc = "sent"
  /\ ServeChoose(c) \/ ServeUpload(c) \/ ServeDelete(c)
  /\ UNCHANGED <<cookie, poll, age, losses>>

\* The worker, its queue and the retention run, as far as the row shows them.
Work(t) ==
  /\ \/ row[t] = "active" /\ row' = [row EXCEPT ![t] = "terminal"]
     \/ row[t] = "terminal" /\ row' = [row EXCEPT ![t] = "active"]
     \/ Present(t) /\ age[t] >= 1 /\ row' = [row EXCEPT ![t] = "gone"]
  /\ UNCHANGED <<cookie, page, poll, call, age, choices, losses>>

Elapse(t) ==
  /\ row[t] # "none"
  /\ age[t] < MaxAge
  /\ age' = [age EXCEPT ![t] = @ + 1]
  /\ UNCHANGED <<cookie, page, poll, call, row, choices, losses>>

-----------------------------------------------------------------------------
(* Showing pages *)

UploadPageFor(context) ==
  IF context.kind = "bootstrap" THEN Form(context.n) ELSE NoEntry

\* TaskDetailPage reads the task on the server and hands it to the live view.
TaskPageFor(t, context) ==
  LET verdict == ReadVerdict(t, context)
  IN IF verdict = "ok" THEN TaskPage(t, row[t]) ELSE Denied(t, verdict)

Unheard(request, reach) ==
  IF request.pc = "answered" /\ reach = "nobody" THEN NoCall
  ELSE [request EXCEPT !.reach = reach]

\* The requests of tab x no longer find their page: the component is gone, or
\* the whole document, and then their answers are dropped.
Cut(x, reach) ==
  [c \in Call |-> IF call[c].tab = x /\ call[c].reach # "nobody"
                  THEN Unheard(call[c], reach) ELSE call[c]]

Show(x, next) ==
  /\ page' = [page EXCEPT ![x] = next]
  /\ poll' = [poll EXCEPT ![x] = IF next.at = "task"
                                 THEN [sent |-> TRUE, context |-> cookie] ELSE NoPoll]

Visit(x) ==
  /\ \E next \in {Home, UploadPageFor(cookie)}
                 \cup {TaskPageFor(t, cookie) : t \in {u \in Task : row[u] # "none"}} :
       Show(x, next)
  /\ call' \in {Cut(x, "cookie"), Cut(x, "nobody")}
  /\ UNCHANGED <<cookie, row, age, choices, losses>>

\* The cookie reaches its Max-Age, or the secret that signed it is replaced.
Forget ==
  /\ cookie' = NoContext
  /\ UNCHANGED <<page, poll, call, row, age, choices, losses>>

userFrame == <<cookie, row, age, choices, losses>>

Request(x, kind, n) ==
  [NoCall EXCEPT !.pc = "sent", !.kind = kind, !.tab = x, !.n = n, !.context = cookie]

Send(x, kind, n) ==
  \E c \in Call : call[c].pc = "idle" /\ call' = [call EXCEPT ![c] = Request(x, kind, n)]

\* The entry card's form loads a document: a choice still under way is given up.
Choose(x) ==
  /\ page[x].at = "home"
  /\ \E c \in Call :
       /\ call[c].pc = "idle"
       /\ call' = [d \in Call |->
            IF d = c THEN Request(x, "choose", 0)
            ELSE IF call[d].tab = x /\ call[d].kind = "choose"
                 THEN Unheard(call[d], "nobody") ELSE call[d]]
  /\ UNCHANGED <<page, poll, userFrame>>

-----------------------------------------------------------------------------
(* The upload form *)

CanSubmit(x) == page[x].at = "form" /\ page[x].state # "submitting"

Submit(x) ==
  /\ CanSubmit(x)
  /\ page' = [page EXCEPT ![x].state = "submitting", ![x].told = "none"]
  /\ Send(x, "upload", page[x].n)
  /\ UNCHANGED <<poll, userFrame>>

\* A file the form refuses by itself, which also ends the wait to leave.
SubmitRefused(x) ==
  /\ CanSubmit(x)
  /\ page' = [page EXCEPT ![x].state = "error", ![x].told = "failed"]
  /\ UNCHANGED <<poll, call, userFrame>>

\* 1200 ms after the acceptance the form goes to the task.
Follow(x) ==
  /\ page[x].at = "form" /\ page[x].state = "accepted"
  /\ Show(x, TaskPageFor(page[x].next, cookie))
  /\ call' = Cut(x, "cookie")
  /\ UNCHANGED userFrame

-----------------------------------------------------------------------------
(* The task page *)

Live(x) == page[x].at = "task" /\ page[x].state # "deleted"

Ask(x) == poll' = [poll EXCEPT ![x] = [sent |-> TRUE, context |-> cookie]]

\* Mutant of Polling: a deletion that did not work ends the polling.
PollingWhenIdle(x) ==
  Live(x) /\ page[x].shown = "active" /\ page[x].state = "idle"

\* refetchInterval: as long as the data shown is not terminal, errors or not.
Polling(x) == Live(x) /\ page[x].shown = "active"

PollTick(x) ==
  /\ Polling(x)
  /\ ~poll[x].sent
  /\ Ask(x)
  /\ UNCHANGED <<page, call, userFrame>>

\* The refresh buttons, which give up a read under way.
Refresh(x) ==
  /\ Live(x)
  /\ Ask(x)
  /\ UNCHANGED <<page, call, userFrame>>

PollAnswered(x) ==
  LET verdict == ReadVerdict(page[x].n, poll[x].context)
  IN /\ poll[x].sent
     /\ poll' = [poll EXCEPT ![x] = NoPoll]
     /\ page' = IF verdict = "ok"
                THEN [page EXCEPT ![x].shown = row[page[x].n], ![x].error = "none"]
                ELSE [page EXCEPT ![x].error = verdict]
     /\ UNCHANGED <<call, userFrame>>

\* The error of a read that never came back is no TaskStatusRequestError, and
\* the page goes on showing the task.
PollLost(x) ==
  /\ poll[x].sent
  /\ losses < MaxLosses
  /\ losses' = losses + 1
  /\ poll' = [poll EXCEPT ![x] = NoPoll]
  /\ page' = [page EXCEPT ![x].error = "network"]
  /\ UNCHANGED <<cookie, call, row, age, choices>>

\* The panel that asks for confirmation opens from any state of the deletion.
AskDelete(x) ==
  /\ Live(x)
  /\ page[x].error \in {"none", "network"}
  /\ page' = [page EXCEPT ![x].state = "confirm", ![x].told = "none"]
  /\ UNCHANGED <<poll, call, userFrame>>

CancelDelete(x) ==
  /\ Live(x) /\ page[x].state = "confirm"
  /\ page' = [page EXCEPT ![x].state = "idle"]
  /\ UNCHANGED <<poll, call, userFrame>>

ConfirmDelete(x) ==
  /\ Live(x) /\ page[x].state = "confirm"
  /\ page[x].error \in {"none", "network"}
  /\ page' = [page EXCEPT ![x].state = "submitting"]
  /\ Send(x, "delete", page[x].n)
  /\ UNCHANGED <<poll, userFrame>>

-----------------------------------------------------------------------------
(* Answers *)

ContextOf(c) ==
  CASE call[c].kind = "choose" -> Bootstrap(call[c].n)
    [] call[c].kind = "upload" -> Access(call[c].n)
    [] call[c].kind = "delete" -> Deleted(call[c].n)

\* Mutant of SetsCookie: whatever the outcome, the context is replaced.
SetsCookieAnyway(c) == call[c].reach # "nobody"

\* Mutant of SetsCookie: so it is by a deletion.
SetsCookieOnDelete(c) ==
  call[c].reach # "nobody" /\ (call[c].answer = "ok" \/ call[c].kind = "delete")

\* Mutant of SetsCookie: an accepted upload leaves the upload's context.
SetsCookieUnlessUpload(c) ==
  call[c].reach # "nobody" /\ call[c].answer = "ok" /\ call[c].kind # "upload"

SetsCookie(c) == call[c].reach # "nobody" /\ call[c].answer = "ok"

\* What the page that asked makes of the answer.
Told(c) ==
  LET at == page[call[c].tab]
  IN IF call[c].answer # "ok"
     THEN [at EXCEPT !.state = "error",
                     !.told = IF call[c].answer \in {"deleted", "expired"}
                              THEN call[c].answer ELSE "failed"]
     ELSE IF call[c].kind = "upload"
     THEN [at EXCEPT !.state = "accepted", !.next = call[c].n]
     ELSE [at EXCEPT !.state = "deleted", !.error = "none"]

\* The live view stops reading when it says the task is deleted, and starts
\* again when an answer takes that back.
PollAfter(x, next, held) ==
  IF next.state = "deleted" THEN NoPoll
  ELSE IF page[x].state = "deleted" THEN [sent |-> TRUE, context |-> held]
  ELSE poll[x]

Deliver(c) ==
  LET x == call[c].tab
  IN /\ call[c].pc = "answered"
     /\ cookie' = IF SetsCookie(c) THEN ContextOf(c) ELSE cookie
     /\ IF call[c].kind = "choose" /\ call[c].reach # "nobody"
        THEN /\ page' = [page EXCEPT ![x] = UploadPageFor(cookie')]
             /\ poll' = [poll EXCEPT ![x] = NoPoll]
             /\ call' = [Cut(x, "nobody") EXCEPT ![c] = NoCall]
        ELSE /\ IF call[c].reach = "page"
                THEN /\ page' = [page EXCEPT ![x] = Told(c)]
                     /\ poll' = [poll EXCEPT ![x] = PollAfter(x, Told(c), cookie')]
                ELSE UNCHANGED <<page, poll>>
             /\ call' = [call EXCEPT ![c] = NoCall]
     /\ UNCHANGED <<row, age, choices, losses>>

\* The task of an upload the network lost the answer of.
Unheeded(c) ==
  IF call[c].kind = "upload" /\ call[c].pc = "answered" /\ call[c].answer = "ok" THEN 1 ELSE 0

\* The network loses a request, or its answer: the page tells of a failure.
Lose(c) ==
  LET x == call[c].tab
  IN /\ call[c].pc # "idle"
     /\ losses < MaxLosses
     /\ losses' = losses + 1
     /\ call' = [call EXCEPT ![c] = NoCall]
     /\ page' = IF call[c].reach = "page" /\ call[c].kind # "choose"
                THEN [page EXCEPT ![x].state = "error", ![x].told = "failed",
                                  ![x].left = @ + Unheeded(c)]
                ELSE page
     /\ poll' = IF call[c].reach = "page" /\ call[c].kind # "choose"
                THEN [poll EXCEPT ![x] = PollAfter(x, page'[x], cookie)] ELSE poll
     /\ UNCHANGED <<cookie, row, age, choices>>

-----------------------------------------------------------------------------

User(x) ==
  \/ Visit(x) \/ Choose(x) \/ Submit(x) \/ SubmitRefused(x)
  \/ Refresh(x) \/ AskDelete(x) \/ CancelDelete(x) \/ ConfirmDelete(x)

Polls(x) == PollTick(x) \/ PollAnswered(x)

Next ==
  \/ \E x \in Tab : User(x) \/ Follow(x) \/ Polls(x) \/ PollLost(x)
  \/ \E c \in Call : Serve(c) \/ Deliver(c) \/ Lose(c)
  \/ \E t \in Task : Work(t) \/ Elapse(t)
  \/ Forget

Spec == Init /\ [][Next]_vars

\* The interval goes off and a read is answered.
Fairness == \A x \in Tab : WF_vars(Polls(x))

FairSpec == Spec /\ Fairness

-----------------------------------------------------------------------------
(* Properties *)

Says(x, verdict) == page[x].error = verdict \/ page[x].told = verdict

\* Whoever says that a task is deleted is right: the cookie that replaces the
\* task's context, the page that had it deleted, and every page that was told
\* so by a read or a second deletion, whichever requests overlapped or failed.
DeletedIsTrue ==
  /\ cookie.kind = "deleted" => ~Present(cookie.n)
  /\ \A x \in Tab : page[x].state = "deleted" \/ Says(x, "deleted") =>
       ~Present(page[x].n)

\* A task is only called expired when its retention is over, also when its
\* row is gone and only the context is left to judge by.
ExpiredIsTrue ==
  \A x \in Tab : Says(x, "expired") => age[page[x].n] >= 1

\* However often it is submitted, and whatever other tabs do to the context,
\* of the tasks an upload form makes all but one were left behind: the server
\* answered a failure with the row in place, or the network lost the answer.
FormMakesOneTask == \A x \in Tab : page[x].made <= page[x].left + 1

\* A page left open on a task whose processing is over does not go on showing
\* it under way: it shows the end, or that the task cannot be read.
PageSettles ==
  \A x \in Tab :
    []<>(Live(x) /\ page[x].shown = "active" /\ page[x].error \in {"none", "network"}
         => row[page[x].n] = "active")

=============================================================================
