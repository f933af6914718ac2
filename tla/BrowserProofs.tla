--------------------------- MODULE BrowserProofs ----------------------------
(***************************************************************************)
(* Proofs about the browser, for any number of tabs, requests, tasks and   *)
(* losses.                                                                 *)
(*                                                                         *)
(* Whoever says that a task is deleted is right.  That is known from an    *)
(* answer, and passed on by the context the answer sets, by the requests   *)
(* sent with that context, and by their answers; a row that is gone stays  *)
(* gone, so what once was true of each of them remains so.  Of expired it  *)
(* is the same, and shorter: only the page of the task is told.            *)
(*                                                                         *)
(* A form is told of one task at most.  It waits for one upload at a time, *)
(* and once it was told of a task the browser's context has lost the       *)
(* form's number, which is never handed out again.                         *)
(***************************************************************************)
EXTENDS TaskBrowser, TLAPS

PageRecord ==
  [at    : {"home", "noEntry", "form", "denied", "task"},
   n     : Nat,
   state : {"idle", "submitting", "accepted", "error", "confirm", "deleted"},
   told  : Verdict,
   shown : Status \cup {"none"},
   error : Verdict \cup {"network"},
   next  : 0..MaxTasks,
   made  : Nat,
   left  : Nat]

PollRecord == [sent : BOOLEAN, context : Context]

CallRecord ==
  [pc      : {"idle", "sent", "answered"},
   kind    : {"choose", "upload", "delete"},
   tab     : Tab,
   n       : Nat,
   context : Context,
   reach   : {"page", "cookie", "nobody"},
   answer  : Verdict \cup {"ok"}]

Gone(t) == t \in Task /\ row[t] = "gone"

\* A context, a page or a request that says that a task is deleted.
TrueContext(k) == k.kind = "deleted" => Gone(k.n)

Marked(p) == p.state = "deleted" \/ p.error = "deleted" \/ p.told = "deleted"

TruePage(p) == Marked(p) => Gone(p.n)

TrueCall(r) ==
  /\ TrueContext(r.context)
  /\ r.pc = "answered" =>
       /\ r.answer = "deleted" => r.kind = "delete"
       /\ r.kind = "delete" /\ r.answer \in {"deleted", "ok"} => Gone(r.n)
       /\ r.kind = "upload" /\ r.answer = "ok" => r.n \in Task
       /\ r.kind = "choose" => r.answer = "ok" /\ r.n \in Choice

\* The page a deletion reaches is the page of its task.
Bound(r) ==
  r.pc # "idle" /\ r.kind = "delete" /\ r.reach = "page"
    => page[r.tab].at = "task" /\ page[r.tab].n = r.n

CookieInv == cookie \in Context /\ TrueContext(cookie)
PageInv == page \in [Tab -> PageRecord] /\ \A x \in Tab : TruePage(page[x])
PollInv == poll \in [Tab -> PollRecord] /\ \A x \in Tab : TrueContext(poll[x].context)
CallInv == call \in [Call -> CallRecord] /\ \A c \in Call : TrueCall(call[c])
BoundInv == \A c \in Call : Bound(call[c])
RowInv == row \in [Task -> Status \cup {"none", "gone"}]
RestInv == age \in [Task -> 0..MaxAge] /\ choices \in 0..MaxChoices /\ losses \in 0..MaxLosses

BrowserInv ==
  CookieInv /\ PageInv /\ PollInv /\ CallInv /\ BoundInv /\ RowInv /\ RestInv

-----------------------------------------------------------------------------
(* Contexts, pages and requests *)

LEMMA Contexts ==
  ASSUME NEW k \in Context
  PROVE  /\ k.kind \in {"none", "bootstrap", "task", "deleted"} /\ k.n \in Nat
         /\ k.kind \in {"task", "deleted"} => k.n \in Task
         /\ \A t : k = Access(t) \/ k = Deleted(t) => t \in Task /\ k.n = t
         /\ k.kind = "bootstrap" => k.n \in Choice
  BY TaskBrowserAssumption DEF Context, NoContext, Bootstrap, Access, Deleted, Task, Choice

LEMMA Kinds ==
  /\ NoContext \in Context /\ NoContext.kind = "none"
  /\ \A n \in Choice : Bootstrap(n) \in Context /\ Bootstrap(n).kind = "bootstrap"
  /\ \A t \in Task : /\ Access(t) \in Context /\ Access(t).kind = "task"
                     /\ Deleted(t) \in Context /\ Deleted(t).kind = "deleted" /\ Deleted(t).n = t
  BY DEF Context, NoContext, Bootstrap, Access, Deleted

LEMMA Blank ==
  /\ NoPoll \in PollRecord /\ NoPoll.context = NoContext
  /\ NoCall \in CallRecord /\ NoCall.context = NoContext /\ NoCall.pc = "idle"
  /\ Home \in PageRecord /\ ~Marked(Home)
  /\ NoEntry \in PageRecord /\ ~Marked(NoEntry)
  <1> USE TaskBrowserAssumption, Kinds
  <1>1. NoPoll \in PollRecord /\ NoPoll.context = NoContext
    BY DEF NoPoll, PollRecord
  <1>2. NoCall \in CallRecord /\ NoCall.context = NoContext /\ NoCall.pc = "idle"
    <2>1. (CHOOSE x \in Tab : TRUE) \in Tab
      OBVIOUS
    <2> QED BY <2>1 DEF NoCall, CallRecord, Verdict
  <1>3. Home \in PageRecord /\ ~Marked(Home)
    BY DEF Home, PageRecord, Marked, Verdict
  <1>4. NoEntry \in PageRecord /\ ~Marked(NoEntry)
    BY <1>3 DEF NoEntry, PageRecord, Marked
  <1> QED BY <1>1, <1>2, <1>3, <1>4

LEMMA BrowserInit == Init => BrowserInv
  <1> SUFFICES ASSUME Init PROVE BrowserInv
    OBVIOUS
  <1> USE Blank, Kinds, TaskBrowserAssumption DEF Init
  <1>1. CookieInv /\ PollInv
    BY DEF CookieInv, PollInv, TrueContext
  <1>2. PageInv
    BY DEF PageInv, TruePage
  <1>3. CallInv /\ BoundInv
    BY DEF CallInv, BoundInv, TrueCall, TrueContext, Bound
  <1>4. RowInv /\ RestInv
    BY DEF RowInv, RestInv
  <1> QED BY <1>1, <1>2, <1>3, <1>4 DEF BrowserInv

\* Rows are well typed, and a row that is gone stays gone.
RowsMove == RowInv' /\ \A t : Gone(t) => Gone(t)'

LEMMA Frame ==
  ASSUME BrowserInv, RowsMove
  PROVE  /\ \A k : TrueContext(k) => TrueContext(k)'
         /\ \A p : TruePage(p) => TruePage(p)'
         /\ \A r : TrueCall(r) => TrueCall(r)'
         /\ cookie' = cookie => CookieInv'
         /\ page' = page => PageInv'
         /\ poll' = poll => PollInv'
         /\ call' = call => CallInv'
         /\ page' = page /\ call' = call => BoundInv'
  <1>1. \A k : TrueContext(k) => TrueContext(k)'
    BY DEF RowsMove, TrueContext
  <1>2. \A p : TruePage(p) => TruePage(p)'
    BY DEF RowsMove, TruePage, Marked
  <1>3. \A r : TrueCall(r) => TrueCall(r)'
    BY <1>1 DEF RowsMove, TrueCall
  <1> QED BY <1>1, <1>2, <1>3 DEF BrowserInv, CookieInv, PageInv, PollInv, CallInv, BoundInv, Bound

LEMMA RowsRest ==
  ASSUME BrowserInv, row' = row
  PROVE  RowsMove
  BY DEF BrowserInv, RowsMove, RowInv, Gone

\* A page that replaces the one in tab x.
LEMMA PageSet ==
  ASSUME BrowserInv, RowsMove, NEW x \in Tab, NEW p \in PageRecord, TruePage(p)',
         page' = [page EXCEPT ![x] = p]
  PROVE  PageInv'
  BY Frame DEF BrowserInv, PageInv

\* A request that replaces the one of call c.
LEMMA CallSet ==
  ASSUME BrowserInv, RowsMove, NEW c \in Call, NEW r \in CallRecord, TrueCall(r)',
         call' = [call EXCEPT ![c] = r]
  PROVE  CallInv'
  BY Frame DEF BrowserInv, CallInv

LEMMA PollSet ==
  ASSUME BrowserInv, RowsMove, NEW x \in Tab, NEW q \in PollRecord, TrueContext(q.context)',
         poll' = [poll EXCEPT ![x] = q]
  PROVE  PollInv'
  BY Frame DEF BrowserInv, PollInv

-----------------------------------------------------------------------------
(* Verdicts, and the pages they lead to *)

LEMMA ReadVerdictTrue ==
  ASSUME BrowserInv, NEW k \in Context, TrueContext(k), NEW t
  PROVE  /\ ReadVerdict(t, k) \in Verdict \cup {"ok"}
         /\ ReadVerdict(t, k) = "deleted" => Gone(t)
         /\ ReadVerdict(t, k) = "ok" => t \in Task /\ row[t] \in Status
  <1>1. k = Deleted(t) => Gone(t)
    BY Contexts, Kinds DEF TrueContext
  <1>2. k = Access(t) => t \in Task
    BY Contexts
  <1> QED BY <1>1, <1>2 DEF ReadVerdict, Verdict, Present

LEMMA DeleteVerdictTrue ==
  ASSUME BrowserInv, NEW k \in Context, TrueContext(k), NEW t
  PROVE  /\ DeleteVerdict(t, k) \in Verdict \cup {"ok"}
         /\ DeleteVerdict(t, k) = "deleted" => Gone(t)
         /\ DeleteVerdict(t, k) = "ok" => t \in Task
  <1>1. k = Deleted(t) => Gone(t)
    BY Contexts, Kinds DEF TrueContext
  <1>2. k = Access(t) => t \in Task
    BY Contexts
  <1> QED BY <1>1, <1>2 DEF DeleteVerdict, Verdict

LEMMA UploadPageTrue ==
  ASSUME NEW k \in Context
  PROVE  UploadPageFor(k) \in PageRecord /\ ~Marked(UploadPageFor(k))
  <1>1. \A n \in Nat : Form(n) \in PageRecord /\ ~Marked(Form(n))
    BY Blank DEF Form, PageRecord, Marked
  <1> QED BY <1>1, Blank, Contexts DEF UploadPageFor

LEMMA TaskPageTrue ==
  ASSUME BrowserInv, NEW k \in Context, TrueContext(k), NEW t \in Nat
  PROVE  TaskPageFor(t, k) \in PageRecord /\ TruePage(TaskPageFor(t, k))
  <1> DEFINE v == ReadVerdict(t, k)
  <1>1. ASSUME v = "ok"
        PROVE  TaskPage(t, row[t]) \in PageRecord /\ ~Marked(TaskPage(t, row[t]))
    <2>1. row[t] \in Status
      BY <1>1, ReadVerdictTrue
    <2> HIDE DEF v
    <2> QED BY <2>1, Blank DEF TaskPage, PageRecord, Marked
  <1>2. ASSUME v # "ok"
        PROVE  Denied(t, v) \in PageRecord /\ TruePage(Denied(t, v))
    <2>1. v \in Verdict /\ (v = "deleted" => Gone(t))
      BY <1>2, ReadVerdictTrue
    <2> HIDE DEF v
    <2>2. Denied(t, v) \in PageRecord
      BY <2>1, Blank DEF Denied, PageRecord
    <2>3. Denied(t, v).n = t /\ (Marked(Denied(t, v)) => v = "deleted")
      BY Blank DEF Denied, Marked, PageRecord
    <2> QED BY <2>1, <2>2, <2>3 DEF TruePage
  <1> HIDE DEF v
  <1> QED BY <1>1, <1>2 DEF TaskPageFor, v, TruePage

-----------------------------------------------------------------------------
(* Requests that lose their page *)

LEMMA UnheardTrue ==
  ASSUME NEW r \in CallRecord, TrueCall(r), NEW reach \in {"cookie", "nobody"}
  PROVE  /\ Unheard(r, reach) \in CallRecord /\ TrueCall(Unheard(r, reach))
         /\ Unheard(r, reach).reach # "page" \/ Unheard(r, reach).pc = "idle"
  <1>1. TrueCall(NoCall)
    BY Blank, Kinds DEF TrueCall, TrueContext
  <1>2. [r EXCEPT !.reach = reach] \in CallRecord /\ TrueCall([r EXCEPT !.reach = reach])
    BY DEF CallRecord, TrueCall
  <1>3. [r EXCEPT !.reach = reach].reach = reach
    BY DEF CallRecord
  <1> QED BY <1>1, <1>2, <1>3, Blank DEF Unheard

\* Every request that may lose its page does, or belongs to another tab.
LEMMA CutTrue ==
  ASSUME BrowserInv, NEW x \in Tab, NEW reach \in {"cookie", "nobody"}
  PROVE  /\ Cut(x, reach) \in [Call -> CallRecord]
         /\ \A c \in Call :
              /\ TrueCall(Cut(x, reach)[c])
              /\ \/ Cut(x, reach)[c].reach # "page" \/ Cut(x, reach)[c].pc = "idle"
                 \/ Cut(x, reach)[c] = call[c] /\ call[c].tab # x
  <1> USE UnheardTrue DEF BrowserInv, CallInv
  <1> DEFINE D == Cut(x, reach)
  <1>1. \A c \in Call : D[c] = IF call[c].tab = x /\ call[c].reach # "nobody"
                               THEN Unheard(call[c], reach) ELSE call[c]
    BY DEF Cut
  <1>2. ASSUME NEW c \in Call
        PROVE  /\ D[c] \in CallRecord /\ TrueCall(D[c])
               /\ \/ D[c].reach # "page" \/ D[c].pc = "idle"
                  \/ D[c] = call[c] /\ call[c].tab # x
    BY <1>1
  <1>3. D \in [Call -> CallRecord]
    BY <1>2 DEF Cut
  <1> QED BY <1>2, <1>3

\* Tab x shows another page, and its requests are cut.
LEMMA Turned ==
  ASSUME BrowserInv, row' = row, NEW x \in Tab, NEW reach \in {"cookie", "nobody"},
         NEW p \in PageRecord, TruePage(p),
         page' = [page EXCEPT ![x] = p], call' = Cut(x, reach)
  PROVE  PageInv' /\ CallInv' /\ BoundInv'
  <1>1. RowsMove
    BY RowsRest
  <1>2. PageInv'
    BY <1>1, Frame, PageSet
  <1>3. CallInv'
    BY <1>1, CutTrue DEF CallInv, TrueCall, TrueContext, RowsMove
  <1>4. BoundInv'
    BY CutTrue DEF BrowserInv, BoundInv, Bound, PageInv
  <1> QED BY <1>2, <1>3, <1>4

LEMMA ShowPolls ==
  ASSUME BrowserInv, row' = row, NEW x \in Tab, NEW p, Show(x, p)
  PROVE  PollInv'
  <1>1. RowsMove
    BY RowsRest
  <1>2. [sent |-> TRUE, context |-> cookie] \in PollRecord /\ TrueContext(cookie)
    BY DEF BrowserInv, CookieInv, PollRecord
  <1>3. NoPoll \in PollRecord /\ TrueContext(NoPoll.context)
    BY Blank, Kinds DEF TrueContext
  <1> QED BY <1>1, <1>2, <1>3, Frame, PollSet DEF Show

-----------------------------------------------------------------------------
(* What the user does *)

LEMMA RowIsKept ==
  ASSUME BrowserInv, row' = row
  PROVE  RowInv'
  BY DEF BrowserInv, RowInv

\* A page is edited in place.
LEMMA Edited ==
  ASSUME BrowserInv, RowsMove, NEW x \in Tab, NEW p \in PageRecord, TruePage(p),
         p.at = page[x].at, p.n = page[x].n, page' = [page EXCEPT ![x] = p]
  PROVE  PageInv' /\ \A r : Bound(r) => Bound(r)'
  <1>1. PageInv'
    BY Frame, PageSet
  <1>2. \A y : page'[y].at = page[y].at /\ page'[y].n = page[y].n
    BY DEF BrowserInv, PageInv
  <1> QED BY <1>1, <1>2 DEF Bound

LEMMA RequestTrue ==
  ASSUME BrowserInv, NEW x \in Tab, NEW kind \in {"choose", "upload", "delete"}, NEW n \in Nat
  PROVE  /\ Request(x, kind, n) \in CallRecord /\ TrueCall(Request(x, kind, n))
         /\ Request(x, kind, n).kind = kind /\ Request(x, kind, n).tab = x
         /\ Request(x, kind, n).n = n
  <1>1. cookie \in Context /\ TrueContext(cookie)
    BY DEF BrowserInv, CookieInv
  <1> QED BY <1>1, Blank DEF Request, CallRecord, TrueCall

LEMMA Sent ==
  ASSUME BrowserInv, row' = row, NEW x \in Tab,
         NEW kind \in {"choose", "upload", "delete"}, NEW n \in Nat, Send(x, kind, n),
         \A r : Bound(r) => Bound(r)',
         kind = "delete" => page'[x].at = "task" /\ page'[x].n = n
  PROVE  CallInv' /\ BoundInv'
  <1>1. RowsMove
    BY RowsRest
  <1>2. PICK c \in Call, r \in {Request(x, kind, n)} : call' = [call EXCEPT ![c] = r]
    BY DEF Send
  <1>3. r \in CallRecord /\ TrueCall(r) /\ (r.kind = kind /\ r.tab = x /\ r.n = n)
    BY RequestTrue
  <1>4. Bound(r)'
    BY <1>3 DEF Bound
  <1>5. TrueCall(r)'
    BY <1>1, <1>3 DEF TrueCall, TrueContext, RowsMove
  <1>6. CallInv'
    BY <1>1, <1>2, <1>3, <1>5, Frame DEF BrowserInv, CallInv
  <1>7. BoundInv'
    BY <1>2, <1>4 DEF BrowserInv, BoundInv, CallInv
  <1> QED BY <1>6, <1>7

LEMMA VisitKeeps ==
  ASSUME BrowserInv, NEW x \in Tab, Visit(x)
  PROVE  BrowserInv'
  <1>1. PICK p \in {Home, UploadPageFor(cookie)}
                   \cup {TaskPageFor(t, cookie) : t \in {u \in Task : row[u] # "none"}} :
          Show(x, p)
    BY DEF Visit
  <1>2. PICK reach \in {"cookie", "nobody"} : call' = Cut(x, reach)
    BY DEF Visit
  <1>3. UNCHANGED <<cookie, row, age, choices, losses>>
    BY DEF Visit
  <1>4. p \in PageRecord /\ TruePage(p)
    <2>1. cookie \in Context /\ TrueContext(cookie)
      BY DEF BrowserInv, CookieInv
    <2>2. \A t \in Task : t \in Nat
      BY DEF Task
    <2> QED BY <1>1, <2>1, <2>2, Blank, UploadPageTrue, TaskPageTrue DEF TruePage
  <1>5. PageInv' /\ CallInv' /\ BoundInv'
    BY <1>1, <1>2, <1>3, <1>4, Turned DEF Show
  <1>6. PollInv'
    BY <1>1, <1>3, ShowPolls
  <1> QED BY <1>3, <1>5, <1>6, RowIsKept, RowsRest, Frame DEF BrowserInv, RestInv

LEMMA FollowKeeps ==
  ASSUME BrowserInv, NEW x \in Tab, Follow(x)
  PROVE  BrowserInv'
  <1> DEFINE p == TaskPageFor(page[x].next, cookie)
  <1>1. /\ Show(x, p) /\ call' = Cut(x, "cookie")
        /\ UNCHANGED <<cookie, row, age, choices, losses>>
    BY DEF Follow, userFrame
  <1>2. p \in PageRecord /\ TruePage(p)
    <2>1. page[x].next \in Nat
      BY TaskBrowserAssumption DEF BrowserInv, PageInv, PageRecord
    <2> QED BY <2>1, TaskPageTrue DEF BrowserInv, CookieInv
  <1> HIDE DEF p
  <1>3. PageInv' /\ CallInv' /\ BoundInv'
    BY <1>1, <1>2, Turned DEF Show
  <1>4. PollInv'
    BY <1>1, ShowPolls
  <1> QED BY <1>1, <1>3, <1>4, RowIsKept, RowsRest, Frame DEF BrowserInv, RestInv

LEMMA ChooseKeeps ==
  ASSUME BrowserInv, NEW x \in Tab, Choose(x)
  PROVE  BrowserInv'
  <1>1. PICK c \in Call :
          call' = [d \in Call |->
            IF d = c THEN Request(x, "choose", 0)
            ELSE IF call[d].tab = x /\ call[d].kind = "choose"
                 THEN Unheard(call[d], "nobody") ELSE call[d]]
    BY DEF Choose
  <1>2. UNCHANGED <<page, poll, cookie, row, age, choices, losses>>
    BY DEF Choose, userFrame
  <1>3. /\ Request(x, "choose", 0) \in CallRecord /\ TrueCall(Request(x, "choose", 0))
        /\ Request(x, "choose", 0).kind = "choose"
    BY RequestTrue
  <1>4. \A d \in Call :
          /\ call'[d] \in CallRecord /\ TrueCall(call'[d])
          /\ Bound(call'[d])
    <2> SUFFICES ASSUME NEW d \in Call
                 PROVE  call'[d] \in CallRecord /\ TrueCall(call'[d]) /\ Bound(call'[d])
      OBVIOUS
    <2>1. call[d] \in CallRecord /\ TrueCall(call[d]) /\ Bound(call[d])
      BY DEF BrowserInv, CallInv, BoundInv
    <2>2. /\ Unheard(call[d], "nobody") \in CallRecord /\ TrueCall(Unheard(call[d], "nobody"))
          /\ Bound(Unheard(call[d], "nobody"))
      BY <2>1, UnheardTrue DEF Bound
    <2>3. Bound(Request(x, "choose", 0))
      BY <1>3 DEF Bound
    <2> QED BY <1>1, <1>3, <2>1, <2>2, <2>3
  <1>5. call' \in [Call -> CallRecord]
    BY <1>1, <1>4
  <1>6. CallInv' /\ BoundInv'
    BY <1>2, <1>4, <1>5 DEF CallInv, BoundInv, Bound, TrueCall, TrueContext, Gone
  <1> QED BY <1>2, <1>6, RowIsKept, RowsRest, Frame DEF BrowserInv, RestInv

LEMMA SubmitRefusedKeeps ==
  ASSUME BrowserInv, NEW x \in Tab, SubmitRefused(x)
  PROVE  BrowserInv'
  <1>1. PICK p \in {[page[x] EXCEPT !.state = "error", !.told = "failed"]} : page' = [page EXCEPT ![x] = p]
    BY DEF SubmitRefused, BrowserInv, PageInv
  <1>2. UNCHANGED <<poll, cookie, row, age, choices, losses>>
    BY DEF SubmitRefused, userFrame
  <1>3. /\ p \in PageRecord /\ TruePage(p)
        /\ p.at = page[x].at /\ p.n = page[x].n
    <2>1. page[x] \in PageRecord /\ TruePage(page[x])
      BY DEF BrowserInv, PageInv
    <2> QED BY <2>1 DEF PageRecord, Verdict, TruePage, Marked
  <1>4. PageInv' /\ \A r : Bound(r) => Bound(r)'
    BY <1>1, <1>2, <1>3, RowsRest, Edited
  <1>5. CallInv' /\ BoundInv'
    BY <1>2, <1>4, RowsRest, Frame DEF SubmitRefused, BrowserInv, BoundInv
  <1> QED BY <1>2, <1>4, <1>5, RowIsKept, RowsRest, Frame DEF BrowserInv, RestInv

LEMMA AskDeleteKeeps ==
  ASSUME BrowserInv, NEW x \in Tab, AskDelete(x)
  PROVE  BrowserInv'
  <1>1. PICK p \in {[page[x] EXCEPT !.state = "confirm", !.told = "none"]} : page' = [page EXCEPT ![x] = p]
    BY DEF AskDelete, BrowserInv, PageInv
  <1>2. UNCHANGED <<poll, cookie, row, age, choices, losses>>
    BY DEF AskDelete, userFrame
  <1>3. /\ p \in PageRecord /\ TruePage(p)
        /\ p.at = page[x].at /\ p.n = page[x].n
    <2>1. page[x] \in PageRecord /\ TruePage(page[x])
      BY DEF BrowserInv, PageInv
    <2> QED BY <2>1 DEF PageRecord, Verdict, TruePage, Marked
  <1>4. PageInv' /\ \A r : Bound(r) => Bound(r)'
    BY <1>1, <1>2, <1>3, RowsRest, Edited
  <1>5. CallInv' /\ BoundInv'
    BY <1>2, <1>4, RowsRest, Frame DEF AskDelete, BrowserInv, BoundInv
  <1> QED BY <1>2, <1>4, <1>5, RowIsKept, RowsRest, Frame DEF BrowserInv, RestInv

LEMMA CancelDeleteKeeps ==
  ASSUME BrowserInv, NEW x \in Tab, CancelDelete(x)
  PROVE  BrowserInv'
  <1>1. PICK p \in {[page[x] EXCEPT !.state = "idle"]} : page' = [page EXCEPT ![x] = p]
    BY DEF CancelDelete, BrowserInv, PageInv
  <1>2. UNCHANGED <<poll, cookie, row, age, choices, losses>>
    BY DEF CancelDelete, userFrame
  <1>3. /\ p \in PageRecord /\ TruePage(p)
        /\ p.at = page[x].at /\ p.n = page[x].n
    <2>1. page[x] \in PageRecord /\ TruePage(page[x])
      BY DEF BrowserInv, PageInv
    <2> QED BY <2>1 DEF PageRecord, Verdict, TruePage, Marked
  <1>4. PageInv' /\ \A r : Bound(r) => Bound(r)'
    BY <1>1, <1>2, <1>3, RowsRest, Edited
  <1>5. CallInv' /\ BoundInv'
    BY <1>2, <1>4, RowsRest, Frame DEF CancelDelete, BrowserInv, BoundInv
  <1> QED BY <1>2, <1>4, <1>5, RowIsKept, RowsRest, Frame DEF BrowserInv, RestInv

LEMMA SubmitKeeps ==
  ASSUME BrowserInv, NEW x \in Tab, Submit(x)
  PROVE  BrowserInv'
  <1>1. PICK p \in {[page[x] EXCEPT !.state = "submitting", !.told = "none"]} : page' = [page EXCEPT ![x] = p]
    BY DEF Submit, BrowserInv, PageInv
  <1>2. UNCHANGED <<poll, cookie, row, age, choices, losses>>
    BY DEF Submit, userFrame
  <1>3. /\ p \in PageRecord /\ TruePage(p)
        /\ p.at = page[x].at /\ p.n = page[x].n
    <2>1. page[x] \in PageRecord /\ TruePage(page[x])
      BY DEF BrowserInv, PageInv
    <2> QED BY <2>1 DEF PageRecord, Verdict, TruePage, Marked
  <1>4. PageInv' /\ \A r : Bound(r) => Bound(r)'
    BY <1>1, <1>2, <1>3, RowsRest, Edited
  <1>5. CallInv' /\ BoundInv'
    <2>1. page[x].n \in Nat /\ Send(x, "upload", page[x].n)
      BY DEF Submit, BrowserInv, PageInv, PageRecord
    <2> QED BY <1>2, <1>4, <2>1, Sent
  <1> QED BY <1>2, <1>4, <1>5, RowIsKept, RowsRest, Frame DEF BrowserInv, RestInv

LEMMA ConfirmDeleteKeeps ==
  ASSUME BrowserInv, NEW x \in Tab, ConfirmDelete(x)
  PROVE  BrowserInv'
  <1>1. PICK p \in {[page[x] EXCEPT !.state = "submitting"]} : page' = [page EXCEPT ![x] = p]
    BY DEF ConfirmDelete, BrowserInv, PageInv
  <1>2. UNCHANGED <<poll, cookie, row, age, choices, losses>>
    BY DEF ConfirmDelete, userFrame
  <1>3. /\ p \in PageRecord /\ TruePage(p)
        /\ p.at = page[x].at /\ p.n = page[x].n
    <2>1. page[x] \in PageRecord /\ TruePage(page[x])
      BY DEF BrowserInv, PageInv
    <2> QED BY <2>1 DEF PageRecord, Verdict, TruePage, Marked
  <1>4. PageInv' /\ \A r : Bound(r) => Bound(r)'
    BY <1>1, <1>2, <1>3, RowsRest, Edited
  <1>5. CallInv' /\ BoundInv'
    <2>1. page[x].n \in Nat /\ Send(x, "delete", page[x].n)
      BY DEF ConfirmDelete, BrowserInv, PageInv, PageRecord
    <2>2. page'[x].at = "task" /\ page'[x].n = page[x].n
      BY <1>1, <1>3 DEF ConfirmDelete, Live, BrowserInv, PageInv
    <2> QED BY <1>2, <1>4, <2>1, <2>2, Sent
  <1> QED BY <1>2, <1>4, <1>5, RowIsKept, RowsRest, Frame DEF BrowserInv, RestInv

-----------------------------------------------------------------------------
(* Reads of the status *)

LEMMA AskKeeps ==
  ASSUME BrowserInv, NEW x \in Tab, Ask(x),
         UNCHANGED <<page, call, cookie, row, age, choices, losses>>
  PROVE  BrowserInv'
  <1>1. [sent |-> TRUE, context |-> cookie] \in PollRecord /\ TrueContext(cookie)
    BY DEF BrowserInv, CookieInv, PollRecord
  <1>2. PollInv'
    BY <1>1, RowsRest, Frame, PollSet DEF Ask
  <1> QED BY <1>2, RowIsKept, RowsRest, Frame DEF BrowserInv, RestInv

LEMMA NoPollKeeps ==
  ASSUME BrowserInv, NEW x \in Tab, row' = row, poll' = [poll EXCEPT ![x] = NoPoll]
  PROVE  PollInv'
  <1>1. NoPoll \in PollRecord /\ TrueContext(NoPoll.context)
    BY Blank, Kinds DEF TrueContext
  <1> QED BY <1>1, RowsRest, Frame, PollSet

LEMMA PollAnsweredKeeps ==
  ASSUME BrowserInv, NEW x \in Tab, PollAnswered(x)
  PROVE  BrowserInv'
  <1> DEFINE v == ReadVerdict(page[x].n, poll[x].context)
  <1>1. /\ v \in Verdict \cup {"ok"}
        /\ v = "deleted" => Gone(page[x].n)
        /\ v = "ok" => row[page[x].n] \in Status
    BY ReadVerdictTrue DEF BrowserInv, PollInv, PollRecord
  <1>2. page[x] \in PageRecord /\ TruePage(page[x])
    BY DEF BrowserInv, PageInv
  <1>3. /\ poll' = [poll EXCEPT ![x] = NoPoll]
        /\ UNCHANGED <<call, cookie, row, age, choices, losses>>
    BY DEF PollAnswered, userFrame
  <1>4. page' = IF v = "ok"
                THEN [page EXCEPT ![x].shown = row[page[x].n], ![x].error = "none"]
                ELSE [page EXCEPT ![x].error = v]
    BY DEF PollAnswered
  <1> HIDE DEF v
  <1>5. PICK p \in {IF v = "ok"
                    THEN [page[x] EXCEPT !.shown = row[page[x].n], !.error = "none"]
                    ELSE [page[x] EXCEPT !.error = v]} :
          page' = [page EXCEPT ![x] = p]
    BY <1>4 DEF BrowserInv, PageInv
  <1>6. p \in PageRecord /\ TruePage(p) /\ p.at = page[x].at /\ p.n = page[x].n
    <2>1. CASE v = "ok"
      <3>1. PICK q \in PageRecord, s \in Status : q = page[x] /\ s = row[page[x].n]
        BY <1>1, <1>2, <2>1
      <3>2. p = [q EXCEPT !.shown = s, !.error = "none"]
        BY <2>1, <3>1
      <3>3. p \in PageRecord /\ p.at = q.at /\ p.n = q.n /\ (Marked(p) => Marked(q))
        BY <3>2 DEF PageRecord, Verdict, Marked
      <3> QED BY <1>2, <3>1, <3>3 DEF TruePage
    <2>2. CASE v # "ok"
      BY <1>1, <1>2, <1>5, <2>2 DEF PageRecord, TruePage, Marked
    <2> QED BY <2>1, <2>2
  <1>7. PageInv' /\ \A r : Bound(r) => Bound(r)'
    BY <1>3, <1>5, <1>6, RowsRest, Edited
  <1>8. PollInv'
    BY <1>3, NoPollKeeps
  <1>9. CallInv' /\ BoundInv'
    BY <1>3, <1>7, RowsRest, Frame DEF BrowserInv, BoundInv
  <1> QED BY <1>3, <1>7, <1>8, <1>9, RowIsKept, RowsRest, Frame DEF BrowserInv, RestInv

LEMMA PollLostKeeps ==
  ASSUME BrowserInv, NEW x \in Tab, PollLost(x)
  PROVE  BrowserInv'
  <1>1. PICK p \in {[page[x] EXCEPT !.error = "network"]} : page' = [page EXCEPT ![x] = p]
    BY DEF PollLost, BrowserInv, PageInv
  <1>2. /\ poll' = [poll EXCEPT ![x] = NoPoll]
        /\ UNCHANGED <<call, cookie, row, age, choices>>
    BY DEF PollLost
  <1>3. p \in PageRecord /\ TruePage(p) /\ p.at = page[x].at /\ p.n = page[x].n
    <2>1. page[x] \in PageRecord /\ TruePage(page[x])
      BY DEF BrowserInv, PageInv
    <2> QED BY <2>1 DEF PageRecord, TruePage, Marked
  <1>4. PageInv' /\ \A r : Bound(r) => Bound(r)'
    BY <1>1, <1>2, <1>3, RowsRest, Edited
  <1>5. PollInv' /\ CallInv' /\ BoundInv'
    BY <1>2, <1>4, NoPollKeeps, RowsRest, Frame DEF BrowserInv, BoundInv
  <1>6. RestInv'
    BY <1>2, TaskBrowserAssumption DEF PollLost, BrowserInv, RestInv
  <1> QED BY <1>2, <1>4, <1>5, <1>6, RowIsKept, RowsRest, Frame DEF BrowserInv

-----------------------------------------------------------------------------
(* The server *)

LEMMA AnsweredTrue ==
  ASSUME BrowserInv, RowsMove, NEW c \in Call, NEW v \in Verdict \cup {"ok"}, NEW n \in Nat,
         Answered(c, v, n),
         v = "deleted" => call[c].kind = "delete",
         call[c].kind = "delete" => call[c].n = n,
         call[c].kind = "delete" /\ v \in {"deleted", "ok"} => Gone(n)',
         call[c].kind = "upload" /\ v = "ok" => n \in Task,
         call[c].kind = "choose" => v = "ok" /\ n \in Choice,
         call[c].pc = "sent",
         \A r : Bound(r) => Bound(r)'
  PROVE  CallInv' /\ BoundInv'
  <1> DEFINE a == [call[c] EXCEPT !.pc = "answered", !.answer = v, !.n = n,
                                  !.context = NoContext]
  <1>1. call[c] \in CallRecord /\ Bound(call[c])
    BY DEF BrowserInv, CallInv, BoundInv
  <1>2. PICK r \in {IF call[c].reach = "nobody" THEN NoCall ELSE a} :
          call' = [call EXCEPT ![c] = r]
    BY DEF Answered, BrowserInv, CallInv
  <1>3. r \in CallRecord /\ TrueCall(r)' /\ Bound(r)'
    <2>1. CASE call[c].reach = "nobody"
      BY <1>2, <2>1, Blank, Kinds DEF TrueCall, TrueContext, Bound
    <2>2. CASE call[c].reach # "nobody"
      <3>1. r = a
        BY <1>2, <2>2
      <3>2. r \in CallRecord /\ r.context = NoContext /\ r.kind = call[c].kind
            /\ r.answer = v /\ r.n = n /\ r.tab = call[c].tab /\ r.reach = call[c].reach
        BY <1>1, <3>1, Kinds DEF CallRecord
      <3>3. TrueCall(r)'
        BY <3>2, Kinds DEF TrueCall, TrueContext
      <3>4. Bound(r)
        BY <1>1, <3>2 DEF Bound
      <3> QED BY <3>2, <3>3, <3>4
    <2> QED BY <2>1, <2>2
  <1>4. CallInv'
    BY <1>2, <1>3, CallSet
  <1>5. BoundInv'
    BY <1>2, <1>3 DEF BrowserInv, BoundInv, CallInv
  <1> QED BY <1>4, <1>5

LEMMA ServeChooseKeeps ==
  ASSUME BrowserInv, NEW c \in Call, Serve(c), ServeChoose(c)
  PROVE  BrowserInv'
  <1>1. UNCHANGED <<cookie, page, poll, row, age, losses>>
    BY DEF Serve, ServeChoose
  <1>2. choices' = choices + 1 /\ choices + 1 \in Choice /\ choices' \in 0..MaxChoices
    BY TaskBrowserAssumption DEF ServeChoose, BrowserInv, RestInv, Choice
  <1>3. CallInv' /\ BoundInv'
    <2>1. choices + 1 \in Nat /\ call[c].kind = "choose" /\ Answered(c, "ok", choices + 1)
          /\ call[c].pc = "sent"
      BY <1>2 DEF ServeChoose, Serve, Choice
    <2>2. \A r : Bound(r) => Bound(r)'
      BY <1>1 DEF Bound
    <2> QED BY <1>1, <1>2, <2>1, <2>2, RowsRest, AnsweredTrue
  <1> QED BY <1>1, <1>2, <1>3, RowIsKept, RowsRest, Frame DEF BrowserInv, RestInv

LEMMA CreditTrue ==
  ASSUME BrowserInv, RowsMove, NEW c \in Call, NEW left \in Nat, Credit(c, left)
  PROVE  PageInv' /\ \A r : Bound(r) => Bound(r)'
  <1>1. CASE call[c].reach # "page"
    BY <1>1, Frame DEF Credit, Bound
  <1>2. CASE call[c].reach = "page"
    <2>1. PICK x \in Tab : x = call[c].tab
      BY DEF BrowserInv, CallInv, CallRecord
    <2>2. PICK o \in PageRecord : o = page[x] /\ TruePage(o)
      BY DEF BrowserInv, PageInv
    <2> PICK m \in Nat, l \in Nat : m = o.made + 1 /\ l = o.left + left
      BY DEF PageRecord
    <2>3. PICK p \in {[o EXCEPT !.made = m, !.left = l]} : page' = [page EXCEPT ![x] = p]
      BY <1>2, <2>1, <2>2 DEF Credit, BrowserInv, PageInv
    <2>4. p \in PageRecord
      BY DEF PageRecord
    <2>5. /\ p.at = o.at /\ p.n = o.n /\ p.state = o.state /\ p.error = o.error
          /\ p.told = o.told
      BY DEF PageRecord
    <2>6. TruePage(p)
      BY <2>2, <2>5 DEF TruePage, Marked
    <2> QED BY <2>2, <2>3, <2>4, <2>5, <2>6, Edited
  <1> QED BY <1>1, <1>2

LEMMA ServeUploadKeeps ==
  ASSUME BrowserInv, NEW c \in Call, Serve(c), ServeUpload(c)
  PROVE  BrowserInv'
  <1> DEFINE v == UploadVerdict(call[c].n, call[c].context)
  <1>1. UNCHANGED <<cookie, poll, age, losses, choices>> /\ call[c].kind = "upload"
        /\ call[c].pc = "sent"
    BY DEF Serve, ServeUpload
  <1>2. v \in {"unauthorized", "failed", "ok"}
    BY DEF UploadVerdict
  <1>3. CASE \E t \in Task : /\ NewTask(t)
                             /\ \/ Answered(c, "ok", t) /\ Credit(c, 0)
                                \/ Answered(c, "failed", 0) /\ Credit(c, 1)
    <2>1. PICK t \in Task : /\ NewTask(t)
                            /\ \/ Answered(c, "ok", t) /\ Credit(c, 0)
                               \/ Answered(c, "failed", 0) /\ Credit(c, 1)
      BY <1>3
    <2>2. RowsMove /\ row'[t] # "none"
      BY <2>1 DEF NewTask, RowsMove, BrowserInv, RowInv, Gone, Status
    <2>3. PageInv' /\ \A r : Bound(r) => Bound(r)'
      BY <2>1, <2>2, CreditTrue
    <2>4. PICK a \in {"ok", "failed"}, n \in Nat : Answered(c, a, n) /\ (a = "ok" => n = t)
      BY <2>1 DEF Task
    <2>5. a \in Verdict \cup {"ok"} /\ a # "deleted"
      BY <2>4 DEF Verdict
    <2>6. CallInv' /\ BoundInv'
      BY <1>1, <2>1, <2>2, <2>3, <2>4, <2>5, AnsweredTrue
    <2> QED BY <1>1, <2>2, <2>3, <2>6, Frame DEF RowsMove, BrowserInv, RestInv
  <1>4. CASE /\ Answered(c, IF v = "ok" THEN "failed" ELSE v, 0)
             /\ UNCHANGED <<row, page>>
    <2>1. PICK u \in {"unauthorized", "failed"} : Answered(c, u, 0)
      BY <1>2, <1>4
    <2>2. \A r : Bound(r) => Bound(r)'
      BY <1>4 DEF Bound
    <2>3. u \in Verdict \cup {"ok"} /\ 0 \in Nat /\ u # "deleted" /\ u # "ok"
      BY <2>1 DEF Verdict
    <2>4. CallInv' /\ BoundInv'
      BY <1>1, <1>4, <2>1, <2>2, <2>3, RowsRest, AnsweredTrue
    <2> QED BY <1>1, <1>4, <2>4, RowIsKept, RowsRest, Frame DEF BrowserInv, RestInv
  <1> QED BY <1>3, <1>4 DEF ServeUpload

LEMMA ServeDeleteKeeps ==
  ASSUME BrowserInv, NEW c \in Call, Serve(c), ServeDelete(c)
  PROVE  BrowserInv'
  <1>0. PICK n \in Nat : n = call[c].n
    BY DEF BrowserInv, CallInv, CallRecord
  <1> DEFINE v == DeleteVerdict(n, call[c].context)
             erase == row' = [row EXCEPT ![n] = "gone"]
  <1>1. /\ UNCHANGED <<cookie, page, poll, age, losses, choices>>
        /\ call[c].kind = "delete" /\ call[c].pc = "sent"
    BY DEF Serve, ServeDelete
  <1>2. /\ v \in Verdict \cup {"ok"}
        /\ v = "deleted" => Gone(n)
        /\ v = "ok" => n \in Task
    BY DeleteVerdictTrue DEF BrowserInv, CallInv, CallRecord, TrueCall
  <1>3. \A r : Bound(r) => Bound(r)'
    BY <1>1 DEF Bound
  <1> HIDE DEF v
  <1>4. PICK u \in Verdict \cup {"ok"} :
          /\ Answered(c, u, n)
          /\ u = "ok" => v = "ok" /\ erase
          /\ row' = row \/ (v = "ok" /\ erase)
          /\ u = "deleted" => v = "deleted" /\ row' = row
    <2>1. CASE v = "ok"
      BY <1>0, <1>2, <2>1 DEF ServeDelete, v, Verdict
    <2>2. CASE v # "ok"
      BY <1>0, <1>2, <2>2 DEF ServeDelete, v
    <2> QED BY <2>1, <2>2
  <1>5. RowsMove
    <2>1. CASE row' = row
      BY <2>1, RowsRest
    <2>2. CASE v = "ok" /\ erase
      BY <1>2, <2>2 DEF RowsMove, BrowserInv, RowInv, Gone
    <2> QED BY <1>4, <2>1, <2>2
  <1>6. u \in {"deleted", "ok"} => Gone(n)'
    <2>1. CASE u = "ok"
      BY <1>2, <1>4, <2>1 DEF BrowserInv, RowInv, Gone
    <2>2. CASE u = "deleted"
      BY <1>2, <1>4, <2>2 DEF Gone
    <2> QED BY <2>1, <2>2
  <1>7. CallInv' /\ BoundInv'
    BY <1>0, <1>1, <1>2, <1>3, <1>4, <1>5, <1>6, AnsweredTrue
  <1> QED BY <1>1, <1>5, <1>7, Frame DEF RowsMove, BrowserInv, RestInv

-----------------------------------------------------------------------------
(* Answers *)

LEMMA ContextTrue ==
  ASSUME BrowserInv, NEW c \in Call, call[c].pc = "answered", SetsCookie(c)
  PROVE  ContextOf(c) \in Context /\ TrueContext(ContextOf(c))
  <1>1. call[c] \in CallRecord /\ TrueCall(call[c]) /\ call[c].answer = "ok"
    BY DEF BrowserInv, CallInv, SetsCookie
  <1>2. CASE call[c].kind = "choose"
    BY <1>1, <1>2, Kinds DEF ContextOf, TrueCall, TrueContext
  <1>3. CASE call[c].kind = "upload"
    BY <1>1, <1>3, Kinds DEF ContextOf, TrueCall, TrueContext
  <1>4. CASE call[c].kind = "delete"
    BY <1>1, <1>4, Kinds DEF ContextOf, TrueCall, TrueContext, Gone
  <1> QED BY <1>1, <1>2, <1>3, <1>4 DEF CallRecord

LEMMA ToldTrue ==
  ASSUME BrowserInv, NEW c \in Call, call[c].pc = "answered", call[c].reach = "page",
         call[c].kind # "choose"
  PROVE  /\ Told(c) \in PageRecord /\ TruePage(Told(c))
         /\ Told(c).at = page[call[c].tab].at /\ Told(c).n = page[call[c].tab].n
  <1>1. call[c] \in CallRecord /\ TrueCall(call[c]) /\ Bound(call[c])
    BY DEF BrowserInv, CallInv, BoundInv
  <1>2. PICK p \in PageRecord : p = page[call[c].tab] /\ TruePage(p)
    BY <1>1 DEF CallRecord, BrowserInv, PageInv
  <1>3. CASE call[c].answer # "ok"
    <2>1. PICK v \in Verdict : v = IF call[c].answer \in {"deleted", "expired"}
                                   THEN call[c].answer ELSE "failed"
      BY DEF Verdict
    <2>2. Told(c) = [p EXCEPT !.state = "error", !.told = v]
      BY <1>2, <1>3, <2>1 DEF Told
    <2>3. v = "deleted" => Gone(p.n)
      BY <1>1, <1>2, <2>1 DEF TrueCall, Bound
    <2>4. [p EXCEPT !.state = "error", !.told = v] \in PageRecord
      BY DEF PageRecord
    <2> QED BY <1>2, <2>2, <2>3, <2>4 DEF TruePage, Marked, PageRecord
  <1>4. CASE call[c].answer = "ok" /\ call[c].kind = "upload"
    <2>1. PICK t \in 0..MaxTasks : t = call[c].n
      BY <1>1, <1>4, TaskBrowserAssumption DEF TrueCall, Task
    <2>2. Told(c) = [p EXCEPT !.state = "accepted", !.next = t]
      BY <1>2, <1>4, <2>1 DEF Told
    <2>3. [p EXCEPT !.state = "accepted", !.next = t] \in PageRecord
      BY DEF PageRecord
    <2> QED BY <1>2, <2>2, <2>3 DEF TruePage, Marked, PageRecord
  <1>5. CASE call[c].answer = "ok" /\ call[c].kind = "delete"
    <2>1. Told(c) = [p EXCEPT !.state = "deleted", !.error = "none"]
      BY <1>2, <1>5 DEF Told
    <2>2. Gone(p.n)
      BY <1>1, <1>2, <1>5 DEF TrueCall, Bound
    <2>3. [p EXCEPT !.state = "deleted", !.error = "none"] \in PageRecord
      BY DEF PageRecord, Verdict
    <2> QED BY <1>2, <2>1, <2>2, <2>3 DEF TruePage, PageRecord
  <1> QED BY <1>1, <1>3, <1>4, <1>5 DEF CallRecord

LEMMA PollAfterTrue ==
  ASSUME BrowserInv, NEW x \in Tab, NEW p, NEW k \in Context, TrueContext(k)
  PROVE  PollAfter(x, p, k) \in PollRecord /\ TrueContext(PollAfter(x, p, k).context)
  <1>1. NoPoll \in PollRecord /\ TrueContext(NoPoll.context)
    BY Blank, Kinds DEF TrueContext
  <1>2. [sent |-> TRUE, context |-> k] \in PollRecord
    BY DEF PollRecord
  <1>3. poll[x] \in PollRecord /\ TrueContext(poll[x].context)
    BY DEF BrowserInv, PollInv
  <1> QED BY <1>1, <1>2, <1>3 DEF PollAfter

\* A call that is over.
LEMMA CallOver ==
  ASSUME BrowserInv, RowsMove, NEW c \in Call, call' = [call EXCEPT ![c] = NoCall],
         \A r : Bound(r) => Bound(r)'
  PROVE  CallInv' /\ BoundInv'
  <1>1. PICK r \in CallRecord : r = NoCall
    BY Blank
  <1>2. TrueCall(r)' /\ Bound(r)'
    BY <1>1, Blank, Kinds DEF TrueCall, TrueContext, Bound
  <1>3. CallInv'
    BY <1>1, <1>2, CallSet
  <1>4. BoundInv'
    BY <1>1, <1>2 DEF BrowserInv, BoundInv, CallInv
  <1> QED BY <1>3, <1>4

LEMMA DeliverKeeps ==
  ASSUME BrowserInv, NEW c \in Call, Deliver(c)
  PROVE  BrowserInv'
  <1>1. PICK x \in Tab : x = call[c].tab
    BY DEF BrowserInv, CallInv, CallRecord
  <1>2. PICK k \in {IF SetsCookie(c) THEN ContextOf(c) ELSE cookie} : cookie' = k
    BY DEF Deliver
  <1>3. UNCHANGED <<row, age, choices, losses>> /\ call[c].pc = "answered"
    BY DEF Deliver
  <1>4. k \in Context /\ TrueContext(k)
    BY <1>2, <1>3, ContextTrue DEF BrowserInv, CookieInv
  <1>5. CookieInv'
    BY <1>2, <1>3, <1>4, RowsRest, Frame DEF CookieInv
  <1>6. PageInv' /\ PollInv' /\ CallInv' /\ BoundInv'
    <2>1. CASE call[c].kind = "choose" /\ call[c].reach # "nobody"
      <3>1. PICK p \in {UploadPageFor(k)} :
              /\ page' = [page EXCEPT ![x] = p]
              /\ poll' = [poll EXCEPT ![x] = NoPoll]
              /\ call' = [Cut(x, "nobody") EXCEPT ![c] = NoCall]
        BY <1>1, <1>2, <2>1 DEF Deliver
      <3>2. p \in PageRecord /\ TruePage(p)
        BY <1>4, <3>1, UploadPageTrue DEF TruePage
      <3>3. PageInv' /\ PollInv'
        BY <1>3, <3>1, <3>2, RowsRest, Frame, PageSet, NoPollKeeps
      <3>4. /\ call' \in [Call -> CallRecord]
            /\ \A d \in Call : /\ TrueCall(call'[d])
                               /\ \/ call'[d].reach # "page" \/ call'[d].pc = "idle"
                                  \/ call'[d] = call[d] /\ call[d].tab # x
        BY <3>1, CutTrue, Blank, Kinds DEF TrueCall, TrueContext
      <3>5. CallInv'
        BY <1>3, <3>4, RowsRest DEF CallInv, TrueCall, TrueContext, RowsMove
      <3>6. BoundInv'
        BY <3>1, <3>4 DEF BrowserInv, BoundInv, Bound, PageInv
      <3> QED BY <3>3, <3>5, <3>6
    <2>2. CASE ~(call[c].kind = "choose" /\ call[c].reach # "nobody")
      <3>1. call' = [call EXCEPT ![c] = NoCall]
        BY <2>2 DEF Deliver
      <3>2. CASE call[c].reach = "page"
        <4>1. PICK p \in {Told(c)}, q \in {PollAfter(x, Told(c), k)} :
                page' = [page EXCEPT ![x] = p] /\ poll' = [poll EXCEPT ![x] = q]
          BY <1>1, <1>2, <2>2, <3>2 DEF Deliver
        <4>2. p \in PageRecord /\ TruePage(p) /\ p.at = page[x].at /\ p.n = page[x].n
          BY <1>1, <1>3, <2>2, <3>2, <4>1, ToldTrue
        <4>3. PageInv' /\ \A r : Bound(r) => Bound(r)'
          BY <1>3, <4>1, <4>2, RowsRest, Edited
        <4>4. q \in PollRecord /\ TrueContext(q.context)
          BY <1>4, <4>1, PollAfterTrue
        <4>5. PollInv'
          BY <1>3, <4>1, <4>4, RowsRest, Frame, PollSet
        <4> QED BY <1>3, <3>1, <4>3, <4>5, RowsRest, CallOver
      <3>3. CASE call[c].reach # "page"
        <4>1. UNCHANGED <<page, poll>>
          BY <2>2, <3>3 DEF Deliver
        <4>2. \A r : Bound(r) => Bound(r)'
          BY <4>1 DEF Bound
        <4> QED BY <1>3, <3>1, <4>1, <4>2, RowsRest, Frame, CallOver
      <3> QED BY <3>2, <3>3
    <2> QED BY <2>1, <2>2
  <1> QED BY <1>3, <1>5, <1>6, RowIsKept DEF BrowserInv, RestInv

LEMMA LoseKeeps ==
  ASSUME BrowserInv, NEW c \in Call, Lose(c)
  PROVE  BrowserInv'
  <1>1. PICK x \in Tab : x = call[c].tab
    BY DEF BrowserInv, CallInv, CallRecord
  <1>2. UNCHANGED <<cookie, row, age, choices>> /\ call' = [call EXCEPT ![c] = NoCall]
    BY DEF Lose
  <1>3. PageInv' /\ PollInv' /\ \A r : Bound(r) => Bound(r)'
    <2>1. CASE call[c].reach = "page" /\ call[c].kind # "choose"
      <3>1. PICK b \in Nat : b = Unheeded(c)
        BY DEF Unheeded
      <3>0. PICK o \in PageRecord : o = page[x] /\ TruePage(o)
        BY DEF BrowserInv, PageInv
      <3> PICK l \in Nat : l = o.left + b
        BY <3>1 DEF PageRecord
      <3>2. PICK p \in {[o EXCEPT !.state = "error", !.told = "failed", !.left = l]} :
              page' = [page EXCEPT ![x] = p]
        BY <1>1, <2>1, <3>0, <3>1 DEF Lose, BrowserInv, PageInv
      <3>3. p \in PageRecord /\ TruePage(p) /\ p.at = page[x].at /\ p.n = page[x].n
        <4>1. p \in PageRecord
          BY DEF PageRecord, Verdict
        <4>2. /\ p.at = o.at /\ p.n = o.n /\ p.state = "error" /\ p.error = o.error
              /\ p.told = "failed"
          BY DEF PageRecord
        <4> QED BY <3>0, <4>1, <4>2 DEF TruePage, Marked
      <3>4. PICK q \in {PollAfter(x, p, cookie)} : poll' = [poll EXCEPT ![x] = q]
        BY <1>1, <2>1, <3>2 DEF Lose, BrowserInv, PageInv
      <3>5. q \in PollRecord /\ TrueContext(q.context)
        BY <3>4, PollAfterTrue DEF BrowserInv, CookieInv
      <3> QED BY <1>2, <3>2, <3>3, <3>4, <3>5, RowsRest, Edited, Frame, PollSet
    <2>2. CASE ~(call[c].reach = "page" /\ call[c].kind # "choose")
      <3>1. UNCHANGED <<page, poll>>
        BY <2>2 DEF Lose
      <3> QED BY <1>2, <3>1, RowsRest, Frame DEF Bound
    <2> QED BY <2>1, <2>2
  <1>4. CallInv' /\ BoundInv'
    BY <1>2, <1>3, RowsRest, CallOver
  <1>5. RestInv'
    BY <1>2, TaskBrowserAssumption DEF Lose, BrowserInv, RestInv
  <1> QED BY <1>2, <1>3, <1>4, <1>5, RowIsKept, RowsRest, Frame DEF BrowserInv

-----------------------------------------------------------------------------

LEMMA WorldKeeps ==
  ASSUME BrowserInv, (\E t \in Task : Work(t) \/ Elapse(t)) \/ Forget
  PROVE  BrowserInv'
  <1>1. UNCHANGED <<page, poll, call, choices, losses>>
    BY DEF Work, Elapse, Forget
  <1>2. RowsMove
    <2>1. CASE \E t \in Task : Work(t)
      BY <2>1 DEF Work, RowsMove, BrowserInv, RowInv, Gone, Present, Status
    <2>2. CASE row' = row
      BY <2>2, RowsRest
    <2> QED BY <2>1, <2>2 DEF Elapse, Forget
  <1>3. CookieInv'
    <2>1. CASE cookie' = cookie
      BY <1>2, <2>1, Frame
    <2>2. CASE cookie' = NoContext
      BY <2>2, Kinds DEF CookieInv, TrueContext
    <2> QED BY <2>1, <2>2 DEF Work, Elapse, Forget
  <1>4. age' \in [Task -> 0..MaxAge]
    <2>1. CASE \E t \in Task : Elapse(t)
      BY <2>1, TaskBrowserAssumption DEF Elapse, BrowserInv, RestInv
    <2> QED BY <2>1 DEF Work, Forget, BrowserInv, RestInv
  <1> QED BY <1>1, <1>2, <1>3, <1>4, Frame DEF BrowserInv, RestInv, RowsMove

LEMMA BrowserNext == BrowserInv /\ [Next]_vars => BrowserInv'
  <1> SUFFICES ASSUME BrowserInv, [Next]_vars PROVE BrowserInv'
    OBVIOUS
  <1>1. CASE UNCHANGED vars
    BY <1>1, RowIsKept, RowsRest, Frame DEF vars, BrowserInv, RestInv
  <1>2. CASE \E x \in Tab : User(x)
    <2> SUFFICES ASSUME NEW x \in Tab, User(x) PROVE BrowserInv'
      BY <1>2
    <2>1. CASE Refresh(x)
      BY <2>1, AskKeeps DEF Refresh, userFrame
    <2> QED BY <2>1, VisitKeeps, ChooseKeeps, SubmitKeeps, SubmitRefusedKeeps, AskDeleteKeeps,
               CancelDeleteKeeps, ConfirmDeleteKeeps DEF User
  <1>3. CASE \E x \in Tab : Follow(x) \/ Polls(x) \/ PollLost(x)
    <2> SUFFICES ASSUME NEW x \in Tab, Follow(x) \/ Polls(x) \/ PollLost(x) PROVE BrowserInv'
      BY <1>3
    <2>1. CASE PollTick(x)
      BY <2>1, AskKeeps DEF PollTick, userFrame
    <2> QED BY <2>1, FollowKeeps, PollAnsweredKeeps, PollLostKeeps DEF Polls
  <1>4. CASE \E c \in Call : Serve(c)
    BY <1>4, ServeChooseKeeps, ServeUploadKeeps, ServeDeleteKeeps DEF Serve
  <1>5. CASE \E c \in Call : Deliver(c) \/ Lose(c)
    BY <1>5, DeliverKeeps, LoseKeeps
  <1>6. CASE (\E t \in Task : Work(t) \/ Elapse(t)) \/ Forget
    BY <1>6, WorldKeeps
  <1> QED BY <1>1, <1>2, <1>3, <1>4, <1>5, <1>6 DEF Next

\* Every reachable state of the browser and its requests is well typed.
THEOREM BrowserTypeCorrect == Spec => []TypeOK
  <1>1. BrowserInv => TypeOK
    BY DEF BrowserInv, CookieInv, PageInv, PollInv, CallInv, RowInv, RestInv, TypeOK,
           PageRecord, PollRecord, CallRecord
  <1> QED BY <1>1, BrowserInit, BrowserNext, PTL DEF Spec

\* A cookie, a page or an answer that says that a task is deleted is right,
\* whichever requests overlapped, failed or got lost.
THEOREM DeletedTrue == Spec => []DeletedIsTrue
  <1>1. BrowserInv => DeletedIsTrue
    BY DEF BrowserInv, CookieInv, PageInv, TrueContext, TruePage, Marked, Gone, DeletedIsTrue,
           Says, Present, Status
  <1> QED BY <1>1, BrowserInit, BrowserNext, PTL DEF Spec

-----------------------------------------------------------------------------
(* Expiry.  A task is called expired in an answer, which the page of the   *)
(* task is told, and what is past its time remains so.                     *)

Old(t) == t \in Task /\ age[t] >= 1

OldPage(p) == p.error = "expired" \/ p.told = "expired" => Old(p.n)

OldCall(r) == r.pc = "answered" /\ r.answer = "expired" => r.kind = "delete" /\ Old(r.n)

OldInv == (\A x \in Tab : OldPage(page[x])) /\ (\A c \in Call : OldCall(call[c]))

-----------------------------------------------------------------------------
(* The upload form.  A form asks once at a time and under the number its   *)
(* page was shown with; once it has made a task, the browser's context     *)
(* loses that number, and no choice ever hands it out again.               *)

\* An answer that will set a bootstrap context.
Waiting(r) == r.pc = "answered" /\ r.kind = "choose"

\* The form of tab x waits for this upload.
Mine(r, x) == r.tab = x /\ r.kind = "upload" /\ r.reach = "page" /\ r.pc # "idle"

NumbersInv ==
  /\ cookie.kind = "bootstrap" => cookie.n <= choices
  /\ \A x \in Tab : page[x].at = "form" => page[x].n <= choices
  /\ \A c \in Call : Waiting(call[c]) =>
       /\ call[c].n <= choices
       /\ cookie.kind = "bootstrap" => cookie.n # call[c].n
       /\ \A x \in Tab : page[x].at = "form" => page[x].n # call[c].n
       /\ \A d \in Call : Waiting(call[d]) /\ call[d].n = call[c].n => d = c

AsksOnce(x) ==
  \A c \in Call : Mine(call[c], x) =>
    /\ page[x].at = "form" /\ page[x].state = "submitting"
    /\ call[c].pc = "sent" => call[c].n = page[x].n
    /\ \A d \in Call : Mine(call[d], x) => d = c

\* Context k still lets the form numbered n make a task.
Admits(k, n) == k.kind = "bootstrap" /\ k.n = n

MakesOnce(x) ==
  /\ page[x].made <= page[x].left + 1
  /\ page[x].made > page[x].left => page[x].at = "form"
  /\ page[x].made > page[x].left =>
       \/ \E c \in Call : Mine(call[c], x) /\ call[c].pc = "answered" /\ call[c].answer = "ok"
       \/ /\ ~Admits(cookie, page[x].n)
          /\ \A c \in Call : Mine(call[c], x) /\ call[c].pc = "sent" =>
               ~Admits(call[c].context, page[x].n)

FormInv(x) == AsksOnce(x) /\ MakesOnce(x)

-----------------------------------------------------------------------------
(* What the steps do to requests, seen from the forms *)

\* The form of tab x and the request it waits for stay as they are.
Still(x) ==
  /\ page'[x].at = page[x].at /\ page'[x].n = page[x].n
  /\ page'[x].at = "form" => page'[x].state = page[x].state
  /\ page'[x].made = page[x].made /\ page'[x].left = page[x].left
  /\ \A c \in Call : Mine(call[c], x) \/ Mine(call'[c], x) => call'[c] = call[c]

\* A page that was told of no task and waits for nothing.
Emptied(x) ==
  /\ {page'[x].made, page'[x].left} \subseteq Nat
  /\ page'[x].made <= page'[x].left
  /\ \A c \in Call : ~Mine(call'[c], x)

\* The browser gets no bootstrap context but one that was waiting for it.
CookieMoves ==
  cookie'.kind = "bootstrap" =>
    \/ cookie' = cookie
    \/ \E c \in Call : /\ Waiting(call[c]) /\ ~Waiting(call'[c])
                       /\ cookie'.n = call[c].n

LEMMA StillKeeps ==
  ASSUME NumbersInv, NEW x \in Tab, FormInv(x), Still(x), CookieMoves
  PROVE  FormInv(x)'
  <1>1. AsksOnce(x)'
    BY DEF FormInv, AsksOnce, Still
  <1>2. page[x].at = "form" /\ ~Admits(cookie, page[x].n) => ~Admits(cookie', page[x].n)
    BY DEF NumbersInv, CookieMoves, Admits
  <1>3. MakesOnce(x)'
    <2>1. /\ MakesOnce(x) /\ page'[x].made = page[x].made /\ page'[x].left = page[x].left
          /\ page'[x].at = page[x].at /\ page'[x].n = page[x].n
          /\ \A c \in Call : Mine(call[c], x) \/ Mine(call'[c], x) => call'[c] = call[c]
      BY DEF FormInv, Still
    <2>2. /\ page'[x].made <= page'[x].left + 1
          /\ page'[x].made > page'[x].left => page'[x].at = "form"
      BY <2>1 DEF MakesOnce
    <2>3. ASSUME page'[x].made > page'[x].left
          PROVE  \/ \E c \in Call : /\ Mine(call'[c], x) /\ call'[c].pc = "answered"
                                    /\ call'[c].answer = "ok"
                 \/ /\ ~Admits(cookie', page'[x].n)
                    /\ \A c \in Call : Mine(call'[c], x) /\ call'[c].pc = "sent" =>
                         ~Admits(call'[c].context, page'[x].n)
      <3>1. page[x].made > page[x].left
        BY <2>1, <2>3
      <3>2. CASE \E c \in Call : /\ Mine(call[c], x) /\ call[c].pc = "answered"
                                 /\ call[c].answer = "ok"
        BY <2>1, <3>2
      <3>3. CASE /\ ~Admits(cookie, page[x].n)
                 /\ \A c \in Call : Mine(call[c], x) /\ call[c].pc = "sent" =>
                      ~Admits(call[c].context, page[x].n)
        <4>1. page[x].at = "form"
          BY <2>1, <3>1 DEF MakesOnce
        <4> QED BY <1>2, <2>1, <3>3, <4>1
      <3> QED BY <2>1, <3>1, <3>2, <3>3 DEF MakesOnce
    <2> QED BY <2>2, <2>3 DEF MakesOnce
  <1> QED BY <1>1, <1>3 DEF FormInv

LEMMA EmptiedKeeps ==
  ASSUME NEW x \in Tab, Emptied(x)
  PROVE  FormInv(x)'
  BY DEF FormInv, AsksOnce, MakesOnce, Emptied

\* A page shows a form under the number of the browser's context.
PageNumbers ==
  \A x \in Tab : page'[x].at = "form" =>
    \/ page[x].at = "form" /\ page'[x].n = page[x].n
    \/ cookie'.kind = "bootstrap" /\ page'[x].n = cookie'.n

\* No choice is answered.
NoneWaits ==
  \A c \in Call : Waiting(call'[c]) => Waiting(call[c]) /\ call'[c].n = call[c].n

LEMMA NumbersKept ==
  ASSUME NumbersInv, choices' = choices, CookieMoves, PageNumbers, NoneWaits
  PROVE  NumbersInv'
  <1>1. cookie'.kind = "bootstrap" =>
          /\ cookie'.n <= choices
          /\ \A c \in Call : Waiting(call'[c]) => cookie'.n # call[c].n
    BY DEF NumbersInv, CookieMoves, NoneWaits
  <1>2. \A x \in Tab : page'[x].at = "form" =>
          /\ page'[x].n <= choices
          /\ \A c \in Call : Waiting(call'[c]) => page'[x].n # call[c].n
    BY <1>1 DEF NumbersInv, PageNumbers, NoneWaits
  <1> QED BY <1>1, <1>2 DEF NumbersInv, NoneWaits

\* The requests of a tab that are cut: none is waited for, and none answers.
LEMMA CutForms ==
  ASSUME BrowserInv, NEW x \in Tab, NEW reach \in {"cookie", "nobody"}, NEW c \in Call
  PROVE  /\ ~Mine(Cut(x, reach)[c], x)
         /\ \A y \in Tab \ {x} : Mine(Cut(x, reach)[c], y) \/ Mine(call[c], y)
                                   => Cut(x, reach)[c] = call[c]
         /\ Waiting(Cut(x, reach)[c]) => Waiting(call[c]) /\ Cut(x, reach)[c].n = call[c].n
  <1>1. PICK r \in CallRecord : r = call[c]
    BY DEF BrowserInv, CallInv
  <1>2. Cut(x, reach)[c] = IF r.tab = x /\ r.reach # "nobody" THEN Unheard(r, reach) ELSE r
    BY <1>1 DEF Cut
  <1>3. NoCall.pc = "idle"
    BY Blank
  <1>4. CASE r.tab = x /\ r.reach # "nobody"
    <2>1. Cut(x, reach)[c] = NoCall \/ Cut(x, reach)[c] = [r EXCEPT !.reach = reach]
      BY <1>2, <1>4 DEF Unheard
    <2>2. [r EXCEPT !.reach = reach].reach # "page"
      BY DEF CallRecord
    <2>3. /\ [r EXCEPT !.reach = reach].pc = r.pc /\ [r EXCEPT !.reach = reach].kind = r.kind
          /\ [r EXCEPT !.reach = reach].n = r.n
      BY DEF CallRecord
    <2> QED BY <1>1, <1>3, <1>4, <2>1, <2>2, <2>3 DEF Mine, Waiting
  <1>5. CASE ~(r.tab = x /\ r.reach # "nobody")
    BY <1>1, <1>2, <1>5 DEF Mine
  <1> QED BY <1>4, <1>5

FormsInv == NumbersInv /\ \A x \in Tab : FormInv(x)

LEMMA FormsKept ==
  ASSUME FormsInv, choices' = choices, CookieMoves, PageNumbers, NoneWaits,
         \A x \in Tab : Still(x) \/ Emptied(x) \/ FormInv(x)'
  PROVE  FormsInv'
  <1>1. NumbersInv'
    BY NumbersKept DEF FormsInv
  <1>2. ASSUME NEW x \in Tab PROVE FormInv(x)'
    BY <1>2, StillKeeps, EmptiedKeeps DEF FormsInv
  <1> QED BY <1>1, <1>2 DEF FormsInv

-----------------------------------------------------------------------------
(* Pages that are shown anew *)

\* A page that counts no task.
Fresh(p) == p.made = 0 /\ p.left = 0

LEMMA NewPages ==
  ASSUME NEW k, NEW t
  PROVE  /\ Fresh(Home) /\ Home.at # "form"
         /\ Fresh(UploadPageFor(k))
         /\ UploadPageFor(k).at = "form" => k.kind = "bootstrap" /\ UploadPageFor(k).n = k.n
         /\ Fresh(TaskPageFor(t, k)) /\ TaskPageFor(t, k).at # "form"
  <1>1. Fresh(Home) /\ Home.at # "form"
    BY DEF Fresh, Home
  <1>2. Fresh(NoEntry) /\ NoEntry.at # "form"
    BY DEF Fresh, NoEntry, Home
  <1>3. \A n : Fresh(Form(n)) /\ Form(n).n = n
    BY DEF Fresh, Form, Home
  <1>4. \A s : Fresh(TaskPage(t, s)) /\ TaskPage(t, s).at # "form"
    BY DEF Fresh, TaskPage, Home
  <1>5. \A v : Fresh(Denied(t, v)) /\ Denied(t, v).at # "form"
    BY DEF Fresh, Denied, Home
  <1> QED BY <1>1, <1>2, <1>3, <1>4, <1>5 DEF UploadPageFor, TaskPageFor

\* Tab x shows another page, its requests are cut and some request is over.
LEMMA TurnedForms ==
  ASSUME BrowserInv, FormsInv, NEW x \in Tab, NEW reach \in {"cookie", "nobody"}, NEW p,
         Fresh(p), p.at = "form" => cookie'.kind = "bootstrap" /\ p.n = cookie'.n,
         page' = [page EXCEPT ![x] = p], choices' = choices, CookieMoves,
         \A c \in Call : \/ call'[c] = Cut(x, reach)[c]
                         \/ call'[c].pc = "idle" /\ \A y \in Tab \ {x} : ~Mine(call[c], y)
  PROVE  FormsInv'
  <1>1. page'[x] = p /\ \A y \in Tab \ {x} : page'[y] = page[y]
    BY DEF BrowserInv, PageInv
  <1>2. PageNumbers
    BY <1>1 DEF PageNumbers
  <1>3. NoneWaits
    BY CutForms DEF NoneWaits, Waiting
  <1>4. Emptied(x)
    BY <1>1, CutForms DEF Emptied, Mine, Fresh
  <1>5. ASSUME NEW y \in Tab \ {x} PROVE Still(y)
    <2>1. \A c \in Call : Mine(call[c], y) \/ Mine(call'[c], y) => call'[c] = call[c]
      BY CutForms DEF Mine
    <2> QED BY <1>1, <2>1 DEF Still
  <1> QED BY <1>2, <1>3, <1>4, <1>5, FormsKept

LEMMA VisitForms ==
  ASSUME BrowserInv, FormsInv, NEW x \in Tab, Visit(x)
  PROVE  FormsInv'
  <1>1. PICK p \in {Home, UploadPageFor(cookie)}
                   \cup {TaskPageFor(t, cookie) : t \in {u \in Task : row[u] # "none"}} :
          page' = [page EXCEPT ![x] = p]
    BY DEF Visit, Show
  <1>2. PICK reach \in {"cookie", "nobody"} : call' = Cut(x, reach)
    BY DEF Visit
  <1>3. cookie' = cookie /\ choices' = choices
    BY DEF Visit
  <1>4. Fresh(p) /\ (p.at = "form" => cookie'.kind = "bootstrap" /\ p.n = cookie'.n)
    BY <1>1, <1>3, NewPages
  <1> QED BY <1>1, <1>2, <1>3, <1>4, TurnedForms DEF CookieMoves

LEMMA FollowForms ==
  ASSUME BrowserInv, FormsInv, NEW x \in Tab, Follow(x)
  PROVE  FormsInv'
  <1>1. PICK p \in {TaskPageFor(page[x].next, cookie)} : page' = [page EXCEPT ![x] = p]
    BY DEF Follow, Show
  <1>2. call' = Cut(x, "cookie") /\ cookie' = cookie /\ choices' = choices
    BY DEF Follow, userFrame
  <1>3. Fresh(p) /\ p.at # "form"
    BY <1>1, NewPages
  <1> QED BY <1>1, <1>2, <1>3, TurnedForms DEF CookieMoves

LEMMA DeliverChoiceForms ==
  ASSUME BrowserInv, FormsInv, NEW c \in Call, Deliver(c),
         call[c].kind = "choose", call[c].reach # "nobody"
  PROVE  FormsInv'
  <1>1. PICK x \in Tab : x = call[c].tab
    BY DEF BrowserInv, CallInv, CallRecord
  <1>2. /\ cookie' = Bootstrap(call[c].n) /\ choices' = choices
        /\ page' = [page EXCEPT ![x] = UploadPageFor(cookie')]
        /\ call' = [Cut(x, "nobody") EXCEPT ![c] = NoCall]
        /\ Waiting(call[c])
    BY <1>1 DEF Deliver, BrowserInv, CallInv, TrueCall, SetsCookie, ContextOf, Waiting
  <1>3. /\ call'[c].pc = "idle" /\ \A y \in Tab : ~Mine(call[c], y)
        /\ \A d \in Call \ {c} : call'[d] = Cut(x, "nobody")[d]
    BY <1>2, CutTrue, Blank DEF Mine
  <1>4. CookieMoves
    BY <1>2, <1>3 DEF CookieMoves, Bootstrap, Waiting
  <1>5. PICK p \in {UploadPageFor(cookie')} : page' = [page EXCEPT ![x] = p]
    BY <1>2
  <1>6. Fresh(p) /\ (p.at = "form" => cookie'.kind = "bootstrap" /\ p.n = cookie'.n)
    BY <1>5, NewPages
  <1>7. \A d \in Call : \/ call'[d] = Cut(x, "nobody")[d]
                        \/ call'[d].pc = "idle" /\ \A y \in Tab \ {x} : ~Mine(call[d], y)
    BY <1>3
  <1>8. choices' = choices /\ page' = [page EXCEPT ![x] = p]
    BY <1>2, <1>5
  <1>9. "nobody" \in {"cookie", "nobody"}
    OBVIOUS
  <1> QED BY <1>4, <1>6, <1>7, <1>8, <1>9, TurnedForms

-----------------------------------------------------------------------------
(* Steps that leave every form alone *)

\* No page becomes or ceases to be a form, and none is credited or submitted.
SamePages ==
  \A x \in Tab : /\ page'[x].at = page[x].at /\ page'[x].n = page[x].n
                 /\ page'[x].at = "form" => page'[x].state = page[x].state
                 /\ page'[x].made = page[x].made /\ page'[x].left = page[x].left

LEMMA QuietForms ==
  ASSUME FormsInv, choices' = choices, CookieMoves, NoneWaits, SamePages,
         \A x \in Tab, c \in Call : Mine(call[c], x) \/ Mine(call'[c], x) => call'[c] = call[c]
  PROVE  FormsInv'
  <1>1. PageNumbers
    BY DEF PageNumbers, SamePages
  <1>2. \A x \in Tab : Still(x)
    BY DEF Still, SamePages
  <1> QED BY <1>1, <1>2, FormsKept

LEMMA IdleForms ==
  ASSUME FormsInv, UNCHANGED <<page, call, choices>>, cookie' = cookie \/ cookie' = NoContext
  PROVE  FormsInv'
  <1>1. CookieMoves
    BY Kinds DEF CookieMoves
  <1>2. NoneWaits /\ SamePages
    BY DEF NoneWaits, SamePages
  <1> QED BY <1>1, <1>2, QuietForms

LEMMA PollForms ==
  ASSUME BrowserInv, FormsInv, NEW x \in Tab, PollAnswered(x) \/ PollLost(x)
  PROVE  FormsInv'
  <1>1. UNCHANGED <<call, cookie, choices>>
    BY DEF PollAnswered, PollLost, userFrame
  <1>2. PICK p \in PageRecord : p = page[x]
    BY DEF BrowserInv, PageInv
  <1>3. PICK q \in {[p EXCEPT !.shown = row[p.n], !.error = "none"],
                    [p EXCEPT !.error = ReadVerdict(p.n, poll[x].context)],
                    [p EXCEPT !.error = "network"]} :
          page' = [page EXCEPT ![x] = q]
    <2>1. CASE PollAnswered(x) /\ ReadVerdict(p.n, poll[x].context) = "ok"
      BY <1>2, <2>1 DEF PollAnswered, BrowserInv, PageInv
    <2>2. CASE PollAnswered(x) /\ ReadVerdict(p.n, poll[x].context) # "ok"
      BY <1>2, <2>2 DEF PollAnswered, BrowserInv, PageInv
    <2>3. CASE PollLost(x)
      BY <1>2, <2>3 DEF PollLost, BrowserInv, PageInv
    <2> QED BY <2>1, <2>2, <2>3
  <1>4. /\ q.at = p.at /\ q.n = p.n /\ q.state = p.state
        /\ q.made = p.made /\ q.left = p.left
    BY DEF PageRecord
  <1>5. SamePages
    BY <1>2, <1>3, <1>4 DEF SamePages, BrowserInv, PageInv
  <1> QED BY <1>1, <1>5, QuietForms DEF CookieMoves, NoneWaits

LEMMA ChooseForms ==
  ASSUME BrowserInv, FormsInv, NEW x \in Tab, Choose(x)
  PROVE  FormsInv'
  <1>1. PICK c \in Call :
          /\ call[c].pc = "idle"
          /\ call' = [d \in Call |->
            IF d = c THEN Request(x, "choose", 0)
            ELSE IF call[d].tab = x /\ call[d].kind = "choose"
                 THEN Unheard(call[d], "nobody") ELSE call[d]]
    BY DEF Choose
  <1>2. UNCHANGED <<page, cookie, choices>>
    BY DEF Choose, userFrame
  <1>3. Request(x, "choose", 0).kind = "choose" /\ Request(x, "choose", 0).pc = "sent"
    BY Blank DEF Request, CallRecord
  <1>4. ASSUME NEW d \in Call
        PROVE  /\ \A y \in Tab : Mine(call[d], y) \/ Mine(call'[d], y) => call'[d] = call[d]
               /\ Waiting(call'[d]) => Waiting(call[d]) /\ call'[d].n = call[d].n
    <2>1. PICK r \in CallRecord : r = call[d]
      BY DEF BrowserInv, CallInv
    <2>2. CASE d = c
      BY <1>1, <1>3, <2>2 DEF Mine, Waiting
    <2>3. CASE d # c /\ r.tab = x /\ r.kind = "choose"
      <3>1. call'[d] = NoCall \/ call'[d] = [r EXCEPT !.reach = "nobody"]
        BY <1>1, <2>1, <2>3 DEF Unheard
      <3>2. /\ [r EXCEPT !.reach = "nobody"].reach # "page"
            /\ [r EXCEPT !.reach = "nobody"].pc = r.pc
            /\ [r EXCEPT !.reach = "nobody"].n = r.n
        BY DEF CallRecord
      <3> QED BY <2>1, <2>3, <3>1, <3>2, Blank DEF Mine, Waiting
    <2>4. CASE d # c /\ ~(r.tab = x /\ r.kind = "choose")
      BY <1>1, <2>1, <2>4
    <2> QED BY <2>2, <2>3, <2>4
  <1> QED BY <1>2, <1>4, QuietForms DEF CookieMoves, NoneWaits, SamePages

-----------------------------------------------------------------------------
(* A page that is edited *)

\* Tab x is edited, and the other tabs' requests stay.
LEMMA EditedForms ==
  ASSUME BrowserInv, FormsInv, NEW x \in Tab, NEW p, page' = [page EXCEPT ![x] = p],
         p.at = page[x].at, p.n = page[x].n, choices' = choices, CookieMoves, NoneWaits,
         \A y \in Tab \ {x}, c \in Call :
           Mine(call[c], y) \/ Mine(call'[c], y) => call'[c] = call[c],
         Emptied(x) \/ FormInv(x)'
  PROVE  FormsInv'
  <1>1. page'[x] = p /\ \A y \in Tab \ {x} : page'[y] = page[y]
    BY DEF BrowserInv, PageInv
  <1>2. PageNumbers
    BY <1>1 DEF PageNumbers
  <1>3. \A y \in Tab \ {x} : Still(y)
    BY <1>1 DEF Still
  <1> QED BY <1>2, <1>3, FormsKept

\* A page that is no form was told of no task and waits for no upload.
LEMMA OtherPages ==
  ASSUME FormsInv, BrowserInv, NEW x \in Tab, page[x].at # "form"
  PROVE  /\ {page[x].made, page[x].left} \subseteq Nat /\ page[x].made <= page[x].left
         /\ \A c \in Call : ~Mine(call[c], x)
  BY DEF FormsInv, FormInv, AsksOnce, MakesOnce, BrowserInv, PageInv, PageRecord

LEMMA SendForms ==
  ASSUME BrowserInv, NEW x \in Tab, NEW kind \in {"upload", "delete"}, NEW n \in Nat,
         Send(x, kind, n)
  PROVE  /\ NoneWaits
         /\ \A y \in Tab \ {x}, c \in Call :
              Mine(call[c], y) \/ Mine(call'[c], y) => call'[c] = call[c]
         /\ \E c \in Call : /\ call[c].pc = "idle" /\ \A d \in Call \ {c} : call'[d] = call[d]
                            /\ call'[c].kind = kind /\ call'[c].n = n
                            /\ call'[c].context = cookie /\ call'[c].pc = "sent"
  <1>1. PICK c \in Call, r \in {Request(x, kind, n)} :
          call[c].pc = "idle" /\ call' = [call EXCEPT ![c] = r]
    BY DEF Send
  <1>2. r.kind = kind /\ r.n = n /\ r.context = cookie /\ r.pc = "sent" /\ r.tab = x
    BY Blank DEF Request, CallRecord
  <1>3. call'[c] = r /\ \A d \in Call \ {c} : call'[d] = call[d]
    BY <1>1 DEF BrowserInv, CallInv
  <1>4. NoneWaits
    BY <1>2, <1>3 DEF NoneWaits, Waiting
  <1>5. ASSUME NEW y \in Tab \ {x}, NEW d \in Call
        PROVE  Mine(call[d], y) \/ Mine(call'[d], y) => call'[d] = call[d]
    BY <1>1, <1>2, <1>3 DEF Mine
  <1> QED BY <1>1, <1>2, <1>3, <1>4, <1>5

LEMMA SubmitForms ==
  ASSUME BrowserInv, FormsInv, NEW x \in Tab, Submit(x)
  PROVE  FormsInv'
  <1>1. PICK o \in PageRecord : o = page[x]
    BY DEF BrowserInv, PageInv
  <1>2. PICK p \in {[o EXCEPT !.state = "submitting", !.told = "none"]} :
          page' = [page EXCEPT ![x] = p]
    BY <1>1 DEF Submit, BrowserInv, PageInv
  <1>3. /\ p.at = o.at /\ p.n = o.n /\ p.state = "submitting"
        /\ p.made = o.made /\ p.left = o.left
    BY DEF PageRecord
  <1>4. page'[x] = p
    BY <1>2 DEF BrowserInv, PageInv
  <1>5. o.at = "form" /\ o.state # "submitting" /\ UNCHANGED <<cookie, choices>>
    BY <1>1 DEF Submit, CanSubmit, userFrame
  <1>6. Send(x, "upload", o.n) /\ o.n \in Nat
    BY <1>1 DEF Submit, PageRecord
  <1>7. \A c \in Call : ~Mine(call[c], x)
    BY <1>1, <1>5 DEF FormsInv, FormInv, AsksOnce
  <1>8. PICK c \in Call :
          /\ call[c].pc = "idle" /\ \A d \in Call \ {c} : call'[d] = call[d]
          /\ call'[c].n = o.n /\ call'[c].context = cookie /\ call'[c].pc = "sent"
    BY <1>6, SendForms
  <1>9. \A d \in Call : Mine(call'[d], x) => d = c
    BY <1>7, <1>8
  <1>10. AsksOnce(x)'
    BY <1>1, <1>3, <1>4, <1>5, <1>8, <1>9 DEF AsksOnce
  <1>11. MakesOnce(x)'
    <2>1. o.made > o.left => ~Admits(cookie, o.n)
      BY <1>1, <1>7 DEF FormsInv, FormInv, MakesOnce
    <2> QED BY <1>1, <1>3, <1>4, <1>5, <1>8, <1>9, <2>1 DEF FormsInv, FormInv, MakesOnce
  <1> QED BY <1>1, <1>2, <1>3, <1>5, <1>6, <1>10, <1>11, EditedForms, SendForms
          DEF CookieMoves, FormInv

LEMMA SubmitRefusedForms ==
  ASSUME BrowserInv, FormsInv, NEW x \in Tab, SubmitRefused(x)
  PROVE  FormsInv'
  <1>1. PICK o \in PageRecord : o = page[x]
    BY DEF BrowserInv, PageInv
  <1>2. PICK p \in {[o EXCEPT !.state = "error", !.told = "failed"]} :
          page' = [page EXCEPT ![x] = p]
    BY <1>1 DEF SubmitRefused, BrowserInv, PageInv
  <1>3. p.at = o.at /\ p.n = o.n /\ p.made = o.made /\ p.left = o.left
    BY DEF PageRecord
  <1>4. page'[x] = p
    BY <1>2 DEF BrowserInv, PageInv
  <1>5. o.at = "form" /\ o.state # "submitting" /\ UNCHANGED <<call, cookie, choices>>
    BY <1>1 DEF SubmitRefused, CanSubmit, userFrame
  <1>6. \A c \in Call : ~Mine(call[c], x)
    BY <1>1, <1>5 DEF FormsInv, FormInv, AsksOnce
  <1>7. FormInv(x)'
    BY <1>1, <1>3, <1>4, <1>5, <1>6 DEF FormsInv, FormInv, AsksOnce, MakesOnce
  <1>8. NoneWaits
    BY <1>5 DEF NoneWaits
  <1> QED BY <1>1, <1>2, <1>3, <1>5, <1>7, <1>8, EditedForms DEF CookieMoves

\* The panel of a task page.
LEMMA PanelForms ==
  ASSUME BrowserInv, FormsInv, NEW x \in Tab,
         AskDelete(x) \/ CancelDelete(x) \/ ConfirmDelete(x)
  PROVE  FormsInv'
  <1>1. PICK o \in PageRecord : o = page[x]
    BY DEF BrowserInv, PageInv
  <1>2. PICK p \in {[o EXCEPT !.state = "confirm", !.told = "none"],
                    [o EXCEPT !.state = "idle"], [o EXCEPT !.state = "submitting"]} :
          page' = [page EXCEPT ![x] = p]
    BY <1>1 DEF AskDelete, CancelDelete, ConfirmDelete, BrowserInv, PageInv
  <1>3. p.at = o.at /\ p.n = o.n /\ p.made = o.made /\ p.left = o.left
    BY DEF PageRecord
  <1>4. page'[x] = p
    BY <1>2 DEF BrowserInv, PageInv
  <1>5. o.at # "form" /\ UNCHANGED <<cookie, choices>>
    BY <1>1 DEF AskDelete, CancelDelete, ConfirmDelete, Live, userFrame
  <1>6. /\ {o.made, o.left} \subseteq Nat /\ o.made <= o.left
        /\ \A c \in Call : ~Mine(call[c], x)
    BY <1>1, <1>5, OtherPages
  <1>7. /\ NoneWaits
        /\ \A y \in Tab \ {x}, c \in Call :
             Mine(call[c], y) \/ Mine(call'[c], y) => call'[c] = call[c]
        /\ \A c \in Call : ~Mine(call'[c], x)
    <2>1. CASE call' = call
      BY <1>6, <2>1 DEF NoneWaits
    <2>2. CASE ConfirmDelete(x)
      <3>1. Send(x, "delete", o.n) /\ o.n \in Nat
        BY <1>1, <2>2 DEF ConfirmDelete, PageRecord
      <3> QED BY <1>6, <3>1, SendForms DEF Mine
    <2> QED BY <2>1, <2>2 DEF AskDelete, CancelDelete, userFrame
  <1>8. Emptied(x)
    BY <1>3, <1>4, <1>6, <1>7 DEF Emptied
  <1> QED BY <1>1, <1>2, <1>3, <1>5, <1>7, <1>8, EditedForms DEF CookieMoves

-----------------------------------------------------------------------------
(* Requests that are served *)

LEMMA AnsweredForms ==
  ASSUME BrowserInv, NEW c \in Call, NEW v, NEW n, Answered(c, v, n)
  PROVE  /\ \A d \in Call \ {c} : call'[d] = call[d]
         /\ \/ call[c].reach = "nobody" /\ call'[c].pc = "idle"
            \/ /\ call'[c].kind = call[c].kind /\ call'[c].tab = call[c].tab
               /\ call'[c].reach = call[c].reach /\ call'[c].pc = "answered"
               /\ call'[c].answer = v /\ call'[c].n = n
  <1>1. PICK r \in CallRecord : r = call[c]
    BY DEF BrowserInv, CallInv
  <1>2. PICK a \in {[r EXCEPT !.pc = "answered", !.answer = v, !.n = n, !.context = NoContext]} :
          call' = [call EXCEPT ![c] = IF r.reach = "nobody" THEN NoCall ELSE a]
    BY <1>1 DEF Answered
  <1>3. /\ a.kind = r.kind /\ a.tab = r.tab /\ a.reach = r.reach /\ a.pc = "answered"
        /\ a.answer = v /\ a.n = n
    BY DEF CallRecord
  <1> QED BY <1>1, <1>2, <1>3, Blank DEF BrowserInv, CallInv

LEMMA ServeDeleteForms ==
  ASSUME BrowserInv, FormsInv, NEW c \in Call, Serve(c), ServeDelete(c)
  PROVE  FormsInv'
  <1>1. UNCHANGED <<page, cookie, choices>> /\ call[c].kind = "delete"
    BY DEF Serve, ServeDelete
  <1>2. PICK v, n : Answered(c, v, n)
    <2>1. CASE DeleteVerdict(call[c].n, call[c].context) = "ok"
      BY <2>1 DEF ServeDelete
    <2>2. CASE DeleteVerdict(call[c].n, call[c].context) # "ok"
      BY <2>2 DEF ServeDelete
    <2> QED BY <2>1, <2>2
  <1>3. NoneWaits
    BY <1>1, <1>2, AnsweredForms DEF NoneWaits, Waiting
  <1>4. \A x \in Tab, d \in Call : Mine(call[d], x) \/ Mine(call'[d], x) => call'[d] = call[d]
    BY <1>1, <1>2, AnsweredForms DEF Mine
  <1> QED BY <1>1, <1>3, <1>4, QuietForms DEF CookieMoves, SamePages

LEMMA ServeChooseForms ==
  ASSUME BrowserInv, FormsInv, NEW c \in Call, Serve(c), ServeChoose(c)
  PROVE  FormsInv'
  <1>1. /\ UNCHANGED <<page, cookie>> /\ call[c].kind = "choose" /\ call[c].pc = "sent"
        /\ choices' = choices + 1 /\ Answered(c, "ok", choices + 1)
    BY DEF Serve, ServeChoose
  <1>2. choices \in Nat
    BY TaskBrowserAssumption DEF BrowserInv, RestInv
  <1>3. /\ \A d \in Call \ {c} : call'[d] = call[d]
        /\ Waiting(call'[c]) => call'[c].n = choices + 1
    BY <1>1, AnsweredForms DEF Waiting
  <1>4. /\ cookie.kind = "bootstrap" => cookie.n \in Nat
        /\ \A x \in Tab : page[x].n \in Nat
        /\ \A d \in Call : call[d].n \in Nat
    BY Contexts DEF BrowserInv, CookieInv, PageInv, PageRecord, CallInv, CallRecord
  <1>5. NumbersInv'
    <2> USE DEF NumbersInv
    <2>1. NumbersInv
      BY DEF FormsInv
    <2>2. ASSUME NEW d \in Call, Waiting(call'[d])
          PROVE  /\ call'[d].n <= choices'
                 /\ cookie.kind = "bootstrap" => cookie.n # call'[d].n
                 /\ \A x \in Tab : page[x].at = "form" => page[x].n # call'[d].n
                 /\ \A e \in Call : Waiting(call'[e]) /\ call'[e].n = call'[d].n => e = d
      <3>1. CASE d = c
        BY <1>1, <1>2, <1>3, <1>4, <2>1, <2>2, <3>1
      <3>2. CASE d # c
        BY <1>1, <1>2, <1>3, <1>4, <2>1, <2>2, <3>2
      <3> QED BY <3>1, <3>2
    <2> QED BY <1>1, <1>2, <1>4, <2>1, <2>2
  <1>6. ASSUME NEW x \in Tab PROVE Still(x)
    BY <1>1, AnsweredForms DEF Still, Mine
  <1>7. \A x \in Tab : FormInv(x)'
    BY <1>1, <1>6, StillKeeps DEF FormsInv, CookieMoves
  <1> QED BY <1>5, <1>7 DEF FormsInv

\* The upload of the form of tab x is served: it made a task the form is told
\* of, or one it is not told of, or none.
LEMMA ServedForm ==
  ASSUME BrowserInv, FormsInv, NEW c \in Call, NEW x \in Tab, Mine(call[c], x),
         call[c].pc = "sent", NEW v, NEW n, Answered(c, v, n), cookie' = cookie,
         \/ page' = page /\ v # "ok"
         \/ \E left \in {0, 1} :
              /\ Admits(call[c].context, call[c].n) /\ (left = 0 => v = "ok")
              /\ page' = [page EXCEPT ![x].made = @ + 1, ![x].left = @ + left]
  PROVE  FormInv(x)'
  <1>1. PICK o \in PageRecord : o = page[x]
    BY DEF BrowserInv, PageInv
  <1>2. AsksOnce(x) /\ MakesOnce(x)
    BY DEF FormsInv, FormInv
  <1>3. o.at = "form" /\ o.state = "submitting" /\ call[c].n = o.n
    BY <1>1, <1>2 DEF AsksOnce
  <1>4. \A d \in Call : Mine(call[d], x) => d = c
    BY <1>2 DEF AsksOnce
  <1>5. /\ \A d \in Call \ {c} : call'[d] = call[d]
        /\ Mine(call'[c], x) /\ call'[c].pc = "answered" /\ call'[c].answer = v
    BY AnsweredForms DEF Mine
  <1>6. CASE page' = page /\ v # "ok"
    <2>1. AsksOnce(x)'
      BY <1>1, <1>3, <1>4, <1>5, <1>6 DEF AsksOnce
    <2>2. o.made > o.left => ~Admits(cookie, o.n)
      BY <1>1, <1>2, <1>4 DEF MakesOnce
    <2>3. MakesOnce(x)'
      BY <1>1, <1>2, <1>4, <1>5, <1>6, <2>2 DEF MakesOnce
    <2> QED BY <2>1, <2>3 DEF FormInv
  <1>7. ASSUME NEW left \in {0, 1}, left = 0 => v = "ok",
               Admits(call[c].context, call[c].n),
               page' = [page EXCEPT ![x].made = @ + 1, ![x].left = @ + left]
        PROVE  FormInv(x)'
    <2>1. PICK p \in {[o EXCEPT !.made = o.made + 1, !.left = o.left + left]} :
            page' = [page EXCEPT ![x] = p]
      BY <1>1, <1>7 DEF BrowserInv, PageInv
    <2>2. /\ p.at = o.at /\ p.n = o.n /\ p.state = o.state
          /\ p.made = o.made + 1 /\ p.left = o.left + left
      BY DEF PageRecord
    <2>3. page'[x] = p
      BY <2>1 DEF BrowserInv, PageInv
    <2>4. AsksOnce(x)'
      BY <1>3, <1>4, <1>5, <2>2, <2>3 DEF AsksOnce
    <2>5. o.made \in Nat /\ o.left \in Nat
      BY DEF PageRecord
    <2>6. o.made <= o.left
      <3>1. ~(o.made > o.left)
        BY <1>1, <1>2, <1>3, <1>4, <1>7 DEF MakesOnce
      <3> QED BY <2>5, <3>1
    <2>7. p.made <= p.left + 1 /\ (p.made > p.left => left = 0)
      BY <2>2, <2>5, <2>6
    <2>8. MakesOnce(x)'
      <3>1. v = "ok" => \E d \in Call : /\ Mine(call'[d], x) /\ call'[d].pc = "answered"
                                        /\ call'[d].answer = "ok"
        BY <1>5
      <3> QED BY <1>3, <1>7, <2>2, <2>3, <2>7, <3>1 DEF MakesOnce
    <2> QED BY <2>4, <2>8 DEF FormInv
  <1> QED BY <1>6, <1>7

LEMMA ServeUploadForms ==
  ASSUME BrowserInv, FormsInv, NEW c \in Call, Serve(c), ServeUpload(c)
  PROVE  FormsInv'
  <1> DEFINE w == UploadVerdict(call[c].n, call[c].context)
  <1>1. /\ UNCHANGED <<cookie, choices>> /\ call[c].kind = "upload" /\ call[c].pc = "sent"
    BY DEF Serve, ServeUpload
  <1>2. w = "ok" => Admits(call[c].context, call[c].n)
    BY DEF UploadVerdict, Admits
  <1> HIDE DEF w
  <1>3. PICK x \in Tab : x = call[c].tab
    BY DEF BrowserInv, CallInv, CallRecord
  <1>4. PICK v, n : /\ Answered(c, v, n)
                    /\ \/ \E left \in {0, 1} : /\ w = "ok" /\ (left = 0 => v = "ok")
                                              /\ Credit(c, left)
                       \/ v # "ok" /\ page' = page
    <2>1. CASE \E t \in Task : w = "ok" /\ Answered(c, "ok", t) /\ Credit(c, 0)
      BY <2>1
    <2>2. CASE w = "ok" /\ Answered(c, "failed", 0) /\ Credit(c, 1)
      BY <2>2
    <2>3. CASE Answered(c, IF w = "ok" THEN "failed" ELSE w, 0) /\ page' = page
      BY <2>3
    <2> QED BY <2>1, <2>2, <2>3 DEF ServeUpload, w
  <1>5. NoneWaits
    BY <1>1, <1>4, AnsweredForms DEF NoneWaits, Waiting
  <1>6. \A y \in Tab \ {x}, d \in Call :
          Mine(call[d], y) \/ Mine(call'[d], y) => call'[d] = call[d]
    BY <1>3, <1>4, AnsweredForms DEF Mine
  <1>7. CASE call[c].reach = "page"
    <2>1. \/ page' = page /\ v # "ok"
          \/ \E left \in {0, 1} :
               /\ w = "ok" /\ (left = 0 => v = "ok")
               /\ page' = [page EXCEPT ![x].made = @ + 1, ![x].left = @ + left]
      BY <1>3, <1>4, <1>7 DEF Credit
    <2>2. Mine(call[c], x)
      BY <1>1, <1>3, <1>7 DEF Mine
    <2>3. FormInv(x)'
      BY <1>1, <1>2, <1>4, <2>1, <2>2, ServedForm
    <2>4. PICK left : \/ page' = page
                      \/ page' = [page EXCEPT ![x].made = @ + 1, ![x].left = @ + left]
      BY <2>1
    <2>5. PICK p \in {page[x], [page[x] EXCEPT !.made = @ + 1, !.left = @ + left]} :
            page' = [page EXCEPT ![x] = p]
      BY <2>4 DEF BrowserInv, PageInv
    <2>6. p.at = page[x].at /\ p.n = page[x].n
      BY DEF BrowserInv, PageInv, PageRecord
    <2> QED BY <1>1, <1>5, <1>6, <2>3, <2>5, <2>6, EditedForms DEF CookieMoves
  <1>8. CASE call[c].reach # "page"
    <2>1. page' = page
      BY <1>4, <1>8 DEF Credit
    <2>2. \A y \in Tab, d \in Call : Mine(call[d], y) \/ Mine(call'[d], y) => call'[d] = call[d]
      BY <1>4, <1>8, AnsweredForms DEF Mine
    <2> QED BY <1>1, <1>5, <2>1, <2>2, QuietForms DEF CookieMoves, SamePages
  <1> QED BY <1>7, <1>8

-----------------------------------------------------------------------------
(* Requests that are answered or lost *)

\* The request whose page is waiting is over; the page made nothing new.
LEMMA OverForms ==
  ASSUME BrowserInv, FormsInv, NEW c \in Call, NEW x \in Tab, x = call[c].tab,
         call[c].reach = "page", call[c].pc # "idle", call[c].kind \in {"upload", "delete"},
         call' = [call EXCEPT ![c] = NoCall], choices' = choices,
         NEW p, page' = [page EXCEPT ![x] = p],
         p.at = page[x].at, p.n = page[x].n, p.made = page[x].made, p.left \in Nat,
         p.left >= page[x].left,
         cookie' = cookie \/ cookie'.kind # "bootstrap",
         call[c].kind = "upload" =>
           \/ p.left = page[x].left + 1
           \/ /\ p.left = page[x].left
              /\ (call[c].pc = "answered" /\ call[c].answer = "ok")
                   => cookie'.kind # "bootstrap"
  PROVE  FormsInv'
  <1>1. PICK o \in PageRecord : o = page[x]
    BY DEF BrowserInv, PageInv
  <1>2. page'[x] = p
    BY DEF BrowserInv, PageInv
  <1>3. call'[c].pc = "idle" /\ \A d \in Call \ {c} : call'[d] = call[d]
    BY Blank DEF BrowserInv, CallInv
  <1>4. NoneWaits
    BY <1>3 DEF NoneWaits, Waiting
  <1>5. \A y \in Tab \ {x}, d \in Call :
          Mine(call[d], y) \/ Mine(call'[d], y) => call'[d] = call[d]
    BY <1>3 DEF Mine
  <1>6. CASE call[c].kind = "delete"
    <2>1. page[x].at # "form"
      BY <1>6 DEF BrowserInv, BoundInv, Bound
    <2>2. Emptied(x)
      BY <1>2, <1>3, <2>1, OtherPages DEF Emptied, Mine
    <2> QED BY <1>4, <1>5, <2>2, EditedForms DEF CookieMoves
  <1>7. CASE call[c].kind = "upload"
    <2>1. AsksOnce(x) /\ MakesOnce(x) /\ Mine(call[c], x)
      BY <1>7 DEF FormsInv, FormInv, Mine
    <2>2. \A d \in Call : ~Mine(call'[d], x)
      BY <1>3, <2>1 DEF AsksOnce, Mine
    <2>3. AsksOnce(x)'
      BY <2>2 DEF AsksOnce
    <2>4. MakesOnce(x)'
      <3>0. o.made \in Nat /\ o.left \in Nat /\ o.made <= o.left + 1
            /\ (o.made > o.left => o.at = "form")
        BY <1>1, <2>1 DEF PageRecord, MakesOnce
      <3>1. CASE p.left = o.left + 1
        <4>1. ~(p.made > p.left) /\ p.made <= p.left + 1
          BY <1>1, <3>0, <3>1
        <4> QED BY <1>1, <1>2, <3>0, <4>1 DEF MakesOnce
      <3>2. CASE /\ p.left = o.left
                 /\ (call[c].pc = "answered" /\ call[c].answer = "ok")
                      => cookie'.kind # "bootstrap"
        <4>1. o.made > o.left => ~Admits(cookie', o.n)
          BY <1>1, <2>1, <3>2 DEF MakesOnce, AsksOnce, Admits
        <4> QED BY <1>1, <1>2, <2>2, <3>0, <3>2, <4>1 DEF MakesOnce
      <3> QED BY <1>1, <1>7, <3>1, <3>2
    <2> QED BY <1>4, <1>5, <2>3, <2>4, EditedForms DEF CookieMoves, FormInv
  <1> QED BY <1>6, <1>7

\* A request that reaches no page is over.
LEMMA UnseenForms ==
  ASSUME BrowserInv, FormsInv, NEW c \in Call,
         call[c].reach # "page" \/ call[c].kind = "choose",
         call' = [call EXCEPT ![c] = NoCall], choices' = choices, page' = page,
         cookie' = cookie \/ cookie'.kind # "bootstrap"
  PROVE  FormsInv'
  <1>1. call'[c].pc = "idle" /\ \A d \in Call \ {c} : call'[d] = call[d]
    BY Blank DEF BrowserInv, CallInv
  <1>2. NoneWaits
    BY <1>1 DEF NoneWaits, Waiting
  <1>3. \A x \in Tab, d \in Call : Mine(call[d], x) \/ Mine(call'[d], x) => call'[d] = call[d]
    BY <1>1 DEF Mine
  <1> QED BY <1>2, <1>3, QuietForms DEF CookieMoves, SamePages

LEMMA DeliverForms ==
  ASSUME BrowserInv, FormsInv, NEW c \in Call, Deliver(c)
  PROVE  FormsInv'
  <1>1. PICK x \in Tab : x = call[c].tab
    BY DEF BrowserInv, CallInv, CallRecord
  <1>2. call[c].kind \in {"choose", "upload", "delete"}
    BY DEF BrowserInv, CallInv, CallRecord
  <1>3. CASE call[c].kind = "choose" /\ call[c].reach # "nobody"
    BY <1>3, DeliverChoiceForms
  <1>4. CASE ~(call[c].kind = "choose" /\ call[c].reach # "nobody")
    <2>1. /\ call[c].pc = "answered" /\ call' = [call EXCEPT ![c] = NoCall]
          /\ choices' = choices
          /\ cookie' = IF SetsCookie(c) THEN ContextOf(c) ELSE cookie
      BY <1>4 DEF Deliver
    <2>2. SetsCookie(c) => cookie'.kind # "bootstrap"
      BY <1>2, <1>4, <2>1 DEF SetsCookie, ContextOf, Access, Deleted
    <2>3. cookie' = cookie \/ cookie'.kind # "bootstrap"
      BY <2>1, <2>2
    <2>4. CASE call[c].reach = "page"
      <3>1. PICK o \in PageRecord : o = page[x]
        BY DEF BrowserInv, PageInv
      <3>2. PICK p \in {Told(c)} : page' = [page EXCEPT ![x] = p]
        BY <1>1, <1>4, <2>4 DEF Deliver
      <3>3. p.at = o.at /\ p.n = o.n /\ p.made = o.made /\ p.left = o.left
        <4>1. p \in {[o EXCEPT !.state = "error", !.told = call[c].answer],
                     [o EXCEPT !.state = "error", !.told = "failed"],
                     [o EXCEPT !.state = "accepted", !.next = call[c].n],
                     [o EXCEPT !.state = "deleted", !.error = "none"]}
          BY <1>1, <3>1, <3>2 DEF Told
        <4> QED BY <4>1 DEF PageRecord
      <3>4. call[c].answer = "ok" => cookie'.kind # "bootstrap"
        BY <2>2, <2>4 DEF SetsCookie
      <3>5. p.left \in Nat /\ p.left >= o.left
        BY <3>3 DEF PageRecord
      <3> QED BY <1>1, <1>2, <1>4, <2>1, <2>3, <2>4, <3>1, <3>2, <3>3, <3>4, <3>5, OverForms
    <2>5. CASE call[c].reach # "page"
      <3>1. page' = page
        BY <1>4, <2>5 DEF Deliver
      <3> QED BY <2>1, <2>3, <2>5, <3>1, UnseenForms
    <2> QED BY <2>4, <2>5
  <1> QED BY <1>3, <1>4

LEMMA LoseForms ==
  ASSUME BrowserInv, FormsInv, NEW c \in Call, Lose(c)
  PROVE  FormsInv'
  <1>1. PICK x \in Tab : x = call[c].tab
    BY DEF BrowserInv, CallInv, CallRecord
  <1>2. /\ call[c].pc # "idle" /\ call' = [call EXCEPT ![c] = NoCall]
        /\ UNCHANGED <<cookie, choices>>
        /\ call[c].kind \in {"choose", "upload", "delete"}
    BY DEF Lose, BrowserInv, CallInv, CallRecord
  <1>3. CASE call[c].reach = "page" /\ call[c].kind # "choose"
    <2>1. PICK o \in PageRecord : o = page[x]
      BY DEF BrowserInv, PageInv
    <2>2. PICK b \in Nat : b = Unheeded(c)
      BY DEF Unheeded
    <2> PICK l \in Nat : l = o.left + b /\ l >= o.left
      BY DEF PageRecord
    <2>3. PICK p \in {[o EXCEPT !.state = "error", !.told = "failed", !.left = l]} :
            page' = [page EXCEPT ![x] = p]
      BY <1>1, <1>3, <2>1, <2>2 DEF Lose, BrowserInv, PageInv
    <2>4. /\ p.at = o.at /\ p.n = o.n /\ p.made = o.made
          /\ p.left = l /\ p.left \in Nat /\ p.left >= o.left
      BY DEF PageRecord
    <2>5. call[c].kind = "upload" =>
            \/ p.left = o.left + 1
            \/ p.left = o.left /\ ~(call[c].pc = "answered" /\ call[c].answer = "ok")
      BY <1>1, <2>1, <2>2, <2>4 DEF Unheeded, PageRecord
    <2> QED BY <1>1, <1>2, <1>3, <2>1, <2>3, <2>4, <2>5, OverForms
  <1>4. CASE ~(call[c].reach = "page" /\ call[c].kind # "choose")
    <2>1. page' = page
      BY <1>4 DEF Lose
    <2> QED BY <1>2, <1>4, <2>1, UnseenForms
  <1> QED BY <1>3, <1>4

LEMMA FormsInit == Init => FormsInv
  BY Blank, Kinds, TaskBrowserAssumption
     DEF Init, FormsInv, NumbersInv, FormInv, AsksOnce, MakesOnce, Mine, Waiting, Home

LEMMA FormsNext == BrowserInv /\ FormsInv /\ [Next]_vars => FormsInv'
  <1> SUFFICES ASSUME BrowserInv, FormsInv, [Next]_vars PROVE FormsInv'
    OBVIOUS
  <1>1. CASE UNCHANGED vars
    BY <1>1, IdleForms DEF vars
  <1>2. CASE \E x \in Tab : User(x)
    <2> SUFFICES ASSUME NEW x \in Tab, User(x) PROVE FormsInv'
      BY <1>2
    <2>1. CASE Refresh(x)
      BY <2>1, IdleForms DEF Refresh, userFrame
    <2> QED BY <2>1, VisitForms, ChooseForms, SubmitForms, SubmitRefusedForms, PanelForms DEF User
  <1>3. CASE \E x \in Tab : Follow(x) \/ Polls(x) \/ PollLost(x)
    <2> SUFFICES ASSUME NEW x \in Tab, Follow(x) \/ Polls(x) \/ PollLost(x) PROVE FormsInv'
      BY <1>3
    <2>1. CASE PollTick(x)
      BY <2>1, IdleForms DEF PollTick, userFrame
    <2> QED BY <2>1, FollowForms, PollForms DEF Polls
  <1>4. CASE \E c \in Call : Serve(c)
    BY <1>4, ServeChooseForms, ServeUploadForms, ServeDeleteForms DEF Serve
  <1>5. CASE \E c \in Call : Deliver(c) \/ Lose(c)
    BY <1>5, DeliverForms, LoseForms
  <1>6. CASE (\E t \in Task : Work(t) \/ Elapse(t)) \/ Forget
    BY <1>6, IdleForms DEF Work, Elapse, Forget
  <1> QED BY <1>1, <1>2, <1>3, <1>4, <1>5, <1>6 DEF Next

\* However often a form is submitted, and whichever requests of whichever tabs
\* overlap, all but one of its tasks were left behind by an upload the server
\* answered as failed or the network lost the answer of.
THEOREM FormMadeOneTask == Spec => []FormMakesOneTask
  <1>1. BrowserInv /\ FormsInv => FormMakesOneTask
    BY DEF FormsInv, FormInv, MakesOnce, FormMakesOneTask
  <1> QED BY <1>1, BrowserInit, BrowserNext, FormsInit, FormsNext, PTL DEF Spec

-----------------------------------------------------------------------------
(* Who is told that a task is expired *)

\* What is past its time remains so.
AgeMoves == \A t : Old(t) => Old(t)'

LEMMA Aged ==
  ASSUME BrowserInv, [Next]_vars
  PROVE  AgeMoves
  <1>1. CASE age' = age
    BY <1>1 DEF AgeMoves, Old
  <1>2. CASE \E t \in Task : Elapse(t)
    BY <1>2, TaskBrowserAssumption DEF Elapse, AgeMoves, Old, BrowserInv, RestInv
  <1>3. age' = age \/ \E t \in Task : Elapse(t)
    BY DEF Next, vars, User, Visit, Choose, Submit, SubmitRefused, Refresh, AskDelete,
       CancelDelete, ConfirmDelete, Follow, Polls, PollTick, PollAnswered, PollLost, Serve,
       Deliver, Lose, Work, Forget, userFrame
  <1> QED BY <1>1, <1>2, <1>3

LEMMA OldKept ==
  ASSUME OldInv, AgeMoves,
         \A x \in Tab : page'[x] = page[x] \/ OldPage(page'[x]),
         \A c \in Call : call'[c] = call[c] \/ OldCall(call'[c])
  PROVE  OldInv'
  <1>1. \A x \in Tab : OldPage(page'[x])
    BY DEF OldInv
  <1>2. \A c \in Call : OldCall(call'[c])
    BY DEF OldInv
  <1>3. \A x \in Tab : OldPage(page[x])'
    BY <1>1 DEF OldPage, AgeMoves
  <1>4. \A c \in Call : OldCall(call[c])'
    BY <1>2 DEF OldCall, AgeMoves
  <1> QED BY <1>3, <1>4 DEF OldInv

LEMMA VerdictOld ==
  ASSUME BrowserInv, NEW k \in Context, NEW t
  PROVE  /\ ReadVerdict(t, k) = "expired" => Old(t)
         /\ DeleteVerdict(t, k) = "expired" => Old(t)
  <1>1. k = Access(t) => t \in Task /\ age[t] \in Nat
    BY Contexts, TaskBrowserAssumption DEF BrowserInv, RestInv
  <1> QED BY <1>1 DEF ReadVerdict, DeleteVerdict, Old

LEMMA PagesOld ==
  ASSUME BrowserInv, NEW k \in Context, NEW t
  PROVE  OldPage(Home) /\ OldPage(UploadPageFor(k)) /\ OldPage(TaskPageFor(t, k))
  <1>1. OldPage(Home)
    BY DEF Home, OldPage
  <1>2. OldPage(NoEntry)
    BY DEF Home, NoEntry, OldPage
  <1>3. \A n : OldPage(Form(n))
    BY DEF Home, Form, OldPage
  <1>4. \A s : OldPage(TaskPage(t, s))
    BY DEF Home, TaskPage, OldPage
  <1>5. OldPage(Denied(t, ReadVerdict(t, k)))
    <2>1. PICK v : v = ReadVerdict(t, k)
      OBVIOUS
    <2>2. Denied(t, v).error = v /\ Denied(t, v).told = "none" /\ Denied(t, v).n = t
      BY DEF Denied, Home
    <2> QED BY <2>1, <2>2, VerdictOld DEF OldPage
  <1> QED BY <1>1, <1>2, <1>3, <1>4, <1>5 DEF UploadPageFor, TaskPageFor

LEMMA UnheardOld ==
  ASSUME BrowserInv, OldInv, NEW c \in Call, NEW reach
  PROVE  OldCall(NoCall) /\ OldCall(Unheard(call[c], reach))
  <1>1. PICK r \in CallRecord : r = call[c]
    BY DEF BrowserInv, CallInv
  <1>2. OldCall(NoCall)
    BY Blank DEF OldCall
  <1>3. OldCall([r EXCEPT !.reach = reach])
    BY <1>1 DEF OldInv, OldCall, CallRecord
  <1> QED BY <1>1, <1>2, <1>3 DEF Unheard

LEMMA CutOld ==
  ASSUME BrowserInv, OldInv, NEW x \in Tab, NEW reach, NEW c \in Call
  PROVE  OldCall(Cut(x, reach)[c])
  BY UnheardOld DEF Cut, OldInv

\* Tab x shows another page.
LEMMA ShownOld ==
  ASSUME BrowserInv, OldInv, AgeMoves, NEW x \in Tab, Visit(x) \/ Follow(x)
  PROVE  OldInv'
  <1>1. PICK p \in {Home, UploadPageFor(cookie)} \cup {TaskPageFor(t, cookie) : t \in Nat} :
          page' = [page EXCEPT ![x] = p]
    <2>1. CASE Visit(x)
      <3>1. PICK q \in {Home, UploadPageFor(cookie)}
                       \cup {TaskPageFor(t, cookie) : t \in {u \in Task : row[u] # "none"}} :
              page' = [page EXCEPT ![x] = q]
        BY <2>1 DEF Visit, Show
      <3>2. Task \subseteq Nat
        BY TaskBrowserAssumption DEF Task
      <3>3. q \in {Home, UploadPageFor(cookie)} \cup {TaskPageFor(t, cookie) : t \in Nat}
        BY <3>1, <3>2
      <3> QED BY <3>1, <3>3
    <2>2. CASE Follow(x)
      <3>1. page[x].next \in Nat
        BY TaskBrowserAssumption DEF BrowserInv, PageInv, PageRecord
      <3> QED BY <2>2, <3>1 DEF Follow, Show
    <2> QED BY <2>1, <2>2
  <1>2. OldPage(p)
    BY <1>1, PagesOld DEF BrowserInv, CookieInv
  <1>3. \A y \in Tab : page'[y] = page[y] \/ page'[y] = p
    BY <1>1 DEF BrowserInv, PageInv
  <1>4. PICK reach : call' = Cut(x, reach)
    BY DEF Visit, Follow
  <1> QED BY <1>2, <1>3, <1>4, CutOld, OldKept

\* Tab x is edited, and it hears nothing new of an expiry.
LEMMA EditedOld ==
  ASSUME BrowserInv, OldInv, AgeMoves, NEW x \in Tab, NEW p, page' = [page EXCEPT ![x] = p],
         p.n = page[x].n, p.error = page[x].error \/ p.error # "expired" \/ Old(p.n),
         p.told = page[x].told \/ p.told # "expired" \/ Old(p.n),
         \A c \in Call : call'[c] = call[c] \/ OldCall(call'[c])
  PROVE  OldInv'
  <1>1. OldPage(p)
    BY DEF OldInv, OldPage
  <1>2. \A y \in Tab : page'[y] = page[y] \/ page'[y] = p
    BY DEF BrowserInv, PageInv
  <1> QED BY <1>1, <1>2, OldKept

LEMMA RequestOld ==
  ASSUME NEW x \in Tab, NEW kind, NEW n
  PROVE  OldCall(Request(x, kind, n))
  BY Blank DEF Request, CallRecord, OldCall

LEMMA FormOld ==
  ASSUME BrowserInv, OldInv, AgeMoves, NEW x \in Tab,
         \/ Submit(x) \/ SubmitRefused(x) \/ AskDelete(x) \/ CancelDelete(x)
         \/ ConfirmDelete(x)
  PROVE  OldInv'
  <1>1. PICK o \in PageRecord : o = page[x]
    BY DEF BrowserInv, PageInv
  <1>2. PICK p \in {[o EXCEPT !.state = "submitting", !.told = "none"],
                    [o EXCEPT !.state = "error", !.told = "failed"],
                    [o EXCEPT !.state = "confirm", !.told = "none"],
                    [o EXCEPT !.state = "idle"], [o EXCEPT !.state = "submitting"]} :
          page' = [page EXCEPT ![x] = p]
    BY <1>1 DEF Submit, SubmitRefused, AskDelete, CancelDelete, ConfirmDelete, BrowserInv, PageInv
  <1>3. p.n = o.n /\ p.error = o.error /\ (p.told = o.told \/ p.told # "expired")
    BY DEF PageRecord
  <1>4. \A c \in Call : call'[c] = call[c] \/ OldCall(call'[c])
    <2>1. call' = call \/ \E kind : Send(x, kind, page[x].n)
      BY DEF Submit, SubmitRefused, AskDelete, CancelDelete, ConfirmDelete
    <2> QED BY <2>1, RequestOld DEF Send, BrowserInv, CallInv
  <1> QED BY <1>1, <1>2, <1>3, <1>4, EditedOld

LEMMA ChooseOld ==
  ASSUME BrowserInv, OldInv, AgeMoves, NEW x \in Tab, Choose(x)
  PROVE  OldInv'
  <1>1. PICK c \in Call :
          call' = [d \in Call |->
            IF d = c THEN Request(x, "choose", 0)
            ELSE IF call[d].tab = x /\ call[d].kind = "choose"
                 THEN Unheard(call[d], "nobody") ELSE call[d]]
    BY DEF Choose
  <1>2. \A d \in Call : call'[d] = call[d] \/ OldCall(call'[d])
    BY <1>1, RequestOld, UnheardOld
  <1> QED BY <1>2, OldKept DEF Choose

LEMMA PollOld ==
  ASSUME BrowserInv, OldInv, AgeMoves, NEW x \in Tab, PollAnswered(x) \/ PollLost(x)
  PROVE  OldInv'
  <1>1. PICK o \in PageRecord : o = page[x]
    BY DEF BrowserInv, PageInv
  <1>2. PICK v : v = ReadVerdict(o.n, poll[x].context)
    OBVIOUS
  <1>3. v = "expired" => Old(o.n)
    BY <1>2, VerdictOld DEF BrowserInv, PollInv, PollRecord
  <1>4. PICK p \in {[o EXCEPT !.shown = row[o.n], !.error = "none"], [o EXCEPT !.error = v],
                    [o EXCEPT !.error = "network"]} :
          page' = [page EXCEPT ![x] = p]
    <2>1. CASE PollAnswered(x) /\ v = "ok"
      BY <1>1, <1>2, <2>1 DEF PollAnswered, BrowserInv, PageInv
    <2>2. CASE PollAnswered(x) /\ v # "ok"
      BY <1>1, <1>2, <2>2 DEF PollAnswered, BrowserInv, PageInv
    <2>3. CASE PollLost(x)
      BY <1>1, <2>3 DEF PollLost, BrowserInv, PageInv
    <2> QED BY <2>1, <2>2, <2>3
  <1>5. p.n = o.n /\ p.told = o.told /\ (p.error \in {"none", "network"} \/ p.error = v)
    BY DEF PageRecord
  <1>6. call' = call
    BY DEF PollAnswered, PollLost, userFrame
  <1> QED BY <1>1, <1>3, <1>4, <1>5, <1>6, EditedOld

LEMMA ServeOld ==
  ASSUME BrowserInv, OldInv, AgeMoves, NEW c \in Call, Serve(c)
  PROVE  OldInv'
  <1>1. PICK x \in Tab : x = call[c].tab
    BY DEF BrowserInv, CallInv, CallRecord
  <1>2. PICK v, n : Answered(c, v, n) /\ (v = "expired" => call[c].kind = "delete" /\ Old(n))
    <2>1. CASE ServeChoose(c)
      BY <2>1 DEF ServeChoose
    <2>2. CASE ServeUpload(c)
      <3>1. UploadVerdict(call[c].n, call[c].context) # "expired"
        BY DEF UploadVerdict
      <3> QED BY <2>2, <3>1 DEF ServeUpload
    <2>3. CASE ServeDelete(c)
      <3>1. PICK w : w = DeleteVerdict(call[c].n, call[c].context)
        OBVIOUS
      <3>2. w = "expired" => Old(call[c].n)
        BY <3>1, VerdictOld DEF BrowserInv, CallInv, CallRecord
      <3>3. CASE w = "ok"
        BY <2>3, <3>1, <3>3 DEF ServeDelete
      <3>4. CASE w # "ok"
        BY <2>3, <3>1, <3>2, <3>4 DEF ServeDelete
      <3> QED BY <3>3, <3>4
    <2> QED BY <2>1, <2>2, <2>3 DEF Serve
  <1>3. \A d \in Call : call'[d] = call[d] \/ OldCall(call'[d])
    BY <1>2, AnsweredForms DEF OldCall
  <1>4. PICK left : \/ page' = page
                    \/ page' = [page EXCEPT ![x].made = @ + 1, ![x].left = @ + left]
    BY <1>1 DEF Serve, ServeChoose, ServeUpload, ServeDelete, Credit
  <1>5. PICK p \in {page[x], [page[x] EXCEPT !.made = @ + 1, !.left = @ + left]} :
          page' = [page EXCEPT ![x] = p]
    BY <1>4 DEF BrowserInv, PageInv
  <1>6. p.n = page[x].n /\ p.error = page[x].error /\ p.told = page[x].told
    BY DEF BrowserInv, PageInv, PageRecord
  <1> QED BY <1>3, <1>5, <1>6, EditedOld

LEMMA DeliverOld ==
  ASSUME BrowserInv, OldInv, AgeMoves, NEW c \in Call, Deliver(c)
  PROVE  OldInv'
  <1>1. PICK x \in Tab : x = call[c].tab
    BY DEF BrowserInv, CallInv, CallRecord
  <1>2. OldCall(NoCall)
    BY UnheardOld
  <1>3. CASE call[c].kind = "choose" /\ call[c].reach # "nobody"
    <2>1. /\ page' = [page EXCEPT ![x] = UploadPageFor(cookie')]
          /\ call' = [Cut(x, "nobody") EXCEPT ![c] = NoCall]
      BY <1>1, <1>3 DEF Deliver
    <2>2. cookie' \in Context
      BY BrowserNext DEF BrowserInv, CookieInv, Next
    <2>3. OldPage(UploadPageFor(cookie'))
      BY <2>2, PagesOld
    <2>4. \A y \in Tab : page'[y] = page[y] \/ page'[y] = UploadPageFor(cookie')
      BY <2>1 DEF BrowserInv, PageInv
    <2>5. \A d \in Call : call'[d] = NoCall \/ call'[d] = Cut(x, "nobody")[d]
      BY <2>1, CutTrue
    <2> QED BY <1>2, <2>3, <2>4, <2>5, CutOld, OldKept
  <1>4. CASE ~(call[c].kind = "choose" /\ call[c].reach # "nobody")
    <2>1. call' = [call EXCEPT ![c] = NoCall]
      BY <1>4 DEF Deliver
    <2>2. \A d \in Call : call'[d] = call[d] \/ OldCall(call'[d])
      BY <1>2, <2>1 DEF BrowserInv, CallInv
    <2>3. CASE call[c].reach = "page"
      <3>1. PICK o \in PageRecord : o = page[x]
        BY DEF BrowserInv, PageInv
      <3>2. PICK p \in {Told(c)} : page' = [page EXCEPT ![x] = p]
        BY <1>1, <1>4, <2>3 DEF Deliver
      <3>3. p \in {[o EXCEPT !.state = "error",
                            !.told = IF call[c].answer \in {"deleted", "expired"}
                                     THEN call[c].answer ELSE "failed"],
                   [o EXCEPT !.state = "accepted", !.next = call[c].n],
                   [o EXCEPT !.state = "deleted", !.error = "none"]}
        BY <1>1, <3>1, <3>2 DEF Told
      <3>4. /\ p.n = o.n /\ (p.error = o.error \/ p.error = "none")
            /\ p.told = o.told \/ p.told # "expired" \/ call[c].answer = "expired"
        BY <3>3 DEF PageRecord
      <3>5. call[c].answer = "expired" => Old(o.n)
        BY <1>1, <2>3, <3>1 DEF Deliver, OldInv, OldCall, BrowserInv, BoundInv, Bound
      <3> QED BY <2>2, <3>1, <3>2, <3>4, <3>5, EditedOld
    <2>4. CASE call[c].reach # "page"
      BY <1>4, <2>2, <2>4, OldKept DEF Deliver
    <2> QED BY <2>3, <2>4
  <1> QED BY <1>3, <1>4

LEMMA LoseOld ==
  ASSUME BrowserInv, OldInv, AgeMoves, NEW c \in Call, Lose(c)
  PROVE  OldInv'
  <1>1. PICK x \in Tab : x = call[c].tab
    BY DEF BrowserInv, CallInv, CallRecord
  <1>2. \A d \in Call : call'[d] = call[d] \/ OldCall(call'[d])
    BY UnheardOld DEF Lose, BrowserInv, CallInv
  <1>3. PICK o \in PageRecord : o = page[x]
    BY DEF BrowserInv, PageInv
  <1>4. PICK p \in {o, [o EXCEPT !.state = "error", !.told = "failed",
                                 !.left = @ + Unheeded(c)]} :
          page' = [page EXCEPT ![x] = p]
    BY <1>1, <1>3 DEF Lose, BrowserInv, PageInv
  <1>5. p.n = o.n /\ p.error = o.error /\ (p.told = o.told \/ p.told = "failed")
    BY DEF PageRecord
  <1> QED BY <1>2, <1>3, <1>4, <1>5, EditedOld

LEMMA OldNext == BrowserInv /\ OldInv /\ [Next]_vars => OldInv'
  <1> SUFFICES ASSUME BrowserInv, OldInv, [Next]_vars PROVE OldInv'
    OBVIOUS
  <1>1. AgeMoves
    BY Aged
  <1>2. UNCHANGED <<page, call>> => OldInv'
    BY <1>1, OldKept
  <1>3. CASE \E x \in Tab : User(x)
    BY <1>1, <1>2, <1>3, ShownOld, FormOld, ChooseOld DEF User, Refresh
  <1>4. CASE \E x \in Tab : Follow(x) \/ Polls(x) \/ PollLost(x)
    BY <1>1, <1>2, <1>4, ShownOld, PollOld DEF Polls, PollTick
  <1>5. CASE \E c \in Call : Serve(c) \/ Deliver(c) \/ Lose(c)
    BY <1>1, <1>5, ServeOld, DeliverOld, LoseOld
  <1>6. CASE (\E t \in Task : Work(t) \/ Elapse(t)) \/ Forget \/ UNCHANGED vars
    BY <1>2, <1>6 DEF Work, Elapse, Forget, vars
  <1> QED BY <1>3, <1>4, <1>5, <1>6 DEF Next

\* Who is told that a task is expired is told so after its retention is over.
THEOREM ExpiredTrue == Spec => []ExpiredIsTrue
  <1>1. Init => OldInv
    BY PagesOld, Blank DEF Init, OldInv, OldPage, OldCall, Home
  <1>2. OldInv => ExpiredIsTrue
    BY DEF OldInv, OldPage, Old, ExpiredIsTrue, Says
  <1> QED BY <1>1, <1>2, BrowserInit, BrowserNext, OldNext, PTL DEF Spec
=============================================================================
