# AIGC document rewriting: a TLA+ verification project

The repository is a web application to which a user uploads a document; a
worker scans it, publishes risk findings, paragraph diagnoses and rewrite
options, and the user then decides paragraph by paragraph (or with a one-click
preview) what to change. Documents are private and short-lived: a user may
delete a task at any time, and every task is to be deleted after a retention
period. This project models the parts of the program where several processes
touch the same data: the server's pipeline, the decisions and the preview on a
task, and the browser that shows it.

## Inventory

| component | code | state | operations | hard behaviour |
|---|---|---|---|---|
| upload intake | `apps/web/src/features/upload/upload-service.ts` | none of its own; a rate-limit map per process | store the document, register the task, enqueue the job, undo, mark failed | any of the three stores may fail, or take effect and lose its answer |
| rate limiter | `isRateLimited` of the same file | a counter and a window per session and address | admit or refuse | window boundaries, restarts |
| task store | `packages/db/src/task-repository.ts` | one `processing_tasks` row per task with its document and asset rows | create, update state, delete (cascading), list expired | written by the web handlers and the worker with no lock between them |
| result stores | `risks-repository.ts`, `document-segments-repository.ts`, `rewrite-options-repository.ts` | rows per task, tied to it by a foreign key | replace, delete, list, update one finding's handling status | replaced by the worker while the task is deleted or retried |
| job queue | `packages/queue`, BullMQ 5.58.5 | one job per task: waiting, active under a lock, delayed, completed, failed | add, deliver, renew the lock, move stalled jobs, retry, settle | lost locks, stalled jobs, at-least-once delivery |
| ingestion worker | `apps/worker/src/jobs/ingest-document.job.ts` | a program counter per slot | two progress writes, three publications, the completed write; a catch block of four calls | each call may throw; retried or redelivered jobs start over |
| deletion and retention | `packages/db/src/task-data-cleanup.ts`, `task-delete-service.ts` | a program counter per request; the cleanup's list | delete the document, look the row up, delete it | concurrent deletions, half-finished ones |
| document storage | `packages/storage` | the set of stored objects | put, delete | may throw with or without effect |
| local drivers | the memory branches of the same packages | files in a temporary directory, a map in the web process | the same operations by read and write of whole files | no transaction, no foreign key; jobs are taken off the queue before they run |
| paragraph decisions | `apps/web/src/features/rewrites/*-service.ts`, `edit-operations-repository.ts` | an append-only log and a handling status per finding | accept, reject, feedback, rollback | the log and the status are two writes |
| edit history | `task-edit-history-service.ts`, `-query.ts`, `-panel.tsx` | none on the server; a cached answer | read the findings and the log, join them | two reads side by side, with decisions between them |
| one-click preview | `apps/web/src/features/one-click` | a session file per task beside the task row | start, become ready, roll back | two writes without a transaction, polled by many readers |
| task access | `apps/web/src/task-session.ts`, `app/api/task-contexts`, `task-service.ts` | one signed cookie per browser | bootstrap, grant, replace by a deleted context, judge | every answer of every tab replaces the one context |
| status polling | `features/tasks/task-status-query.ts`, `task-detail-live-view.tsx` | the last answer of each page, whether to poll again | read, poll, refresh, delete | failed, refused and lost reads; other tabs change the context |
| ordering | `risks-repository.ts`, `rewrite-options-repository.ts` | none | comparators | must be total, or a list depends on the driver |
| workbench pages | `task-risk-workbench.tsx`, `task-decision-bar.tsx`, `task-risks-query.ts`, `task-status-ui-store.ts`, `UploadForm.tsx` | a cache of answers, a filter, an order, a selection, whether a form waits | change the view, select, decide, refresh, submit | answers overlap, arrive late or for a view no longer shown; components are rebuilt while a request is under way |
| contracts, policies, copy | zod schemas, tables, texts | none | parse, look up | none a model checker reaches |

What makes each of them correct:

* intake, stores, queue, worker, deletion: a deleted task leaves nothing
  behind and nothing of it comes back; an accepted task is neither lost nor
  left without an outcome; its status tells what can be read;
* rate limiter: a bound on every interval, not only on its own windows; nobody
  is refused without cause;
* local drivers: a job runs at most once, and is lost only for a reason that
  can be named; files and status agree; a complete job is processed;
* paragraph decisions: the log of operations explains the status of every
  paragraph; a rollback undoes an acceptance and nothing else; an accepted
  change is not lost;
* one-click preview: the task's row follows the session file; a preview that
  was started becomes ready; the task always returns to the workbench;
* task access and polling: what a page or a cookie says of a task (deleted,
  expired) is so; one form makes one task, unless server or network fail; a page
  left open shows the end;
* ordering: strict total orders, so that driver and page agree on a list;
* workbench pages and edit history: what is shown is what the server has, once
  everything under way is over.

The parts interact through few things: the row, the object and the job of a
task (intake, worker, deletion), the row and the findings (worker, decisions,
preview), the session file (preview), the cookie (every page and handler), and
the answers a page keeps.

## Modules

| module | models | with |
|---|---|---|
| `DocumentCustody` | what the system promises about holding a document: an abstract specification | |
| `TaskPipeline` | upload intake, Postgres stores, bucket, BullMQ, worker, deletion, cleanup | implements `DocumentCustody` |
| `LocalPipeline` | the same life with the file-backed drivers | |
| `LocalDecisions` | the decision services over the file-backed log and findings | extends `LocalPipeline` |
| `WorkbenchData` | a task's row and findings, its redelivered job and its deletion, as the workbench sees them | |
| `ParagraphDecisions` | accept, reject, feedback, rollback requests on Postgres | extends `WorkbenchData` |
| `OneClick` | the preview's session file and the tabs that read, start and roll it back | extends `WorkbenchData` |
| `Workbench` | both, on one task | extends both |
| `TaskBrowser` | one browser: its cookie, the upload form and the task page in several tabs, and the handlers they call | |
| `RiskOrder` | the comparators of the findings | |
| `ReviewPage` | the risk workbench in the browser: lists, selection, decision bar, history panel | extends `RiskOrder` |
| `UploadLimiter` | the rate limiter | |
| `TaskPipelineProofs`, `KeepingProofs`, `LocalProofs`, `DecisionsProofs`, `WorkbenchProofs`, `BrowserProofs`, `ReviewProofs`, `UploadLimiterProofs` | theorems and proofs | extend the module they are about; `KeepingProofs` and `DecisionsProofs` also `TaskPipelineProofs` and `LocalProofs` |
| `MCTaskPipeline`, `MCLocalPipeline`, `MCLocalDecisions`, `MCWorkbench`, `MCTaskBrowser`, `MCReviewPage`, `MCUploadLimiter` | instances for TLC (symmetry sets, functional constants) | with the `.cfg` files of their name |

### TaskPipeline

One step is one remote call: an object-store request, a database transaction,
a queue command. Every call may throw, and with `CommitLost` it may throw
after taking effect.

| variable | in the code |
|---|---|
| `upload[t]` | where `acceptUploadSubmission` is for task `t` (a task id is a fresh UUID per upload, so handler and task are one) |
| `objects` | objects in the R2 bucket |
| `record[t]` | status, stage and failure code of the `processing_tasks` row; `NoRecord` without one |
| `results[t]` | which of `risk_findings`, `document_segments`, `rewrite_options` hold rows of `t` |
| `job[t]`, `holder[t]` | BullMQ's job: state, attempts made, stalls; the slot holding its lock |
| `slot[w]` | one concurrent run of `processTaskJob`: the next call, and the `currentStage` variable |
| `deletion[d]` | one run of `deleteTaskData`: a DELETE request, or the cleanup |
| `todo`, `expired` | the cleanup's list; tasks past the retention period |
| `confirmed`, `forgotten` | history: deletions reported as done, rows deleted |
| `cutShort`, `unlocked` | history: tasks whose last run ended before its catch block did; tasks whose lock a slot lost while it ran on |

`UploadStore` … `UploadMarkFailed` are the awaits of the upload handler;
`Advance`, `Publish`, `Complete` the loop of `processTaskJob`, `Withdraw` and
`Fail` its catch block, `Ack` and `Nack` what BullMQ does when it returns or
throws; `Deliver`, `Promote`, `Stall`, `LoseLock` the queue; `DeleteStart`,
`DeleteObject`, `DeleteLookup`, `DeleteCommit` a deletion, `CleanupList` and
`CleanupNext` the cleanup; `SlotCrash`, `UploadCrash`, `DeleteCrash` a dying
process.

Abstractions. The transactions that replace result rows are one step, since
their keys are fixed by the task and the paragraph. A missing row and the
read-back of `updateTaskRecordState` that finds none are the same outcome, and
a read-back that throws is a lost reply. The reads a deletion makes before its
transaction are one lookup. `progressPercent` and the texts of messages are
left out, as is the `failAtStage` hook, which only tests use. Stalls are
counted up to the first above `MaxStalled`. When a lock expires and in which
order the cleanup takes its list is left open. A task expires only after its
upload handler has ended, seven days being longer than any request. What
other services write to the row after completion is in `Workbench`.
`CommitLost`, `QueueFaults` and `LockFaults` say which failures an instance
admits: replies lost after the effect, throwing queue commands, lost locks.

### DocumentCustody

A task is new, stored, registered, stripped (its document deleted, its row not
yet), erased or discarded, and data are derived from it only while it is
registered or stripped. `TaskPipeline` maps to it through `LifeOf`
(`Custody == INSTANCE DocumentCustody WITH ...`).

### LocalPipeline

One step is one await on the file system; a file written beside its place and
renamed into it changes in one step, and the job file, which is written in
place, in two. `worker[w]` is a worker process: the listing and the batch of
`drainMemoryTaskJobs`, and where `processTaskJob` is with the job it is on;
`jobFile[t]` says where the job of a task is and whether it has its contents.
An update of the task file reads it in one step and writes it in another.
Jobs are taken in any order. `runs`, `confirmed` and `overlap` are history:
how often a job was processed, which deletions were reported as done, which
met a run of the worker. The cleanup over local files is not modelled: it
runs the same `deleteTaskData` as a DELETE request.

### LocalDecisions

| variable | in the code |
|---|---|
| `decision[r]` | one POST: where it is, its task, paragraph and kind, and the file it has read and is to write back |
| `log[t]` | the edit-operations file of the task, in the order of the stamps |
| `finding[t]` | the handling statuses in its findings file; `NoFile` without one |
| `met` | history: requests that held a file while another one held it, or a deletion removed it |

`Authorize`, `Find`, `Choose`, `CheckLatest`, `ReadLog`, `WriteLog`,
`ReadFindings`, `WriteFindings`, `Answer` are the awaits of the three services
over the local repositories. `FindingsFollow` is what the steps of
`LocalPipeline` do to the findings file: publishing writes it anew, a deletion
or a catch block removes it. Nothing removes the log. Documents are editable,
an operation is identified with its request, and whether the option a client
names exists is left open. A crash of the web process takes the requests with
it.

### WorkbenchData, ParagraphDecisions, OneClick, Workbench

One task whose first ingestion has completed.

| variable | in the code |
|---|---|
| `document` | PDF, or text uploaded in workbench or one-click mode |
| `task` | status and stage of the row; `Gone` after its deletion |
| `finding[p]` | handling status of the finding of paragraph `p` |
| `ingest` | the writes of a redelivered `processTaskJob` |
| `request[r]` | one POST: its kind, its paragraph and the call it makes next |
| `log` | rows of `edit_operations`, each identified with its request |
| `stamp[r]`, `clock` | `createdAt` of the operation, which is set before the insert and orders the log; the clock, which moves when it is read |
| `session`, `elapsed` | state in the one-click session file; whether `READY_DELAY_MS` have passed since its start |
| `client[c]` | one tab: the request it waits for and the call that request makes next |
| `disturbed`, `mixed` | history: requests met, were cut short, or the job started over, and none has run alone since |

`Authorize`, `CheckOption`, `CheckFinding`, `CheckLatest`, `Insert`, `Update`,
`Answer` are the awaits of the three decision services in their order (each
kind takes its own path through them); `AuthorizeClient`, `Preview`,
`ReadSession`, `WriteFile`, `ReadyTask`, `WriteRow`, `Recheck` those of
`readAuthorizedOneClickState` and `applyAuthorizedOneClickAction`.

Abstractions. Findings and log are those of the Postgres driver; the session
file is the only driver the preview has, and all web processes are taken to
share it. Texts and option ids are left out: whether the option a client names
exists is left open. Operations have distinct time stamps, and the clocks of
the web processes agree. `buildPreview` is one read, and the second one that
precedes the session file of a start, which decides nothing, is left out. A request
without the task's context, for an expired task or for a task that is gone is
refused. A tab sends one request at a time. A process that dies in a request
leaves what a call that throws leaves. Of the redelivered job the catch block
is in `TaskPipeline` only; a run may stop anywhere.

### TaskBrowser

| variable | in the code |
|---|---|
| `cookie` | the one task context of the browser: none, a bootstrap context, the access to a task, or the context a deletion leaves |
| `page[x]` | what a tab shows: the entry page, the upload form, the task page with the last status read, what the answer said, the deletion panel; history: the tasks the form made (`made`) and those of them left behind (`left`) |
| `poll[x]` | the status read a tab has under way, with the context it was sent with |
| `call[c]` | a request that may set the cookie (a choice of mode, an upload, a deletion): the context it carries, whether it is sent or answered, and whether its answer still reaches its page, only the cookie, or nobody |
| `row[t]` | the task's row: under way, in a terminal status, gone, or not yet there |
| `age[t]` | kept, its row past `expiresAt`, its context past its own limit as well |
| `choices`, `losses` | spent parts of the bounds |

A request carries the cookie it was sent with, is served in a step of its own
and answered in another, and its answer replaces whatever the browser holds by
then: the cookie is `Path=/`, one for all tabs. Reads and deletions are judged
as `readAuthorizedTask` and the DELETE handler judge them: first the row, then
the context. What moves a row is in `TaskPipeline`; here a row moves as that
module allows. An upload may be answered as failed with its task in place: the
insert or the enqueue command threw after its effect, or the failed status
could not be written (`ServeUpload`). A context's signature and tokens are
taken to be unforgeable, and what the checks of a file look at is left out: a
file may be refused.

### RiskOrder and ReviewPage

`RiskOrder` holds the three comparators of `sortRiskFindings` as relations over
functions that give each paragraph its level, score and position; both drivers
sort what they read with it.

| variable of `ReviewPage` | in the code |
|---|---|
| `ready`, `status`, `last` | the server: whether results may be read, the handling status of each finding, the kind of the last operation on each paragraph |
| `filter`, `selected` | the view shown and the selected paragraph, in the page's store |
| `list[v]` | the cache entry of each view: its data, the fetch under way; `sound` (auxiliary) is lost by a failed read or decision and by a refresh that only joined a fetch |
| `history` | the entry of the history panel, whose answer is made of two reads; `met` (auxiliary): a decision came between them |
| `deed[d]` | one decision: sent, recorded in the log, answered once its status is set, over |
| `busy` | `isSubmitting` of the bar that is shown |

The cache follows `QueryClient` of TanStack Query as the code uses it: an entry
per key, showing a stale entry fetches it, `invalidateQueries` gives up the
fetch under way and starts another unless the entry has no data yet. A bar
is built anew for another paragraph and does not know of the decision before.
The server is seen at the level of whole decisions; what several browsers do
to each other is in `ParagraphDecisions`.

### UploadLimiter

`store[k]` is `uploadRateLimitStore`, `now` the clock; `log` is auxiliary: the
requests admitted since the process started. `isRateLimited` runs without an
await, so a request is one step: it opens a window (`Open`), joins it (`Join`)
or is refused (`Refuse`). `Restart` forgets everything.

## Runs

Passing runs:

| run | instance | shows |
|---|---|---|
| `pipeline_races` | 1 task, 2 slots, 1 deletion and the cleanup; 2 attempts; 1 failing call or lost reply, 2 crashes, any number of lost locks | `TypeOK`; `ErasureIsFinal`: nothing of a deleted task remains or returns; `AcceptedIsKept`: an accepted task stays until its user or its age asks for its deletion; `KeepsCustody`: every step is one of `DocumentCustody` |
| `pipeline_live` | 1 task, 1 slot, 1 deletion and the cleanup; 2 attempts; 3 failing calls or lost replies, those of the queue included; 2 crashes | `StatusMatchesResults`: completed means three filled tables, failed or queued three empty ones, through retries and redeliveries, unless a catch block did not end or the handler lost the queue's answer; `AcknowledgedIsDone`: a job the queue holds for completed is done for good; `AcceptedResolves`: every accepted task is completed, failed or deleted, unless the last run of its job was cut short; `RetentionErases`: if something calls the cleanup again and again, every expired task is erased |
| `local_pipeline` | 2 tasks, 2 workers, 1 deletion, 1 failing call or crash | `TypeOK`; `RunOnce`; `LossHasCause`: without a failing call or a crash a job is lost only where some job was claimed as an incomplete file or ran for a deleted task; `FilesMatchStatus`; `QuietErasure`: a deletion no run overlapped is final, though the job may still be queued; `WholeJobResolves`: a complete job is processed, as long as nothing fails or crashes and no batch ended early |
| `local_decisions` | 1 task, 2 requests of any kind, 2 paragraphs, 1 deletion, 1 failing call, 1 crash | `DecisionsTypeOK`; `DecisionKept`: what a request answered for stays in both files, unless another request held the file meanwhile; `HandledHasCause`: a handled paragraph has its operation; `FindingsErased`: findings return after a deletion only through a decision that had read them |
| `workbench_decisions` | 1 paragraph, 3 requests, a PDF or a text, 1 redelivery, 1 failing call, deletion | `StatusHasEvidence`; `LogAgreesWithStatus`; `RollbackUndoesAccept`; `DecisionsErased` |
| `workbench_tabs` | 2 tabs, 1 paragraph, 1 redelivery, 1 failing call, deletion | `TypeOK`; `StageHasSession`; `RowFollowsSession`; `PreviewResolves` |
| `workbench_one_tab` | 1 tab, 1 decision request, 2 paragraphs, 1 redelivery, no failing call | `TaskReturns`: a task that prepares a preview leaves the processing status again |
| `browser_pages` | 2 tabs, 1 call that sets the cookie at a time, 2 tasks, 1 choice of mode after the first, 1 lost request or answer, uploads answered as failed that made a task | `TypeOK`; `DeletedIsTrue`: whoever says a task is deleted is right; `FormMakesOneTask`: all but one of a form's tasks were left behind by a failure of the server or the network |
| `browser_one_tab` | 1 tab, 2 calls at once, 1 task, a row and a context that expire, 1 lost request or answer | `DeletedIsTrue`; `ExpiredIsTrue`: whoever says a task is expired is right; `PageSettles`: a page left open on a task that is over does not go on showing it under way |
| `review` | 2 paragraphs, one of them accepted earlier; the list of all by recommendation and the list of pending ones by score; 2 decisions (accept, roll back); 1 refresh, failure or lost answer | `TypeOK`; `ListIsCurrent`: when everything is over the list is the server's; `ProcessedHasOperation`: a paragraph the panel calls processed comes with its operation |
| `upload_limiter` | 2 clients, window 2, limit 2, time up to 6, 1 restart | `TypeOK`; `BurstIsBounded`: no interval of a window's length admits more than twice the limit less one; `RefusalIsDue`: a refused client used up the limit within the last window's length |

A run that ends in a counterexample of a statement the repository makes:

| run | statement | what happens |
|---|---|---|
| `workbench_stuck` | NFR20: the user can always return to an editable state | a start writes the session file; another tab polls after the delay (25 ms), makes the session ready and the row completed; the start's own row write then says processing, and no read of a ready session writes the row again |

Bounds. One task is enough wherever tasks share nothing but slots and the
cleanup's list; `local_pipeline` has two because a local worker takes several
jobs in one batch and loses them together, and `browser_pages` because a form
may make a second one. Two slots or workers are the least that take one job
twice at once; a deletion and the cleanup the least that erase one task twice
at once. Two attempts, where the code has three, reach a retry and the end of
the retries. One failing call per run reaches each catch block; of the three of
`pipeline_live` two exhaust the attempts and the third makes the last catch
block throw. One crash makes a job stall, two exceed its limit, so
`pipeline_live` meets both ways in which a task stays without an outcome, and
`AcceptedResolves` does not rest on these bounds. One slot suffices there:
without lost locks slots are never at one task together (`OneSlot`, proved),
and with them nothing is claimed. Two requests are the least that interleave on
a paragraph or a file, and a third that runs alone shows that they agree again;
on Postgres paragraphs share nothing but the task, in local files they share
the file, and `local_decisions` has two; it has one worker, since what two
workers do to each other is in `local_pipeline`. Two tabs are the least that
replace each other's context; two calls of one tab are a deletion that overlaps
another request. Two tabs with two calls each are beyond TLC: `DeletedIsTrue`
is checked with either, and what overlapping submissions add to
`FormMakesOneTask` is left to its theorem. Two views, one of which a decision
takes a paragraph out of, show every way in which an entry is fetched,
refreshed or left behind. The limiter's time covers three windows, so that a
burst may end one and begin the next. Symmetry is declared only in runs without
liveness properties. Deadlock is not checked: each system may stop when its
users do and its bounds are spent.

Fairness. A handler whose call can proceed goes on (weak fairness): Node runs
it. In `TaskPipeline` BullMQ promotes delayed jobs and runs its stalled check
every 30 s (weak), and delivers a waiting job as slots come free (strong,
because a slot may be taken and released for ever by others). A cleanup that
was called goes through its list (weak), but nothing in the repository calls
it, so `CleanupList` has no fairness: `RetentionErases` names repeated calls as
its hypothesis (`CleanupCalled`). A local worker polls every 500 ms. A tab that
shows a preview being generated asks again every second (`refetchInterval` in
`one-click-query.ts`) and the page asks its user to keep it open. A task page
polls while `refetchInterval` of `task-status-query.ts` says so, and a read it
sent is answered (`Polls`). Users, crashes, faults, losses, lost locks and
expiry are never fair.

## Proofs

TLAPS proves, for any number of tasks, slots, workers, requests, tabs,
paragraphs and keys and any bounds, from the assumptions on constants alone
(`PipelineAssumption`, `LocalAssumption`, `LocalDecisionsAssumption`,
`WorkbenchDataAssumption`, `TaskBrowserAssumption`, `RiskOrderAssumption`,
`ReviewPageAssumption`, `UploadLimiterAssumption`). They say of the data
that a task has finitely many findings, each at a place of its own, and that
there is one to decide on:

* `TypeCorrect` (`TaskPipelineProofs`). `TypeOK` is not inductive: a slot's
  task must be one whenever its program counter is past `idle`, the holder of
  a job's lock works on that job, a job has been attempted less often than
  allowed while it may still run, a deletion under way names a task.
  `TypeInv` adds these as `SlotInv`, `JobInv`, `DeletionInv`.
* `ErasureFinal` (`TaskPipelineProofs`): `Spec => []ErasureIsFinal`. The inductive
  invariant `CustodyInv` says why nothing comes back: only an upload handler
  creates an object or a row, each its own and once; a deletion or the
  cleanup only takes up a task whose handler has ended; a row is deleted only
  after its object; every other writer needs the row.
* `PipelineKeepsCustody` (`TaskPipelineProofs`): `Spec => KeepsCustody`. Under
  `CustodyInv` the initial state maps to the initial state and every step to a
  step of `DocumentCustody` or to a stutter; there is a lemma per group of
  actions, over effects (`WorkerEffect` and the like) rather than actions.
* `AcceptedKept` (`KeepingProofs`): `Spec => []AcceptedIsKept`. On top of
  `CustodyInv`, `AskedInv` says that the cleanup works on expired tasks only
  and that a request remains about its task, and `HandlerKeeps` that a handler
  which registered its task leaves row and document in place; every step but
  an upload handler's then `Spares` what nobody asked to delete.
* `StatusTrue` and `AcknowledgedDone` (`KeepingProofs`):
  `Spec => []StatusMatchesResults` and `Spec => []AcknowledgedIsDone`, with
  lost replies, throwing queue commands and redelivered jobs. `RunsInv`, on top
  of `TypeInv`, says of a task no slot lost the lock of that a slot is at it
  only while it holds the lock of the active job, or when it lost the answer of
  a queue that holds the job for completed, and never a second one (`OneSlot`);
  that the place of that slot in `processTaskJob` tells which tables have been
  filled or emptied and which statuses the row can have (`SlotFits`); and what
  row and tables say once nobody is at it (`RowFits`). The exceptions are
  states, not hypotheses on the run: a catch block that is at work or was cut
  short (`Unfinished`), and a failure written by an upload handler for a job
  the queue has (`RefusedInVain`).
* `LocalTypeCorrect` and `JobRunsOnce` (`LocalProofs`): `Spec => []TypeOK` and
  `Spec => []RunOnce` of the local queue. The inductive invariant (`OnceInv`)
  says that a job is in one place: in the pending directory, where nobody has
  it; in the processing directory, where one worker at most reads it; or in
  the batch of one worker, and until it is taken out of that it has not run.
  The rename is what hands it over.
* `FilesTrue` and `QuietErasureFinal` (`LocalProofs`):
  `Spec => []FilesMatchStatus` and `Spec => []QuietErasure`. `FilesInv`, on top
  of `OnceInv`: a job that is complete is run by one worker (`OneRun`), so its
  place in `processTaskJob` tells which files have been written or removed and
  which statuses are possible (`FilesFit`); and a deletion no run overlapped
  with has removed what its own place says, after which a run can only be one
  that finds no task and ends in the catch block (`Quiet`, `InVain`).
* `LossExplained` (`LocalProofs`): `Spec => []LossHasCause`. `CauseInv`: while
  nothing has thrown or died, a run is in the catch block only for a task that
  was deleted (`CatchInv`, from `MadeInv`), so every step of a worker either
  carries its jobs on (`Carries`), takes one up, or ends a batch in one of the
  two ways `BatchEnded` names; and what ended a batch stays to be seen.
* `DecisionsTypeCorrect`, `AnsweredIsKept`, `HandledIsExplained` and
  `FindingsStayErased` (`DecisionsProofs`): `DecisionsSpec` implies
  `[]DecisionsTypeOK`, `[]DecisionKept`, `[]HandledHasCause` and
  `[]FindingsErased`. One invariant, `DecisionsInv`, serves the four, since the
  two files are changed by decisions, by the worker and by deletions alike.
  `PastInv`: beyond the status check of a decision the task's one run is over,
  and the task stays completed until its deletion begins, so the findings are
  published no more (`Settled`, kept by every step of the pipeline: `Leaves`).
  `MeetInv`: of two requests that hold the same file both are met.
  `HeldInv`: what a request not met holds is the file. `LoggedInv`: once it has
  written the log its operation is there *and in every copy of the log that
  another one may write back*; `StandsInv` says the same of its status while
  nobody else decides on its paragraph or deletes the task, and `ReasonInv`
  that every status, in the file or in such a copy, has its request.
  `ErasureInv` carries `FilesInv` of `LocalPipeline` over: its deletions leave
  what they left before, except for findings of tasks in a set `B`, each with a
  request that is met. `FilesInv` has that set as a parameter, empty in
  `LocalPipeline` alone, so that the lemmas about its steps are proved once.
  `PipelineUndisturbed`: `RunOnce` and `FilesMatchStatus` hold with decisions too.
* `WorkbenchTypeCorrect` (`WorkbenchProofs`), with `RequestsNameParagraphs`.
* `HandledIsLogged` and `NothingDecidedRemains` (`WorkbenchProofs`):
  `Spec => []StatusHasEvidence` and `Spec => []DecisionsErased`. They are
  inductive only together: a request about to set the status has its operation
  in the log *if the task exists* (`UpdateIsLogged`), and when it does not
  there is no finding left to set (`DecisionsErased`); what a logged request
  asks for no longer changes (`LoggedWasReceived`).
* `RowBehindSession` (`WorkbenchProofs`): `Spec => []StageHasSession`. A
  request that is about to write the row has written the file
  (`RowWriterHasSession`), and files are never removed.
* `RowAgreesWithSession` (`WorkbenchProofs`): `Spec => []RowFollowsSession`.
  `FollowInv` says what the history variables mean now: a request marked alone
  has no company (`AloneInv`), and while nothing is mixed there is at most one
  request and no job (`MeetInv`). Such a request finds the file as it wrote it
  when it writes the row (`FileInv`), and before it writes the file, or after
  it has written the row, the two agree (`RowInv`).
* `LogFollowed` and `RollbackFollowsAccept` (`WorkbenchProofs`):
  `Spec => []LogAgreesWithStatus` and `Spec => []RollbackUndoesAccept`.
  `LedgerInv` again says what the history variables mean now (`CompanyInv`,
  `CalmInv`). A request that is alone is the last of its paragraph in the log
  from its stamp on (`NewestInv`), a request stamped later inserts behind it
  (`OrderInv`), and a rollback still finds the acceptance it saw when it inserts
  (`UndoInv`). So the status it sets is the one the log speaks for (`AgreeInv`).
  That its operation is in the log by then comes from `EvidenceInv`.
* `BrowserTypeCorrect` and `DeletedTrue` (`BrowserProofs`):
  `Spec => []DeletedIsTrue` of `TaskBrowser`. That a task is deleted is known
  from an answer and passed on by the context the answer sets, by the requests
  sent with it and by their answers; the invariant follows it through all of
  them, and a row that is gone stays gone.
* `ExpiredTrue` (`BrowserProofs`): `Spec => []ExpiredIsTrue`. An expiry is told
  only by an answer, to the page of the task it is about, and ages only grow
  (`OldInv`).
* `FormMadeOneTask` (`BrowserProofs`): `Spec => []FormMakesOneTask`. A form
  waits for one upload at a time, sent under the number its page was shown with
  (`AsksOnce`). Every task it made has been left behind but for one, and then
  either that upload's answer is still on its way or the browser's context has
  lost the number (`MakesOnce`); the context cannot get it back, because the
  numbers of the answers still waiting to set it differ from it, from each
  other and from the number of every form (`NumbersInv`).
* `OrderIsTotal`, `TopIsUnique` and `ListHasTop` (`ReviewProofs`): each of the
  three orders is a strict total order, so a list that is not empty has one
  top, and that is what the page selects. `PageTypeCorrect`, `Spec => []TypeOK`
  of `ReviewPage`, needs it: the selection is a finding of the task. With it
  goes `BarInv`: the bar waits only for a decision under way.
* `ListStaysCurrent` (`ReviewProofs`): `Spec => []ListIsCurrent`. `CacheInv`
  follows what a sound entry holds, shown or on its way: it differs from the
  server only in paragraphs whose decision has been answered and is still to
  refresh the entry (`Awaited`). A refresh gives up the fetch under way and asks
  again, so it may end the decision; a fetch that it joins instead costs the
  entry its soundness. When nothing is under way no paragraph is awaited.
* `HistoryHasOperations` (`ReviewProofs`): `Spec => []ProcessedHasOperation`.
  `RecordInv`: a status leaves pending only after the operation is recorded, and
  no operation is taken back. `PanelInv`: what the first of the panel's two
  reads has brought is still so when the second is made, unless a decision met
  them.
* `LimiterTypeCorrect`, `BurstBounded` and `RefusalDue`
  (`UploadLimiterProofs`). The admissions of an interval fall into at most two
  windows, of the earlier of which the opening request is missing; they can be
  counted by their places, up to twice the limit less one.

Every safety property a passing run checks is proved, and so is the temporal
one that speaks of steps (`KeepsCustody`).

Only model-checked: the liveness properties (`AcceptedResolves`,
`RetentionErases`, `WholeJobResolves`, `PreviewResolves`, `TaskReturns`,
`PageSettles`), which need fairness and `ENABLED`. What `SelectSeq` computes in
`LocalDecisions` (which operation is the latest of a paragraph) is not reasoned
about: it is recursive. The proofs of that module let a rollback go on to the
log whatever it has read there, and hold all the same.

## Seen while modelling, without a run of its own

Pipeline:

* A worker that dies before acknowledging a completed job has it redelivered;
  when the first write of the new run throws, its catch block deletes the
  published results, and if that catch block throws too the row goes on saying
  completed, with a message that the results are readable.
* An accepted task stays in processing, or in queued, for good when the catch
  block of its last attempt throws before it has written failed, or when its
  worker dies more often than `MaxStalled`: BullMQ then fails the job without
  calling code of the repository. NFR15 wants no interrupted task to fail
  silently; `AcceptedResolves` names these two cases (`GivenUp`) and shows that
  there is no other.
* When the reply to the enqueue command is lost, the upload handler writes
  `queue_unavailable` ("neither parsing nor scanning has started") over a task
  the worker is processing.
* Every failing attempt writes `failed`, which the client takes for terminal
  and stops polling on; a retry may still complete the task.
* Nothing outside a test calls `cleanupExpiredTasksEntry`, so nothing is
  deleted after the retention period (NFR12) unless an operator schedules it.
* When the reply to an upload is lost, its task exists and no context reaches
  it until the retention period ends. The same is so of an upload answered with
  a 503 whose row, perhaps even its job, is in place: `createTaskRecord`
  committed and threw (the undo deletes the document, never the row), or the
  enqueue command threw and the failed status could not be written. Submitting
  the form again then makes a second task.

Local drivers:

* `enqueueMemoryTaskJob` writes job files in the polled directory itself: a
  worker that polls in between claims an empty file, and the job is lost.
* One job that throws ends the local worker's batch, and the jobs after it
  have left the queue already.
* The local `deleteTaskRecord` leaves the rewrite options and the file of
  edit operations, and a local status update that read the task before its
  deletion writes it back; so does a decision that had read the findings.
* Two decisions on different paragraphs at once may both be answered while one
  of the two operations, or one of the two statuses, is overwritten.
* `listLocalTaskRecords` returns no task at all when one file vanishes between
  `readdir` and `readFile`: a whole cleanup is passed over silently.

Decisions and preview:

* A redelivered job of a completed task replaces the findings: an accepted
  paragraph is pending again, though its operation is still in the log
  (NFR18: an accepted change is not lost without notice).
* The session file of a preview, which quotes paragraphs before and after
  rewriting, belongs to no deletion and survives its task (NFR13).
* A new start of the preview begins a new event log and drops the old one; a
  late ready write undoes another tab's rollback.

Browser:

* The answers for an expired task go from 410 to 404 when the cleanup deletes
  its row, and back to 410 when its context expires.
* A page that stopped polling on `failed` misses the completion by a retry; a
  page whose reads are refused keeps polling as long as its last data were not
  terminal.
* A second submission within the 1200 ms after an acceptance, before the page
  moves on, is refused for want of a context and cancels the move.
* The cookie lives for four hours (`Max-Age`), the task for seven days; the
  deleted context's reason `expired` is never created; `lib/auth/task-context.ts`
  is not imported by anything.
* The button that opens the deletion panel is enabled while a deletion is
  under way: the 404 to a second one takes the "deleted" view back. A late
  answer to a deletion replaces the context of a newer task, although the
  panel's text says that only the current task is concerned.
* A risk list whose first fetch fails on the network is not polled and goes on
  saying that the scan is running.
* A decision that fails, or whose answer is lost, is not followed by a refresh.
  A bar that is built anew forgets `isSubmitting`, so two decisions may be
  under way; its message and its confirmation survive the change of the
  paragraph. Filter and selection are kept in a global store and survive a
  change of the task. A change of the view during a decision may join a fetch
  sent before the decision.
* The history panel's two reads may straddle a decision, and then show a status
  without the operation behind it.
* The rate limiter's map is never pruned, and it counts requests whose upload
  fails afterwards.

## Not modelled

* The retention cleanup over local files, which runs the same deletion as a
  DELETE request after listing the files, and local files under the preview:
  the session file is in `OneClick` with the Postgres row.
* The reads of a segment's diagnosis and of a paragraph's rewrite options and
  the order of the options, which is that of their rank: they decide nothing.
  The list shows at most ten findings, which `ReviewPage` does not count.
* Contracts beyond their value sets: a request or an answer that does not
  parse is refused, or is a failed read. Policy tables, entry page and copy
  are static.
* Parsing, scanning and rewriting of text are pure functions of the document,
  and their content matters to no property here.

What would come next: what a rollback reads in the local log, with the log
ordered by stamps as in `ParagraphDecisions`.
