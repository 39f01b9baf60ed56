# Verification of the reporting service

TLA+ modules, TLC configurations and TLAPS proofs about this repository: an API
(FastAPI) that registers reports, a Celery worker that generates them, PostgreSQL
that remembers them, Redis between the two, and a storage that keeps the files.
Every definition is translated from the code; `PROJECT.json` gives its lines.

Every command runs in this directory:

    tlasany MCReportPipeline.tla
    tlc -workers 2 -config PipelineFaults.cfg MCReportPipeline
    tlc -workers 2 -config Downloads.cfg MCReportDownload
    tlapm AttemptProofs.tla

## 1. The system

| Component | State it keeps | Operations | Status |
|---|---|---|---|
| Tables and unit of work (`models/report.py`, `repositories/`, `services/report_service.py`) | `report_requests`, `report_events`, `task_attempts`, `report_files` | one commit per service operation | `ReportStore` |
| Task channel and worker node (`core/celery_app.py`, Celery, kombu, Redis) | list of messages, reserved messages, revoked ids in memory | publish, receive, accept and acknowledge, discard, revoke, restart | `TaskQueue` |
| Generation task (`tasks/report_tasks.py`) | its session, its attempt | load, note the retry, count, start, build and upload, retry, fail, refresh, cancel, succeed | `ReportPipeline` |
| Creation, reading, cancellation (`api/routes/reports.py`) | one session per request | POST, with its eager mode; GET of a detail; DELETE | `ReportPipeline`, `EagerPipeline`, `ReportReading` |
| Downloads (`api/routes/reports.py:100-139`) | their events; tokens hold the rest | two phases of GET .../download | `ReportDownload` |
| Listing (`repositories/report_repository.py:68-99`) | none | count and page | `ReportListing` |
| Storage (`services/storage.py`) | one object per report | upload, whole or torn; existence; local file or presigned URL | `ReportPipeline`, `ReportDownload` |
| Report builder (`services/report_builder.py`) | none | the media type of a format | `ReportStore`, in part |
| Database sessions (`core/database.py`) | pooled connections of a process | the first query of a task | `ReportPipeline`, in part |
| Authentication and permissions (`core/security.py`) | none | role map, visibility | visibility only, in `ReportDownload` |
| Health, schemas, configuration, logging, scripts | none that matters here | | not modelled |

### How the parts interact

POST commits the report (PENDING), publishes a task whose id is the report's, and
commits the task id; if the publication raises it commits FAILURE and answers 503.
The node takes messages from the list, reserves them, and hands each to an idle
process of its pool, acknowledging it at that moment (`task_acks_late` is not set).
The process loads the report once, and from then on works on its session: it commits
STARTED with a new attempt, builds and uploads the file, reads the report again, and
commits SUCCESS with the file, or closes the attempt as canceled. An `OSError` of the
upload commits RETRY and publishes the message again, three times at most; any other
error commits FAILURE. DELETE loads the report, judges its status, broadcasts a
revocation of the task if its id is known, and then commits CANCELED. Nothing locks a
row and no column counts versions; the session writes only the columns whose value it
changed, so the last writer of each column wins.

A download is two requests: the first answers with a signed link and records
DOWNLOAD_REQUESTED, the second brings the link's token; on local storage it records
DOWNLOAD_COMPLETED and sends the file, on S3 it redirects to a presigned URL and records
nothing. A detail is four queries, a listing a count and a page. In eager mode POST awaits
the generation itself, with no message, worker or Celery around it.

### What is hard

The handlers' sessions are stale by construction, and their commits merge column by
column. Revocation and cancellation are two steps in two systems. Attempts are
numbered by a count. A task is acknowledged before it runs, and a publication may fail
after it succeeded or be repeated. Objects are written before the rows that describe
them. What a client reads is put together from several queries, and pages and links
outlive the moment they were computed in. `PROJECT.json` lists these hazards at their
lines, with the properties about each.

### What correctness means, per component

- Tables: status, error message and trail agree; an outcome of an attempt is final; a
  file is recorded exactly for the attempt that succeeded.
- Channel: a message has one holder.
- Task: attempts are numbered one by one and are as many as the retries require; none
  is opened after an outcome; each is closed; the file recorded is the object stored.
- Cancellation: final for whoever reads after it; work on a report is lost to a revocation
  only, and a cancellation is behind it.
- Downloads: the file delivered is the successful one, whatever happened since the link
  was given; the trail knows of every link and every delivery; outsiders neither see nor
  change anything.
- Details: never behind the status they show. Listings: no report is missed or repeated
  but for reasons the client can be told.
- Eager mode: every request is answered, and the answer agrees with the report.
- The whole: every report that was registered ends.

## 2. The modules

| Module | Contents |
|---|---|
| `Parameters` | the report ids and the number of retries |
| `ReportStore` | tables, the unit of work (`Column`, `Flushed`, `Commit`), and what each operation of `ReportService` assigns (`StartedRow`, `RetryRow`, ...) |
| `TaskQueue` | the channel: `Enqueue`, `Receive`, `Accept`, `Discard`, `Broadcast`, `RevokeArrives`, `NodeRestart` |
| `ReportPipeline` | composes both with the handlers, the task, the pool and the objects; `Next`, `Fairness`, `FairSpec` |
| `PipelineProperties` | the properties of the pipeline |
| `AttemptLedger`, `AttemptChain` | abstract: what the tables promise of attempts and file, with and without duplicated messages |
| `PipelineRefinement` | the mappings under which the pipeline implements both |
| `ReportDownload`, `DownloadProperties` | both phases of a download beside the pipeline, and their properties |
| `ReportReading` | the four queries of a detail beside the pipeline |
| `EagerPipeline` | POST in eager mode: the steps of the task inside the handler |
| `ReportListing` | a client walking the pages of its listing, over the tables only |
| `MCReportPipeline`, `MCReportDownload`, `MCReportReading`, `MCEagerPipeline`, `MCReportListing` | symmetry, views and constraints for TLC |
| `PipelineProofs` | type correctness, one holder of a message |
| `OutcomeProofs` | outcomes, files and cancellations |
| `AttemptProofs` | both refinements, numbers of attempts and retries, stored objects, open attempts |
| `TrailProofs` | status, error message and trail; lost work |
| `DownloadProofs`, `ReadingProofs`, `EagerProofs`, `ListingProofs` | downloads, details, eager mode, listings |

### State and actions against the code

- `row[r]` keeps the columns behaviour depends on. `completed`, `enqueued`, `deleted`
  say that `completed_at`, `celery_task_id`, `deleted_at` are not null;
  `error` tells null, the note of a retry ("Reintento numero k") and an exception text
  apart. `snap[w]` and `delSnap[d]` are the same columns in the sessions of a task and
  of a DELETE request: what they last loaded, with what they assigned since.
- Every await on the database, the broker or the storage bounds an action. A commit is
  one action with the flushes before it, and with the code between it and the previous
  await. Two exceptions keep the model small and lose nothing: reading an expired report
  and stamping `deleted_at` is one step (`deleted_at` is never taken back), and a refresh
  after which a handler only returns is left out where nobody looks at how it returned: the
  one that ends POST's (a database error in it leaves the report's attributes expired, so
  that `mark_enqueue_failure` cannot commit either), DELETE's, and a worker's task
  (`report_service.py:251`, `:276`). In eager mode the latter is a step of its own, because
  a database error in it changes the answer.
- `pc[w]` is the place of a process in `_generate_report`: `load` (line 43), `note` (51),
  `count` and `start` (53), `build` (57-71), `retry` (74), `republish` (75 and Celery's
  `Task.retry`), `fail` (76, 79), `refresh` (83), `cancel` (85), `finish` (97).
- `object[r]` is the attempt that wrote the stored file of a report (the path depends on
  the report, not the attempt), 0 when there is none or it is torn.
- `Faults` says what may go wrong: an upload's `OSError` (`storage`), any other error or
  the soft time limit during generation (`task`), a publication or broadcast of which
  nothing was sent (`broker`), a publication that fails although its message was stored
  (`ambiguous`), a broadcast that raises although it was sent (`broadcast`), a database
  error or a killed process (`handler`), a restart of the node (`node`), connections that
  do not outlive their event loop (`loop`). A run names the faults it needs.
- A broadcast that fails has two ends: a `CeleryError` is logged and the request goes on to
  its commit (`CancelRevokes`), any other error ends it with 500 (`CancelDies`).
- `Copies` names the copies of a message that there may be at a time; a set of one means
  a publication leaves exactly one, and an acknowledgement is never lost. More copies come
  from a publication that is repeated. A lost acknowledgement (kombu logs the connection
  error and goes on, `message.py`) has the effect of one more copy that waits while the
  task runs, so `pipeline_duplicates` and the theorems for any `Copies` are about it too;
  what is proved under exact publication is proved for exact delivery.
- The limit of retries is looked at twice, as in the code: by the task (`RetriesLeft`) and by
  Celery when the task asks for the retry (`RetryAllowed`). They agree on `MaxRetries`, the
  constant both are set from; a task that asks once too often is left in RETRY.
- In `ReportDownload`, `phase[d]` is the place of a request in `download_report` or its
  answer: `grant` (line 114), `serve` (132), `send` (139, the response being sent),
  `redirect` (the client holds a presigned URL). A link has the name of the request it
  answers, and `lapsed` the tokens whose time is over. `Remove` is somebody else taking an
  object away. `onS3` is a setting, fixed in each behaviour. The report is read in one
  step: whatever its four queries see, a SUCCESS comes with its file (`DetailCoversStatus`),
  and files stay.
- In `ReportReading` the row is read first (its statement carries the loader options), the
  other three in any order: SQLAlchemy walks a frozenset of properties
  (`orm/mapper.py:2056`, `orm/loading.py:852`).
- `EagerPipeline` reuses the actions of the task; what differs is who calls them, that what
  the task raises leaves the request (`RaiseTransient`, `Raises`), and that the refresh after
  the last commit is a step (`reply` is `committed` until then): it returns, and POST answers
  202 (`Confirms`), or it raises, and POST answers 500 (`LosesConfirmation`).
- `ReportListing` keeps `created_at` (the begin of the inserting transaction, so that ties
  and late commits happen), and lets others write any status of `Written`: it is about the
  two queries and the pages, not about why rows change. `lasting`, `fled`, `joined` and
  `steady` only observe.
- Operators commented as `Variant` are plausible mistakes used to test the properties;
  nothing of the specification uses them.

### External code

Celery, kombu, SQLAlchemy and asyncpg are not ours; their part in the actions is read
from the vendored sources under `.packages` (early acknowledgement, revocation by id,
the update of changed columns, the order of loaders, the opening of a `FileResponse`, the
event loop of a connection) and mapped there. The restart of the node, the removal of a
stored object and the writes of others in `ReportListing` have no source of their own.

The repository vendors its dependencies under `.packages` (some 1.3 million lines); the
map is about the service's own thousand, of which it leaves out declarations, rendering
and wording (section 5).

## 3. The runs

`CHECK_DEADLOCK FALSE` everywhere: the system stops when no more requests come.

| Run | Instance | Shows |
|---|---|---|
| `pipeline_faults` | 1 report, 3 retries, 2 processes, 2 DELETEs, retention, all faults; 351 000 states | the safety invariants and action properties; the pipeline implements `AttemptChain` |
| `pipeline_duplicates` | 2 copies, 1 retry, 2 processes, 1 DELETE, storage errors; 870 000 states | what survives two processes running the same report at once; it implements `AttemptLedger` |
| `pipeline_trail` | 1 report and a reader of its detail, 1 retry, 1 DELETE, retention, all faults but `loop`; 2.75 million states | trail, status and error message agree; details cover their status |
| `pipeline_progress` | 1 report, 2 retries, 2 processes, 1 DELETE, `FairSpec`; 14 000 states | attempts end, reports settle; work is lost to a revocation only |
| `downloads` | 3 requests, one of an outsider, 1 report, 1 retry, 1 DELETE, retention, removal of the object, both storages; 313 000 states | what is delivered, recorded and hidden |
| `eager_answers` | 2 reports (PDF and Excel) whose requests overlap, 1 DELETE, retention, storage, generation and database errors, `EagerFairSpec`; 51 000 states | answers come and are true; eager mode implements `AttemptLedger` |
| `listing_walk` | 3 reports, pages of one, a filter that reports enter, leave by retention, and ties; 311 000 states | what a walk misses, repeats and counts |
| `cancel_then_success`, `success_then_cancel`, `retry_dropped`, `excel_report`, `second_task` | the smallest instance with the case | a disagreement of code and documents, below |

**Bounds.** Nothing relates two reports but the pool, the node and the connections, so
one report with two processes has every race between a task and its handlers; two are
used where a second one matters. Two processes are needed for two executions of one
report; two DELETE requests for one that overtakes another. Three retries are the code's;
fewer are used where only "first", "next" and "last" matter. The only unbounded data are
the trail and the attempts, bounded by the requests and retries. Three downloads are a
link, its use and an outsider, or a link used twice; that a link of another report is
refused (`about[l] # about[d]`) needs two reports and is left to the proofs. A walk of
three pages has a page before, between and after any change; it stops at the first page
that is not full, where `listing_walk` is cut off (`Walking`). `pipeline_trail` is cut off
when the reader has its answer (`Unanswered`): the answer does not change, and the rest of
the pipeline's behaviours are those beside a reader that has not asked.

**View and symmetry.** `WithoutTrail` (`WithoutEvents` for downloads) leaves `events` out of
the fingerprint. No action reads `events`; the runs that use it say no more of the trail than its type. Processes,
DELETE requests, copies of a message, the downloads of those who may see the report and
the reports of a listing are interchangeable; symmetry is used in no run with liveness.
The two refinements are safety properties, so symmetry and view are sound for them.

**Fairness.** Weak fairness of: the steps of a POST or DELETE handler that has begun, each
process's task, the consumer, the pool and the arrival of broadcasts. uvicorn and Celery
run what they accepted. Requests need not be sent and nothing must fail or succeed: a
fault is a disjunct of a fair action, never required. The liveness run leaves out crashes,
failed broadcasts and failed publications of a retry: after those the code has no
mechanism that would resume (no outbox, late acknowledgement or sweep), so a report may
stay PENDING, STARTED or RETRY for ever. It also sets the two findings below aside
that would end every behaviour early (`loop`, Excel). In `eager_answers` a handler that
has registered its report goes on, to its last commit (`InlineStep`) and through the refresh
after it (`EndsConfirmation`), and nothing else is fair: errors, DELETE requests and the
retention may or may not come.

**Where the code departs from its documents** (each a run that must find a violation):

1. A cancellation between the task's refresh and its commit is overwritten by SUCCESS.
2. A DELETE that read the report before it succeeded overwrites SUCCESS by CANCELED.
3. A task that fails on storage writes RETRY over a cancellation, whose revocation drops
   the retry: the report stays in RETRY.
4. The media type of an Excel workbook does not fit `file_type VARCHAR(32)`; on
   PostgreSQL no Excel report succeeds. (SQLite, which the tests use, ignores widths.)
5. With asyncpg, the second task of a pool process fails at its first query.

Behaviours the models contain, and their properties are worded around, without a run of
their own:

- A report refused with 503 runs all the same if the broker had stored the message (the
  `ambiguous` fault; the `post[r] = "unsent"` of `CanceledLeftOnlyByEarlierReaders`).
- README.md:52 says eager mode validates the complete flow; a storage error in it leaves
  the report in RETRY with the event of a retry nobody makes, and answers 500.
- In eager mode a database error after the commit of the success (its refresh,
  `report_service.py:276`, or the loss of its answer) makes POST answer 500 for a report
  that is SUCCESS with its file, or canceled (the `unconfirmed` of `AnswerTellsOutcome`).
- DELETE revokes before it commits. When its broadcast raises something that is no
  `CeleryError` (kombu's `OperationalError`, for one), sent or not, or the database fails
  after it, the request ends with 500 and the report is not canceled; if the
  broadcast was sent the node drops the task all the same, and the report stays unfinished
  (`CallsComplete`, the assumption of `AbandonedAreCanceled`).
- A message lost to a killed process, or a retry whose publication fails, leaves the report
  in STARTED or RETRY.
- DOWNLOAD_COMPLETED is committed before the file is opened: if the object goes away in
  between the trail has a completed download that answered 500 (the `error` in
  `DeliveriesAreRecorded`).
- README.md:75 says expired reports cannot be downloaded; a presigned URL (300 seconds)
  is followed after the retention ended (`FetchFile` does not look at `expired`).
- A detail may show the event of a generated report and `file: null`, when its file was
  looked for before the commit and its events after it (`DetailCoversStatus` promises the
  file only for the status it shows).
- A walk by offset misses reports if one leaves the selection meanwhile, repeats them if
  one enters it, and promises nothing for those created at the same time, which
  `order_by(created_at)` leaves in any order. A client that stops by `total` can stop early.
- README.md says a report can be canceled unless it succeeded; the code also refuses a
  failed one (409), and a test agrees with the code.

`EveryReportSettles` carries finding 3 as an exception in its statement, and
`CanceledLeftOnlyByEarlierReaders` says exactly how far findings 1 and 3 can go, and
`OutcomeLeftOnlyByEarlierReaders` how far finding 2 can: a report leaves SUCCESS or FAILURE
only to CANCELED, by a DELETE request that had read it unfinished, or to FAILURE, by the
POST handler of a publication it takes for failed; a report so failed although its message
was stored goes on.

## 4. The proofs

For every set of reports, processes, requests, copies and faults and every number of
retries, from the assumptions `RetriesAssumption` (a natural number), `ExcelAssumption`,
`PipelineAssumption` and `ListingAssumption` (subsets of what they should be, `NoMessage`
is no message, a page has room for a report) and `CopiesAssumption` (there is a name for a
copy of a message).

- `TypeCorrect` : `Spec => []TypeOK`. `RetriesRemain` adds that a task about to retry has
  one left: Celery's own check (`RetryAllowed`) keeps the numbers in their type, and by
  `RetriesRemain` it never refuses a retry the task has asked for.
- `MessagesHaveOneHolder` : `Spec => []OneHolder`, with `UnpublishedIsIdle` (nothing is
  queued or runs for a report whose POST has not published), which makes a first
  publication collide with nothing.
- `LedgerInvariance` : the ledger of attempts. A task between `build` and its end owns an
  open attempt (`OwnAttempt`) that no other task owns (`NobodyElses`); a recorded file is
  that of an existing attempt (`FileOfAnAttempt`). From it `FileIsOfTheSuccess`
  (`FileOfTheSuccess`) and `OutcomesAreKept` (`OutcomeIsKept`): closing one's own open
  attempt can neither rewrite an outcome nor give a report two successes.
- `SuccessAlwaysHasFile` (`SuccessHasFile`): `StatusAfterStep` says which handler can
  write which status from where; the only one that writes SUCCESS records the file in the
  same commit, and nobody removes a file. `ExcelNeverSucceeds` turns this into finding 4
  for every instance: no Excel report ever has a file or the status SUCCESS.
- `CanceledIsLeftByEarlierReaders` (`CanceledLeftOnlyByEarlierReaders`): `SessionInv` says
  that a task that goes on had not seen a cancellation when it last read.

- `PipelineImplementsLedger` (`ImplementsLedger`): for any number of copies, each step of
  the pipeline opens an attempt, ends an open one, or stutters on the ledger; the attempt
  a task closes is its own open one, and the unique file row admits one winner.
- Under exact publication, `ASSUME ExactPublication` (all members of `Copies` are equal):
  `ChainInvariance` proves `ChainInv`, the inductive invariant behind `CountersAgree`
  (`AttemptPerRetry`), `AttemptsAreNumbered` (`AttemptsNumbered`), `NothingFollowsAnOutcome`
  (`NoAttemptAfterOutcome`) and `PipelineImplementsChain` (`ImplementsChain`). It says that
  whoever holds the report (a waiting message, a task before its attempt) finds exactly
  as many attempts as retries, all of them retried, and that a running attempt is the last.
  `ObjectOfTheFile` (`FileMatchesObject`) adds `ObjectInv`: a task between upload and commit
  finds its own object. `OutcomesAreLeftByEarlierReaders` (`OutcomeLeftOnlyByEarlierReaders`)
  adds `ReaderInv`: a DELETE request that goes on had read the report unfinished, and a
  failed report that POST has not rejected has an attempt that failed. A successful one has
  its file, hence an attempt that succeeded; a task the chain lets work finds neither
  (`WorkedIsUndecided`), so no task is there to change the status.
- `OpenAttemptsRun` (`OpenAttemptIsRunning`), under exact publication and `TasksComplete`
  (neither `handler` nor `node`, no Excel report): each of these leaves an attempt open for
  good.
- `AbandonedAreCanceled` (`OnlyCanceledAreAbandoned`), under exact publication and
  `CallsComplete`, which adds to `TasksComplete` that messages and broadcasts get through
  (no `broker`, `broadcast` or `loop`; `ambiguous` publications are allowed): a published,
  unfinished report that nobody is left to go on with was canceled. `RevocationsExplained`
  says that a revocation on its way or in the node belongs to a request about to commit or
  to a recorded cancellation; `WorkInv` ties the status to whoever holds the report
  (`WaitingStatus`, `LeavingStatus`, `SessionStatus`), so that a dropped message of an
  unfinished report can only be a retry.
- `DownloadsArePipelineBehaviours` (`DownloadSpec => Spec`) and
  `ReadersArePipelineBehaviours` carry every theorem of the pipeline over to the modules
  that extend it. On top: `DownloadTypeCorrect`, `OnlyRemovedAreMissing`
  (`MissingOnlyIfRemoved`, from `FiledHaveFile`: a request told of a file has one),
  `OutsidersLeaveNoTrace`, `CompletedWereRequested` (`CompletedFollowsRequest`) and, under
  exact publication, `DeliveriesAreSuccesses` (`DeliveredIsTheSuccess`).
- `EveryStatusIsAnnounced`: whatever stale sessions write, the status of a report has its
  event in the trail. With it `DetailsCoverTheirStatus` (`DetailCoversStatus`): rows of the
  trail, attempts that ended and files only ever grow, so queries made after the row's
  cannot be behind it.
- `LastAnnouncementIsTheStatus` (`TrailAgreesWithStatus`) and `ErrorsExplainStatuses`
  (`ErrorExplainsStatus`), under exact publication, for a report no DELETE request has read
  and POST has not failed after it was published all the same (`Undisturbed`). Neither is
  inductive: a merge keeps the columns a stale session did not change. `SayingInv` adds that
  the session of a task that goes on agrees with the row on status and error
  (`SessionsAgree`), because nobody else writes them, and that a retry is noted
  (`NotesRetry`).
- `AnswersTellOutcomes` (`AnswerTellsOutcome`): 202 is for a report that is over, 500 for one
  with neither success nor file, or for a database error after the last commit. `AnswerInv`
  says that the request that generates a report is the only one at work on it (`AtWork`,
  `NobodyElseAtWork`) and what each answer, and the wait for the last refresh, may claim
  (`Answered`). `EagerImplementsLedger` (`ImplementsLedger`): eager
  mode keeps the ledger with the same invariant as the pipeline.
- `EveryDeliveryIsRecorded` (`DeliveriesAreRecorded`) counts: a request that has recorded
  its delivery and not sent the file yet is counted already (`Counted`), every step moves
  at most one request from one count to the other, and only finitely many requests have
  been sent (`FinitelyMany`), so that the counts are numbers.
- `WalksMissNothing`, `WalksRepeatNothing`, `TotalsGoWithPages` (`WalkMissesNothing`,
  `WalkRepeatsNothing`, `TotalGoesWithPage`), for any number of reports, pages and writers.
  `Ahead(r)` is the number of selected reports newer than `r`; for a report with a time of
  its own it is its place in every ordering of the selection (`PlaceOfAlone`), hence what
  OFFSET is to be compared with. While nothing leaves the selection it only grows, so a
  report not seen yet is never passed (`FoundInv`); while nothing enters, it only falls, so
  a report that was seen stays behind the offset (`PassedInv`).

Every invariant and every action property of the passing runs is proved, `OpenAttemptIsRunning`
and the others named above under the assumptions stated there. Only model-checked: liveness
(`EveryReportSettles`, `EveryAttemptEnds`, `EagerIsAnswered`), which is out of the prover's
reach. The properties of the disagreements above are violated, not proved.

## 5. Not modelled

Timestamps (only whether they are set, that retention ends at some time, and the order of
`created_at`), the contents of files, the wording of messages, the result backend, Flower.
Role map, token decoding and request validation are decided before any state exists, and
their model would be their text. The request id is a context variable of its request; a
header longer than `correlation_id VARCHAR(64)` fails the INSERT and nothing else. The
health check, configuration, logging and scripts keep no state. Redis is taken to keep
what it stored. The start of a task in its pool process and the acknowledgement of its
message are one step; a lost acknowledgement is not a step of its own but a second copy of
the message (`Copies`, section 2), which the runs with exact publication leave out. Messages
held longer than the visibility timeout are delivered again only through a restart. SQLite serves the tests. `open_bytes` of the storages has no caller.

## 6. Plan

1. An outbox or sweep does not exist; if one is added, `pipeline_progress` can drop its
   exceptions (crashed requests, failed publications of a retry).
2. What the assumption of exact publication costs: which parts of `ChainInv` and
   `SayingInv` survive when a publication leaves two copies.
3. Listing details: the items of a page are loaded as `ReportReading` has it, each with its
   own moment; today the two are checked apart.
