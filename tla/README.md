# A specification of the Salesforce master service

The service extracts Salesforce objects through the Bulk API: a *scan* is
started by a request, submitted as Bulk jobs, polled, downloaded into CSV
files, normalized into tables and uploaded to MinIO.  Each stage is recorded in
one row of the `jobs` table, so that a scan that was cancelled, failed or lost
its process can be resumed at its last checkpoint.

The modules here model the part where that can go wrong: the row and its
status machine, the asyncio tasks and request handlers that share it, the retry
loop around every external call, the validation of credentials, the streaming of
results into files, and the way from those files to tables in the object store.
Paths below are relative to the repository (`src/` in PROJECT.json); `app/`
stands for `src/app/`.

## 1. Inventory

| Component (code) | State it keeps | Operations | Correct when |
|---|---|---|---|
| Status machine, `app/models/enums.py` | – | `is_valid_transition`, the sets of terminal and in-progress statuses | statuses move one step along the chain, terminal ones are left only by a resume |
| Job record, `app/models/job.py` | one row per scan | columns written by JobService | the columns agree with each other (status, completion time, reason, checkpoints) |
| JobService, `app/services/job_service.py` | the `jobs` table | create, status updates, heartbeat, fail, cancel, resume, recording of identifiers / downloads / extraction / counts / stamps, crash detection, cleanup | any mix of calls keeps every row in order |
| Extraction, `app/services/extraction_service.py`, `app/api/routes/scan.py` | background tasks; credentials per scan | start, cancel, resume, remove; the workflow task | checkpoints are true of the files, a cancelled scan stays stopped, a scan has one worker |
| Batch polling, `batch_polling_service.py` | job identifiers in local variables until all are created | submit, check, poll until a deadline, download | the loop ends; the download stamp comes after the last file |
| Normalization, `normalization_service.py`, route `normalization.py` | table files, objects in MinIO | normalize a scan, normalize one object of it, upload | COMPLETED means published, wholly and under the right organization |
| Result files, `batch_file_service.py` | `<scan>/extracted/<object>.csv` and `.part` | stream, count, rename; list; read pages; infer schema | the final name only ever denotes a whole result |
| Crash detection and cleanup, `job_service.py`, routes `maintenance.py`, `main.py` | – | detect at startup or by request; delete old rows by request | no scan is left unfinished for ever |
| Sessions, `app/db/session.py` | a copy of each row a frame holds | per request; closed in a pool thread | a stale copy never undoes another writer |
| Retries, `resilience/retry.py`, `salesforce/exceptions.py` | attempt counter | `retry_call`, `retry_call_sync`, classification | the budget is spent exactly |
| Dead letters, `resilience/dlq.py` | `failed_external_calls` | `write_to_dlq` | an exhausted call leaves a row |
| Bulk API client, `salesforce/batch_api_client.py` | `last_result_meta` (the locator) | create, status, results by page, abort, close | pages follow each other without gap |
| OAuth client, `salesforce/auth_client.py` | a token cache that lives as long as the client, one request | grant, identity request, cache lookup, invalidation | every grant and request has its own budget of attempts; a failure keeps its meaning |
| Credential validation, route `credentials.py` | – | validate, translate the failure | an outage is not answered as wrong credentials, and the retry hint is right |
| MinIO client, `storage/minio_client.py` | bucket | upload with retries, keys | organizations stay apart; scans of one organization replace each other's tables wholly |
| Normalizers, `normalization/normalizers.py` | files of `<scan>/normalized/` | tables of an object's records; save | every record is in the tables of its object |
| HMAC and its nonce store, audit, other routes, SOQL, configuration, utilities | see PROJECT.json | | |

**How they interact.**  A request handler has a session of its own.
`start_scan` and `resume_scan` spawn `_execute_batch_workflow` with
`asyncio.create_task` and return; the task goes on using the session of the
request that spawned it, which FastAPI closes meanwhile in a thread of its pool.
The container runs two uvicorn processes (`Dockerfile:54`), each with its event
loop, which share the database, the data directory and MinIO.  Nothing locks a
row, nothing keeps a second task from being spawned for the same scan, and
`cancel_scan` only writes the row: the task notices when it next reads it.

**What is hard.**  Copies of a row that outlive the write of somebody else
(SQLAlchemy keeps one as long as some frame holds the object, also a frame that
belongs to an exception being handled); UPDATEs that write the columns which
changed in such a copy; handlers of two processes between any two SQL
statements; methods that commit twice; a process that dies between two steps;
a resume while the old task still waits in an `await`; failures of different
classes through one retry loop, and what is made of them afterwards; a stream
that breaks off inside a page or between two pages; tables written in place and
uploaded under keys that several scans share.  PROJECT.json lists each hazard with its line.

## 2. Modules

```
JobStatus ── JobRow ─┬─ JobService ──(refines)── ScanLifecycle
                     │      └─ JobServiceProofs
                     ├─ JobRowProofs  (lemmas used by both)
                     └─ ScanPipeline
                            └─ ScanPipelineProofs ── ScanOutcomeProofs
JobStatus ── Publication ── PublicationProofs
ExternalCall ─┬─ ExternalCallProofs ─┐
              └─ CredentialCheck ────┴─ CredentialCheckProofs
BulkDownload ── BulkDownloadProofs
MCJobService  MCScanPipeline  MCExternalCall  MCBulkDownload  MCPublication  (TLC)
```

**JobStatus** (`enums.py`): the statuses, the main chain as a sequence, and
`IsValidTransition`.

**JobRow** (`job.py`, and the body of every method of `job_service.py` between
its guard and its commit): a row is a record; each method is an operator from the
row read to the row written (`WithStatus`, `Failed`, `Cancelled`, `Reentered`,
`WithBatch`, ...), its guard an operator of its own (`CanStop`, `CanReenter`,
`LooksCrashed`).  A timestamp is "is not NULL"; a heartbeat is never / fresh /
stale, since crash detection compares its age.  `Merged` is what an UPDATE
leaves in the table: the columns that differ from the copy that was read, and those
assigned the current time, which always differ (`Stamps` of `ScanPipeline`: the
heartbeat and the completion time; the other times are never taken back, so that
writing them again changes nothing a Boolean shows).
`ResumeTarget` is the stage `resume_scan` computes.

**JobService**: the table, one action per method, each one transaction; the two
methods that commit twice (`complete_normalization`, `complete_minio_upload`)
are two actions joined by `stamping`, between which anything may happen and the
process may die (`LoseCalls`).  Callers are arbitrary, with the arguments the
services can pass.

**ScanLifecycle**: the abstract specification of the above.  A scan is a status
and a checkpoint; it is created, advances one step, records progress, stops,
resumes *at its checkpoint*, or is removed; a checkpoint only moves forward.
`JobService!ImplementsLifecycle` is the refinement: status ↦ status, row ↦
`ResumeTarget(row)`, deleted ↦ absent.

**ScanPipeline**: one scan and everything that runs on it.  `act[a]` is a slot
for a task or a handler: where it stands (`place`), the process it runs in, the
copy of the row its session holds (`copy`), whether the outermost frame pins that
copy (`attached`), and loop variables.  Every JobService call is three steps, as
SQLAlchemy executes it: `CallRead` (the copy if there is one, else a SELECT; then
the guard), `CallCommit` (UPDATE of the changed columns; a row that is gone
raises) and `CallRefresh`.  `StatusAt` and `After` say which call a place makes
and where it leads, `JobInScope` where a frame holds the job.
`MayRun` is the event loop: within a process an actor runs until it awaits;
across processes steps interleave freely.  `Begin` has the three outcomes of the
teardown race: the session is closed before the task's first statement (the copy
stays attached), after it (detached: each call reads anew) or during it (the task
dies with an error).  Salesforce answers anything or raises.  Where an error may come
from is `Raising`, where it may be of a family the workflow catches `Catching`: the
token grant (credentials and answers that cannot be decoded), a download (a malformed
or unwritable result, and `ResponseNotRead`, section 6) and the reading of the files
for their counts.  What the creation and the polling of jobs raise is a
`SalesforceAPIError` and in no clause; a refused object (`Queryable`, from
`query_for`) is a ValueError before any request.  `Crash` kills a process.
`beside` remembers that two normalize requests were at work at once.

**ExternalCall**: `retry_call` with the classification of failures, the except
clause of its callers, and `write_to_dlq`; five operations that differ in the
failures they can raise and in when a dead letter is written.  An error answer to the
download of a result is a failure of its own, `unread`, that has a status and no
classification.

**BulkDownload**: one result as pages of chunks, streamed through a file
descriptor into an inode named `<object>.csv.part` and renamed.  Attempts break
off at every chunk, tasks are cancelled at every await, and several workers may
hold the name; `shared` remembers which of them ever held it together.  `locator`
is kept up as the client does; an attempt starts without one, as
`get_job_results_paginated` does, and follows the pages in order.

**CredentialCheck** (`auth_client.py`, `credentials.py`) composes two calls of
ExternalCall, the token grant and the identity request, into one request: what
is refused before any call, the exception each outcome is raised as (`CallError`,
`Raised`), and `Translate`, which makes the HTTP answer of the exception.

**Publication** (`normalization_service.py`, `normalizers.py`, `minio_client.py`):
several scans of several organizations.  Worker processes handle one request each:
`normalize_scan` goes through the files of a scan in the order of their names,
opens (and so truncates) and writes one table after another, and uploads what
is in the files under keys made of organization and table; `normalize_single_object`
writes the tables of one object whatever the status is.  The rows a file holds
are a set of (scan, object, record) and the records are told apart by what
decides their tables (`Features`).  Where `ScanPipeline` has every SQL statement of
these requests and one scan, `Publication` has a status write as one step and the
contents of files and objects.  The files of a scan do not change while requests
publish it, so their list is that of the arrival of a request; files of objects
without a normalizer, which the loop skips, are left out.

State and code, where the names differ:

| Model | Code |
|---|---|
| `row.ids`, `row.counts` | `batch_job_ids`, `entity_record_counts` |
| `row.downloaded`, `extracted`, `normalized`, `uploaded`, `completed` | `downloaded_at`, `extracted_at`, `normalized_at`, `minio_uploaded_at`, `completed_at` |
| `files[o]` | `<DATA_ROOT_DIR>/<scan>/extracted/<o>.csv`, by the Bulk job it is the result of |
| `minio` | objects whose tables are in the bucket |
| `act[a].items`, `chosen`, `found`, `polls` | `ids` or the rest of `batch_job_ids`; the objects still to handle; the files read; passes of the polling loop |
| `locator` | `last_result_meta["locator"]` |
| `Csv[s][o]` | the records of `<scan>/extracted/<o>.csv` |
| `disk[s][t]` | `<scan>/normalized/<t>.parquet`, `Torn` between `open` and the write |
| `bucket[Key(s, t)]` | `salesforce/<t>/glynac_organization_id=<org>/processing_date=<date>/<t>.parquet`, for one date |
| `worker[w].seen` | the status in the copy of the row the request's session holds |
| `worker[w].files`, `tables`, `paths` | the files still to read; the tables of the current one still to save; `all_tables`, then the paths still to upload |

## 3. Runs

With two TLC workers the longest run takes some four minutes.

| Run | Question | Distinct states |
|---|---|---|
| `job_service` | does every sequence of calls keep the row in order, and implement the lifecycle? | 92 164 |
| `two_workers` | two processes, interleaved at every SQL statement: are the checkpoints true, kept, is COMPLETED published and stamped, has a scan that is over its completion time, and who may take it further? | 1 336 039 |
| `one_loop` | one event loop with cancel and resume, two tasks on the scan, under fairness: does a cancelled scan stay stopped, is the completion time on it exactly then, do tasks end, are abandoned scans seen? | 259 050 |
| `external_call` | is the budget spent exactly, what is claimed of it, and what is the caller of a validation told? | 1 275 |
| `bulk_download` | two workers on one part file: is what a worker without company publishes whole, wherever each attempt broke off, and is nothing left behind? | 1 277 173 |
| `publication` | two processes publish four scans: what does the store hold of a completed scan? | 257 788 |
| `stuck`, `skipped_stage`, `cancel_undone`, `second_worker`, `busy_download`, `events_lost` | findings, section 6 | |

**What the properties say.**
`CompletedAtIffTerminal`, `FailedHasReason`: columns written by different
methods agree whatever the order of fail, cancel, resume and crash detection.
`IdsCoverScan`: a row never records the identifiers of a part of its objects,
although they are submitted one by one and each submission may fail.
`DownloadedMeansOnDisk`, `ExtractedCoversScan`: a checkpoint is true of the
files, whatever failed or was cancelled on the way.
`CompletedMeansPublished`: two normalize requests, a cancellation, a crash
detection and a crash cannot between them complete a scan whose tables are not in
MinIO.  `CheckpointsKept`: a write from an old copy takes no checkpoint back
(it rests on `Merged`: SQLAlchemy writes changed columns only).
`OverHasTime`: whoever overwrites whom, a scan at a terminal status has a completion
time.  `OverStaysOver`: a scan that is over is taken further by a resume only, or by a
call that had read the row while it was running.
`CompletedMeansStamped`: a scan that completes has the time of its upload, although
status and time are two commits; two normalize requests at once are excepted, since
one can complete the scan between the commits of the other and a crash then loses
the time.
`CancelledStaysStopped`, `CompletedAtIffTerminal` (of `ScanPipeline`): stronger forms
of these for one event loop, where every await is followed by a fresh look.
`TasksEnd`, `AbandonedIsDetectable`: liveness; the latter says that a scan a dead
worker left in progress comes to satisfy the condition of crash detection, with or
without a heartbeat, not that anybody runs it.
`GivesUpOnlyWhenSpent`, `LetterCountsCalls`: the attempts made and the number claimed.
`NoBlameForOutage`, `RetryHintHolds`: the answer of a validation, some ten
attempts and three translations away from the failure it reports, still says
whose fault it was and whether to try again.
`PublishedIsComplete`, `NoRemains`: the file under the final name is the result
in order; what is left over is left by cancelled tasks.
`OrganizationsApart`: no key ever holds rows of another organization's scan.
`CompletedIsPublished`: COMPLETED is written only when all tables have objects,
although any request may fail, die, or be resumed and cancelled by others.
`PublishedWhole`: after any crash and resume, the objects hold what the files
make, not a torn file or a table of the attempt before.  `NotMixed`: two scans
of an organization replace each other's tables as a whole.  The last two are
about scans that no two requests worked on at once (history variable `shared`):
with company both fail, see section 6.

**Bounds, and why they are enough.**
- *Scans.*  `JobService` with one scan: the rows of two scans meet only in crash
  detection and cleanup, which treat each row by itself; the theorems cover any
  number.  `ScanPipeline` follows one scan.
- *Objects.*  Two: a loop can stop between its items, and the second can fail
  after the first.  Bulk identifiers: one per submission; two where a resume can
  submit again.
- *Actors.*  Two tasks or handlers at a time, which slots free again for the
  next request: every hazard listed is a race of two.  A third (for instance a
  crash detection beside two normalize requests) is not explored.
- *Requests.*  `MaxRequests` 2 or 3 besides the start and any number of crash
  detections.  `MaxPolls` 1 or 2: the deadline passes, or not, after a first
  answer.  `MaxCrashes` 1.
- *Chunks and pages.*  Two pages of two chunks, two attempts for each of two
  workers: an attempt can break off inside a page, between pages and after the
  last, and every overlap of two attempts occurs.
- *Publication.*  Four scans: two of one organization that share tables, one of
  another, one without any file (as `skipped_stage` leaves it).  One has Task and
  Event, which make the same tables.  Two processes and two requests to normalize
  or to cancel, with any number of failures, crashes, crash detections and
  resumes.  Every feature of a record that a table depends on acts alike; the
  start time stands for the others.  The theorems cover any number of all these.
- *Statuses.*  One HTTP status of each class the classification tells apart
  (302, the four final ones, 408, 429, 500, 503, 507); `MaxRetries` is the
  configured 3.

`two_workers` leaves out resumes: after the finding `second_worker` two tasks may
download different submissions into the same files, and `DownloadedMeansOnDisk`
does not survive that.  Of the properties that do survive it, `OverHasTime`,
`OverStaysOver`, `CompletedMeansStamped` and `CheckpointsKept`, the proofs cover resumes
in any number of processes.  `one_loop` has a
single process and the detached outcome of the teardown race: with the attached one
a task decides on its copy of the row and goes on after a cancellation, and a second
process may write between any two statements; then `OverStaysOver` and `OverHasTime`
are what remains.  These are conditions of the properties, not of the model.

Symmetry: actors and processes are interchangeable and permuted; objects are
not, because the download loop takes items in a fixed order (`CHOOSE`).
`one_loop` uses no symmetry, since it checks liveness.  `Quiet`, `Done` and `Finished` are the states in
which nothing is left to do, so deadlock is checked everywhere.

**Fairness** (`FairSpec`, and nothing else): weak fairness of each actor's own
steps — the event loop and the OS schedule runnable tasks, Salesforce and the
database answer or raise, a timeout among the errors; and of `HeartbeatAges` — time
passes.  Clients and operators owe nothing: no request is fair, crash detection
included, which the code itself runs once, when a process starts.  Only `stuck` uses
`AskingSpec`, under which an operator keeps asking for it: the scans it finds stuck
are stuck even so.

## 4. Proofs

Every module `...Proofs` is checked by TLAPS for all values of the constants, from
the assumptions of the module it is about:

| Assumption | says |
|---|---|
| `DeletedAssumption` (JobService) | the marker of a deleted row is not a row |
| `PipelineAssumption` (ScanPipeline) | "no row" is neither a row nor a Bulk job; the wanted and the supported objects are non-empty sets of objects; the bounds are natural numbers |
| `CallAssumption` (ExternalCall) | statuses are HTTP statuses, `MaxRetries` is a natural number |
| `DownloadAssumption` (BulkDownload) | "no file" is not an inode; a result has pages and a page has chunks; `MaxRetries` is a natural number |
| `PublicationAssumption` (Publication) | the files of a scan are of objects that have a normalizer; "nobody" is not a scan |

- `TypeCorrect`, `CompletedAtCorrect`, `FailureReasonCorrect`.  The inductive
  invariant is `IInv == TypeOK /\ RowsInOrder`, every stored row being `InOrder`:
  completed exactly when terminal, and a reason when FAILED.  It is proved on
  rows first (each operator of JobRow takes a row in order to a row in order) and
  lifted to the table by three lemmas (write one row, delete some, map all).
  `TypeOK` is needed for the status to be in the chain: a status outside it could
  be "equal to itself" and pass `IsValidTransition`.
- `LifecycleImplemented`: `Spec => ImplementsLifecycle`.  Each operator is shown
  to be a step of `ScanLifecycle` under `View` (`WithStatusMoves`, `StopMoves`,
  `ReenterMoves`, `RecordMoves`, ...); steps that touch several rows follow since
  the abstract `Next` lets all scans move at once.
- `CallTypeCorrect`, `BudgetSpent`, `LettersCount`.  The
  properties speak of the end of a call only; `Progress` adds what holds in the
  loop (`calls = attempt` while calling, `attempt + 1 <= MaxRetries` while
  sleeping) and in the hand-over to the caller.  `RecordedIsRetryable` is the fact
  behind the dead letter's attempt count: for the Bulk API callers the guard of the
  letter implies the guard of the retry.

- `CheckTypeCorrect`, `OutageBlamesNobody`, `RetryHintCorrect`.  `CInv` adds to the
  invariant of a single call `Course` (how far the check is: no answer before the
  end, the grant before the identity request) and `Reason` (a call that was given
  up has failed with something its operation can fail with).  The steps of a call
  keep `CInv` because they are those of ExternalCall; the steps that judge an
  outcome rest on two lemmas about the pure part, `RaisedType` and
  `TranslateBlames`: only refused credentials and requests get a 4xx answer.
- `PublicationTypeCorrect`, `OrganizationsStayApart`, `CompletedStaysPublished`.  The
  two properties speak of the store only; the invariant `PInv` follows a table on its
  way there.  `Owned`: a file of a scan holds rows of that scan.  `Filed`: an object
  holds rows of the organization in its key.  `Covered`: for a request that uploads,
  every table of the scan is of a file still to read, in hand, among the paths, or in
  the store; with `Placed` (which of these are empty where) nothing is missing at the
  write of COMPLETED.  Other requests disturb it only by adding to the store and by
  rewriting files of the scan (`Kept`, `Grown`, `Moves`).
- `PublicationIsWhole`, `LaterReplacesAll`.  What the objects of a completed scan hold
  depends on the order of the files, since a table that two files make is written
  twice.  `WInv` speaks of the requests that publish a scan nobody shared:
  `Company`, such a request is alone on its scan and among the publishers of its
  organization; `Ordered`, it has read the files before the one in hand in name
  order, so the file that decides a table comes last; `Whole`, a path it has
  recorded either holds the rows of the deciding file or will be written again
  (`Late`); `Due`, every table is still to come or stored by this very request.
  `Closed` (after COMPLETED nothing publishes the scan again) keeps the result, and
  `Signed` (an object was stored for a scan of the organization in its key) makes the
  later of two completed scans the one that replaced all.

- `DownloadTypeCorrect`, `DownloadIsComplete`, `NothingRemains`.  Any number of
  workers stream into the same part file, so no statement about one worker is
  inductive.  The heart of `DInv` is `Alone`: while `~shared`, at most one worker
  streams, its descriptor is the inode named `.part`, and the chunks
  1 .. `written` stand in it at their places.  `Progress` ties `written` to the
  page and chunk the worker is at, so that the last page ends with every chunk
  written; `Remains` says who can have left a part file behind.
- `PipelineTypeCorrect`, `CheckpointsStay`, `IdsCorrect`.  A call of JobService is three
  steps, and between them the row belongs to everybody.  `SInv` says for each
  actor what it carries from step to step: `Shape`, which of its variables mean
  something at its place, and `Cover`, that the identifiers it has collected or
  read cover the scan.  The step from there to the row is `Merged`: the columns an
  UPDATE writes are those the copy changed, and no method changes a checkpoint
  back to NULL, so `CheckpointsKept` needs no fact about how old the copy is.
- `OverTimeCorrect`, `OverStays`, `StampIsKept`: how a scan ends, with any number of
  processes and every outcome of the teardown.  `EndInv` asks little of a copy, since
  anybody may write behind it: a call that is about to write was allowed to by the
  copy it writes from (`Steady`).  `Ending` says what such a write does to status,
  completion time and upload time, and `CommitEnding` what the row is afterwards: a
  call that writes a terminal status assigns the completion time as well, and one that
  clears the time (`resume`) leaves the terminal statuses.  For the stamp `EndInv`
  follows the one request that may be normalizing (`~beside`) through the two commits:
  `Between` them the row is not COMPLETED, and `PastStamp` a row at UPLOADED_TO_MINIO
  has its time; the others never write either of these statuses (`Going`).
- `DownloadStays`, `ExtractionIsWhole`, `CompletionIsPublished`.  `OInv` adds to `SInv`:
  `OneTask`, at most one task works on the scan; `Fits`, for each actor, what its
  place and its copy promise about files and bucket (`Task`: the objects behind it
  in the loop are on disk, under the submission that the row records; `Publishes`:
  what a normalize request has dealt with is in MinIO; `Stale`: a copy claims no
  more than the row may); and `RowSound`, the three properties in a form that holds of
  what is about to be written too.  One step of the task that writes a file is what
  the `Fits` of the others must survive, hence `OneTask`.

**Hypotheses.**  Two groups of theorems about ScanPipeline are implications.
`IdsCorrect` assumes `Covered`: nobody resumes, or the objects that were asked for are
among the supported ones.  The code checks no object name, and a resume before
submission submits the supported objects instead, so that without it the row can
record identifiers that cover something else.  The default of a request
(`object_names` absent) makes the two sets equal.  The theorems from `OInv` assume
`NoResume`: no resume is requested, as in `two_workers`.  With resumes the finding
`second_worker` lets two tasks download different submissions under the same names,
and `DownloadedMeansOnDisk` is false.  Start, normalize, upload, cancel and crash
detection, in any number of processes that may die, are all there.

**Only model-checked.**  Liveness, `TasksEnd` and `AbandonedIsDetectable`, and with it
ENABLED, is out of the prover's reach.  So is induction over data, and recursive
operators, of which the modules use none.  `CompletedAtIffTerminal` and
`CancelledStaysStopped` of `ScanPipeline` hold under the conditions of `one_loop` only
and are left to it.  Every other invariant and action property of a passing run is
stated by a theorem.

## 5. What is not modelled

- Listing, progress and statistics reads, the audit log, formatting, scrubbing,
  schemas, credentials and keys: they decide none of the modelled state.
- `cancel_scan`'s loop over remote jobs (`extraction_service.py:107-113`): the
  service object of a request is new and its `batch_client` is None, so the loop
  does nothing; remote jobs are never aborted or closed.
- In `ScanPipeline` the tables are represented by the objects they come from;
  `Publication` has the tables.
- Jobs of one submission share an identifier, and the reads of a loop without a
  write in between are one step.
- The columns of a table, the parsing of CSV and `infer_schema`: pure, and no
  status depends on them.  One output format: with `output_format` json the files
  end in `.json` and are uploaded under keys that end in `.parquet` all the same.
- The token cache: a client lives for one request or task, which asks once for a
  token, so no entry is ever shared or found stale.  Signing and keys of the grants.
- The retry of a create request that Salesforce had accepted: the second remote
  job is visible in no state of the service.
- The lengths of back-offs and of the poll interval; the connection pool.
- Code outside the repository (Salesforce, MinIO, PostgreSQL, SQLAlchemy) is
  modelled by what the code above it can observe.

## 6. Where code and documents disagree

Six runs expect a violation; PROJECT.json quotes the lines.

- `cancel_undone`: a scan is cancelled while its task downloads, and the download then
  raises an error the workflow catches; the task fails it on the copy of the row the
  traceback still holds, and CANCELLED becomes FAILED.
- `busy_download`: an error answer to the download of a result raises
  `httpx.ResponseNotRead` where the code looks into its body; a 429 or 503 is not
  classified, not retried and not reported, and the scan fails.
- `second_worker`: cancel and resume while the task sleeps, and two tasks work on
  the scan.
- `skipped_stage`: a scan resumed after submission neither polls nor downloads and
  is recorded as extracted.
- `stuck`: PENDING, BATCH_REQUESTED, BATCH_READY, DOWNLOADED and
  UPLOADED_TO_MINIO are outside what crash detection looks at.
- `events_lost`: the normalizers of Task and of Event both make `tasks` and `events`;
  the tables of the later file replace those of the earlier, and of a scan of both
  (the default) the published `events` table is empty.

Seen while modelling, without a run of their own: every caller passes
`get_session_factory` as `db_factory`, one call of which returns the sessionmaker,
whose `add` does not exist; the AttributeError is logged and suppressed, and no dead
letter is ever stored (`Persists` in `ExternalCall`), although the repository's
README, line 121, says that "exhausted retryable calls are persisted"; two tasks on one scan
truncate each other's part file and can publish a file still being written
(`PublishedIsComplete` is about workers that did not share the file); two requests
that normalize one scan, or two scans of an organization, at once publish torn or
mixed tables (`shared` in `Publication`); a resume before
submission takes all supported objects instead of the requested ones; cleanup
deletes rows and leaves directories; the callers' `getattr(exc, "retryable",
False)` misses exhausted 408 answers and OSErrors, the answer of a validation says
"not retryable" of a 408 that was retried, and the uploader reports failures that
were never retried; the "never raises" of `write_to_dlq` does not
cover SQLAlchemy's exceptions.

## 7. Plan

Done: JobStatus, JobRow, JobService with its refinement; ScanPipeline with
submission object by object; ExternalCall and CredentialCheck; BulkDownload with
two workers; Publication; and the proofs of section 4.

Next, proofs:
1. Other conditions for the theorems from `OInv`: resumes that no task outlives, that
   is at most one task of the scan at a time, instead of no resume at all.
2. The conditions of `one_loop` as hypotheses of `CancelledStaysStopped`.

Then, extending the model:
1. `BulkDownload` as the detailed form of ScanPipeline's `Download`: an abstract
   specification of "a download publishes all or nothing", and the refinement.
2. The removal lifecycle: a scan whose directory is gone is never extracted.
3. Pure functions against reference definitions: pagination (`read_csv_file`,
   `core/utils.py`), `infer_schema`, the bounded nonce store.
