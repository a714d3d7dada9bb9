---------------------------- MODULE ScanPipeline ----------------------------
(***************************************************************************)
(* One scan, from the request that starts it to its published tables, run  *)
(* by asyncio tasks and request handlers that share the row of the scan in *)
(* the database and its directory of CSV files, and nothing else.          *)
(*                                                                         *)
(* Every JobService call is modelled as SQLAlchemy executes it: read the   *)
(* row unless the session still holds a copy, decide on the copy, UPDATE   *)
(* the columns that changed in the copy, refresh the copy.  A copy is held *)
(* as long as some frame has it in a local variable, so a decision may be  *)
(* taken on a status another handler changed long ago.                     *)
(*                                                                         *)
(* An actor runs in one worker process and gives way to the others of its  *)
(* process only where the code awaits; actors of different processes       *)
(* interleave at every SQL statement.                                      *)
(***************************************************************************)
EXTENDS JobRow, FiniteSets

CONSTANTS Actors,      \* slots for concurrent handlers and tasks
          Processes,   \* uvicorn workers
          NoRow,       \* no such row; also: the session holds no copy
          Wanted,      \* object_names of the start request
          Supported,   \* SF_BULK_SUPPORTED_OBJECTS
          Queryable,   \* objects query_for has a query of
          Teardowns,   \* outcomes of the session teardown race, see Begin
          Requests,    \* the kinds of request that may arrive
          MaxRequests, \* bound: requests besides start and crash detection
          MaxPolls,    \* bound: polls before the deadline of poll_until_ready
          MaxCrashes   \* bound: process crashes

ASSUME PipelineAssumption ==
  /\ NoRow \notin Row /\ NoRow \notin RemoteJobs
  /\ Wanted \subseteq Objects /\ Supported \subseteq Objects /\ Queryable \subseteq Objects
  /\ Wanted # {} /\ Supported # {}
  /\ Teardowns \subseteq {"attached", "detached", "broken"}
  /\ Requests \subseteq {"cancel", "resume", "remove", "cleanup", "normalize"}
  /\ MaxRequests \in Nat /\ MaxPolls \in Nat /\ MaxCrashes \in Nat

VARIABLES row,      \* the row of the scan in the jobs table, or NoRow
          files,    \* files[o]: remote job whose result is in <o>.csv, or NoRow
          minio,    \* objects whose tables are in the object store
          act,      \* act[a]: what actor a is doing
          started,  \* the start request was made
          unused,   \* remote job identifiers Salesforce has not handed out
          left,     \* requests that may still arrive
          crashes,  \* crashes so far
          wiped,    \* the directory of the scan was removed
          beside    \* two normalize requests were at work on the scan at once

vars == <<row, files, minio, act, started, unused, left, crashes, wiped, beside>>

-----------------------------------------------------------------------------
(* Where an actor stands.  A place named after a JobService call is that   *)
(* call in one of its three phases; the others are local steps and awaits. *)

(* Places whose call is update_job_status, and the status they pass.       *)
StatusAt ==
  [mark_requested    |-> "BATCH_REQUESTED",
   mark_processing   |-> "BATCH_PROCESSING",
   mark_ready        |-> "BATCH_READY",
   mark_downloading  |-> "DOWNLOADING",
   mark_downloaded   |-> "DOWNLOADED",
   reenter_extracting|-> "EXTRACTING",
   mark_extracting   |-> "EXTRACTING",
   mark_extracted    |-> "EXTRACTED",
   mark_normalizing  |-> "NORMALIZING",
   mark_normalized   |-> "NORMALIZED",
   mark_uploading    |-> "UPLOADING_TO_MINIO",
   mark_uploaded     |-> "UPLOADED_TO_MINIO",
   mark_completed    |-> "COMPLETED"]

HeartbeatPlaces == {"submit_heartbeat", "poll_heartbeat", "download_heartbeat",
                    "normalize_heartbeat", "table_heartbeat", "upload_heartbeat",
                    "uploaded_heartbeat"}

CallPlaces == DOMAIN StatusAt \cup HeartbeatPlaces \cup
              {"store_jobs", "store_poll", "store_download", "store_extraction",
               "stamp_normalized", "stamp_uploaded", "fail", "cancel",
               "resume", "crash"}

(* Where a call that completed, or was refused, leaves the actor.          *)
After ==
  [mark_requested     |-> "hold_for_submit",
   store_jobs         |-> "mark_processing",
   mark_processing    |-> "submit_heartbeat",
   submit_heartbeat   |-> "poll",
   store_poll         |-> "poll_heartbeat",
   poll_heartbeat     |-> "judge_poll",
   mark_ready         |-> "mark_downloading",
   mark_downloading   |-> "hold_for_download",
   download_heartbeat |-> "next_download",
   store_download     |-> "mark_downloaded",
   mark_downloaded    |-> "mark_extracting",
   reenter_extracting |-> "mark_extracting",
   mark_extracting    |-> "read_files",
   store_extraction   |-> "mark_extracted",
   mark_extracted     |-> "idle",
   mark_normalizing   |-> "normalize_heartbeat",
   normalize_heartbeat|-> "list_files",
   table_heartbeat    |-> "make_tables",
   mark_normalized    |-> "check_normalized",
   stamp_normalized   |-> "choose_upload",
   mark_uploading     |-> "upload_heartbeat",
   upload_heartbeat   |-> "upload",
   mark_uploaded      |-> "check_uploaded",
   stamp_uploaded     |-> "uploaded_heartbeat",
   uploaded_heartbeat |-> "mark_completed",
   mark_completed     |-> "idle",
   fail               |-> "idle",
   cancel             |-> "idle",
   resume             |-> "spawn",
   crash              |-> "idle"]

(* Places where the code awaits: the event loop may run other tasks.       *)
Awaiting == {"idle", "begin", "configure", "create_jobs", "check_jobs",
             "sleep", "download"}

LocalPlaces == {"hold_for_submit", "poll", "begin_check", "judge_poll",
                "hold_for_download", "next_download", "read_files", "spawn",
                "delete_files",
                "delete_row", "list_files", "make_tables", "check_normalized",
                "choose_upload", "upload", "check_uploaded"}

Places == CallPlaces \cup Awaiting \cup LocalPlaces

(* Where normalize_scan is at work; its fail_job is "fail" like any other. *)
NormalizePlaces == {"mark_normalizing", "normalize_heartbeat", "list_files", "make_tables",
                    "table_heartbeat", "mark_normalized", "check_normalized",
                    "stamp_normalized", "choose_upload", "mark_uploading",
                    "upload_heartbeat", "upload", "mark_uploaded", "check_uploaded",
                    "stamp_uploaded", "uploaded_heartbeat", "mark_completed"}

(* Workflow places where a frame has the job in a local variable, so that  *)
(* the session keeps its copy.  An exception keeps the frames it went      *)
(* through, and with them the copy, until fail_job is done.                *)
JobInScope == {"create_jobs", "store_jobs", "mark_processing",
               "submit_heartbeat", "check_jobs", "store_poll",
               "poll_heartbeat", "judge_poll", "mark_ready", "next_download",
               "download", "download_heartbeat", "store_download", "mark_downloaded", "fail"}

Idle == [place |-> "idle", phase |-> "read", proc |-> NoRow, copy |-> NoRow,
         attached |-> FALSE, plan |-> "none", chosen |-> {}, items |-> {},
         found |-> {}, polls |-> 0]

ActorState ==
  [place    : Places,
   phase    : {"read", "commit", "refresh"},
   proc     : Processes \cup {NoRow},
   copy     : Row \cup {NoRow},     \* what the session holds of the row
   attached : BOOLEAN,              \* the outermost frame holds the copy
   plan     : {"none", "submit", "reenter", "extract", "ready", "failed",
               "pending", "upload", "keep"},   \* a local decision
   chosen   : SUBSET Objects,       \* objects a loop still has to handle
   items    : SUBSET Items,         \* batch job items of the loop at hand
   found    : SUBSET Objects,       \* objects whose file was read
   polls    : Nat]

TypeOK ==
  /\ row \in Row \cup {NoRow}
  /\ files \in [Objects -> RemoteJobs \cup {NoRow}]
  /\ minio \subseteq Objects
  /\ act \in [Actors -> ActorState]
  /\ started \in BOOLEAN
  /\ unused \subseteq RemoteJobs
  /\ left \in 0..MaxRequests
  /\ crashes \in 0..MaxCrashes
  /\ wiped \in BOOLEAN
  /\ beside \in BOOLEAN

Init ==
  /\ row = NoRow
  /\ files = [o \in Objects |-> NoRow]
  /\ minio = {}
  /\ act = [a \in Actors |-> Idle]
  /\ started = FALSE
  /\ unused = RemoteJobs
  /\ left = MaxRequests
  /\ crashes = 0
  /\ wiped = FALSE
  /\ beside = FALSE

-----------------------------------------------------------------------------
(* Actors *)

At(a, place) == act[a].place = place

Busy(a) == act[a].place \notin Awaiting

(* The event loop of process p is free for a step of actor a.              *)
LoopFree(a, p) == \A b \in Actors \ {a} : act[b].proc = p => ~Busy(b)

MayRun(a) == LoopFree(a, act[a].proc)

(* Actor state x moved to a place; the copy of the row goes out of scope   *)
(* unless some frame still has the job.                                    *)
Moved(x, place) ==
  IF place = "idle" THEN Idle
  ELSE [x EXCEPT !.place = place, !.phase = "read",
                 !.copy = IF x.attached \/ place \in JobInScope THEN @ ELSE NoRow]

Goto(a, place) == act' = [act EXCEPT ![a] = Moved(@, place)]

(* The task or handler ends, by returning or by an exception nobody        *)
(* catches: the row is left as it is.                                      *)
End(a) == act' = [act EXCEPT ![a] = Idle]

Environment == <<started, unused, left, crashes, wiped, beside>>

-----------------------------------------------------------------------------
(* JobService calls *)

(* The check a call makes on the copy, and the copy it then writes.        *)
Accepts(x, c) ==
  IF x.place \in DOMAIN StatusAt THEN IsValidTransition(c.status, StatusAt[x.place])
  ELSE IF x.place \in {"fail", "cancel"} THEN CanStop(c)
  ELSE IF x.place = "resume" THEN CanReenter(c)
  ELSE TRUE

Written(x) ==
  LET c == x.copy IN
  CASE x.place \in DOMAIN StatusAt -> WithStatus(c, StatusAt[x.place])
    [] x.place \in HeartbeatPlaces -> Beat(c)
    [] x.place = "store_jobs" -> WithBatch(c, x.items)
    [] x.place = "store_poll" -> WithBatch(c, {})
    [] x.place = "store_download" -> Downloaded(c)
    [] x.place = "store_extraction" -> Extracted(c, x.found)
    [] x.place = "stamp_normalized" -> NormalizedNow(c)
    [] x.place = "stamp_uploaded" -> UploadedNow(c)
    [] x.place \in {"fail", "crash"} -> Failed(c)
    [] x.place = "cancel" -> Cancelled(c)
    [] x.place = "resume" -> Reentered(c, ResumeTarget(c))

(* The columns a call assigns the current time, as far as that may change  *)
(* what is stored: the other times of a row are never taken back.          *)
Stamps(x) ==
  IF x.place \in HeartbeatPlaces THEN {"heartbeat"}
  ELSE IF x.place \in {"fail", "cancel", "crash", "mark_completed"} THEN {"completed"}
  ELSE {}

(* get_job: the copy the session holds, else a SELECT.                     *)
GetJob(x) == IF x.copy = NoRow THEN row ELSE x.copy

(* First phase: get_job and the guard; a missing job or a refused change   *)
(* returns to the caller.                                                  *)
CallRead(a) ==
  LET x == act[a]
      c == GetJob(x) IN
  /\ x.place \in CallPlaces /\ x.phase = "read"
  /\ MayRun(a)
  /\ IF c # NoRow /\ Accepts(x, c)
     THEN act' = [act EXCEPT ![a].copy = c, ![a].phase = "commit"]
     ELSE act' = [act EXCEPT ![a] = Moved([x EXCEPT !.copy = c], After[x.place])]
  /\ UNCHANGED <<row, files, minio, Environment>>

(* Second phase: UPDATE and commit.  An UPDATE of a row that is gone       *)
(* raises an error no service catches.                                     *)
CallCommit(a) ==
  LET x == act[a] IN
  /\ x.place \in CallPlaces /\ x.phase = "commit"
  /\ MayRun(a)
  /\ IF row = NoRow
     THEN End(a) /\ UNCHANGED row
     ELSE /\ row' = Merged(row, x.copy, Written(x), Stamps(x))
          /\ act' = [act EXCEPT ![a].copy = Written(x), ![a].phase = "refresh"]
  /\ UNCHANGED <<files, minio, Environment>>

(* Third phase: refresh.  detect_crashed_jobs does not refresh.            *)
CallRefresh(a) ==
  LET x == act[a] IN
  /\ x.place \in CallPlaces /\ x.phase = "refresh"
  /\ MayRun(a)
  /\ IF row = NoRow
     THEN End(a)
     ELSE act' = [act EXCEPT ![a] = Moved([x EXCEPT !.copy = row], After[x.place])]
  /\ UNCHANGED <<row, files, minio, Environment>>

-----------------------------------------------------------------------------
(* The workflow task, _execute_batch_workflow *)

(* The first get_job races with the teardown of the request's session in a *)
(* thread of the pool: closed before it, the job stays attached to the     *)
(* reopened session for the whole task; closed after it, the job is        *)
(* detached and later calls read the row again; closed during it, the      *)
(* session refuses the operation and the task dies.                        *)
Begin(a) ==
  /\ At(a, "begin") /\ MayRun(a)
  /\ \E t \in Teardowns :
       IF t = "broken" \/ row = NoRow
          \/ (row # NoRow /\ (row.status = "CANCELLED" \/ row.extracted))
       THEN End(a)
       ELSE LET plan == IF row.ids = {} THEN "submit"
                        ELSE IF row.downloaded THEN "reenter" ELSE "extract"
                x == [act[a] EXCEPT !.copy = row, !.attached = (t = "attached"),
                                    !.plan = plan]
            IN act' = [act EXCEPT ![a] = Moved(x, "configure")]
  /\ UNCHANGED <<row, files, minio, Environment>>

PlanStart == [submit  |-> "mark_requested",
              reenter |-> "reenter_extracting",
              extract |-> "mark_extracting"]

(* The token grant of configure. *)
Configure(a) ==
  /\ At(a, "configure") /\ MayRun(a)
  /\ Goto(a, PlanStart[act[a].plan])
  /\ UNCHANGED <<row, files, minio, Environment>>

(* The next turn of the loop of submit_batch_jobs: query_for refuses an    *)
(* object it has no query of with a ValueError, before any request.        *)
NextCreate(chosen) ==
  IF chosen = {} THEN "store_jobs"
  ELSE IF (CHOOSE o \in chosen : TRUE) \in Queryable THEN "create_jobs" ELSE "fail"

(* submit_batch_jobs keeps the job in a local variable from here on.       *)
HoldForSubmit(a) ==
  LET x == act[a] IN
  /\ At(a, "hold_for_submit") /\ MayRun(a)
  /\ act' = [act EXCEPT ![a] =
               Moved([x EXCEPT !.copy = GetJob(x)], NextCreate(x.chosen))]
  /\ UNCHANGED <<row, files, minio, Environment>>

(* The identifiers of one submission: Salesforce has not handed them out.  *)
Handed(x) == IF x.items = {} THEN unused ELSE {item[2] : item \in x.items}

(* A bug: each job is recorded when it was created. *)
RecordsAsCreated(a) ==
  LET x == act[a]
      o == CHOOSE o \in x.chosen : TRUE IN
  /\ At(a, "create_jobs") /\ MayRun(a) /\ row # NoRow
  /\ \E j \in Handed(x) :
       /\ unused' = unused \ {j}
       /\ row' = [row EXCEPT !.ids = x.items \cup {<<o, j>>}]
       /\ act' = [act EXCEPT ![a] =
                    Moved([x EXCEPT !.chosen = @ \ {o}, !.items = @ \cup {<<o, j>>}],
                          NextCreate(x.chosen \ {o}))]
  /\ UNCHANGED <<files, minio, started, left, crashes, wiped, beside>>

(* submit_batch_jobs creates the Bulk jobs one after the other, each in an *)
(* await of its own; their identifiers are only kept in memory until the   *)
(* last one was created.                                                   *)
CreateJob(a) ==
  LET x == act[a]
      o == CHOOSE o \in x.chosen : TRUE IN
  /\ At(a, "create_jobs") /\ MayRun(a)
  /\ \E j \in Handed(x) :
       /\ unused' = unused \ {j}
       /\ act' = [act EXCEPT ![a] =
                    Moved([x EXCEPT !.chosen = @ \ {o}, !.items = @ \cup {<<o, j>>}],
                          NextCreate(x.chosen \ {o}))]
  /\ UNCHANGED <<row, files, minio, started, left, crashes, wiped, beside>>

(* A bug: no deadline. *)
PollsForever(a) ==
  /\ At(a, "poll") /\ MayRun(a)
  /\ Goto(a, "begin_check")
  /\ UNCHANGED <<row, files, minio, Environment>>

(* poll_until_ready: another check unless the deadline has passed.         *)
Poll(a) ==
  LET x == act[a] IN
  /\ At(a, "poll") /\ MayRun(a)
  /\ IF x.polls < MaxPolls
     THEN act' = [act EXCEPT ![a] =
                    Moved([x EXCEPT !.polls = @ + 1], "begin_check")]
     ELSE Goto(a, "fail")
  /\ UNCHANGED <<row, files, minio, Environment>>

(* check_and_update_status: without a job or its identifiers, ValueError.  *)
BeginCheck(a) ==
  LET x == act[a]
      c == GetJob(x) IN
  /\ At(a, "begin_check") /\ MayRun(a)
  /\ act' = [act EXCEPT ![a] =
               Moved([x EXCEPT !.copy = c],
                     IF c = NoRow \/ (c # NoRow /\ c.ids = {})
                     THEN "fail" ELSE "check_jobs")]
  /\ UNCHANGED <<row, files, minio, Environment>>

(* The answers of Salesforce: all complete, some failed, or not yet.       *)
CheckJobs(a) ==
  LET x == act[a] IN
  /\ At(a, "check_jobs") /\ MayRun(a)
  /\ \E verdict \in {"ready", "failed", "pending"} :
       act' = [act EXCEPT ![a] = Moved([x EXCEPT !.plan = verdict], "store_poll")]
  /\ UNCHANGED <<row, files, minio, Environment>>

JudgePoll(a) ==
  LET verdict == act[a].plan IN
  /\ At(a, "judge_poll") /\ MayRun(a)
  /\ Goto(a, IF verdict = "ready" THEN "mark_ready"
             ELSE IF verdict = "failed" THEN "fail" ELSE "sleep")
  /\ UNCHANGED <<row, files, minio, Environment>>

Wake(a) ==
  /\ At(a, "sleep") /\ MayRun(a)
  /\ Goto(a, "poll")
  /\ UNCHANGED <<row, files, minio, Environment>>

(* download_results reads the identifiers once.                            *)
HoldForDownload(a) ==
  LET x == act[a]
      c == GetJob(x) IN
  /\ At(a, "hold_for_download") /\ MayRun(a)
  /\ act' = [act EXCEPT ![a] =
               IF c = NoRow THEN Moved(x, "fail")
               ELSE Moved([x EXCEPT !.copy = c, !.items = c.ids], "next_download")]
  /\ UNCHANGED <<row, files, minio, Environment>>

(* A bug: the loop of download_results stops one short.                    *)
StopsOneShort(a) ==
  /\ At(a, "next_download") /\ MayRun(a)
  /\ Goto(a, IF Cardinality(act[a].items) <= 1 THEN "store_download" ELSE "download")
  /\ UNCHANGED <<row, files, minio, Environment>>

(* The loop of download_results. *)
NextDownload(a) ==
  /\ At(a, "next_download") /\ MayRun(a)
  /\ Goto(a, IF act[a].items = {} THEN "store_download" ELSE "download")
  /\ UNCHANGED <<row, files, minio, Environment>>

(* One result file is complete and renamed into place, then a heartbeat.   *)
Download(a) ==
  LET x == act[a] IN
  /\ At(a, "download") /\ MayRun(a)
  /\ LET item == CHOOSE i \in x.items : TRUE IN
       /\ files' = [files EXCEPT ![item[1]] = item[2]]
       /\ act' = [act EXCEPT ![a] =
                    Moved([x EXCEPT !.items = @ \ {item}], "download_heartbeat")]
  /\ UNCHANGED <<row, minio, Environment>>

(* get_file_info: what is in the directory now.                            *)
OnDisk == {o \in Objects : files[o] # NoRow}

ReadFiles(a) ==
  LET x == act[a] IN
  /\ At(a, "read_files") /\ MayRun(a)
  /\ act' = [act EXCEPT ![a] =
               Moved([x EXCEPT !.found = OnDisk], "store_extraction")]
  /\ UNCHANGED <<row, files, minio, Environment>>

(* Where the workflow may be interrupted by an error: at its awaits, and   *)
(* in get_file_info.                                                       *)
Raising == {"configure", "create_jobs", "check_jobs", "download", "read_files"}

(* Where the error may be of a family the workflow catches: a credential   *)
(* or an answer of the token grant that cannot be decoded, a result that   *)
(* is malformed, cannot be written or was refused by the server            *)
(* (ResponseNotRead), a file that cannot be read.  What the other two      *)
(* awaits raise is a SalesforceAPIError and in no clause.                  *)
Catching == {"configure", "download", "read_files"}

(* A bug: a download that failed is skipped. *)
SkipsFailedDownload(a) ==
  LET x == act[a] IN
  /\ x.place \in Catching /\ MayRun(a)
  /\ IF x.place = "download"
     THEN act' = [act EXCEPT ![a] =
                    Moved([x EXCEPT !.items = @ \ {CHOOSE i \in @ : TRUE}], "next_download")]
     ELSE Goto(a, "fail")
  /\ UNCHANGED <<row, files, minio, Environment>>

CaughtError(a) ==
  /\ act[a].place \in Catching /\ MayRun(a)
  /\ Goto(a, "fail")
  /\ UNCHANGED <<row, files, minio, Environment>>

(* SalesforceAPIError, the errors of httpx, csv.Error, or a cancellation.  *)
UncaughtError(a) ==
  /\ act[a].place \in Raising /\ MayRun(a)
  /\ End(a)
  /\ UNCHANGED <<row, files, minio, Environment>>

Workflow(a) ==
  \/ Begin(a)
  \/ Configure(a)
  \/ HoldForSubmit(a)
  \/ CreateJob(a)
  \/ Poll(a)
  \/ BeginCheck(a)
  \/ CheckJobs(a)
  \/ JudgePoll(a)
  \/ Wake(a)
  \/ HoldForDownload(a)
  \/ NextDownload(a)
  \/ Download(a)
  \/ ReadFiles(a)
  \/ CaughtError(a)
  \/ UncaughtError(a)

-----------------------------------------------------------------------------
(* Request handlers.  A handler arrives with its first SELECT and keeps    *)
(* the job attached to its own session until it returns.                   *)

Handler(p, place) ==
  [Idle EXCEPT !.place = place, !.proc = p, !.copy = row, !.attached = TRUE]

Arrives(a, p, kind) ==
  /\ kind \in Requests /\ left > 0
  /\ At(a, "idle") /\ LoopFree(a, p)
  /\ row # NoRow
  /\ left' = left - 1

(* start_scan: create_job, then the task. *)
StartScan(a, p) ==
  /\ ~started /\ At(a, "idle") /\ LoopFree(a, p)
  /\ started' = TRUE
  /\ row' = NewRow
  /\ act' = [act EXCEPT ![a] = [Idle EXCEPT !.place = "begin", !.proc = p,
                                            !.chosen = Wanted]]
  /\ UNCHANGED <<files, minio, unused, left, crashes, wiped, beside>>

CancelScan(a, p) ==
  /\ Arrives(a, p, "cancel")
  /\ act' = [act EXCEPT ![a] = Handler(p, "cancel")]
  /\ UNCHANGED <<row, files, minio, started, unused, crashes, wiped, beside>>

(* resume_scan: a stopped scan is re-entered at its checkpoint, a running  *)
(* or completed one is left as it is; either way a task is spawned unless  *)
(* the stage is EXTRACTED.                                                 *)
ResumeScan(a, p) ==
  /\ Arrives(a, p, "resume")
  /\ act' = [act EXCEPT ![a] =
               IF CanReenter(row)
               THEN [Handler(p, "resume") EXCEPT
                       !.plan = IF row.extracted THEN "keep" ELSE "none"]
               ELSE [Handler(p, "spawn") EXCEPT
                       !.plan = IF row.status = "EXTRACTED" THEN "keep" ELSE "none"]]
  /\ UNCHANGED <<row, files, minio, started, unused, crashes, wiped, beside>>

(* The new task gets no object names: it takes the supported ones.         *)
Spawn(a) ==
  LET x == act[a] IN
  /\ At(a, "spawn") /\ MayRun(a)
  /\ act' = [act EXCEPT ![a] =
               IF x.plan = "keep" THEN Idle
               ELSE [Idle EXCEPT !.place = "begin", !.proc = x.proc,
                                 !.chosen = Supported]]
  /\ UNCHANGED <<row, files, minio, Environment>>

(* remove_scan of a scan that is over: its directory, then its row.        *)
RemoveScan(a, p) ==
  /\ Arrives(a, p, "remove")
  /\ row.status \in Terminal
  /\ act' = [act EXCEPT ![a] = Handler(p, "delete_files")]
  /\ UNCHANGED <<row, files, minio, started, unused, crashes, wiped, beside>>

DeleteFiles(a) ==
  /\ At(a, "delete_files") /\ MayRun(a)
  /\ files' = [o \in Objects |-> NoRow]
  /\ wiped' = TRUE
  /\ Goto(a, "delete_row")
  /\ UNCHANGED <<row, minio, started, unused, left, crashes, beside>>

DeleteRow(a) ==
  /\ At(a, "delete_row") /\ MayRun(a)
  /\ row' = NoRow
  /\ End(a)
  /\ UNCHANGED <<files, minio, Environment>>

(* cleanup_old_jobs: the row is old; its status does not matter.           *)
CleanupOldJobs(a, p) ==
  /\ Arrives(a, p, "cleanup")
  /\ act' = [act EXCEPT ![a] = Handler(p, "delete_row")]
  /\ UNCHANGED <<row, files, minio, started, unused, crashes, wiped, beside>>

(* detect_crashed_jobs, requested or run at startup.                       *)
DetectCrashed(a, p) ==
  /\ At(a, "idle") /\ LoopFree(a, p)
  /\ row # NoRow
  /\ LooksCrashed(row)
  /\ act' = [act EXCEPT ![a] = Handler(p, "crash")]
  /\ UNCHANGED <<row, files, minio, Environment>>

(* normalize_scan requires an EXTRACTED scan.                              *)
NormalizeScan(a, p) ==
  /\ Arrives(a, p, "normalize")
  /\ row.status = "EXTRACTED"
  /\ \E upload \in {"upload", "keep"} :
       act' = [act EXCEPT ![a] =
                 [Handler(p, "mark_normalizing") EXCEPT !.plan = upload]]
  /\ beside' = (beside \/ \E b \in Actors \ {a} : act[b].place \in NormalizePlaces)
  /\ UNCHANGED <<row, files, minio, started, unused, crashes, wiped>>

(* The loop over the files the directory had when it was listed; reading   *)
(* one or writing its tables may fail.  The heartbeats around one file are *)
(* one call.                                                               *)
ListFiles(a) ==
  LET x == act[a] IN
  /\ At(a, "list_files") /\ MayRun(a)
  /\ act' = [act EXCEPT ![a] = Moved([x EXCEPT !.chosen = OnDisk], "make_tables")]
  /\ UNCHANGED <<row, files, minio, Environment>>

MakeTables(a) ==
  LET x == act[a] IN
  /\ At(a, "make_tables") /\ MayRun(a) /\ x.chosen # {}
  /\ \/ \E o \in x.chosen \cap OnDisk :
           act' = [act EXCEPT ![a] =
                     Moved([x EXCEPT !.chosen = @ \ {o}, !.found = @ \cup {o}],
                           "table_heartbeat")]
     \/ Goto(a, "fail")
  /\ UNCHANGED <<row, files, minio, Environment>>

TablesMade(a) ==
  /\ At(a, "make_tables") /\ MayRun(a) /\ act[a].chosen = {}
  /\ Goto(a, "mark_normalized")
  /\ UNCHANGED <<row, files, minio, Environment>>

(* complete_normalization goes on to its second commit only if the         *)
(* refreshed copy has the status it asked for.                             *)
CheckNormalized(a) ==
  /\ At(a, "check_normalized") /\ MayRun(a)
  /\ Goto(a, IF act[a].copy.status = "NORMALIZED"
             THEN "stamp_normalized" ELSE "choose_upload")
  /\ UNCHANGED <<row, files, minio, Environment>>

ChooseUpload(a) ==
  /\ At(a, "choose_upload") /\ MayRun(a)
  /\ Goto(a, IF act[a].plan = "upload" THEN "mark_uploading" ELSE "idle")
  /\ UNCHANGED <<row, files, minio, Environment>>

(* A bug: an upload that failed is only logged. *)
UploadsBestEffort(a) ==
  LET x == act[a] IN
  /\ At(a, "upload") /\ MayRun(a)
  /\ minio' \in {minio, minio \cup x.found}
  /\ Goto(a, "mark_uploaded")
  /\ UNCHANGED <<row, files, Environment>>

(* The tables are uploaded one by one; an error leaves the ones before it. *)
Upload(a) ==
  LET x == act[a] IN
  /\ At(a, "upload") /\ MayRun(a)
  /\ \/ minio' = minio \cup x.found /\ Goto(a, "mark_uploaded")
     \/ /\ minio' \in {minio \cup sent : sent \in SUBSET x.found}
        /\ Goto(a, "fail")
  /\ UNCHANGED <<row, files, Environment>>

(* A bug: the stamp waits for a status that is already gone.               *)
StampsTooEarly(a) ==
  /\ At(a, "check_uploaded") /\ MayRun(a)
  /\ Goto(a, IF act[a].copy.status = "UPLOADING_TO_MINIO"
             THEN "stamp_uploaded" ELSE "uploaded_heartbeat")
  /\ UNCHANGED <<row, files, minio, Environment>>

CheckUploaded(a) ==
  /\ At(a, "check_uploaded") /\ MayRun(a)
  /\ Goto(a, IF act[a].copy.status = "UPLOADED_TO_MINIO"
             THEN "stamp_uploaded" ELSE "uploaded_heartbeat")
  /\ UNCHANGED <<row, files, minio, Environment>>

Request(a) ==
  \/ Spawn(a)
  \/ DeleteFiles(a)
  \/ DeleteRow(a)
  \/ ListFiles(a)
  \/ MakeTables(a)
  \/ TablesMade(a)
  \/ CheckNormalized(a)
  \/ ChooseUpload(a)
  \/ Upload(a)
  \/ CheckUploaded(a)

Arrival(a, p) ==
  \/ StartScan(a, p)
  \/ CancelScan(a, p)
  \/ ResumeScan(a, p)
  \/ RemoveScan(a, p)
  \/ CleanupOldJobs(a, p)
  \/ DetectCrashed(a, p)
  \/ NormalizeScan(a, p)

-----------------------------------------------------------------------------

(* A heartbeat falls behind the cutoff of crash detection.                 *)
HeartbeatAges ==
  /\ row # NoRow
  /\ row.heartbeat = "fresh"
  /\ row' = [row EXCEPT !.heartbeat = "stale"]
  /\ UNCHANGED <<files, minio, act, Environment>>

(* A worker process dies with everything it was doing.                     *)
Crash(p) ==
  /\ crashes < MaxCrashes
  /\ \E a \in Actors : act[a].proc = p
  /\ crashes' = crashes + 1
  /\ act' = [a \in Actors |-> IF act[a].proc = p THEN Idle ELSE act[a]]
  /\ UNCHANGED <<row, files, minio, started, unused, left, wiped, beside>>

Step(a) ==
  \/ CallRead(a)
  \/ CallCommit(a)
  \/ CallRefresh(a)
  \/ Workflow(a)
  \/ Request(a)

(* Nothing is running; whether more requests arrive is up to the clients.  *)
Quiet ==
  /\ \A a \in Actors : At(a, "idle")
  /\ UNCHANGED vars

Next ==
  \/ \E a \in Actors : Step(a)
  \/ \E a \in Actors, p \in Processes : Arrival(a, p)
  \/ HeartbeatAges
  \/ \E p \in Processes : Crash(p)
  \/ Quiet

Spec == Init /\ [][Next]_vars

-----------------------------------------------------------------------------
(* What one scan promises while handlers and tasks interleave.             *)

(* Once downloaded_at is stamped, the directory holds, for every recorded  *)
(* Bulk job, the result of that very job: files are renamed into place and *)
(* the stamp comes after the last of them.                                 *)
DownloadedMeansOnDisk ==
  row # NoRow /\ row.downloaded /\ ~wiped =>
    \A item \in row.ids : files[item[1]] = item[2]

(* The recorded identifiers are those of a whole submission: a create that *)
(* failed, a cancellation or a crash between two creates leaves none that  *)
(* a resume would take for all of the scan's Bulk jobs.                    *)
IdsCoverScan ==
  row # NoRow /\ row.ids # {} =>
    \E j \in RemoteJobs : \A o \in Wanted : <<o, j>> \in row.ids

(* A scan that was not resumed and counts as extracted has a record count  *)
(* for every object it was asked for, whatever failed, was cancelled or    *)
(* crashed on the way.                                                     *)
ExtractedCoversScan ==
  row # NoRow /\ row.extracted /\ ~wiped => Wanted \subseteq row.counts

(* COMPLETED is reached only with every extracted object's tables in the   *)
(* object store and normalized_at on the row, also when two normalize      *)
(* requests, a cancellation and a crash detection overwrite one another.   *)
CompletedMeansPublished ==
  row # NoRow /\ row.status = "COMPLETED" =>
    row.normalized /\ (wiped \/ row.counts \subseteq minio)

(* No handler's write takes back a checkpoint another handler recorded     *)
(* after the first had read the row.                                       *)
CheckpointsKept ==
  [][row # NoRow /\ row' # NoRow =>
       /\ row.ids # {} => row'.ids # {}
       /\ row.downloaded => row'.downloaded
       /\ row.extracted => row'.extracted
       /\ row.normalized => row'.normalized]_vars

(* The step is the write of a resume. *)
ResumeWrites ==
  \E a \in Actors : At(a, "resume") /\ act[a].phase = "commit" /\ act'[a].phase = "refresh"

(* With one event loop and the request's session closed during the task's  *)
(* first step, only a resume sets a cancelled scan going again, never a    *)
(* task that was working on it: every await of the workflow is followed by *)
(* a fresh look at the row before the next status is written.              *)
CancelledStaysStopped ==
  [][row # NoRow /\ row' # NoRow /\ row.status = "CANCELLED" =>
       row'.status \in SideStatus \/ ResumeWrites]_vars

(* A scan that is over leaves its status only by a resume, or by a call    *)
(* that decided on a copy read while it was still running: nobody who has  *)
(* seen the scan stopped takes it further, in any process.                 *)
OverStaysOver ==
  [][row # NoRow /\ row' # NoRow /\ row.status \in Terminal /\ row'.status # row.status =>
       \/ ResumeWrites
       \/ \E a \in Actors : act[a].phase = "commit" /\ act'[a].phase = "refresh"
                             /\ act[a].copy.status \notin Terminal]_vars

(* Unless two normalize requests were at work at once, a COMPLETED scan    *)
(* has minio_uploaded_at: complete_minio_upload commits twice, and a       *)
(* crash, a cancellation, a resume or a failure from a stale copy between  *)
(* the two leaves a scan that completes only after another upload.         *)
CompletedMeansStamped ==
  row # NoRow /\ row.status = "COMPLETED" => row.uploaded \/ beside

(* A scan that is over has a completion time, although every call decides  *)
(* on a copy of its own and a resume clears what another has just set.     *)
OverHasTime ==
  row # NoRow /\ row.status \in Terminal => row.completed

(* Under the conditions of CancelledStaysStopped a completion time is on   *)
(* the row exactly while the scan is over, although each call decides on a *)
(* copy of the row.                                                        *)
CompletedAtIffTerminal ==
  row # NoRow => (row.completed <=> row.status \in Terminal)

(* The tasks and handlers of a process get their turns; Salesforce and the *)
(* database answer or raise; heartbeats age.                               *)
FairSpec ==
  /\ Spec
  /\ \A a \in Actors : WF_vars(Step(a))
  /\ WF_vars(HeartbeatAges)

(* An operator who besides keeps asking for crash detection.               *)
AskingSpec == FairSpec /\ WF_vars(\E a \in Actors, p \in Processes : DetectCrashed(a, p))

(* Every task and handler ends, even when Salesforce never finishes a job: *)
(* the deadline of poll_until_ready bounds the loop.                       *)
TasksEnd == \A a \in Actors : ~At(a, "idle") ~> At(a, "idle")

(* A scan left at an in-progress status by a worker that died comes to be  *)
(* one that crash detection fails whenever it is run, whether or not the   *)
(* scan ever had a heartbeat, unless it is moved on before.                *)
AbandonedIsDetectable ==
  (row # NoRow /\ row.status \in InProgress /\ \A a \in Actors : At(a, "idle"))
    ~> (row = NoRow \/ (row # NoRow /\ (row.status \in InProgress => LooksCrashed(row))))

-----------------------------------------------------------------------------
(* What the documentation, the comments and the tests say, and the code    *)
(* does not do.                                                            *)

Resting == {"EXTRACTED", "NORMALIZED"} \cup Terminal

(* A run left unfinished is resumed or marked as failed rather than left   *)
(* stuck forever.                                                          *)
NothingStuck ==
  (row # NoRow /\ row.status \notin Resting)
    ~> (row = NoRow \/ (row # NoRow /\ row.status \in Resting))

(* A resume continues from the last completed stage: no later stage is     *)
(* recorded without the earlier one.                                       *)
ExtractedWasDownloaded == row # NoRow /\ row.extracted => row.downloaded

(* A stale worker leaves a cancelled scan cancelled. *)
CancelSticks ==
  [][row # NoRow /\ row' # NoRow /\ row.status = "CANCELLED" =>
       row'.status = "CANCELLED"]_vars

(* A resumed scan has one worker: one that was already running before the  *)
(* cancellation does not go on beside the new one.                         *)
Working == {a \in Actors : act[a].place \in {"create_jobs", "check_jobs", "sleep", "download"}}

OneWorker == Cardinality(Working) <= 1

=============================================================================
