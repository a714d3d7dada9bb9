------------------------------- MODULE JobRow -------------------------------
(***************************************************************************)
(* One row of the jobs table and what each method of JobService does to    *)
(* it, as functions from the row the session holds to the row it writes.   *)
(* Both the transactional model (JobService) and the model with stale      *)
(* session copies (ScanPipeline) are built from these.                     *)
(*                                                                         *)
(* A timestamp column is the Boolean "is not NULL"; the heartbeat, whose   *)
(* age matters, is "never", "fresh" or "stale".  batch_job_ids is the set  *)
(* of its <<object, job>> items, entity_record_counts the set of objects   *)
(* it has an entry for.                                                    *)
(***************************************************************************)
EXTENDS JobStatus

CONSTANTS Objects,    \* Salesforce object names
          RemoteJobs  \* identifiers of Bulk API submissions

Items == Objects \X RemoteJobs

Heartbeat == {"never", "fresh", "stale"}

Row == [status     : Status,
        heartbeat  : Heartbeat,      \* last_heartbeat
        ids        : SUBSET Items,   \* batch_job_ids
        downloaded : BOOLEAN,        \* downloaded_at
        extracted  : BOOLEAN,        \* extracted_at
        counts     : SUBSET Objects, \* entity_record_counts
        normalized : BOOLEAN,        \* normalized_at
        uploaded   : BOOLEAN,        \* minio_uploaded_at
        completed  : BOOLEAN,        \* completed_at
        error      : BOOLEAN]        \* error_message

NewRow == [status |-> "PENDING", heartbeat |-> "never", ids |-> {},
           downloaded |-> FALSE, extracted |-> FALSE, counts |-> {},
           normalized |-> FALSE, uploaded |-> FALSE,
           completed |-> FALSE, error |-> FALSE]

(* A bug: a terminal status without its completion time. *)
ForgetsCompletedAt(r, s) == [r EXCEPT !.status = s]

(* The write of update_job_status once the transition was accepted.        *)
WithStatus(r, s) == [r EXCEPT !.status = s, !.completed = @ \/ s \in Terminal]

(* fail_job and cancel_job refuse a terminal row.                          *)
CanStop(r) == r.status \notin Terminal

(* A bug: the reason is dropped. *)
SilentlyFailed(r) == [r EXCEPT !.status = "FAILED", !.completed = TRUE]

Failed(r) == [r EXCEPT !.status = "FAILED", !.error = TRUE, !.completed = TRUE]

Cancelled(r) == [r EXCEPT !.status = "CANCELLED", !.completed = TRUE]

CanReenter(r) == r.status \in SideStatus

(* A bug: the completion time stays. *)
KeepsCompletedAt(r, s) == [r EXCEPT !.status = s, !.error = FALSE]

(* resume_job re-enters the chain at status s. *)
Reentered(r, s) ==
  [r EXCEPT !.status = s, !.error = FALSE, !.completed = FALSE]

(* The stage resume_scan picks from the timestamps of the row. *)
ResumeTarget(r) ==
  IF r.extracted THEN "EXTRACTED"
  ELSE IF r.downloaded THEN "EXTRACTING"
  ELSE IF r.ids # {} THEN "BATCH_PROCESSING"
  ELSE "PENDING"

Beat(r) == [r EXCEPT !.heartbeat = "fresh"]

(* A bug: object names without their jobs. *)
StoresBareNames(r, items) ==
  [r EXCEPT !.ids = IF items = {} THEN @ ELSE {item[1] : item \in items}]

(* A bug: a call without identifiers clears them. *)
OverwritesIds(r, items) == [r EXCEPT !.ids = items]

(* update_batch_info: no list of ids leaves the stored one.                *)
WithBatch(r, items) == [r EXCEPT !.ids = IF items = {} THEN @ ELSE items]

Downloaded(r) == [r EXCEPT !.downloaded = TRUE]

Extracted(r, objs) == [r EXCEPT !.extracted = TRUE, !.counts = objs]

WithCounts(r, objs) == [r EXCEPT !.counts = @ \cup objs]

NormalizedNow(r) == [r EXCEPT !.normalized = TRUE]

UploadedNow(r) == [r EXCEPT !.uploaded = TRUE]

(* A bug: `last_heartbeat < cutoff' is not true of NULL. *)
MissesNullHeartbeat(r) == r.status \in InProgress /\ r.heartbeat = "stale"

(* The WHERE clause of detect_crashed_jobs. *)
LooksCrashed(r) ==
  r.status \in InProgress /\ r.heartbeat \in {"never", "stale"}

(* What an UPDATE leaves in the table: SQLAlchemy writes the columns that  *)
(* differ from the copy the session had read, whatever the row is by then. *)
(* A column stamped with the time of the call always differs.              *)
Merged(r, read, write, stamped) ==
  [f \in DOMAIN r |-> IF f \in stamped \/ write[f] # read[f] THEN write[f] ELSE r[f]]

=============================================================================
