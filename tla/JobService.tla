----------------------------- MODULE JobService -----------------------------
(***************************************************************************)
(* JobService over a set of scans, each method call being one transaction  *)
(* on the jobs table (services/job_service.py).  Any service may call any  *)
(* method at any time, as long as the arguments are the ones the services  *)
(* pass.  complete_normalization and complete_minio_upload commit twice;   *)
(* `stamping' holds the calls that are between the two commits.            *)
(***************************************************************************)
EXTENDS JobRow

CONSTANTS Scans,     \* scan identifiers
          Deleted    \* stands for a scan that has no row

ASSUME DeletedAssumption == Deleted \notin Row

VARIABLES jobs,      \* jobs[s]: the row of scan s, or Deleted
          old,       \* scans created before the cutoff of a cleanup
          stamping   \* <<scan, column>> of calls before their second commit

vars == <<jobs, old, stamping>>

Stamps == {"normalized", "uploaded"}

Stored == {s \in Scans : jobs[s] # Deleted}

(* The statuses the services pass to update_job_status; FAILED and         *)
(* CANCELLED are reached through fail_job, cancel_job and crash detection. *)
Requested == ChainStatus \ {"PENDING"}

TypeOK ==
  /\ jobs \in [Scans -> Row \cup {Deleted}]
  /\ old \subseteq Scans
  /\ stamping \subseteq Scans \X Stamps

Init ==
  /\ jobs = [s \in Scans |-> Deleted]
  /\ old = {}
  /\ stamping = {}

-----------------------------------------------------------------------------

Write(s, r) ==
  /\ jobs' = [jobs EXCEPT ![s] = r]
  /\ UNCHANGED <<old, stamping>>

(* create_job. *)
CreateJob(s) ==
  /\ jobs[s] = Deleted
  /\ Write(s, NewRow)

(* update_job_status, start_normalization and start_minio_upload: an       *)
(* invalid transition returns the job untouched.                           *)
UpdateJobStatus(s, st) ==
  /\ s \in Stored
  /\ IsValidTransition(jobs[s].status, st)
  /\ Write(s, WithStatus(jobs[s], st))

(* The first commit of complete_normalization / complete_minio_upload: the *)
(* status, whose refreshed value lets the call go on to stamp the row.     *)
BeginComplete(s, st, column) ==
  /\ s \in Stored
  /\ IsValidTransition(jobs[s].status, st)
  /\ jobs' = [jobs EXCEPT ![s] = WithStatus(@, st)]
  /\ stamping' = stamping \cup {<<s, column>>}
  /\ UNCHANGED old

(* Their second commit, whatever happened to the row in between; the       *)
(* UPDATE of a row that is gone raises and the call ends.                  *)
EndComplete(s, column) ==
  /\ <<s, column>> \in stamping
  /\ stamping' = stamping \ {<<s, column>>}
  /\ jobs' = IF s \in Stored
             THEN [jobs EXCEPT ![s] = IF column = "normalized"
                                      THEN NormalizedNow(@) ELSE UploadedNow(@)]
             ELSE jobs
  /\ UNCHANGED old

(* The process of a call between its two commits dies. *)
LoseCalls ==
  /\ stamping # {}
  /\ stamping' = {}
  /\ UNCHANGED <<jobs, old>>

(* resume_job with the stage resume_scan computed from the same row. *)
ResumeJob(s) ==
  /\ s \in Stored
  /\ CanReenter(jobs[s])
  /\ Write(s, Reentered(jobs[s], ResumeTarget(jobs[s])))

UpdateHeartbeat(s) == s \in Stored /\ Write(s, Beat(jobs[s]))

FailJob(s) ==
  /\ s \in Stored
  /\ CanStop(jobs[s])
  /\ Write(s, Failed(jobs[s]))

CancelJob(s) ==
  /\ s \in Stored
  /\ CanStop(jobs[s])
  /\ Write(s, Cancelled(jobs[s]))

UpdateBatchInfo(s, items) == s \in Stored /\ Write(s, WithBatch(jobs[s], items))

UpdateDownloadInfo(s) == s \in Stored /\ Write(s, Downloaded(jobs[s]))

UpdateExtractionInfo(s, objs) == s \in Stored /\ Write(s, Extracted(jobs[s], objs))

StoreEntityRecordCounts(s, objs) == s \in Stored /\ Write(s, WithCounts(jobs[s], objs))

(* detect_crashed_jobs: every job that looks crashed fails, in one commit. *)
DetectCrashedJobs ==
  LET crashed == {s \in Stored : LooksCrashed(jobs[s])} IN
  /\ crashed # {}
  /\ jobs' = [s \in Scans |-> IF s \in crashed THEN Failed(jobs[s]) ELSE jobs[s]]
  /\ UNCHANGED <<old, stamping>>

(* cleanup_old_jobs: every old row goes, whatever its status. *)
CleanupOldJobs ==
  /\ old \cap Stored # {}
  /\ jobs' = [s \in Scans |-> IF s \in old THEN Deleted ELSE jobs[s]]
  /\ old' = {}
  /\ UNCHANGED stamping

(* ExtractionService.remove_scan. *)
RemoveScan(s) ==
  /\ s \in Stored
  /\ jobs[s].status \in Terminal
  /\ jobs' = [jobs EXCEPT ![s] = Deleted]
  /\ old' = old \ {s}
  /\ UNCHANGED stamping

(* Time passes: a heartbeat falls behind the crash cutoff, or the creation *)
(* time behind the cleanup cutoff.                                         *)
HeartbeatAges(s) ==
  /\ s \in Stored
  /\ jobs[s].heartbeat = "fresh"
  /\ Write(s, [jobs[s] EXCEPT !.heartbeat = "stale"])

JobAges(s) ==
  /\ s \in Stored \ old
  /\ old' = old \cup {s}
  /\ UNCHANGED <<jobs, stamping>>

Maintenance ==
  \/ DetectCrashedJobs
  \/ CleanupOldJobs
  \/ LoseCalls

ScanCall(s) ==
  \/ CreateJob(s)
  \/ \E st \in Requested : UpdateJobStatus(s, st)
  \/ BeginComplete(s, "NORMALIZED", "normalized")
  \/ BeginComplete(s, "UPLOADED_TO_MINIO", "uploaded")
  \/ \E column \in Stamps : EndComplete(s, column)
  \/ ResumeJob(s)
  \/ UpdateHeartbeat(s)
  \/ FailJob(s)
  \/ CancelJob(s)
  \/ \E items \in SUBSET Items : UpdateBatchInfo(s, items)
  \/ UpdateDownloadInfo(s)
  \/ \E objs \in SUBSET Objects : UpdateExtractionInfo(s, objs)
  \/ \E objs \in SUBSET Objects : StoreEntityRecordCounts(s, objs)
  \/ RemoveScan(s)
  \/ HeartbeatAges(s)
  \/ JobAges(s)

Next == Maintenance \/ \E s \in Scans : ScanCall(s)

Spec == Init /\ [][Next]_vars

-----------------------------------------------------------------------------

(* completed_at is set exactly while the job is over: a resume clears what *)
(* an earlier failure, cancellation or crash detection stamped, and no     *)
(* sequence of calls leaves a running job with a completion time.          *)
CompletedAtIffTerminal ==
  \A s \in Stored : jobs[s].completed <=> jobs[s].status \in Terminal

(* A failed scan always carries a reason, also after a resume wiped the    *)
(* reason of an earlier failure and the scan failed again.                 *)
FailedHasReason ==
  \A s \in Stored : jobs[s].status = "FAILED" => jobs[s].error

(* Each scan follows the lifecycle its clients rely on, under any mix of   *)
(* calls, resumes, crash detection, cleanup and late second commits: one   *)
(* step of the chain at a time, terminal left only through a resume to the *)
(* recorded checkpoint, checkpoints never lost while the row exists.       *)
View(r) == IF r = Deleted
           THEN [status |-> "ABSENT", checkpoint |-> "PENDING"]
           ELSE [status |-> r.status, checkpoint |-> ResumeTarget(r)]

scanView == [s \in Scans |-> View(jobs[s])]

Lifecycle == INSTANCE ScanLifecycle WITH scan <- scanView

ImplementsLifecycle == Lifecycle!Spec

=============================================================================
