----------------------------- MODULE JobStatus -----------------------------
(***************************************************************************)
(* The status machine of a scan job: the statuses of JobStatus, the sets   *)
(* the services branch on, and the transition check that every call of     *)
(* update_job_status goes through (models/enums.py).                       *)
(***************************************************************************)
EXTENDS Naturals, Sequences

MainChain == << "PENDING", "BATCH_REQUESTED", "BATCH_PROCESSING",
                "BATCH_READY", "DOWNLOADING", "DOWNLOADED", "EXTRACTING",
                "EXTRACTED", "NORMALIZING", "NORMALIZED",
                "UPLOADING_TO_MINIO", "UPLOADED_TO_MINIO", "COMPLETED" >>

ChainStatus == {MainChain[i] : i \in 1..13}

SideStatus == {"FAILED", "CANCELLED"}

Status == ChainStatus \cup SideStatus

Terminal == {"COMPLETED", "FAILED", "CANCELLED"}

Active == Status \ Terminal

(* The statuses crash detection looks at. *)
InProgress == {"BATCH_PROCESSING", "DOWNLOADING", "EXTRACTING",
               "NORMALIZING", "UPLOADING_TO_MINIO"}

(* `to' is the element of the chain right after `from'. *)
Successor(from, to) ==
  \E i \in 1..12 : from = MainChain[i] /\ to = MainChain[i + 1]

(* A bug this check could have: any forward move along the chain passes.   *)
ForwardTransition(from, to) ==
  \/ to \in SideStatus
  \/ from = to
  \/ \E i, j \in 1..13 : i < j /\ from = MainChain[i] /\ to = MainChain[j]

(* A bug: failed and cancelled jobs may go anywhere.                       *)
LeavesSideStatus(from, to) ==
  \/ from \in SideStatus \/ to \in SideStatus
  \/ from = to
  \/ Successor(from, to)

IsValidTransition(from, to) ==
  \/ to \in SideStatus
  \/ from = to
  \/ Successor(from, to)

=============================================================================
