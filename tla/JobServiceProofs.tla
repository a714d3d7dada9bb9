-------------------------- MODULE JobServiceProofs --------------------------
(***************************************************************************)
(* Proofs about JobService for every set of scans, objects and remote      *)
(* jobs: types, the two row invariants, and the implementation of          *)
(* ScanLifecycle.                                                          *)
(***************************************************************************)
EXTENDS JobService, JobRowProofs

-----------------------------------------------------------------------------
(* Type correctness and the row invariants together are inductive.         *)

RowsInOrder == \A s \in Stored : InOrder(jobs[s])

IInv == TypeOK /\ RowsInOrder

LEMMA StoredIsRow ==
  ASSUME IInv, NEW s \in Stored
  PROVE  s \in Scans /\ jobs[s] \in Row /\ InOrder(jobs[s])
BY DEF IInv, TypeOK, RowsInOrder, Stored

(* Writing a row in good order, and nothing else, keeps the invariant.     *)
LEMMA WriteKeeps ==
  ASSUME IInv, NEW s \in Scans, NEW r \in Row, InOrder(r), Write(s, r)
  PROVE  IInv'
<1>1. TypeOK'
  BY DEF IInv, TypeOK, Write
<1>2. RowsInOrder'
  BY DEF IInv, TypeOK, RowsInOrder, Stored, Write
<1>3. QED
  BY <1>1, <1>2 DEF IInv

(* Deleting rows keeps the invariant, whatever else is recorded.           *)
LEMMA DeleteKeeps ==
  ASSUME IInv, NEW S \in SUBSET Scans,
         jobs' = [s \in Scans |-> IF s \in S THEN Deleted ELSE jobs[s]],
         old' \subseteq Scans, UNCHANGED stamping
  PROVE  IInv'
BY DEF IInv, TypeOK, RowsInOrder, Stored

LEMMA ScanCallKeeps ==
  ASSUME IInv, NEW s \in Scans, ScanCall(s)
  PROVE  IInv'
<1>1. CASE CreateJob(s)
  BY <1>1, NewRowInOrder, WriteKeeps DEF CreateJob
<1>2. CASE \E st \in Requested : UpdateJobStatus(s, st)
  BY <1>2, StoredIsRow, WithStatusInOrder, WriteKeeps DEF UpdateJobStatus, Requested
<1>3. ASSUME NEW st \in {"NORMALIZED", "UPLOADED_TO_MINIO"}, NEW c \in Stamps,
             BeginComplete(s, st, c)
      PROVE  IInv'
  <2>1. s \in Stored /\ st \in Requested /\ IsValidTransition(jobs[s].status, st)
    BY <1>3, ChainMembers DEF BeginComplete, Requested
  <2>2. WithStatus(jobs[s], st) \in Row /\ InOrder(WithStatus(jobs[s], st))
    BY <2>1, StoredIsRow, WithStatusInOrder DEF Requested
  <2>3. QED
    BY <1>3, <2>2 DEF BeginComplete, IInv, TypeOK, RowsInOrder, Stored
<1>4. CASE \E column \in Stamps : EndComplete(s, column)
  <2>1. PICK c \in Stamps : EndComplete(s, c)
    BY <1>4
  <2>2. CASE s \in Stored
    <3>1. /\ NormalizedNow(jobs[s]) \in Row /\ InOrder(NormalizedNow(jobs[s]))
          /\ UploadedNow(jobs[s]) \in Row /\ InOrder(UploadedNow(jobs[s]))
      BY <2>2, StoredIsRow, RecordInOrder
    <3>2. QED
      BY <2>1, <2>2, <3>1 DEF EndComplete, IInv, TypeOK, RowsInOrder, Stored
  <2>3. CASE s \notin Stored
    BY <2>1, <2>3 DEF EndComplete, IInv, TypeOK, RowsInOrder, Stored
  <2>4. QED
    BY <2>2, <2>3
<1>5. CASE ResumeJob(s)
  BY <1>5, StoredIsRow, ReenterInOrder, WriteKeeps DEF ResumeJob
<1>6. CASE UpdateHeartbeat(s)
  BY <1>6, StoredIsRow, RecordInOrder, WriteKeeps DEF UpdateHeartbeat
<1>7. CASE FailJob(s) \/ CancelJob(s)
  BY <1>7, StoredIsRow, StopInOrder, WriteKeeps DEF FailJob, CancelJob
<1>8. CASE \E items \in SUBSET Items : UpdateBatchInfo(s, items)
  BY <1>8, StoredIsRow, RecordInOrder, WriteKeeps DEF UpdateBatchInfo
<1>9. CASE UpdateDownloadInfo(s)
  BY <1>9, StoredIsRow, RecordInOrder, WriteKeeps DEF UpdateDownloadInfo
<1>10. CASE \E objs \in SUBSET Objects : UpdateExtractionInfo(s, objs)
  BY <1>10, StoredIsRow, RecordInOrder, WriteKeeps DEF UpdateExtractionInfo
<1>11. CASE \E objs \in SUBSET Objects : StoreEntityRecordCounts(s, objs)
  BY <1>11, StoredIsRow, RecordInOrder, WriteKeeps DEF StoreEntityRecordCounts
<1>12. CASE RemoveScan(s)
  BY <1>12 DEF RemoveScan, IInv, TypeOK, RowsInOrder, Stored
<1>13. CASE HeartbeatAges(s)
  BY <1>13, StoredIsRow, RecordInOrder, WriteKeeps DEF HeartbeatAges
<1>14. CASE JobAges(s)
  BY <1>14 DEF JobAges, IInv, TypeOK, RowsInOrder, Stored
<1>15. QED
  BY <1>1, <1>2, <1>3, <1>4, <1>5, <1>6, <1>7, <1>8, <1>9, <1>10, <1>11,
     <1>12, <1>13, <1>14 DEF ScanCall, Stamps

LEMMA MaintenanceKeeps ==
  ASSUME IInv, Maintenance
  PROVE  IInv'
<1>1. CASE DetectCrashedJobs
  <2>1. \A s \in Stored : Failed(jobs[s]) \in Row /\ InOrder(Failed(jobs[s]))
    BY StoredIsRow, StopInOrder
  <2>2. QED
    BY <1>1, <2>1 DEF DetectCrashedJobs, IInv, TypeOK, RowsInOrder, Stored
<1>2. CASE CleanupOldJobs
  BY <1>2, DeleteKeeps DEF CleanupOldJobs, IInv, TypeOK
<1>3. CASE LoseCalls
  BY <1>3 DEF LoseCalls, IInv, TypeOK, RowsInOrder, Stored
<1>4. QED
  BY <1>1, <1>2, <1>3 DEF Maintenance

(* The invariant behind the two theorems below.                            *)
LEMMA Invariance == Spec => []IInv
<1>1. Init => IInv
  BY DEF Init, IInv, TypeOK, RowsInOrder, Stored
<1>2. IInv /\ [Next]_vars => IInv'
  <2>1. SUFFICES ASSUME IInv, [Next]_vars PROVE IInv'
    OBVIOUS
  <2>2. CASE Next
    BY <2>1, <2>2, ScanCallKeeps, MaintenanceKeeps DEF Next
  <2>3. CASE UNCHANGED vars
    BY <2>1, <2>3 DEF vars, IInv, TypeOK, RowsInOrder, Stored
  <2>4. QED
    BY <2>1, <2>2, <2>3
<1>3. QED
  BY <1>1, <1>2, PTL DEF Spec

(* Every reachable state is of the declared type.                          *)
THEOREM TypeCorrect == Spec => []TypeOK
<1>1. IInv => TypeOK
  BY DEF IInv
<1>2. QED
  BY <1>1, Invariance, PTL

(* completed_at is set exactly while the job is over, for any number of    *)
(* scans and any sequence of calls.                                        *)
THEOREM CompletedAtCorrect == Spec => []CompletedAtIffTerminal
<1>1. IInv => CompletedAtIffTerminal
  BY DEF IInv, RowsInOrder, InOrder, CompletedAtIffTerminal
<1>2. QED
  BY <1>1, Invariance, PTL

(* A failed scan always carries a reason.                                  *)
THEOREM FailureReasonCorrect == Spec => []FailedHasReason
<1>1. IInv => FailedHasReason
  BY DEF IInv, RowsInOrder, InOrder, FailedHasReason
<1>2. QED
  BY <1>1, Invariance, PTL

-----------------------------------------------------------------------------
(* Every transaction is a step of the abstract lifecycle.  `Moves' says it *)
(* of the row of one scan.                                                 *)

Moves(x, y) == Lifecycle!Step(View(x), View(y)) /\ View(y) \in Lifecycle!Stages

LEMMA SameStatus == Lifecycle!Status = Status
BY DEF Status, ChainStatus, MainChain, SideStatus, Lifecycle!Status,
       Lifecycle!ChainStatus, Lifecycle!MainChain, Lifecycle!SideStatus

LEMMA ViewOfRow ==
  ASSUME NEW r \in Row
  PROVE  /\ View(r) = [status |-> r.status, checkpoint |-> ResumeTarget(r)]
         /\ View(r) \in Lifecycle!Stages
         /\ r.status # "ABSENT"
<1>1. View(r) = [status |-> r.status, checkpoint |-> ResumeTarget(r)]
  BY DeletedAssumption DEF View
<1>2. r.status \in Status /\ r.status # "ABSENT"
  BY ChainMembers DEF Row, Status, SideStatus
<1>3. ResumeTarget(r) \in Lifecycle!Checkpoint
  BY DEF ResumeTarget, Lifecycle!Checkpoint
<1>4. QED
  BY <1>1, <1>2, <1>3, SameStatus DEF Lifecycle!Stages

LEMMA StayMoves ==
  ASSUME NEW x \in Row \cup {Deleted}
  PROVE  Moves(x, x)
BY ViewOfRow DEF Moves, View, Lifecycle!Step, Lifecycle!Stages, Lifecycle!Checkpoint

LEMMA CreateMoves == Moves(Deleted, NewRow)
<1>1. View(Deleted) = Lifecycle!Absent
  BY DEF View, Lifecycle!Absent
<1>2. View(NewRow) = [status |-> "PENDING", checkpoint |-> "PENDING"]
  BY NewRowInOrder, ViewOfRow DEF NewRow, ResumeTarget
<1>3. QED
  BY <1>1, <1>2, NewRowInOrder, ViewOfRow DEF Moves, Lifecycle!Step, Lifecycle!Create

LEMMA DeleteMoves ==
  ASSUME NEW r \in Row
  PROVE  Moves(r, Deleted)
<1>1. View(Deleted) = Lifecycle!Absent /\ View(Deleted) \in Lifecycle!Stages
  BY DEF View, Lifecycle!Absent, Lifecycle!Stages, Lifecycle!Checkpoint
<1>2. View(r).status # "ABSENT"
  BY ViewOfRow
<1>3. QED
  BY <1>1, <1>2 DEF Moves, Lifecycle!Step, Lifecycle!Remove

LEMMA WithStatusMoves ==
  ASSUME NEW r \in Row, InOrder(r), NEW st \in Requested,
         IsValidTransition(r.status, st)
  PROVE  Moves(r, WithStatus(r, st))
<1>1. WithStatus(r, st) \in Row
  BY WithStatusInOrder DEF Requested
<1>2. View(WithStatus(r, st)) = [status |-> st, checkpoint |-> ResumeTarget(r)]
  BY <1>1, ViewOfRow DEF WithStatus, ResumeTarget, Row
<1>3. r.status = st \/ Lifecycle!Successor(r.status, st)
  BY ChainMoves DEF Requested, Lifecycle!Successor, Lifecycle!MainChain, Successor, MainChain
<1>4. QED
  BY <1>1, <1>2, <1>3, ViewOfRow DEF Moves, Lifecycle!Step, Lifecycle!Advance

LEMMA StopMoves ==
  ASSUME NEW r \in Row, InOrder(r), CanStop(r)
  PROVE  Moves(r, Failed(r)) /\ Moves(r, Cancelled(r))
<1>1. Failed(r) \in Row /\ Cancelled(r) \in Row
  BY StopInOrder
<1>2. /\ View(Failed(r)) = [status |-> "FAILED", checkpoint |-> ResumeTarget(r)]
      /\ View(Cancelled(r)) = [status |-> "CANCELLED", checkpoint |-> ResumeTarget(r)]
  BY <1>1, ViewOfRow DEF Failed, Cancelled, ResumeTarget, Row
<1>3. r.status \in Lifecycle!Active
  BY DEF CanStop, Row, Active, Lifecycle!Active, Status, Terminal,
         Lifecycle!Status, Lifecycle!Terminal, ChainStatus, MainChain,
         Lifecycle!ChainStatus, Lifecycle!MainChain, SideStatus, Lifecycle!SideStatus
<1>4. QED
  BY <1>1, <1>2, <1>3, ViewOfRow
     DEF Moves, Lifecycle!Step, Lifecycle!Stop, Lifecycle!SideStatus

LEMMA ReenterMoves ==
  ASSUME NEW r \in Row, CanReenter(r)
  PROVE  Moves(r, Reentered(r, ResumeTarget(r)))
<1>1. Reentered(r, ResumeTarget(r)) \in Row
  BY ReenterInOrder
<1>2. View(Reentered(r, ResumeTarget(r)))
        = [status |-> ResumeTarget(r), checkpoint |-> ResumeTarget(r)]
  BY <1>1, ViewOfRow DEF Reentered, ResumeTarget, Row
<1>3. QED
  BY <1>1, <1>2, ViewOfRow
     DEF Moves, CanReenter, SideStatus, Lifecycle!Step, Lifecycle!Resume,
         Lifecycle!SideStatus

(* A write that keeps the status and clears no checkpoint.                 *)
LEMMA RecordMoves ==
  ASSUME NEW r \in Row, NEW w \in Row, w.status = r.status,
         r.extracted => w.extracted, r.downloaded => w.downloaded,
         r.ids # {} => w.ids # {}
  PROVE  Moves(r, w)
<1>1. Lifecycle!NoEarlier(ResumeTarget(r), ResumeTarget(w))
  BY DEF Lifecycle!NoEarlier, ResumeTarget
<1>2. QED
  BY <1>1, ViewOfRow DEF Moves, Lifecycle!Step, Lifecycle!Record

LEMMA RecordingMoves ==
  ASSUME NEW r \in Row, InOrder(r),
         NEW items \in SUBSET Items, NEW objs \in SUBSET Objects
  PROVE  \A w \in {Beat(r), WithBatch(r, items), Downloaded(r),
                    Extracted(r, objs), WithCounts(r, objs),
                    NormalizedNow(r), UploadedNow(r),
                    [r EXCEPT !.heartbeat = "stale"]} : Moves(r, w)
<1>1. SUFFICES ASSUME NEW w \in {Beat(r), WithBatch(r, items), Downloaded(r),
                    Extracted(r, objs), WithCounts(r, objs),
                    NormalizedNow(r), UploadedNow(r),
                    [r EXCEPT !.heartbeat = "stale"]}
               PROVE  Moves(r, w)
  OBVIOUS
<1>2. w \in Row
  BY RecordInOrder
<1>3. /\ w.status = r.status
      /\ r.extracted => w.extracted
      /\ r.downloaded => w.downloaded
      /\ r.ids # {} => w.ids # {}
  BY DEF Beat, WithBatch, Downloaded, Extracted, WithCounts, NormalizedNow,
         UploadedNow, Row
<1>4. QED
  BY <1>2, <1>3, RecordMoves

(* A transaction that moves one scan, or every scan of a set, is a step of *)
(* the lifecycle.                                                          *)
LEMMA AllMove ==
  ASSUME IInv, IInv', \A s \in Scans : Moves(jobs[s], jobs'[s])
  PROVE  Lifecycle!Next
BY DEF Lifecycle!Next, Moves, scanView

LEMMA OneMoves ==
  ASSUME IInv, IInv', NEW s \in Scans, NEW r, Moves(jobs[s], r),
         jobs' = [jobs EXCEPT ![s] = r]
  PROVE  Lifecycle!Next
<1>1. \A t \in Scans : Moves(jobs[t], jobs'[t])
  <2>1. SUFFICES ASSUME NEW t \in Scans PROVE Moves(jobs[t], jobs'[t])
    OBVIOUS
  <2>2. CASE t = s
    BY <2>2 DEF IInv, TypeOK
  <2>3. CASE t # s
    BY <2>3, StayMoves DEF IInv, TypeOK
  <2>4. QED
    BY <2>2, <2>3
<1>2. QED
  BY <1>1, AllMove

LEMMA ScanCallMoves ==
  ASSUME IInv, IInv', NEW s \in Scans, ScanCall(s)
  PROVE  Lifecycle!Next \/ UNCHANGED scanView
<1>1. CASE CreateJob(s)
  BY <1>1, CreateMoves, OneMoves DEF CreateJob, Write
<1>2. CASE \E st \in Requested : UpdateJobStatus(s, st)
  BY <1>2, StoredIsRow, WithStatusMoves, OneMoves DEF UpdateJobStatus, Write
<1>3. ASSUME NEW st \in {"NORMALIZED", "UPLOADED_TO_MINIO"}, NEW c \in Stamps,
             BeginComplete(s, st, c)
      PROVE  Lifecycle!Next
  <2>1. s \in Stored /\ st \in Requested /\ IsValidTransition(jobs[s].status, st)
    BY <1>3, ChainMembers DEF BeginComplete, Requested
  <2>2. QED
    BY <1>3, <2>1, StoredIsRow, WithStatusMoves, OneMoves DEF BeginComplete
<1>4. ASSUME NEW c \in Stamps, EndComplete(s, c)
      PROVE  Lifecycle!Next \/ UNCHANGED scanView
  <2>1. CASE s \in Stored
    <3>1. Moves(jobs[s], NormalizedNow(jobs[s])) /\ Moves(jobs[s], UploadedNow(jobs[s]))
      BY <2>1, StoredIsRow, RecordingMoves
    <3>2. QED
      BY <1>4, <2>1, <3>1, OneMoves DEF EndComplete
  <2>2. CASE s \notin Stored
    BY <1>4, <2>2 DEF EndComplete, scanView
  <2>3. QED
    BY <2>1, <2>2
<1>5. CASE ResumeJob(s)
  BY <1>5, StoredIsRow, ReenterMoves, OneMoves DEF ResumeJob, Write
<1>6. CASE UpdateHeartbeat(s)
  BY <1>6, StoredIsRow, RecordingMoves, OneMoves DEF UpdateHeartbeat, Write
<1>7. CASE FailJob(s) \/ CancelJob(s)
  BY <1>7, StoredIsRow, StopMoves, OneMoves DEF FailJob, CancelJob, Write
<1>8. CASE \E items \in SUBSET Items : UpdateBatchInfo(s, items)
  BY <1>8, StoredIsRow, RecordingMoves, OneMoves DEF UpdateBatchInfo, Write
<1>9. CASE UpdateDownloadInfo(s)
  BY <1>9, StoredIsRow, RecordingMoves, OneMoves DEF UpdateDownloadInfo, Write
<1>10. CASE \E objs \in SUBSET Objects : UpdateExtractionInfo(s, objs)
  <2>1. PICK objs \in SUBSET Objects : UpdateExtractionInfo(s, objs)
    BY <1>10
  <2>2. s \in Stored /\ Moves(jobs[s], Extracted(jobs[s], objs))
    BY <2>1, StoredIsRow, RecordingMoves DEF UpdateExtractionInfo
  <2>3. QED
    BY <2>1, <2>2, OneMoves DEF UpdateExtractionInfo, Write
<1>11. CASE \E objs \in SUBSET Objects : StoreEntityRecordCounts(s, objs)
  <2>1. PICK objs \in SUBSET Objects : StoreEntityRecordCounts(s, objs)
    BY <1>11
  <2>2. s \in Stored /\ Moves(jobs[s], WithCounts(jobs[s], objs))
    BY <2>1, StoredIsRow, RecordingMoves DEF StoreEntityRecordCounts
  <2>3. QED
    BY <2>1, <2>2, OneMoves DEF StoreEntityRecordCounts, Write
<1>12. CASE RemoveScan(s)
  BY <1>12, StoredIsRow, DeleteMoves, OneMoves DEF RemoveScan
<1>13. CASE HeartbeatAges(s)
  BY <1>13, StoredIsRow, RecordingMoves, OneMoves DEF HeartbeatAges, Write
<1>14. CASE JobAges(s)
  BY <1>14 DEF JobAges, scanView
<1>15. QED
  BY <1>1, <1>2, <1>3, <1>4, <1>5, <1>6, <1>7, <1>8, <1>9, <1>10, <1>11,
     <1>12, <1>13, <1>14 DEF ScanCall, Stamps

LEMMA MaintenanceMoves ==
  ASSUME IInv, IInv', Maintenance
  PROVE  Lifecycle!Next \/ UNCHANGED scanView
<1>1. CASE DetectCrashedJobs
  <2>1. SUFFICES ASSUME NEW s \in Scans PROVE Moves(jobs[s], jobs'[s])
    BY AllMove
  <2>2. CASE s \in Stored /\ LooksCrashed(jobs[s])
    <3>1. CanStop(jobs[s])
      BY <2>2 DEF LooksCrashed, InProgress, CanStop, Terminal
    <3>2. jobs'[s] = Failed(jobs[s])
      BY <1>1, <2>2 DEF DetectCrashedJobs
    <3>3. QED
      BY <2>2, <3>1, <3>2, StoredIsRow, StopMoves
  <2>3. CASE ~(s \in Stored /\ LooksCrashed(jobs[s]))
    BY <1>1, <2>3, StayMoves DEF DetectCrashedJobs, IInv, TypeOK
  <2>4. QED
    BY <2>2, <2>3
<1>2. CASE CleanupOldJobs
  <2>1. SUFFICES ASSUME NEW s \in Scans PROVE Moves(jobs[s], jobs'[s])
    BY AllMove
  <2>2. CASE s \in old /\ s \in Stored
    BY <1>2, <2>2, StoredIsRow, DeleteMoves DEF CleanupOldJobs
  <2>3. CASE ~(s \in old /\ s \in Stored)
    BY <1>2, <2>3, StayMoves DEF CleanupOldJobs, Stored, IInv, TypeOK
  <2>4. QED
    BY <2>2, <2>3
<1>3. CASE LoseCalls
  BY <1>3 DEF LoseCalls, scanView
<1>4. QED
  BY <1>1, <1>2, <1>3 DEF Maintenance

(* JobService implements the lifecycle, for any set of scans.              *)
THEOREM LifecycleImplemented == Spec => ImplementsLifecycle
<1>1. Init => Lifecycle!Init
  BY DEF Init, Lifecycle!Init, Lifecycle!Absent, View, scanView
<1>2. IInv /\ IInv' /\ [Next]_vars
        => [Lifecycle!Next]_scanView
  <2>1. SUFFICES ASSUME IInv, IInv', [Next]_vars
                 PROVE  Lifecycle!Next \/ UNCHANGED scanView
    OBVIOUS
  <2>2. CASE Next
    BY <2>1, <2>2, ScanCallMoves, MaintenanceMoves DEF Next
  <2>3. CASE UNCHANGED vars
    BY <2>3 DEF vars, scanView
  <2>4. QED
    BY <2>1, <2>2, <2>3
<1>3. QED
  BY <1>1, <1>2, Invariance, PTL DEF Spec, ImplementsLifecycle, Lifecycle!Spec

=============================================================================
