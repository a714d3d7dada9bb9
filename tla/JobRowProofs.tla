----------------------------- MODULE JobRowProofs -----------------------------
(***************************************************************************)
(* Facts about the status machine and the operators of JobRow, for every   *)
(* set of objects and remote jobs, that the proofs about JobService and    *)
(* ScanPipeline rest on.                                                   *)
(***************************************************************************)
EXTENDS JobRow, TLAPS

(* The chain by extension. *)
LEMMA ChainMembers ==
  ChainStatus = {"PENDING", "BATCH_REQUESTED", "BATCH_PROCESSING",
                 "BATCH_READY", "DOWNLOADING", "DOWNLOADED", "EXTRACTING",
                 "EXTRACTED", "NORMALIZING", "NORMALIZED",
                 "UPLOADING_TO_MINIO", "UPLOADED_TO_MINIO", "COMPLETED"}
BY DEF ChainStatus, MainChain

(* A valid transition to a chain status comes from the chain.              *)
LEMMA ChainMoves ==
  ASSUME NEW from, NEW to \in ChainStatus, IsValidTransition(from, to)
  PROVE  from = to \/ (Successor(from, to) /\ from \in ChainStatus /\ from # "COMPLETED")
<1>1. to \notin SideStatus
  BY ChainMembers DEF SideStatus
<1>2. CASE from = to
  BY <1>2
<1>3. CASE Successor(from, to)
  BY <1>3 DEF Successor, MainChain, ChainStatus
<1>4. QED
  BY <1>1, <1>2, <1>3 DEF IsValidTransition

-----------------------------------------------------------------------------
(* Row operators: each returns a row, and a row in good order.             *)

InOrder(r) ==
  /\ r.completed <=> r.status \in Terminal
  /\ r.status = "FAILED" => r.error

LEMMA NewRowInOrder == NewRow \in Row /\ InOrder(NewRow)
BY ChainMembers DEF NewRow, Row, InOrder, Terminal, Status, Heartbeat

(* The status write of update_job_status, for a status the services pass.  *)
LEMMA WithStatusInOrder ==
  ASSUME NEW r \in Row, InOrder(r), NEW st \in ChainStatus,
         IsValidTransition(r.status, st)
  PROVE  WithStatus(r, st) \in Row /\ InOrder(WithStatus(r, st))
<1>1. WithStatus(r, st) \in Row
  BY DEF WithStatus, Row, Status
<1>2. st # "FAILED" /\ st # "CANCELLED"
  BY ChainMembers
<1>3. r.status \in Terminal => st = r.status
  BY ChainMoves, ChainMembers DEF Terminal
<1>4. InOrder(WithStatus(r, st))
  BY <1>2, <1>3 DEF WithStatus, InOrder, Row
<1>5. QED
  BY <1>1, <1>4

LEMMA StopInOrder ==
  ASSUME NEW r \in Row, InOrder(r)
  PROVE  /\ Failed(r) \in Row /\ InOrder(Failed(r))
         /\ Cancelled(r) \in Row /\ InOrder(Cancelled(r))
BY DEF Failed, Cancelled, Row, Status, SideStatus, InOrder, Terminal

(* The stage a resume picks is on the chain and not terminal.              *)
LEMMA ResumeTargetActive ==
  ASSUME NEW r \in Row
  PROVE  ResumeTarget(r) \in Status \ Terminal
BY ChainMembers DEF ResumeTarget, Status, Terminal

LEMMA ReenterInOrder ==
  ASSUME NEW r \in Row
  PROVE  /\ Reentered(r, ResumeTarget(r)) \in Row
         /\ InOrder(Reentered(r, ResumeTarget(r)))
<1>1. ResumeTarget(r) \in Status \ Terminal
  BY ResumeTargetActive
<1>2. QED
  BY <1>1 DEF Reentered, Row, InOrder, Terminal

(* The writes that leave status, error and completion time alone.          *)
LEMMA RecordInOrder ==
  ASSUME NEW r \in Row, InOrder(r),
         NEW items \in SUBSET Items, NEW objs \in SUBSET Objects
  PROVE  \A w \in {Beat(r), WithBatch(r, items), Downloaded(r),
                    Extracted(r, objs), WithCounts(r, objs),
                    NormalizedNow(r), UploadedNow(r),
                    [r EXCEPT !.heartbeat = "stale"]} :
           w \in Row /\ InOrder(w)
<1>1. Beat(r) \in Row /\ InOrder(Beat(r))
  BY DEF Beat, Row, Heartbeat, InOrder
<1>2. WithBatch(r, items) \in Row /\ InOrder(WithBatch(r, items))
  BY DEF WithBatch, Row, InOrder
<1>3. Downloaded(r) \in Row /\ InOrder(Downloaded(r))
  BY DEF Downloaded, Row, InOrder
<1>4. Extracted(r, objs) \in Row /\ InOrder(Extracted(r, objs))
  BY DEF Extracted, Row, InOrder
<1>5. WithCounts(r, objs) \in Row /\ InOrder(WithCounts(r, objs))
  BY DEF WithCounts, Row, InOrder
<1>6. NormalizedNow(r) \in Row /\ InOrder(NormalizedNow(r))
  BY DEF NormalizedNow, Row, InOrder
<1>7. UploadedNow(r) \in Row /\ InOrder(UploadedNow(r))
  BY DEF UploadedNow, Row, InOrder
<1>8. [r EXCEPT !.heartbeat = "stale"] \in Row
      /\ InOrder([r EXCEPT !.heartbeat = "stale"])
  BY DEF Row, Heartbeat, InOrder
<1>9. QED
  BY <1>1, <1>2, <1>3, <1>4, <1>5, <1>6, <1>7, <1>8

-----------------------------------------------------------------------------
(* The checkpoints of a row: what each operator records, and what an       *)
(* UPDATE of a stale copy leaves.                                          *)

(* Row d has the given checkpoints. *)
Checkpoints(d, ids, downloaded, extracted, counts, normalized) ==
  /\ d \in Row
  /\ d.ids = ids
  /\ d.downloaded <=> downloaded
  /\ d.extracted <=> extracted
  /\ d.counts = counts
  /\ d.normalized <=> normalized

Same(d, c) == Checkpoints(d, c.ids, c.downloaded, c.extracted, c.counts, c.normalized)

LEMMA StatusKeeps ==
  ASSUME NEW c \in Row
  PROVE  /\ \A st \in Status : Same(WithStatus(c, st), c)
         /\ Same(Failed(c), c)
         /\ Same(Cancelled(c), c)
         /\ Same(Reentered(c, ResumeTarget(c)), c)
<1>1. \A st \in Status : Same(WithStatus(c, st), c)
  BY DEF Same, Checkpoints, WithStatus, Row
<1>2. Same(Failed(c), c)
  BY DEF Same, Checkpoints, Failed, Row, Status, SideStatus
<1>3. Same(Cancelled(c), c)
  BY DEF Same, Checkpoints, Cancelled, Row, Status, SideStatus
<1>4. Same(Reentered(c, ResumeTarget(c)), c)
  <2>1. ResumeTarget(c) \in Status
    BY ResumeTargetActive
  <2>2. QED
    BY <2>1 DEF Same, Checkpoints, Reentered, Row
<1>5. QED
  BY <1>1, <1>2, <1>3, <1>4

LEMMA BeatKeeps == ASSUME NEW c \in Row PROVE Same(Beat(c), c)
BY DEF Same, Checkpoints, Beat, Row, Heartbeat

LEMMA UploadedKeeps == ASSUME NEW c \in Row PROVE Same(UploadedNow(c), c)
BY DEF Same, Checkpoints, UploadedNow, Row

(* What an UPDATE leaves is a row, and it has each column from the written *)
(* copy if the call changed it and from the stored row otherwise.          *)
LEMMA MergedColumns ==
  ASSUME NEW r \in Row, NEW c \in Row, NEW d \in Row,
         NEW stamped \in SUBSET {"heartbeat", "completed"}
  PROVE  LET m == Merged(r, c, d, stamped) IN
         /\ m \in Row
         /\ m.status = IF d.status # c.status THEN d.status ELSE r.status
         /\ m.ids = IF d.ids # c.ids THEN d.ids ELSE r.ids
         /\ m.downloaded = IF d.downloaded # c.downloaded THEN d.downloaded ELSE r.downloaded
         /\ m.extracted = IF d.extracted # c.extracted THEN d.extracted ELSE r.extracted
         /\ m.counts = IF d.counts # c.counts THEN d.counts ELSE r.counts
         /\ m.normalized = IF d.normalized # c.normalized THEN d.normalized ELSE r.normalized
BY DEF Row, Merged

LEMMA MergedTimes ==
  ASSUME NEW r \in Row, NEW c \in Row, NEW d \in Row,
         NEW stamped \in SUBSET {"heartbeat", "completed"}
  PROVE  LET m == Merged(r, c, d, stamped) IN
         /\ m.completed = IF "completed" \in stamped \/ d.completed # c.completed
                          THEN d.completed ELSE r.completed
         /\ m.uploaded = IF d.uploaded # c.uploaded THEN d.uploaded ELSE r.uploaded
BY DEF Row, Merged

=============================================================================
