--------------------------- MODULE ScanLifecycle ---------------------------
(***************************************************************************)
(* What the tracking of scans promises its clients, without the columns it *)
(* is kept in.  A scan is absent, or at a status of the chain, or stopped  *)
(* (FAILED, CANCELLED).  Its checkpoint is the stage a resume re-enters    *)
(* at, and only moves forward while the scan exists.                       *)
(*                                                                         *)
(* One step may move several scans: the maintenance calls do.              *)
(***************************************************************************)
EXTENDS JobStatus

CONSTANT Scans

VARIABLE scan   \* scan[s]: [status, checkpoint] of scan s

Absent == [status |-> "ABSENT", checkpoint |-> "PENDING"]

Checkpoint == {"PENDING", "BATCH_PROCESSING", "EXTRACTING", "EXTRACTED"}

Stages == [status : Status \cup {"ABSENT"}, checkpoint : Checkpoint]

(* A checkpoint is passed in the order of the chain. *)
NoEarlier(c, d) ==
  \/ c = d
  \/ c = "PENDING"
  \/ c = "BATCH_PROCESSING" /\ d \in {"EXTRACTING", "EXTRACTED"}
  \/ c = "EXTRACTING" /\ d = "EXTRACTED"

Init == scan = [s \in Scans |-> Absent]

Create(x, y) == x = Absent /\ y = [status |-> "PENDING", checkpoint |-> "PENDING"]

Advance(x, y) ==
  /\ Successor(x.status, y.status)
  /\ y.checkpoint = x.checkpoint

Record(x, y) ==
  /\ x.status # "ABSENT"
  /\ y.status = x.status
  /\ NoEarlier(x.checkpoint, y.checkpoint)

Stop(x, y) ==
  /\ x.status \in Active
  /\ y.status \in SideStatus
  /\ y.checkpoint = x.checkpoint

Resume(x, y) ==
  /\ x.status \in SideStatus
  /\ y.status = x.checkpoint
  /\ y.checkpoint = x.checkpoint

Remove(x, y) == x.status # "ABSENT" /\ y = Absent

Step(x, y) ==
  \/ x = y
  \/ Create(x, y)
  \/ Advance(x, y)
  \/ Record(x, y)
  \/ Stop(x, y)
  \/ Resume(x, y)
  \/ Remove(x, y)

Next ==
  /\ scan' \in [Scans -> Stages]
  /\ \A s \in Scans : Step(scan[s], scan'[s])

Spec == Init /\ [][Next]_scan

=============================================================================
