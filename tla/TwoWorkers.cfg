SPECIFICATION Spec
CONSTANTS
  Objects = {lead, task}
  RemoteJobs = {j1}
  Actors = {a1, a2}
  Processes = {p1, p2}
  NoRow = NoRow
  Wanted = {lead, task}
  Supported = {lead, task}
  Queryable = {lead, task}
  Teardowns = {"detached", "attached", "broken"}
  Requests = {"cancel", "remove", "cleanup", "normalize"}
  MaxRequests = 2
  MaxPolls = 1
  MaxCrashes = 1
INVARIANTS
  TypeOK
  DownloadedMeansOnDisk
  IdsCoverScan
  ExtractedCoversScan
  CompletedMeansPublished
  CompletedMeansStamped
  OverHasTime
PROPERTIES
  CheckpointsKept
  OverStaysOver
SYMMETRY AnyActorAnyProcess
