SPECIFICATION FairSpec
CONSTANTS
  Objects = {lead}
  RemoteJobs = {j1, j2}
  Actors = {a1, a2}
  Processes = {p1}
  NoRow = NoRow
  Wanted = {lead}
  Supported = {lead}
  Queryable = {lead}
  Teardowns = {"detached"}
  Requests = {"cancel", "resume", "cleanup", "normalize"}
  MaxRequests = 2
  MaxPolls = 1
  MaxCrashes = 1
INVARIANTS
  CompletedAtIffTerminal
PROPERTIES
  CancelledStaysStopped
  TasksEnd
  AbandonedIsDetectable
