SPECIFICATION Spec
CONSTANTS
  Objects = {lead, task}
  RemoteJobs = {j1, j2}
  Actors = {a1}
  Processes = {p1}
  NoRow = NoRow
  Wanted = {lead, task}
  Supported = {lead, task}
  Queryable = {lead, task}
  Teardowns = {"detached"}
  Requests = {"resume"}
  MaxRequests = 1
  MaxPolls = 1
  MaxCrashes = 0
INVARIANTS
  ExtractedWasDownloaded
