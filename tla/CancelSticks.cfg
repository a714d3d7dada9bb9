SPECIFICATION Spec
CONSTANTS
  Objects = {lead, task}
  RemoteJobs = {j1}
  Actors = {a1, a2}
  Processes = {p1}
  NoRow = NoRow
  Wanted = {lead, task}
  Supported = {lead, task}
  Queryable = {lead, task}
  Teardowns = {"detached"}
  Requests = {"cancel"}
  MaxRequests = 1
  MaxPolls = 1
  MaxCrashes = 0
PROPERTIES
  CancelSticks
