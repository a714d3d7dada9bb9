SPECIFICATION AskingSpec
CONSTANTS
  Objects = {lead, task}
  RemoteJobs = {j1}
  Actors = {a1, a2}
  Processes = {p1}
  NoRow = NoRow
  Wanted = {lead, task}
  Supported = {lead, task}
  Queryable = {lead, task}
  Teardowns = {"detached"}
  Requests = {"cancel", "normalize"}
  MaxRequests = 2
  MaxPolls = 1
  MaxCrashes = 1
PROPERTIES
  NothingStuck
