SPECIFICATION Spec
CONSTANTS
  Scans = {s1}
  Objects = {lead, task}
  RemoteJobs = {j1}
  Deleted = Deleted
INVARIANTS
  TypeOK
  CompletedAtIffTerminal
  FailedHasReason
PROPERTY ImplementsLifecycle
