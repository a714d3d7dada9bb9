SPECIFICATION CheckSpec
CONSTANTS
  Statuses <- MCStatuses
  MaxRetries = 3
INVARIANTS
  BusyServerIsRetried
