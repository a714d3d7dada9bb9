SPECIFICATION CheckSpec
CONSTANTS
  Statuses <- MCStatuses
  MaxRetries = 3
INVARIANTS
  TypeOK
  GivesUpOnlyWhenSpent
  LetterCountsCalls
  CheckTypeOK
  NoBlameForOutage
  RetryHintHolds
