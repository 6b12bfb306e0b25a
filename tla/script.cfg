SPECIFICATION Spec
CONSTANTS
  HealthTimeout = 1
  Timeout = 4
  RetryDelay = 1
  MaxRetries = 3
  StartLimit = 8
  Rows = 2
  MaxFirings = 2
  MaxCrashes = 1
CHECK_DEADLOCK FALSE
INVARIANTS
  TypeOK
  SuccessIsReal
  GivesUpForAReason
PROPERTY WorkOutlivesTheScript
