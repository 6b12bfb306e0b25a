SPECIFICATION FairSpec
CONSTANTS
  MaxRetries = 8
  BaseBackoff = 3
  MaxBackoff = 14
  WordSize = 64
  Millis = 5
  RetryAfters = {0, 1, 4, 13}
CHECK_DEADLOCK FALSE
INVARIANTS
  TypeOK
  RetriesAreExact
  WaitsFollowTheExponential
  RetryAfterIsHonoured
PROPERTY CallReturns
