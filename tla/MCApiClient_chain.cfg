SPECIFICATION Spec
CONSTANTS
  Requests = {r1}
  Chain <- BreakerThenRetry
  MaxFailures = 3
  MaxAttempts = 3
  MaxRetries = 3
INVARIANTS
  FailuresAreConsecutive
CHECK_DEADLOCK FALSE
