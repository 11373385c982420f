SPECIFICATION Spec
CONSTANTS
  Pools <- PoolNames
  PoolSize <- Sizes
  Memory = 16
  W = 7
  FINE = 2
  COARSE = 4
  MaxPass = 1
  Backoff = 2
  MaxFailures = 6
  MaxReplies = 3
INVARIANTS FailureIsReported
CHECK_DEADLOCK FALSE
