CONSTANTS
  MinInterval = 5
  RetryAfters = {0, 2, 8}
  Horizon = 12
SPECIFICATION ThrottleSpec
INVARIANT PolledSparingly
CHECK_DEADLOCK FALSE
