SPECIFICATION Spec
CONSTANTS
  Queries = {a, b}
  Specs = {s, t}
  MaxPuts = 2
  MaxCalls = 5
  MaxAttempts = 2
  MinRetryDelay = 1
  RetryExponent = 2
  MaxRetryDelay = 2
INVARIANTS
  ConnectionIsKept
  WritesAreKept
  ListensAreKept
CHECK_DEADLOCK FALSE
