CONSTANTS
  MaxCalls = 2
  Concurrency = 1
  MaxExits = 0
  MaxRestarts = 1
SPECIFICATION Spec
INVARIANT OwnAnswer
CHECK_DEADLOCK FALSE
