CONSTANTS
  MaxCalls = 4
  Concurrency = 2
  MaxExits = 2
  MaxRestarts = 3
SPECIFICATION FairSpec
INVARIANTS
  TypeOK
  WrongOnlyAfterLost
  ForgottenExplained
  ClosedPortHasNotice
PROPERTIES
  ImplementsLateReplies
  DegradedHeals
CHECK_DEADLOCK FALSE
