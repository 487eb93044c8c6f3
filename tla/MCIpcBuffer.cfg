CONSTANT MaxRequests = 5
SPECIFICATION FairSpec
INVARIANTS
  TypeOK
  NoNullRead
  HandlesForward
  PayloadRace
  LosslessWithoutOverrun
PROPERTIES
  ImplementsMailbox
  ActedOrSuperseded
CHECK_DEADLOCK FALSE
