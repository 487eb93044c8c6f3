CONSTANTS
  Sessions <- MCSessions
  MaxSession = 3
  MaxAligned = 4
  PayloadSizes = {0, 1, 15, 16}
  MaxPublished = 6
SPECIFICATION FairSpec
INVARIANTS
  TypeOK
  FramedWhileAligned
  OverrunExplained
  NothingSkipped
PROPERTY AlignedDelivered
CHECK_DEADLOCK FALSE
