CONSTANTS
  Sessions <- MCSessions
  MaxSession = 2
  MaxAligned = 2
  PayloadSizes = {15, 3}
  MaxPublished = 4
SPECIFICATION Spec
PROPERTY FramingFollowsHeader
CHECK_DEADLOCK FALSE
