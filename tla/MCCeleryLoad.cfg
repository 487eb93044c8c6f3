CONSTANTS
  NULL = NULL
  NestingLimit = 1000
  NumberMax = 63
  IntMax = 2147483647
  DefaultSize = 256
  BADKEY = 999
  Enough = 100000
  MaxSlices = 2
  Buffers <- MCBuffers
  Later <- MCLater
  Scripts <- MCScripts
  Node <- MCNode
  LeafValue <- MCLeafValue
SPECIFICATION LoadSpec
INVARIANT LoadsAsWritten
CHECK_DEADLOCK FALSE
