CONSTANTS
  Requests <- MCRequests
  Structs <- MCStructs
  Responses <- MCResponses
  Malloced <- MCMalloced
  Numbers = {1}
  PayloadSizes = {0}
  Words = {0}
SPECIFICATION Spec
INVARIANT Terminated
CHECK_DEADLOCK FALSE
