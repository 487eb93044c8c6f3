CONSTANTS
  Requests <- MCRequests
  Structs <- MCStructs
  Responses <- MCResponses
  Malloced <- MCMalloced
  Numbers <- MCNumbers
  PayloadSizes = {0, 3, 65535, 65536}
  Words = {255, 65281}
SPECIFICATION Spec
INVARIANTS
  TypeOK
  RequestArrives
  AnswerArrives
CHECK_DEADLOCK FALSE
