CONSTANTS
  NULL = NULL
  NestingLimit = 2
  NumberMax = 20
  IntMax = 24
  DefaultSize = 4
  MaxTokens = 4
  Enough = 10
  Texts <- MCTexts
  Made <- MCItems
  Tight <- MCTight
  Sizes <- MCSizes
  Compared <- MCCompared
SPECIFICATION Spec
INVARIANTS Accepted NothingLeft RoundTrip ComparesValues
