CONSTANTS
  ByteBits = 8
  ByteValues = 256
  TokenCost = 1
  MaxMatchLen = 0
  LCP_MAX = 15
  Tags = 16
  MaxOffset = 15
  MaxMatches = 3
  ReductionPasses = 20
  TextLength = 8
  Letters = {0, 1}
  Tag <- MCTag
  Inputs <- MCInputs
  Settings <- MCSettings
SPECIFICATION Spec
INVARIANTS
  TypeOK
  ArrivalsStayRanked
  ListsStayCorrect
  CostIsWhatIsWritten
  
  SmallestPossible
PROPERTY Terminates
CHECK_DEADLOCK FALSE
