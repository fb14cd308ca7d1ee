CONSTANTS
  ByteBits = 4
  ByteValues = 16
  TokenCost = 1
  MaxMatchLen = 0
  LCP_MAX = 6
  Tags = 16
  MaxOffset = 8
  MaxMatches = 10
  TextLength = 10
  Letters = {0, 1}
  Tag <- MCTag
  Inputs <- MCInputs
SPECIFICATION Spec
INVARIANTS
  EveryMatchIsCorrect
  NothingIsMissed
PROPERTY Finishes
CHECK_DEADLOCK FALSE
