CONSTANTS
  ByteBits = 8
  ByteValues = 256
  TokenCost = 3
  MaxMatchLen = 3
  ReductionPasses = 20
  TextLength = 7
  Letters = {0, 1}
  Parses <- MCParses
SPECIFICATION Spec
PROPERTY NeverLonger
CHECK_DEADLOCK FALSE
