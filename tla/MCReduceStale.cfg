CONSTANTS
  ByteBits = 8
  ByteValues = 256
  TokenCost = 3
  MaxMatchLen = 0
  ReductionPasses = 20
  TextLength = 8
  Letters = {0, 1}
  Parses <- StaleParses
SPECIFICATION Spec
PROPERTY NeverLonger
CHECK_DEADLOCK FALSE
