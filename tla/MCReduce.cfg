CONSTANTS
  ByteBits = 8
  ByteValues = 256
  TokenCost = 3
  MaxMatchLen = 0
  ReductionPasses = 20
  TextLength = 8
  Letters = {0, 1}
  Parses <- MCParses
SPECIFICATION Spec
INVARIANTS
  MatchesStayCorrect
  MatchesStayApart
  EveryMatchIsWritten
 
CHECK_DEADLOCK FALSE
