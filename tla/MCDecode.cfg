CONSTANTS
  ByteBits = 2
  ByteValues = 4
  MaxStream = 5
  MaxZeros = 12
  Streams <- MCStreams
  Capacities = {0, 2, 7}
  Formats = {TRUE, FALSE}
SPECIFICATION FairSpec
INVARIANTS
  TypeOK
  RefillOnlyAtControl
  RepeatInsideOutput
PROPERTY Terminates
CHECK_DEADLOCK FALSE
