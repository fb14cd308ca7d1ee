CONSTANTS
  ByteBits = 8
  ByteValues = 256
  Windows <- MCWindows
  MaxOut = 148
SPECIFICATION FoundSpec
INVARIANT InplaceRestores
CHECK_DEADLOCK FALSE
