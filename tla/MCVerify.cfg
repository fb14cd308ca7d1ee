CONSTANTS
  ByteBits = 2
  ByteValues = 4
  MaxLen = 6
  Longer = TRUE
  Originals <- MCOriginals
  BUFFER_SIZE = 16
  MaxOut = 18
  Windows <- MCWindows
  MaxCut = 2
  RamSize = 56
  FastFrom = 2
  Builds <- MCBuilds
  Programs <- MCPrograms
SPECIFICATION RoundtripSpec
INVARIANTS
  FailsOnlyWhenFull
  CommandNeverOpens
  FreeBitsAreZero
  MarkerKept
  BlocksRestored
PROPERTIES
  Unpacks
  MachineUnpacks
CHECK_DEADLOCK FALSE
