CONSTANTS
  ByteBits = 8
  ByteValues = 256
  Short = 300
  Numbers <- MCNumbers
  MaxLost = 2
  Windows <- MCWindows
  MaxOut = 100
SPECIFICATION MCSpec
INVARIANTS
  RoundTrip
  ReadersAgree
  CostIsExact
  AdjustmentSucceeds
  PrefixUntilOverrun
  RestoresAfterSoundCut
CHECK_DEADLOCK FALSE
