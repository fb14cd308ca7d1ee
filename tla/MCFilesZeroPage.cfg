CONSTANTS
  BUFFER_SIZE = 128
  Allowance = 2
  DICT_MAX = 60
  FirstFree = 16
  IoFrom = 104
  IoTo = 112
  Page = 8
  BasicStart = 17
  BasicHeader = 2
  BootSize <- MCBootSize
  CodeSize <- MCCodeSize
  ExitSize = 2
  StackUse = 3
  BootCheck = 4
  RomFrom = 80
  RomTo = 96
  Requests <- MCRequests
  Streams <- MCStreams
SPECIFICATION Spec
INVARIANT ZeroPageRestored
CHECK_DEADLOCK FALSE
