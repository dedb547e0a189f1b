SPECIFICATION LiveSpec
CONSTANTS
  GZBUFSIZE = 3
  UINT = 16
  Uses <- MCUses
  Files <- MCFiles
INVARIANTS
  BufferSound
  DeliveredSound
  EndSound
PROPERTIES
  CallReturns
CHECK_DEADLOCK FALSE
