SPECIFICATION LiveSpec
CONSTANTS
  GZBUFSIZE = 3
  UINT = 16
  Uses <- MCUses
INVARIANTS
  BufferSound
  ReachesFile
PROPERTIES
  CallReturns
CHECK_DEADLOCK FALSE
