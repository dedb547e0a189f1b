SPECIFICATION FairSpec
CONSTANTS
  w_size = 12
  MAX_MATCH = 3
  lit_bufsize = 4
  MAX_STORED = 12
  Config <- MCConfig
  Fast = {1}
  Slow = {4}
  hash_size = 8
  Hash <- MCHash
  Uses <- MCUses
INVARIANTS
  WindowSound
  StreamSound
  FullFlushForgets
  FlushComplete
PROPERTIES
  FinishEnds
CHECK_DEADLOCK FALSE
