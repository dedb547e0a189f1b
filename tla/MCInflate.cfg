SPECIFICATION LiveSpec
CONSTANTS
  Dictionary <- Preset
  WSIZE = 4
  MAXLEN = 5
  Uses <- MCUses
  Streams <- MCStreams
INVARIANTS
  StateSound
  ChunkingInvisible
  FastInBounds
  SyncSearchExact
PROPERTIES
  InflateEnds
CHECK_DEADLOCK FALSE
