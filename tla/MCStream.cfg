SPECIFICATION FairSpec
CONSTANTS
  Requests <- MCRequests
  MaxCalls = 2
  BlockSize = 3
  ChunkSizes <- MCChunkSizes
  Window = 4
  MaxInterrupts = 2
INVARIANTS
  StreamedEqualsWhole
  CutIsPrefix
PROPERTIES
  StreamEnds
CHECK_DEADLOCK FALSE
