SPECIFICATION MCSpec
CONSTANTS
  NumChunks = 2
  RangeStart = 1
  NumBlocks = 3
  MaxConcurrency = 2
  ChunkBuffer = 1
  MaxAttempts = 0
  Archival = FALSE
  Sealed = TRUE
  ParityBlocks = 0
  MaxFaults = 2
  ChunksOfFile = 2
  BlocksOfChunk = 3
  MaxAsking = 2
  MaxRefusals = 1
INVARIANTS
  
  RightDataAccepted
  CountersAgree
  ListedInPlace
PROPERTIES
  Promised
  CallsReturn
CHECK_DEADLOCK FALSE
