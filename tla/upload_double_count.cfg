SPECIFICATION Spec
CONSTANTS
  b1 = b1
  b2 = b2
  NumChunks = 2
  Block <- OneBlock
  BatchSize = 1
  ChunkBuffer = 1
  MaxRetries = 0
  MaxUploads = 2
  Faults <- AllFaults
  MaxFaults = 1
INVARIANT ChunksCountedOnce
