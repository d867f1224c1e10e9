SPECIFICATION Spec
CONSTANTS
  b1 = b1
  b2 = b2
  NumChunks = 1
  Block <- OneBlock
  BatchSize = 1
  ChunkBuffer = 0
  MaxRetries = 0
  MaxUploads = 2
  Faults <- AllFaults
  MaxFaults = 1
INVARIANT AlreadyCommittedIsTrue
