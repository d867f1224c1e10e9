SPECIFICATION PersistentSpec
CONSTANTS
  b1 = b1
  b2 = b2
  NumChunks = 3
  Block <- OneBlock
  BatchSize = 2
  ChunkBuffer = 1
  MaxRetries = 1
  MaxUploads = 4
  Faults <- AllFaults
  MaxFaults = 3
INVARIANTS
  TypeOK
  StreamOrder
  NoChunkLost
  UploadAfterRegistration
  InFlight
  CommitWholeFile
  FreshCallNeverRefills
PROPERTIES
  ImplementsFileUpload
  CallEnds
  EventuallyCommitted
