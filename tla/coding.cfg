SPECIFICATION MCSpec
CONSTANTS
  DataBlocks = 2
  ParityBlocks = 2
  Field = 5
  maxStripeSize = 4
  SizeBytes = 2
  Sizes = {2, 4, 6, 8, 10}
  Capacity = 12
  MaxDamaged = 2
  MaxBlockSize = 16
  HeaderSize = 5
  tagSize = 4
  ecDataBlocks = 4
  Targets <- CiphertextSizes
  NumChunks = 2
  NonceSpace = 8
  InitialNonces = {0, 6}
  BlockSize = 5
  keyLength = 32
  CipherOverhead = 3
  CodeOverhead = 2
  Maxlinks = 5
  IndexSpace = 4
  Settings <- AllSettings
INVARIANTS
  CiphertextSize
  
  NoncesDistinct
  RecoverableIffEnoughLeft
  NeverWrong
  ChunkFits
  ProofsSound
