SPECIFICATION MCSpec
CONSTANTS
  Process = {1, 2, 3}
  Name = {"a", "b"}
  Imported = {"imported"}
  Generate <- KeyOf
  First <- FirstOf
  MaxFaults = 2
  Arguments <- Lists
  TrimSpace <- Trim
  Base <- BaseOf
  TooShort = {"", "b"}
  EncryptionKeys = {"k1", "k2"}
  BadKeys = {"bad"}
  MaxBuckets = 2
  MaxUploads = 2
  RootCIDs = {"c0", "c1", "c2"}
  Digests = {"a", "b", "c"}
  Batches <- Uploaded
  Foreign <- Others
  Int64Space = 16
  MaxBlocks = 2
  MaxRequests = 2
INVARIANTS
  WalletsKept
  
  DeploymentTruth
  ReaderTruth
