SPECIFICATION FairSpec
CONSTANTS
  NumFiles = 3
  Missing = {2}
  FileConcurrency = 2
  MaxRetries = 1
  MaxOthers = 1
  MayCancel = TRUE
INVARIANTS
  OneResultEach
  NonceFresh
  
PROPERTY CallReturns
