SPECIFICATION Spec
CONSTANTS
  NumFiles = 3
  Missing = {2}
  FileConcurrency = 2
  MaxRetries = 1
  MaxOthers = 0
  MayCancel = FALSE
INVARIANT IndependentErrors
