SPECIFICATION MCSpec
CONSTANTS
  c1 = c1
  c2 = c2
  c3 = c3
  b1 = b1
  b2 = b2
  f1 = f1
  f2 = f2
  none = none
  Client <- Clients
  Call <- Calls
  Stock <- Stocks
  MaxRetries = 1
  MaxFaults = 1
INVARIANTS
  NilIsOwnEffect
  ErrorMeansNoEffect
  IndexRefusedOnlyIfStale
  
PROPERTY CallsReturn
CHECK_DEADLOCK FALSE
