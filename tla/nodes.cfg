SPECIFICATION MCSpec
CONSTANTS
  g1 = g1
  g2 = g2
  g3 = g3
  k1 = k1
  k2 = k2
  a1 = a1
  a2 = a2
  Getter <- Getters
  Addr <- Addrs
  AddrOf <- Asked
  None = None
  Closer <- Closers
  Sizes = {2, 3, 4}
  NumBlocks = 3
  PartSize = 2
  MaxConcurrency = 2
  MaxFaults = 1
INVARIANTS
  PoolConsistent
  ReportsStored
  ResumeNotRefused
PROPERTY AllReturn
CHECK_DEADLOCK FALSE
