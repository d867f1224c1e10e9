SPECIFICATION Spec
CONSTANTS
  DataBlocks = 3
  ParityBlocks = 1
  Field = 5
  maxStripeSize = 6
  SizeBytes = 2
  Sizes = {2, 3, 4, 5, 6, 7, 8}
  Capacity = 12
  MaxDamaged = 0
INVARIANT ExtractsOriginal
