SPECIFICATION SpecOutgoing
CONSTANTS
  a = a
  b = b
  Batches <- MCBatches
  MaximumBlocksBeforeSnapshot = 1
  MaxBlocks = 4
  MaxCrashes = 1
  MaxLeaves = 8
INVARIANT
  LimitedProofsVerify
CHECK_DEADLOCK FALSE
