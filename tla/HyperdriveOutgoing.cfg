SPECIFICATION SpecOutgoing
CONSTANTS
  a = a
  b = b
  Batches <- MCBatches
  MaximumBlocksBeforeSnapshot = 1
  MaxBlocks = 4
  MaxCrashes = 1
  MaxLeaves = 4
INVARIANTS
  NodesReadable
  SnapshotTimely
  ProofsVerify
  CaughtUp
CHECK_DEADLOCK FALSE
