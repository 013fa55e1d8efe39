SPECIFICATION Spec
CONSTANTS
  v1 = v1 v2 = v2
  Vesters = {v1, v2}
  None = None
  Stakes = {2, 3}
  Periods = {1, 2}
  Rewards = {5}
  Compounds = {1}
  MaximumLockingPeriod = 2
  DivestTolerance = 1
  BalanceUnit = 10
  MaxBlock = 3
  MaxStake = 3
  MaxTotalStake = 6
  MaxDistributed = 10
INVARIANT OnlyDistributedPaid
CHECK_DEADLOCK FALSE
