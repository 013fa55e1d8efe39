SPECIFICATION SpecRewards
CONSTANTS
  None = None
  c1 = c1 c2 = c2 d1 = d1 d2 = d2
  Collators = {c1, c2}
  Delegators = {d1}
  Amounts = {1}
  Percents = {0, 50}
  FreeBalances <- MCFree
  Factor <- MCFactor
  MinCandidateStk = 1
  MinDelegation = 1
  MinDelegatorStk = 1
  MaxDelegationsPerDelegator = 2
  MaxTopDelegationsPerCandidate = 1
  MaxBottomDelegationsPerCandidate = 1
  LeaveCandidatesDelay = 1
  CandidateBondLessDelay = 1
  LeaveDelegatorsDelay = 1
  RevokeDelegationDelay = 1
  MaxRound = 4
  GenesisBonds <- MCGenesisBonds
  GenesisDelegations <- MCGenesisDelegations
  Lengths = {2, 3}
  Selections = {1, 2}
  Rates = {40, 60}
  GenesisCommission = 40
  GenesisReservePercent = 40
  Issuances = {7}
  RewardPaymentDelay = 1
  MinBlocksPerRound = 2
  MinSelectedCandidates = 1
  Accuracy = 100
  MaxCalls = 2
INVARIANTS
  PaidInFull
  SharesAddUp
  PaidWithinIssuance
CHECK_DEADLOCK FALSE
