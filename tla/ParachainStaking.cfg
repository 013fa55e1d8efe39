SPECIFICATION Spec
CONSTANTS
  None = None
  c1 = c1 c2 = c2 d1 = d1 d2 = d2 d3 = d3
  Collators = {c1, c2}
  Delegators = {d1, d2, d3}
  Amounts = {1, 2}
  Percents = {0}
  FreeBalances <- MCFree
  Factor <- MCFactor
  MinCandidateStk = 1
  MinDelegation = 1
  MinDelegatorStk = 1
  MaxDelegationsPerDelegator = 2
  MaxTopDelegationsPerCandidate = 1
  MaxBottomDelegationsPerCandidate = 1
  LeaveCandidatesDelay = 1
  CandidateBondLessDelay = 1
  LeaveDelegatorsDelay = 1
  RevokeDelegationDelay = 1
  MaxRound = 2
INVARIANTS
  BooksAgree
  BooksOrdered
  PoolIsCurrent
  LocksMatch
  RequestsMatch
PROPERTIES
  TotalFollowsLocks
SYMMETRY Symmetry
CHECK_DEADLOCK FALSE
