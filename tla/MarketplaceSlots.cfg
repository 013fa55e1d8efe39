SPECIFICATION Spec
CONSTANTS
  c1 = c1 r1 = r1 m1 = m1 p1 = p1 p2 = p2 pal = pal fees = fees hyp = hyp
  None = None
  Users = {c1, m1}
  Consumers = {c1}
  Matchers = {m1}
  Managers = {m1}
  Remote = {}
  Processors = {p1, p2}
  PalletAccount = pal
  FeeAccount = fees
  HyperdriveAccount = hyp
  JobRegistrations <- SlotJobs
  Advertisements <- SlotAds
  Delays = {0, 1}
  SourceLists = {{}, {p1}}
  Scores = {0}
  FeePercentage = 30
  MatcherPercentage = 50
  ReportTolerance = 1
  ExistentialDeposit = 1
  Endowment <- Endowments
  FirstManager <- FirstManagers
  Fickle = {p1}
  MaxSlots = 2
  MaxAllowedSources = 2
  MaxProposedMatches = 1
  MaxExecutions = 3
  MaxJobSeq = 1
  MaxAssigned = 1
  Horizon = 5
  MaxTime = 12
INVARIANTS
  IndexConsistent
  JobsConsistent
  SlotsAccounted
  BudgetCovers
PROPERTIES
  AgreementKept
CHECK_DEADLOCK FALSE
