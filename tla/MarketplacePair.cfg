SPECIFICATION FairSpec
CONSTANTS
  c1 = c1 r1 = r1 m1 = m1 p1 = p1 p2 = p2 pal = pal fees = fees hyp = hyp
  None = None
  Users = {c1, m1}
  Consumers = {c1}
  Matchers = {m1}
  Managers = {m1}
  Remote = {r1}
  Processors = {p1}
  PalletAccount = pal
  FeeAccount = fees
  HyperdriveAccount = hyp
  JobRegistrations <- PairJobs
  Advertisements <- PairAds
  Delays = {0, 1}
  SourceLists = {}
  Scores = {1}
  FeePercentage = 40
  MatcherPercentage = 50
  ReportTolerance = 1
  ExistentialDeposit = 1
  Endowment <- Endowments
  FirstManager <- FirstManagers
  Fickle = {p1}
  MaxSlots = 1
  MaxAllowedSources = 1
  MaxProposedMatches = 2
  MaxExecutions = 2
  MaxJobSeq = 1
  MaxAssigned = 2
  Horizon = 4
  MaxTime = 12
INVARIANTS
  TypeOK
  OpenJobFunded
  PalletSolvent
  CapacityAccounted
  SchedulesCompatible
  RefundPossible
PROPERTIES
  ImplementsEscrow
  MatchedJobsCanEnd
CHECK_DEADLOCK FALSE
