SPECIFICATION Spec
CONSTANTS
  u1 = u1
  u2 = u2
  p1 = p1
  p2 = p2
  Accounts <- MCAccounts
  Requests <- MCRequests
  Inbox <- MCInbox
  MaxJobs = 2
  MaxBlock = 4
  MaxRoots = 1
  MaxFulfills = 1
  Durations = {0, 1}
  Wrap = 64
  MaxLeaves = 3
INVARIANTS
  SentProvable
  AssignedOnce
CHECK_DEADLOCK FALSE
