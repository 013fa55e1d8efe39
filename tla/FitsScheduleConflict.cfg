SPECIFICATION Spec
CONSTANTS
  MaxTime = 9
  MaxExecutions = 3
  Schedules <- MCSchedules
  Delays <- MCDelays
INVARIANT MatchFailsOnConflict
CHECK_DEADLOCK FALSE
