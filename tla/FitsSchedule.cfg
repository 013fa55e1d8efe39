SPECIFICATION Spec
CONSTANTS
  MaxTime = 10
  MaxExecutions = 3
  Schedules <- MCSchedules
  Delays <- MCDelays
INVARIANTS
  TypeOK
  FitsIsSound
  OverlapIsReal
  OverlapsExact
CHECK_DEADLOCK FALSE
