--------------------------- MODULE MCFitsSchedule ---------------------------
(***************************************************************************)
(* Small schedules for TLC: up to three executions, with delays up to the  *)
(* length of an interval, times close enough to MaxTime to overflow.       *)
(***************************************************************************)
EXTENDS FitsSchedule

MCSchedules ==
  { s \in [duration : 1 .. 3, start_time : 0 .. 2, end_time : 1 .. 7,
           interval : 2 .. 4, max_start_delay : {0}] :
      WellFormed(s, MaxExecutions) }

MCDelays == {0, 1, 3}

=============================================================================
