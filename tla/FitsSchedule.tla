---------------------------- MODULE FitsSchedule ----------------------------
(***************************************************************************)
(* fits_schedule of the marketplace (pallets/marketplace/src/lib.rs): may  *)
(* a job with schedule `sched`, delayed by `delay`, be given to a          *)
(* processor that already has a job with schedule `other`, delayed by      *)
(* `otherDelay`?  The code merges the two ScheduleIter's in the order of   *)
(* the execution times and stops at the first execution that starts before *)
(* the previous one has ended.  One iteration of that try_fold is one step *)
(* here; itertools::merge is modelled by the smaller of the two heads.     *)
(* On the same schedules, Schedule::overlaps (common/src/types.rs) is      *)
(* compared with its meaning.                                              *)
(***************************************************************************)
EXTENDS Schedule

CONSTANTS Schedules,       \* the schedules explored
          Delays,          \* the start delays explored
          MaxExecutions    \* MAX_EXECUTIONS_PER_JOB

ASSUME FitsAssumption ==
  /\ Schedules \subseteq ScheduleType
  /\ Delays \subseteq Time
  /\ MaxExecutions \in Nat

VARIABLES sched, delay, other, otherDelay,   \* the arguments
          it, other_it,                      \* heads of the two iterators
          prev_end,                          \* accumulator of the try_fold
          result

vars == <<sched, delay, other, otherDelay, it, other_it, prev_end, result>>

args == <<sched, delay, other, otherDelay>>

Option == {<<>>} \cup { <<t>> : t \in Time }

Results == {"called", "merging", "fits", "overlap", "overflow"}

TypeOK ==
  /\ sched \in Schedules /\ other \in Schedules
  /\ delay \in Delays /\ otherDelay \in Delays
  /\ it \in Option /\ other_it \in Option
  /\ prev_end \in Time
  /\ result \in Results

-----------------------------------------------------------------------------
\* ScheduleIter::next called for the first time.
FirstStart(s, d) ==
  IF s.start_time + d < s.end_time + d THEN <<s.start_time + d>> ELSE <<>>

\* ScheduleIter::next after it has returned Some(t).
NextStart(s, d, t) ==
  IF t + s.interval <= MaxTime /\ t + s.interval < s.end_time + d
    THEN <<t + s.interval>>
    ELSE <<>>

\* The pair (start, end) of a head, None (which is less than every Some) when
\* the end does not fit: the head to take is the one of the iterator it, also
\* when the two are equal.
TakeFirst ==
  /\ it # <<>>
  /\ \/ other_it = <<>>
     \/ it[1] + sched.duration > MaxTime
     \/ /\ other_it # <<>>
        /\ other_it[1] + other.duration <= MaxTime
        /\ \/ it[1] < other_it[1]
           \/ it[1] = other_it[1] /\ sched.duration <= other.duration

Init ==
  /\ sched \in Schedules /\ WellFormed(sched, MaxExecutions)
  /\ other \in Schedules /\ WellFormed(other, MaxExecutions)
  /\ delay \in Delays /\ otherDelay \in Delays
  /\ it = <<>> /\ other_it = <<>> /\ prev_end = 0
  /\ result = "called"

\* The test on the whole periods, and the construction of the iterators.
Begin ==
  /\ result = "called"
  /\ IF \/ sched.start_time >= other.end_time
        \/ sched.end_time <= other.start_time
       THEN result' = "fits" /\ UNCHANGED <<it, other_it>>
       ELSE IF sched.end_time + delay > MaxTime \/ other.end_time + otherDelay > MaxTime
       THEN result' = "overflow" /\ UNCHANGED <<it, other_it>>
       ELSE /\ it' = FirstStart(sched, delay)
            /\ other_it' = FirstStart(other, otherDelay)
            /\ result' = "merging"
  /\ UNCHANGED <<args, prev_end>>

\* Plausible slips in that closure, each the mutant of a property: no overflow
\* check, an accumulator that keeps the start, a strict comparison.
VisitUnchecked(start, duration) ==
  IF prev_end > start
    THEN result' = "overlap" /\ UNCHANGED prev_end
    ELSE prev_end' = start + duration /\ UNCHANGED result

VisitKeepsStart(start, duration) ==
  IF start + duration > MaxTime THEN result' = "overflow" /\ UNCHANGED prev_end
  ELSE IF prev_end > start THEN result' = "overlap" /\ UNCHANGED prev_end
  ELSE prev_end' = start /\ UNCHANGED result

VisitStrict(start, duration) ==
  IF start + duration > MaxTime THEN result' = "overflow" /\ UNCHANGED prev_end
  ELSE IF prev_end >= start /\ prev_end > 0 THEN result' = "overlap" /\ UNCHANGED prev_end
  ELSE prev_end' = start + duration /\ UNCHANGED result

\* The closure of try_fold for an execution [start, start + duration).
Visit(start, duration) ==
  IF start + duration > MaxTime
    THEN result' = "overflow" /\ UNCHANGED prev_end
  ELSE IF prev_end > start
    THEN result' = "overlap" /\ UNCHANGED prev_end
  ELSE prev_end' = start + duration /\ UNCHANGED result

StepFirst ==
  /\ result = "merging" /\ TakeFirst
  /\ Visit(it[1], sched.duration)
  /\ it' = NextStart(sched, delay, it[1])
  /\ UNCHANGED <<args, other_it>>

StepSecond ==
  /\ result = "merging" /\ ~TakeFirst /\ other_it # <<>>
  /\ Visit(other_it[1], other.duration)
  /\ other_it' = NextStart(other, otherDelay, other_it[1])
  /\ UNCHANGED <<args, it>>

Finish ==
  /\ result = "merging" /\ it = <<>> /\ other_it = <<>>
  /\ result' = "fits"
  /\ UNCHANGED <<args, it, other_it, prev_end>>

Next == Begin \/ StepFirst \/ StepSecond \/ Finish

Spec == Init /\ [][Next]_vars

-----------------------------------------------------------------------------
(***************************************************************************)
(* Properties.                                                             *)
(***************************************************************************)

\* Two periods of time, start to end of the last execution without the delay.
PeriodsMeet ==
  sched.start_time < other.end_time /\ other.start_time < sched.end_time

\* fits_schedule: where the pre-check on the whole periods does not decide,
\* the merge accepts a job only if none of its executions runs at the same
\* time as one of the other job's ...
FitsIsSound ==
  result = "fits" /\ PeriodsMeet => Disjoint(sched, delay, other, otherDelay)

\* ... and rejects one only if two executions do collide, so that comparing
\* each execution with its predecessor alone misses nothing.
OverlapIsReal ==
  result = "overlap" => ~Disjoint(sched, delay, other, otherDelay)

\* Schedule::overlaps says of a period [a, b] whether an execution runs in it,
\* when the period is shorter than the interval and starts with or after the
\* first execution, or when it starts with it as the period report asks about:
\* folding it modulo the interval confuses no two executions, at either end
\* of the schedule and for any delay.
OverlapsExact ==
  result = "called" /\ range(sched, delay) # <<>> =>
    \A a, b \in Time :
      /\ a >= range(sched, delay)[1]
      /\ b - a < sched.interval \/ a = range(sched, delay)[1]
      => overlaps(sched, delay, a, b) = <<MeetsExecution(sched, delay, a, b)>>

\* What the documentation of propose_matching says: "The match fails if it
\* conflicts with the processor's schedule."
MatchFailsOnConflict ==
  result = "fits" => Disjoint(sched, delay, other, otherDelay)

=============================================================================
