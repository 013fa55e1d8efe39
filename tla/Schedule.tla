------------------------------ MODULE Schedule ------------------------------
(***************************************************************************)
(* The execution schedule of a job (pallets/acurast/common/src/types.rs):  *)
(* how many executions it has, when they start, the period they span, and  *)
(* whether a period of time meets one of them.                             *)
(*                                                                         *)
(* The code computes with u64 and the checked_* operations; a result that  *)
(* does not fit is None.  Here MaxTime is u64::MAX, None is <<>>, and      *)
(* Some(v) is a non-empty tuple.                                           *)
(***************************************************************************)
EXTENDS Integers, Sequences

CONSTANT MaxTime    \* u64::MAX; small in the model-checked instances

ASSUME MaxTimeAssumption == MaxTime \in Nat

Time == 0 .. MaxTime

ScheduleType ==
  [duration : Time, start_time : Time, end_time : Time,
   interval : Time, max_start_delay : Time]

\* Schedule::execution_count: 0 if the period is empty or the interval is 0.
execution_count(s) ==
  IF s.start_time < s.end_time /\ s.interval > 0
    THEN (s.end_time - s.start_time - 1) \div s.interval + 1
    ELSE 0

\* Schedule::range: from the start of the first execution to the end of the
\* last one, all of them delayed by d.
range(s, d) ==
  LET start == s.start_time + d
      count == execution_count(s)
      end   == IF count > 0 THEN start + (count - 1) * s.interval + s.duration
                            ELSE start
  IN  IF end <= MaxTime THEN <<start, end>> ELSE <<>>

\* Mutant of overlaps: no case for a remainder 0 at the end of the query.
overlapsNoWrap(s, d, a, b) ==
  LET r     == range(s, d)
      start == r[1]
      modA  == (IF a >= start THEN a - start ELSE start) % s.interval
      modB  == (b - start) % s.interval
  IN  CASE r = <<>> -> <<>>
        [] r # <<>> /\ (b <= a \/ start = r[2] \/ b <= start \/ r[2] <= a) -> <<FALSE>>
        [] OTHER -> << modB < modA \/ modA < s.duration \/ modB - modA >= s.interval >>

\* Schedule::overlaps, as coded: the query [a, b] is folded into one interval.
overlaps(s, d, a, b) ==
  LET r     == range(s, d)
      start == r[1]
      end   == r[2]
      relA  == IF a >= start THEN a - start ELSE start
      modA  == relA % s.interval
      modB  == IF (b - start) % s.interval = 0 THEN s.interval
                                               ELSE (b - start) % s.interval
  IN  CASE r = <<>> -> <<>>
        [] r # <<>> /\ (b <= a \/ start = end \/ b <= start \/ end <= a) -> <<FALSE>>
        [] OTHER -> << modB < modA \/ modA < s.duration \/ modB - modA >= s.interval >>

-----------------------------------------------------------------------------
(***************************************************************************)
(* What the three operations are about: the executions themselves.  The    *)
(* k-th execution of a slot occupies [t, t + duration) with t below.       *)
(***************************************************************************)
Executions(s, d) ==
  { s.start_time + d + k * s.interval : k \in 0 .. execution_count(s) - 1 }

\* Some execution of the slot is running at some time of [a, b).
MeetsExecution(s, d, a, b) ==
  a < b /\ \E t \in Executions(s, d) : t < b /\ a < t + s.duration

\* No execution of one slot runs at the same time as one of the other.
Disjoint(s, d, o, e) ==
  \A t \in Executions(s, d), u \in Executions(o, e) :
    t + s.duration <= u \/ u + o.duration <= t

\* The schedules that register_hook lets into the chain.
WellFormed(s, maxExecutions) ==
  /\ s.duration > 0
  /\ execution_count(s) \in 1 .. maxExecutions
  /\ s.duration < s.interval
  /\ s.start_time <= s.end_time

=============================================================================
