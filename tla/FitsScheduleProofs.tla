------------------------- MODULE FitsScheduleProofs -------------------------
(***************************************************************************)
(* fits_schedule and Schedule::overlaps for all schedules, delays and      *)
(* widths of the integers: the types, what the merge of the two iterators  *)
(* has established so far, and that folding a period modulo the interval   *)
(* is exact.                                                               *)
(***************************************************************************)
EXTENDS FitsSchedule, SumsProofs, TLAPS

\* What ScheduleIter::next returns is an Option of a time.
LEMMA NextStartType ==
  ASSUME NEW s \in ScheduleType, NEW d \in Time, NEW t \in Time
  PROVE  NextStart(s, d, t) \in Option
BY MaxTimeAssumption DEF NextStart, Option, Time, ScheduleType

\* Type correctness of fits_schedule: no head, accumulator or verdict leaves its range.
THEOREM TypeCorrect == Spec => []TypeOK
<1>1. Init => TypeOK
  BY MaxTimeAssumption, FitsAssumption DEF Init, TypeOK, Option, Results, Time
<1>2. TypeOK /\ [Next]_vars => TypeOK'
  <2> SUFFICES ASSUME TypeOK, [Next]_vars PROVE TypeOK'
    OBVIOUS
  <2>0. /\ sched \in ScheduleType /\ other \in ScheduleType
        /\ delay \in Time /\ otherDelay \in Time
    BY FitsAssumption DEF TypeOK
  <2>1. CASE Begin
    BY <2>1, <2>0, MaxTimeAssumption
    DEF Begin, FirstStart, args, TypeOK, Option, Results, Time, ScheduleType
  <2>2. CASE StepFirst
    <3>1. PICK t \in Time : it = <<t>>
      BY <2>2 DEF StepFirst, TakeFirst, TypeOK, Option
    <3>2. it' \in Option
      BY <2>2, <2>0, <3>1, NextStartType DEF StepFirst
    <3>3. Visit(t, sched.duration)
      BY <2>2, <3>1 DEF StepFirst
    <3>4. prev_end' \in Time /\ result' \in Results
      BY <3>3, <2>0, MaxTimeAssumption DEF Visit, TypeOK, Results, Time, ScheduleType
    <3> QED
      BY <2>2, <3>2, <3>4 DEF StepFirst, TypeOK, args
  <2>3. CASE StepSecond
    <3>1. PICK t \in Time : other_it = <<t>>
      BY <2>3 DEF StepSecond, TypeOK, Option
    <3>2. other_it' \in Option
      BY <2>3, <2>0, <3>1, NextStartType DEF StepSecond
    <3>3. Visit(t, other.duration)
      BY <2>3, <3>1 DEF StepSecond
    <3>4. prev_end' \in Time /\ result' \in Results
      BY <3>3, <2>0, MaxTimeAssumption DEF Visit, TypeOK, Results, Time, ScheduleType
    <3> QED
      BY <2>3, <3>2, <3>4 DEF StepSecond, TypeOK, args
  <2>4. CASE Finish
    BY <2>4 DEF Finish, args, TypeOK, Results
  <2>5. CASE UNCHANGED vars
    BY <2>5 DEF vars, TypeOK
  <2> QED
    BY <2>1, <2>2, <2>3, <2>4, <2>5 DEF Next
<1> QED
  BY <1>1, <1>2, PTL DEF Spec

-----------------------------------------------------------------------------
(***************************************************************************)
(* The executions of a schedule.  The count is rounded up by a division;   *)
(* these are the facts about it in which only sums are left.               *)
(***************************************************************************)
\* A product is monotone and grows by one factor at a time.
LEMMA MulStep ==
  ASSUME NEW k \in Nat, NEW n \in Nat, NEW i \in Nat
  PROVE  /\ k * i \in Nat /\ (k + 1) * i = k * i + i
         /\ k <= n => k * i <= n * i
         /\ k < n => k * i + i <= n * i
<1>1. k * i \in Nat /\ n * i \in Nat /\ (k + 1) * i = k * i + i
  BY MulNat
<1>2. ASSUME NEW a \in Nat, NEW b \in Nat, a <= b
      PROVE  a * i <= b * i
  BY <1>2, MulMono
<1>3. k < n => (k + 1) * i <= n * i
  BY <1>2
<1> QED BY <1>1, <1>2, <1>3

\* A division and its remainder.
LEMMA DivFacts ==
  ASSUME NEW a \in Nat, NEW b \in Nat \ {0}
  PROVE  a \div b \in Nat /\ a % b \in 0 .. (b - 1) /\ a = b * (a \div b) + (a % b)
OBVIOUS

\* The k-th execution starts in the period of the schedule, the one after the
\* last does not.
LEMMA CountFacts ==
  ASSUME NEW s \in ScheduleType, WellFormed(s, MaxExecutions)
  PROVE  LET n == execution_count(s)
             length == s.end_time - s.start_time
         IN  /\ n \in Nat \ {0} /\ s.interval \in Nat \ {0} /\ length \in Nat \ {0}
             /\ (n - 1) * s.interval < length /\ length <= n * s.interval
<1> DEFINE i == s.interval
           length == s.end_time - s.start_time
           q == (length - 1) \div i
           r == (length - 1) % i
<1>1. /\ i \in Nat /\ s.start_time \in Nat /\ s.end_time \in Nat
  BY MaxTimeAssumption DEF ScheduleType, Time
<1>2. /\ s.start_time < s.end_time /\ i > 0 /\ execution_count(s) = q + 1
  BY <1>1 DEF WellFormed, execution_count
<1>3. length \in Nat \ {0} /\ i \in Nat \ {0}
  BY <1>1, <1>2
<1> HIDE DEF length
<1>4. length - 1 \in Nat
  BY <1>3
<1>5. q \in Nat /\ r \in 0 .. (i - 1) /\ length - 1 = i * q + r
  BY <1>3, <1>4, DivFacts
<1> HIDE DEF i, q, r
<1>6. q * i \in Nat /\ (q + 1) * i = q * i + i /\ i * q = q * i
  BY <1>3, <1>5, MulStep
<1>7. q * i < length /\ length <= (q + 1) * i
  BY <1>3, <1>5, <1>6
<1>8. (q + 1) - 1 = q /\ q + 1 \in Nat \ {0}
  BY <1>5
<1> QED BY <1>2, <1>3, <1>7, <1>8 DEF i, length

\* The executions start with the delayed start, lie before the delayed end,
\* follow each other at the interval, and stop only at the end.
LEMMA ExecutionFacts ==
  ASSUME NEW s \in ScheduleType, WellFormed(s, MaxExecutions), NEW d \in Time
  PROVE  /\ s.start_time + d \in Executions(s, d)
         /\ \A t \in Executions(s, d) :
              /\ t \in Nat /\ s.start_time + d <= t /\ t < s.end_time + d
              /\ t + s.interval < s.end_time + d => t + s.interval \in Executions(s, d)
         /\ \A t, u \in Executions(s, d) : t < u => t + s.interval <= u
<1> DEFINE n == execution_count(s)
           i == s.interval
           start == s.start_time + d
           length == s.end_time - s.start_time
<1>1. /\ n \in Nat \ {0} /\ i \in Nat \ {0} /\ length \in Nat \ {0}
      /\ (n - 1) * i < length /\ length <= n * i
  BY CountFacts
<1>2. /\ start \in Nat /\ s.end_time + d = start + length
  BY MaxTimeAssumption DEF ScheduleType, Time
<1>3. Executions(s, d) = { start + k * i : k \in 0 .. n - 1 }
  BY DEF Executions
<1> HIDE DEF n, i, start, length
<1>4. start \in Executions(s, d)
  <2>1. 0 \in 0 .. n - 1 /\ start = start + 0 * i
    BY <1>1, <1>2
  <2> QED BY <1>3, <2>1
<1>5. ASSUME NEW t \in Executions(s, d)
      PROVE  /\ t \in Nat /\ start <= t /\ t < start + length
             /\ t + i < start + length => t + i \in Executions(s, d)
  <2>1. PICK k \in 0 .. n - 1 : t = start + k * i
    BY <1>3
  <2>2. k \in Nat /\ k <= n - 1 /\ n - 1 \in Nat /\ n \in Nat /\ i \in Nat
    BY <1>1
  <2>3. /\ k * i \in Nat /\ (k + 1) * i = k * i + i
        /\ k * i <= (n - 1) * i /\ (n - 1) * i \in Nat
    BY <2>2, MulStep
  <2>4. t \in Nat /\ start <= t /\ t < start + length
    BY <1>1, <1>2, <2>1, <2>3
  <2>5. ASSUME t + i < start + length PROVE t + i \in Executions(s, d)
    <3>1. k * i + i < length
      BY <1>1, <1>2, <2>1, <2>3, <2>5
    <3>2. n <= k + 1 => n * i <= k * i + i
      <4>1. k + 1 \in Nat
        BY <2>2
      <4>2. n <= k + 1 => n * i <= (k + 1) * i
        BY <2>2, <4>1, MulStep
      <4> QED BY <2>3, <4>2
    <3>3. n * i \in Nat
      BY <2>2, MulStep
    <3>4. k + 1 \in 0 .. n - 1
      BY <1>1, <2>2, <2>3, <3>1, <3>2, <3>3
    <3>5. t + i = start + (k + 1) * i
      BY <1>1, <1>2, <2>1, <2>3
    <3> QED BY <1>3, <3>4, <3>5
  <2> QED BY <2>4, <2>5
<1>6. ASSUME NEW t \in Executions(s, d), NEW u \in Executions(s, d), t < u
      PROVE  t + i <= u
  <2>1. PICK k \in 0 .. n - 1 : t = start + k * i
    BY <1>3
  <2>2. PICK l \in 0 .. n - 1 : u = start + l * i
    BY <1>3
  <2>3. k \in Nat /\ l \in Nat /\ i \in Nat
    BY <1>1
  <2>4. k * i \in Nat /\ l * i \in Nat
    BY <2>3, MulStep
  <2>5. (l <= k => l * i <= k * i) /\ (k < l => k * i + i <= l * i)
    BY <2>3, MulStep
  <2> QED BY <1>2, <1>6, <2>1, <2>2, <2>3, <2>4, <2>5
<1> QED BY <1>2, <1>4, <1>5, <1>6 DEF i, start

-----------------------------------------------------------------------------
(***************************************************************************)
(* The merge.  The executions an iterator has passed are those before its  *)
(* head.  The merge keeps: the passed executions of the two schedules are  *)
(* apart; prev_end is the end of the latest of them; and none of them      *)
(* starts after a head, which is what makes the comparison with prev_end   *)
(* alone sufficient, and a failing comparison a real collision.            *)
(***************************************************************************)
Passed(s, d, head) == { t \in Executions(s, d) : head = <<>> \/ t < head[1] }

HeadOf(s, d, head) == head = <<>> \/ \E t \in Executions(s, d) : head = <<t>>

\* The merge of the executions of s, at h, and of o, at g.
Merging(s, d, h, o, e, g, end) ==
  /\ HeadOf(s, d, h) /\ HeadOf(o, e, g)
  /\ \A t \in Passed(s, d, h), u \in Passed(o, e, g) :
       t + s.duration <= u \/ u + o.duration <= t
  /\ \A t \in Passed(s, d, h) : t + s.duration <= end /\ (g = <<>> \/ t <= g[1])
  /\ \A u \in Passed(o, e, g) : u + o.duration <= end /\ (h = <<>> \/ u <= h[1])
  /\ \/ end = 0
     \/ \E t \in Passed(s, d, h) : end = t + s.duration
     \/ \E u \in Passed(o, e, g) : end = u + o.duration

\* The two schedules play the same part.
LEMMA MergingSymmetric ==
  ASSUME NEW s, NEW d, NEW h, NEW o, NEW e, NEW g, NEW end, Merging(s, d, h, o, e, g, end)
  PROVE  Merging(o, e, g, s, d, h, end)
BY DEF Merging

\* ScheduleIter::next returns the first execution, ...
LEMMA FirstHead ==
  ASSUME NEW s \in ScheduleType, WellFormed(s, MaxExecutions), NEW d \in Time
  PROVE  HeadOf(s, d, FirstStart(s, d)) /\ Passed(s, d, FirstStart(s, d)) = {}
<1> DEFINE start == s.start_time + d
<1>1. /\ start \in Executions(s, d)
      /\ \A t \in Executions(s, d) : t \in Nat /\ start <= t /\ t < s.end_time + d
  BY ExecutionFacts
<1>2. start \in Nat /\ start < s.end_time + d
  BY <1>1
<1>3. FirstStart(s, d) = <<start>>
  BY <1>2 DEF FirstStart
<1>4. FirstStart(s, d)[1] = start /\ FirstStart(s, d) # <<>>
  BY <1>3
<1> HIDE DEF start
<1>5. HeadOf(s, d, FirstStart(s, d))
  BY <1>1, <1>3 DEF HeadOf
<1>6. \A t \in Executions(s, d) : ~(t < start)
  BY <1>1, <1>2
<1>7. Passed(s, d, FirstStart(s, d)) = {}
  BY <1>4, <1>6 DEF Passed
<1> QED BY <1>5, <1>7

\* ... and then the one after the last it has returned.
LEMMA NextHead ==
  ASSUME NEW s \in ScheduleType, WellFormed(s, MaxExecutions), NEW d \in Time,
         s.end_time + d <= MaxTime, NEW t \in Executions(s, d)
  PROVE  LET next == NextStart(s, d, t)
         IN  /\ HeadOf(s, d, next)
             /\ Passed(s, d, next) = Passed(s, d, <<t>>) \cup {t}
             /\ next = <<>> \/ t <= next[1]
<1>1. /\ t \in Nat /\ t < s.end_time + d
      /\ t + s.interval < s.end_time + d => t + s.interval \in Executions(s, d)
      /\ \A u \in Executions(s, d) : u \in Nat /\ u < s.end_time + d
      /\ \A u, v \in Executions(s, d) : u < v => u + s.interval <= v
  BY ExecutionFacts
<1>2. s.interval \in Nat /\ s.interval > 0 /\ s.end_time + d \in Nat /\ MaxTime \in Nat
  BY MaxTimeAssumption DEF WellFormed, ScheduleType, Time
<1>3. CASE t + s.interval < s.end_time + d
  <2>1. NextStart(s, d, t) = <<t + s.interval>>
    BY <1>1, <1>2, <1>3 DEF NextStart
  <2>2. \A u \in Executions(s, d) : u < t + s.interval <=> u < t \/ u = t
    BY <1>1, <1>2
  <2>3. NextStart(s, d, t)[1] = t + s.interval /\ NextStart(s, d, t) # <<>>
    BY <2>1
  <2>4. HeadOf(s, d, NextStart(s, d, t))
    BY <1>1, <1>3, <2>1 DEF HeadOf
  <2>5. Passed(s, d, NextStart(s, d, t)) = { u \in Executions(s, d) : u < t \/ u = t }
    BY <2>2, <2>3 DEF Passed
  <2>6. Passed(s, d, <<t>>) = { u \in Executions(s, d) : u < t }
    BY DEF Passed
  <2>7. t <= NextStart(s, d, t)[1]
    BY <1>1, <1>2, <2>3
  <2> QED BY <2>4, <2>5, <2>6, <2>7
<1>4. CASE ~(t + s.interval < s.end_time + d)
  <2>1. NextStart(s, d, t) = <<>>
    BY <1>4 DEF NextStart
  <2>2. \A u \in Executions(s, d) : u < t \/ u = t
    BY <1>1, <1>2, <1>4
  <2> QED BY <2>1, <2>2 DEF HeadOf, Passed
<1> QED BY <1>3, <1>4

\* Visiting an execution that starts no earlier than the last one has ended.
LEMMA MergingStep ==
  ASSUME NEW s \in ScheduleType, WellFormed(s, MaxExecutions), NEW d \in Time,
         s.end_time + d <= MaxTime,
         NEW o \in ScheduleType, WellFormed(o, MaxExecutions), NEW e \in Time,
         NEW g, NEW end \in Nat, NEW t \in Executions(s, d),
         Merging(s, d, <<t>>, o, e, g, end), g = <<>> \/ t <= g[1], end <= t
  PROVE  Merging(s, d, NextStart(s, d, t), o, e, g, t + s.duration)
<1> DEFINE next == NextStart(s, d, t)
           P == Passed(s, d, <<t>>)
           Q == Passed(o, e, g)
<1>1. /\ HeadOf(s, d, next) /\ Passed(s, d, next) = P \cup {t}
      /\ next = <<>> \/ t <= next[1]
  BY NextHead
<1>2. t \in Nat /\ s.duration \in Nat /\ o.duration \in Nat
  <2>1. t \in Nat
    BY ExecutionFacts
  <2> QED BY <2>1, MaxTimeAssumption DEF ScheduleType, Time
<1>3. (\A x \in P : x \in Nat) /\ (\A u \in Q : u \in Nat)
  BY ExecutionFacts DEF Passed
<1>4. next = <<>> \/ next[1] \in Nat
  <2>1. ASSUME NEW x \in Executions(s, d), next = <<x>> PROVE next[1] \in Nat
    <3>1. x \in Nat
      BY ExecutionFacts
    <3> HIDE DEF next
    <3> QED BY <2>1, <3>1
  <2> QED BY <1>1, <2>1 DEF HeadOf
<1>5. /\ HeadOf(o, e, g)
      /\ \A x \in P, u \in Q : x + s.duration <= u \/ u + o.duration <= x
      /\ \A x \in P : x + s.duration <= end /\ (g = <<>> \/ x <= g[1])
      /\ \A u \in Q : u + o.duration <= end /\ u <= t
  BY DEF Merging
<1> HIDE DEF next, P, Q
<1>6. \A x \in P \cup {t}, u \in Q : x + s.duration <= u \/ u + o.duration <= x
  BY <1>2, <1>3, <1>5
<1>7. \A x \in P \cup {t} : x + s.duration <= t + s.duration /\ (g = <<>> \/ x <= g[1])
  BY <1>2, <1>3, <1>5
<1>8. \A u \in Q : u + o.duration <= t + s.duration /\ (next = <<>> \/ u <= next[1])
  BY <1>1, <1>2, <1>3, <1>4, <1>5
<1> QED BY <1>1, <1>5, <1>6, <1>7, <1>8 DEF Merging, next, Q

\* One that starts before it collides with an execution of the other schedule.
LEMMA MergingClash ==
  ASSUME NEW s \in ScheduleType, WellFormed(s, MaxExecutions), NEW d \in Time,
         NEW o \in ScheduleType, NEW e \in Time, WellFormed(o, MaxExecutions),
         NEW g, NEW end \in Nat, NEW t \in Executions(s, d),
         Merging(s, d, <<t>>, o, e, g, end), end > t
  PROVE  ~Disjoint(s, d, o, e)
<1>1. /\ t \in Nat /\ s.duration \in Nat /\ o.duration \in Nat /\ s.interval \in Nat
      /\ s.duration > 0 /\ s.duration < s.interval
  BY ExecutionFacts, MaxTimeAssumption DEF ScheduleType, Time, WellFormed
<1>2. ~ \E x \in Passed(s, d, <<t>>) : end = x + s.duration
  <2> SUFFICES ASSUME NEW x \in Executions(s, d), x < t, end = x + s.duration
               PROVE  FALSE
    BY DEF Passed
  <2>1. x \in Nat /\ x + s.interval <= t
    BY ExecutionFacts
  <2> QED BY <1>1, <2>1
<1>3. PICK u \in Passed(o, e, g) : end = u + o.duration
  BY <1>1, <1>2 DEF Merging
<1>4. u \in Executions(o, e) /\ u \in Nat /\ u <= t
  BY <1>3, ExecutionFacts DEF Passed, Merging
<1>5. ~(t + s.duration <= u \/ u + o.duration <= t)
  BY <1>1, <1>3, <1>4
<1> QED BY <1>4, <1>5 DEF Disjoint

\* What the arguments have in common, and what the merge keeps of them.
MergeInv ==
  /\ TypeOK
  /\ WellFormed(sched, MaxExecutions) /\ WellFormed(other, MaxExecutions)
  /\ result = "called" => prev_end = 0
  /\ result = "merging" =>
       /\ sched.end_time + delay <= MaxTime /\ other.end_time + otherDelay <= MaxTime
       /\ Merging(sched, delay, it, other, otherDelay, other_it, prev_end)
  /\ FitsIsSound /\ OverlapIsReal

\* Before the first execution nothing is passed.
LEMMA MergeBegins ==
  ASSUME MergeInv, Begin, TypeOK'
  PROVE  MergeInv'
<1>1. /\ sched \in ScheduleType /\ other \in ScheduleType /\ delay \in Time /\ otherDelay \in Time
      /\ WellFormed(sched, MaxExecutions) /\ WellFormed(other, MaxExecutions)
      /\ prev_end \in Time
  BY FitsAssumption DEF MergeInv, TypeOK
<1>2. UNCHANGED <<sched, other, delay, otherDelay, prev_end>>
  BY DEF Begin, args
<1>3. CASE sched.start_time >= other.end_time \/ sched.end_time <= other.start_time
  <2>1. result' = "fits"
    BY <1>3 DEF Begin
  <2>2. ~PeriodsMeet'
    <3>1. /\ sched.start_time \in Int /\ sched.end_time \in Int
          /\ other.start_time \in Int /\ other.end_time \in Int
      BY <1>1, MaxTimeAssumption DEF ScheduleType, Time
    <3> QED BY <1>2, <1>3, <3>1 DEF PeriodsMeet
  <2> QED BY <1>1, <1>2, <2>1, <2>2 DEF MergeInv, FitsIsSound, OverlapIsReal
<1>4. CASE /\ ~(sched.start_time >= other.end_time \/ sched.end_time <= other.start_time)
           /\ sched.end_time + delay > MaxTime \/ other.end_time + otherDelay > MaxTime
  <2>1. result' = "overflow"
    BY <1>4 DEF Begin
  <2> QED BY <1>1, <1>2, <2>1 DEF MergeInv, FitsIsSound, OverlapIsReal
<1>5. CASE /\ ~(sched.start_time >= other.end_time \/ sched.end_time <= other.start_time)
           /\ ~(sched.end_time + delay > MaxTime \/ other.end_time + otherDelay > MaxTime)
  <2>1. /\ it' = FirstStart(sched, delay) /\ other_it' = FirstStart(other, otherDelay)
        /\ result' = "merging"
    BY <1>5 DEF Begin
  <2>2. /\ HeadOf(sched, delay, it') /\ Passed(sched, delay, it') = {}
        /\ HeadOf(other, otherDelay, other_it') /\ Passed(other, otherDelay, other_it') = {}
    BY <1>1, <2>1, FirstHead
  <2>3. sched.end_time + delay <= MaxTime /\ other.end_time + otherDelay <= MaxTime
    BY <1>1, <1>5, MaxTimeAssumption DEF ScheduleType, Time
  <2>4. prev_end = 0
    BY DEF MergeInv, Begin
  <2>5. Merging(sched, delay, it', other, otherDelay, other_it', prev_end)
    BY <2>2, <2>4 DEF Merging
  <2> QED BY <1>1, <1>2, <2>1, <2>3, <2>5 DEF MergeInv, FitsIsSound, OverlapIsReal
<1> QED BY <1>3, <1>4, <1>5

\* Visiting an execution t of s, with o at g: the verdict is right, and the
\* merge goes on only if nothing overflows.
LEMMA MergeVisit ==
  ASSUME NEW s \in ScheduleType, WellFormed(s, MaxExecutions), NEW d \in Time,
         s.end_time + d <= MaxTime,
         NEW o \in ScheduleType, WellFormed(o, MaxExecutions), NEW e \in Time,
         NEW h, NEW g, h # <<>>, prev_end \in Time, result = "merging",
         Merging(s, d, h, o, e, g, prev_end),
         h[1] + s.duration <= MaxTime => g = <<>> \/ h[1] <= g[1],
         Visit(h[1], s.duration)
  PROVE  /\ result' \in {"merging", "overlap", "overflow"}
         /\ result' = "merging" => Merging(s, d, NextStart(s, d, h[1]), o, e, g, prev_end')
         /\ result' = "overlap" => ~Disjoint(s, d, o, e)
<1>1. PICK t \in Executions(s, d) : h = <<t>>
  BY DEF Merging, HeadOf
<1>2. h[1] = t /\ prev_end \in Nat
  BY <1>1, MaxTimeAssumption DEF Time
<1>3. t \in Nat
  BY ExecutionFacts
<1>4. s.duration \in Nat /\ MaxTime \in Nat
  BY MaxTimeAssumption DEF ScheduleType, Time
<1>5. CASE t + s.duration > MaxTime
  BY <1>2, <1>5 DEF Visit
<1>6. CASE t + s.duration <= MaxTime /\ prev_end > t
  <2>1. result' = "overlap"
    BY <1>2, <1>3, <1>4, <1>6 DEF Visit
  <2>2. ~Disjoint(s, d, o, e)
    BY <1>1, <1>2, <1>6, MergingClash
  <2> QED BY <2>1, <2>2
<1>7. CASE t + s.duration <= MaxTime /\ prev_end <= t
  <2>1. result' = result /\ prev_end' = t + s.duration
    BY <1>2, <1>3, <1>4, <1>7 DEF Visit
  <2>2. Merging(s, d, NextStart(s, d, t), o, e, g, t + s.duration)
    BY <1>1, <1>2, <1>7, MergingStep
  <2> QED BY <1>2, <2>1, <2>2
<1> QED BY <1>2, <1>3, <1>4, <1>5, <1>6, <1>7

\* A step of the fold takes the smaller head, so that it visits in order.
LEMMA MergeGoesOn ==
  ASSUME MergeInv, StepFirst \/ StepSecond, TypeOK'
  PROVE  MergeInv'
<1>1. /\ sched \in ScheduleType /\ other \in ScheduleType /\ delay \in Time /\ otherDelay \in Time
      /\ WellFormed(sched, MaxExecutions) /\ WellFormed(other, MaxExecutions)
      /\ prev_end \in Time /\ it \in Option /\ other_it \in Option
  BY FitsAssumption DEF MergeInv, TypeOK
<1>2. UNCHANGED <<sched, other, delay, otherDelay>> /\ result = "merging"
  BY DEF StepFirst, StepSecond, args
<1>3. /\ sched.end_time + delay <= MaxTime /\ other.end_time + otherDelay <= MaxTime
      /\ Merging(sched, delay, it, other, otherDelay, other_it, prev_end)
  BY <1>2 DEF MergeInv
<1>4. /\ it # <<>> => it[1] \in Nat
      /\ other_it # <<>> => other_it[1] \in Nat
      /\ sched.duration \in Nat /\ other.duration \in Nat /\ MaxTime \in Nat
  BY <1>1, MaxTimeAssumption DEF Option, Time, ScheduleType
<1>5. SUFFICES /\ result' \in {"merging", "overlap", "overflow"}
               /\ result' = "merging" =>
                    Merging(sched, delay, it', other, otherDelay, other_it', prev_end')
               /\ result' = "overlap" => ~Disjoint(sched, delay, other, otherDelay)
  BY <1>1, <1>2, <1>3, <1>5 DEF MergeInv, FitsIsSound, OverlapIsReal
<1>6. CASE StepFirst
  <2>1. /\ TakeFirst /\ it # <<>> /\ Visit(it[1], sched.duration)
        /\ it' = NextStart(sched, delay, it[1]) /\ other_it' = other_it
    BY <1>6 DEF StepFirst, TakeFirst
  <2>2. it[1] + sched.duration <= MaxTime => other_it = <<>> \/ it[1] <= other_it[1]
    BY <1>4, <2>1 DEF TakeFirst
  <2> QED BY <1>1, <1>2, <1>3, <2>1, <2>2, MergeVisit
<1>7. CASE StepSecond
  <2>1. /\ ~TakeFirst /\ other_it # <<>> /\ Visit(other_it[1], other.duration)
        /\ other_it' = NextStart(other, otherDelay, other_it[1]) /\ it' = it
    BY <1>7 DEF StepSecond
  <2>2. other_it[1] + other.duration <= MaxTime => it = <<>> \/ other_it[1] <= it[1]
    BY <1>4, <2>1 DEF TakeFirst
  <2>3. Merging(other, otherDelay, other_it, sched, delay, it, prev_end)
    BY <1>3, MergingSymmetric
  <2>4. /\ result' \in {"merging", "overlap", "overflow"}
        /\ result' = "merging" =>
             Merging(other, otherDelay, other_it', sched, delay, it, prev_end')
        /\ result' = "overlap" => ~Disjoint(other, otherDelay, sched, delay)
    BY <1>1, <1>2, <1>3, <2>1, <2>2, <2>3, MergeVisit
  <2>5. Disjoint(sched, delay, other, otherDelay) => Disjoint(other, otherDelay, sched, delay)
    BY DEF Disjoint
  <2> QED BY <2>1, <2>4, <2>5, MergingSymmetric
<1> QED BY <1>6, <1>7

\* When both iterators are empty every execution has been passed.
LEMMA MergeEnds ==
  ASSUME MergeInv, Finish, TypeOK'
  PROVE  MergeInv'
<1>1. /\ UNCHANGED <<sched, other, delay, otherDelay>>
      /\ result = "merging" /\ it = <<>> /\ other_it = <<>> /\ result' = "fits"
  BY DEF Finish, args
<1>2. Merging(sched, delay, <<>>, other, otherDelay, <<>>, prev_end)
  BY <1>1 DEF MergeInv
<1>3. Passed(sched, delay, <<>>) = Executions(sched, delay)
  BY DEF Passed
<1>4. Passed(other, otherDelay, <<>>) = Executions(other, otherDelay)
  BY DEF Passed
<1>5. Disjoint(sched, delay, other, otherDelay)
  BY <1>2, <1>3, <1>4 DEF Merging, Disjoint
<1> QED BY <1>1, <1>5 DEF MergeInv, FitsIsSound, OverlapIsReal

\* The merge keeps its invariant.
LEMMA MergeStep ==
  MergeInv /\ TypeOK' /\ [Next]_vars => MergeInv'
<1> SUFFICES ASSUME MergeInv, TypeOK', [Next]_vars PROVE MergeInv'
  OBVIOUS
<1>1. CASE UNCHANGED vars
  BY <1>1 DEF vars, MergeInv, TypeOK, FitsIsSound, OverlapIsReal, PeriodsMeet
<1> QED BY <1>1, MergeBegins, MergeGoesOn, MergeEnds DEF Next

\* It holds before the fold begins.
LEMMA MergeInit ==
  Init => MergeInv
<1>1. Init => TypeOK
  BY MaxTimeAssumption, FitsAssumption DEF Init, TypeOK, Option, Results, Time
<1> QED BY <1>1 DEF Init, MergeInv, FitsIsSound, OverlapIsReal

\* fits_schedule: where the pre-check on the whole periods does not decide, an
\* accepted job has no execution at the same time as one of the other job's,
\* for any two schedules and delays: the merge needs to look no further back
\* than the previous execution.
THEOREM FitsAlwaysSound == Spec => []FitsIsSound
<1>1. MergeInv => FitsIsSound
  BY DEF MergeInv
<1> QED BY <1>1, MergeInit, MergeStep, TypeCorrect, PTL DEF Spec

\* fits_schedule: a job is rejected for its schedule only if two executions do
\* collide.
THEOREM OverlapAlwaysReal == Spec => []OverlapIsReal
<1>1. MergeInv => OverlapIsReal
  BY DEF MergeInv
<1> QED BY <1>1, MergeInit, MergeStep, TypeCorrect, PTL DEF Spec

-----------------------------------------------------------------------------
(***************************************************************************)
(* Schedule::overlaps.  The ends of a period [a, b], counted from the      *)
(* first execution, lie qa and qb whole intervals after it; modB is taken  *)
(* from 1 .. interval, so that an end that falls on the start of an        *)
(* execution belongs to the interval before.                               *)
(***************************************************************************)
\* A remainder in 1 .. i instead of 0 .. i - 1.
LEMMA UpperMod ==
  ASSUME NEW b \in Nat \ {0}, NEW i \in Nat \ {0}
  PROVE  LET m == IF b % i = 0 THEN i ELSE b % i
         IN  m \in 1 .. i /\ \E q \in Nat : b = q * i + m
<1> DEFINE m == IF b % i = 0 THEN i ELSE b % i
           d == b \div i
           r == b % i
<1>1. d \in Nat /\ r \in 0 .. (i - 1) /\ b = i * d + r
  BY DivFacts
<1>2. (r = 0 => m = i) /\ (r # 0 => m = r)
  OBVIOUS
<1> HIDE DEF d, r, m
<1>3. i * d = d * i
  BY <1>1
<1>4. m \in 1 .. i /\ \E q \in Nat : b = q * i + m
  <2>1. CASE r # 0
    BY <1>1, <1>2, <1>3, <2>1
  <2>2. CASE r = 0
    <3>1. d # 0
      BY <1>1, <2>2
    <3>2. d - 1 \in Nat /\ (d - 1) + 1 = d
      BY <1>1, <3>1
    <3>3. ((d - 1) + 1) * i = (d - 1) * i + i
      BY <3>2, MulStep
    <3>4. b = (d - 1) * i + m
      BY <1>1, <1>2, <1>3, <2>2, <3>2, <3>3
    <3>5. \E q \in Nat : b = q * i + m
      <4> d - 1 \in Nat
        BY <3>2
      <4> WITNESS d - 1 \in Nat
      <4> QED BY <3>4
    <3> QED BY <1>2, <2>2, <3>5
  <2> QED BY <2>1, <2>2
<1> QED BY <1>4 DEF m

\* The comparison of the folded ends, on a schedule of n executions that starts
\* at 0: an execution runs in [a, b) iff the fold says so.
LEMMA FoldExact ==
  ASSUME NEW n \in Nat \ {0}, NEW i \in Nat \ {0}, NEW len \in 1 .. i - 1,
         NEW a \in Nat, NEW b \in Nat, a < b, a < (n - 1) * i + len,
         b - a < i \/ a = 0
  PROVE  LET modA == a % i
             modB == IF b % i = 0 THEN i ELSE b % i
         IN  (\E k \in 0 .. n - 1 : k * i < b /\ a < k * i + len)
               <=> (modB < modA \/ modA < len \/ modB - modA >= i)
<1> DEFINE qa == a \div i
           ma == a % i
           mb == IF b % i = 0 THEN i ELSE b % i
<1>1. qa \in Nat /\ ma \in 0 .. i - 1 /\ a = qa * i + ma
  <2>1. qa \in Nat /\ ma \in 0 .. i - 1 /\ a = i * qa + ma
    BY DivFacts
  <2> HIDE DEF qa, ma
  <2>2. i * qa = qa * i
    BY <2>1
  <2> QED BY <2>1, <2>2
<1>2. mb \in 1 .. i /\ \E q \in Nat : b = q * i + mb
  <2>1. b \in Nat \ {0}
    OBVIOUS
  <2> QED BY <2>1, UpperMod
<1>3. PICK qb \in Nat : b = qb * i + mb
  BY <1>2
<1> HIDE DEF qa, ma, mb
<1>4. SUFFICES (\E k \in 0 .. n - 1 : k * i < b /\ a < k * i + len)
                 <=> (mb < ma \/ ma < len \/ mb - ma >= i)
  BY DEF ma, mb
<1>5. /\ n \in Nat /\ n - 1 \in Nat /\ i \in Nat /\ len \in Nat /\ len > 0 /\ len < i
      /\ ma \in Nat /\ ma < i /\ mb \in Nat /\ 0 < mb /\ mb <= i
  BY <1>1, <1>2
<1>6. /\ qa * i \in Nat /\ qb * i \in Nat /\ (n - 1) * i \in Nat
      /\ (qa + 1) * i = qa * i + i
  BY <1>1, <1>3, <1>5, MulStep
<1>7. qa <= n - 1
  <2> SUFFICES ASSUME n - 1 < qa PROVE FALSE
    BY <1>1, <1>5
  <2>1. (n - 1) * i + i <= qa * i
    BY <1>1, <1>3, <1>5, MulStep
  <2> QED BY <1>1, <1>3, <1>5, <1>6, <2>1
<1>8. CASE ma < len
  <2>1. qa \in 0 .. n - 1 /\ qa * i < b /\ a < qa * i + len
    BY <1>1, <1>3, <1>5, <1>6, <1>7, <1>8
  <2> QED BY <1>8, <2>1
<1>9. CASE ma >= len
  <2>1. qa < n - 1
    BY <1>1, <1>3, <1>5, <1>6, <1>7, <1>9
  <2>2. ma > 0 /\ a # 0 /\ b - a < i
    BY <1>1, <1>3, <1>5, <1>6, <1>9
  <2>3. mb < ma => qa < qb
    <3> SUFFICES ASSUME mb < ma, qb <= qa PROVE FALSE
      BY <1>1, <1>3, <1>5
    <3>1. qb * i <= qa * i
      BY <1>1, <1>3, <1>5, MulStep
    <3> QED BY <1>1, <1>3, <1>5, <1>6, <3>1
  <2>4. mb >= ma => qb <= qa
    <3> SUFFICES ASSUME mb >= ma, qa < qb PROVE FALSE
      BY <1>1, <1>3, <1>5
    <3>1. qa * i + i <= qb * i
      BY <1>1, <1>3, <1>5, MulStep
    <3> QED BY <1>1, <1>3, <1>5, <1>6, <2>2, <3>1
  <2>5. ASSUME mb < ma
        PROVE  \E k \in 0 .. n - 1 : k * i < b /\ a < k * i + len
    <3>1. qa * i + i <= qb * i
      BY <1>1, <1>3, <1>5, <2>3, <2>5, MulStep
    <3>2. /\ qa + 1 \in 0 .. n - 1 /\ (qa + 1) * i < b /\ a < (qa + 1) * i + len
      BY <1>1, <1>3, <1>5, <1>6, <2>1, <3>1
    <3> QED BY <3>2
  <2>6. ASSUME NEW k \in 0 .. n - 1, k * i < b, a < k * i + len
        PROVE  mb < ma
    <3> SUFFICES ASSUME mb >= ma PROVE FALSE
      BY <1>5
    <3>1. qb <= qa /\ k \in Nat /\ k * i \in Nat
      BY <1>1, <1>3, <1>5, <2>4, MulStep
    <3>2. qb * i <= qa * i
      BY <1>1, <1>3, <1>5, <3>1, MulStep
    <3>3. ASSUME k <= qa PROVE FALSE
      <4>1. k * i <= qa * i
        BY <1>1, <1>3, <1>5, <3>1, <3>3, MulStep
      <4> QED BY <1>1, <1>3, <1>5, <1>6, <1>9, <2>6, <3>1, <4>1
    <3>4. ASSUME qa < k PROVE FALSE
      <4>1. qa * i + i <= k * i
        BY <1>1, <1>3, <1>5, <3>1, <3>4, MulStep
      <4> QED BY <1>1, <1>3, <1>5, <1>6, <2>6, <3>1, <3>2, <4>1
    <3> QED BY <1>1, <3>1, <3>3, <3>4
  <2>7. ~(mb - ma >= i) /\ ~(ma < len)
    BY <1>5, <1>9, <2>2
  <2> QED BY <2>5, <2>6, <2>7
<1> QED BY <1>5, <1>8, <1>9

\* Schedule::overlaps on one schedule, delay and period.
LEMMA OverlapsOf ==
  ASSUME NEW s \in ScheduleType, WellFormed(s, MaxExecutions), NEW d \in Time,
         range(s, d) # <<>>, NEW a \in Time, NEW b \in Time, a >= range(s, d)[1],
         b - a < s.interval \/ a = range(s, d)[1]
  PROVE  overlaps(s, d, a, b) = <<MeetsExecution(s, d, a, b)>>
<1> DEFINE n == execution_count(s)
           i == s.interval
           len == s.duration
           start == s.start_time + d
           end == start + (n - 1) * i + len
           relA == a - start
           relB == b - start
           modA == relA % i
           modB == IF relB % i = 0 THEN i ELSE relB % i
           folded == modB < modA \/ modA < len \/ modB - modA >= i
<1>1. n \in Nat \ {0} /\ i \in Nat \ {0}
  BY CountFacts
<1>2. /\ start \in Nat /\ a \in Nat /\ b \in Nat /\ len \in Nat /\ len \in 1 .. i - 1
  BY MaxTimeAssumption DEF ScheduleType, Time, WellFormed
<1>3. (n - 1) * i \in Nat
  <2>1. n - 1 \in Nat
    BY <1>1
  <2> QED BY <1>1, <2>1, MulNat
<1>4. range(s, d) = <<start, end>>
  BY <1>1 DEF range
<1>5. range(s, d)[1] = start /\ range(s, d)[2] = end
  BY <1>4
<1>6. a >= start /\ (b - a < i \/ a = start)
  BY <1>5
<1>7. start < end
  BY <1>2, <1>3
<1>8. MeetsExecution(s, d, a, b)
        <=> a < b /\ \E k \in 0 .. n - 1 : start + k * i < b /\ a < start + k * i + len
  BY DEF MeetsExecution, Executions
<1>9. CASE b <= a \/ b <= start \/ end <= a
  <2>1. overlaps(s, d, a, b) = <<FALSE>>
    BY <1>4, <1>5, <1>9 DEF overlaps
  <2>2. ~MeetsExecution(s, d, a, b)
    <3> SUFFICES ASSUME a < b, NEW k \in 0 .. n - 1, start + k * i < b, a < start + k * i + len
                 PROVE  FALSE
      BY <1>8
    <3> HIDE DEF n, i, len, start
    <3>1. k * i \in Nat /\ k * i <= (n - 1) * i
      <4>1. k \in Nat /\ n - 1 \in Nat /\ i \in Nat /\ k <= n - 1
        BY <1>1
      <4> QED BY <4>1, MulStep
    <3> QED BY <1>2, <1>3, <1>6, <1>9, <3>1
  <2>3. MeetsExecution(s, d, a, b) = FALSE
    BY <2>2 DEF MeetsExecution
  <2> QED BY <2>1, <2>3
<1>10. CASE ~(b <= a \/ b <= start \/ end <= a)
  <2>1. overlaps(s, d, a, b) = <<folded>>
    BY <1>4, <1>5, <1>6, <1>7, <1>10 DEF overlaps
  <2>2. relA \in Nat /\ relB \in Nat \ {0} /\ relA < relB
    BY <1>2, <1>6, <1>10
  <2>7. relA < (n - 1) * i + len /\ (relB - relA < i \/ relA = 0)
    <3>1. start <= a /\ (b - a < i \/ a = start) /\ a < start + (n - 1) * i + len
      <4> HIDE DEF n, i, len, start
      <4> QED BY <1>2, <1>3, <1>6, <1>10
    <3> DEFINE last == (n - 1) * i
    <3>2. last \in Nat /\ a < start + last + len
      BY <1>3, <3>1
    <3> HIDE DEF n, i, len, start, last
    <3>3. relA < last + len
      BY <1>2, <3>2
    <3>4. b - a < i => relB - relA < i
      BY <1>1, <1>2
    <3>5. a = start => relA = 0
      BY <1>2
    <3> QED BY <3>1, <3>3, <3>4, <3>5 DEF last
  <2>8. \A k \in 0 .. n - 1 : (start + k * i < b <=> k * i < relB)
                              /\ (a < start + k * i + len <=> relA < k * i + len)
    <3> HIDE DEF n, i, len, start
    <3> TAKE k \in 0 .. n - 1
    <3>1. k * i \in Nat
      BY <1>1, MulNat
    <3> QED BY <1>2, <3>1
  <2> HIDE DEF n, i, len, start, relA, relB, modA, modB
  <2>9. (\E k \in 0 .. n - 1 : k * i < relB /\ relA < k * i + len) <=> folded
    <3>1. relB \in Nat
      BY <2>2
    <3> QED BY <1>1, <1>2, <2>2, <2>7, <3>1, FoldExact DEF modA, modB
  <2>10. MeetsExecution(s, d, a, b) <=> folded
    BY <1>2, <1>8, <1>10, <2>8, <2>9
  <2>11. folded \in BOOLEAN /\ MeetsExecution(s, d, a, b) \in BOOLEAN
    BY DEF MeetsExecution
  <2> HIDE DEF folded
  <2>12. folded = MeetsExecution(s, d, a, b)
    BY <2>10, <2>11
  <2> QED BY <2>1, <2>12
<1> QED BY <1>9, <1>10

\* Schedule::overlaps is exact for any schedule and delay on the periods that
\* the marketplace asks about (report) or that are shorter than the interval.
THEOREM OverlapsAlwaysExact == Spec => []OverlapsExact
<1>1. MergeInv => OverlapsExact
  <2> SUFFICES ASSUME MergeInv, range(sched, delay) # <<>>, NEW a \in Time, NEW b \in Time,
                      a >= range(sched, delay)[1],
                      b - a < sched.interval \/ a = range(sched, delay)[1]
               PROVE  overlaps(sched, delay, a, b) = <<MeetsExecution(sched, delay, a, b)>>
    BY DEF OverlapsExact
  <2>1. sched \in ScheduleType /\ delay \in Time /\ WellFormed(sched, MaxExecutions)
    BY FitsAssumption DEF MergeInv, TypeOK
  <2> QED BY <2>1, OverlapsOf
<1> QED BY <1>1, MergeInit, MergeStep, TypeCorrect, PTL DEF Spec

=============================================================================
