------------------------------- MODULE Vesting -------------------------------
(***************************************************************************)
(* The vesting pallet (pallets/vesting/src/lib.rs).  A vester locks a stake *)
(* for a period and gets a power in proportion to both; rewards given to   *)
(* the pool are shared by power.  The pool keeps s, the sum of reward by   *)
(* power, as a lower and an upper bound in units of 1 / BalanceUnit; a     *)
(* vester remembers the upper bound when it was last paid and is paid from *)
(* there to the lower bound.  To leave, a vester starts a cooldown, waits  *)
(* for its locking period and divests within a tolerance; after that       *)
(* anybody may kick it out and take its rewards.                           *)
(*                                                                         *)
(* The trait VestingBalance is implemented outside the repository: here it *)
(* keeps the locked stakes and counts what is paid.  One action is one     *)
(* extrinsic, or one call of distribute_reward or compound by another      *)
(* pallet; a call that fails changes nothing.                              *)
(***************************************************************************)
EXTENDS Integers, Sums

CONSTANTS
  Vesters,
  None,
  Stakes,                \* the stakes that may be vested
  Periods,               \* the locking periods that may be chosen
  Rewards,               \* the rewards that may be distributed
  Compounds,             \* the amounts that may be compounded
  MaximumLockingPeriod, DivestTolerance, BalanceUnit,
  MaxBlock,              \* bound: the last block
  MaxStake,              \* bound: the stake of a vester
  MaxTotalStake,         \* bound: stakes vested over the whole behaviour
  MaxDistributed         \* bound: rewards over the whole behaviour

VesterState ==
  [locking_period : Nat, power : Nat, stake : Nat, accrued : Nat, s : Nat,
   cooldown_started : Nat \cup {None}]

PoolState == [total_power : Nat, total_stake : Nat, s : Nat \X Nat]

ASSUME VestingAssumption ==
  /\ IsFiniteSet(Vesters)
  /\ None \notin VesterState /\ None \notin Int
  /\ Stakes \subseteq Nat /\ Periods \subseteq Nat
  /\ Rewards \subseteq Nat /\ Compounds \subseteq Nat
  /\ MaximumLockingPeriod \in Nat \ {0}
  /\ DivestTolerance \in Nat
  /\ BalanceUnit \in Nat \ {0}
  /\ MaxBlock \in Nat /\ MaxStake \in Nat /\ MaxTotalStake \in Nat
  /\ MaxDistributed \in Nat

VARIABLES
  block,        \* System::block_number
  pool,         \* Pool
  vester,       \* VesterStates
  locked,       \* the stakes that VestingBalance has locked
  distributed,  \* the rewards distributed so far
  paid,         \* the rewards paid to vesters and kickers so far
  raised        \* the powers have exceeded the total_power of the pool

vars == <<block, pool, vester, locked, distributed, paid, raised>>

TypeOK ==
  /\ block \in Nat
  /\ pool \in PoolState
  /\ vester \in [Vesters -> VesterState \cup {None}]
  /\ locked \in [Vesters -> Nat]
  /\ distributed \in Nat
  /\ paid \in Nat
  /\ raised \in BOOLEAN

Init ==
  /\ block = 0
  /\ pool = [total_power |-> 0, total_stake |-> 0, s |-> <<0, 0>>]
  /\ vester = [v \in Vesters |-> None]
  /\ locked = [v \in Vesters |-> 0]
  /\ distributed = 0
  /\ paid = 0
  /\ raised = FALSE

-----------------------------------------------------------------------------
calculate_power(stake, period) == (period * stake) \div MaximumLockingPeriod

\* Mutant of accrue: the difference of two unsigned numbers is not checked.
accrueUnchecked(st) ==
  [st EXCEPT !.accrued = @ + (st.power * (pool.s[1] - st.s)) \div BalanceUnit,
             !.s = pool.s[2]]

\* Mutant of accrue: rewards are paid up to the upper bound of s.
accrueUpper(st) ==
  [st EXCEPT !.accrued = @ + (st.power * (pool.s[2] - st.s)) \div BalanceUnit,
             !.s = pool.s[2]]

\* The growth of s since a vester was last paid, from the upper bound then to the lower bound now.
Grown(st) == IF pool.s[1] >= st.s THEN pool.s[1] - st.s ELSE 0

accrue(st) ==
  [st EXCEPT !.accrued = @ + (st.power * Grown(st)) \div BalanceUnit,
             !.s = pool.s[2]]

Powers(state) ==
  Sum([v \in Vesters |-> IF state[v] = None THEN 0 ELSE state[v].power], Vesters)

\* History: total_power no longer covers the powers there are.
Watch == raised' = (raised \/ Powers(vester') > pool'.total_power)

vest(v, stake, period) ==
  /\ vester[v] = None
  /\ period <= MaximumLockingPeriod
  /\ pool.total_stake + stake <= MaxTotalStake
  /\ vester' = [vester EXCEPT ![v] =
       [locking_period |-> period, power |-> calculate_power(stake, period), stake |-> stake,
        accrued |-> 0, s |-> pool.s[2], cooldown_started |-> None]]
  /\ pool' = [pool EXCEPT !.total_stake = @ + stake,
                          !.total_power = @ + calculate_power(stake, period)]
  /\ locked' = [locked EXCEPT ![v] = stake]
  /\ Watch
  /\ UNCHANGED <<block, distributed, paid>>

\* revest and compound.  The code computes the pool's new total_power and
\* drops it, so the pool stays as it is.
revest_for(v, stake, period) ==
  /\ vester[v] # None
  /\ stake >= vester[v].stake
  /\ period >= vester[v].locking_period
  /\ period <= MaximumLockingPeriod
  /\ stake <= MaxStake
  /\ locked' = [locked EXCEPT ![v] = stake]
  /\ vester' = [vester EXCEPT ![v] =
       [accrue(vester[v]) EXCEPT
          !.locking_period = period, !.power = calculate_power(stake, period),
          !.stake = stake, !.s = pool.s[2], !.cooldown_started = None]]
  /\ UNCHANGED <<block, pool, distributed, paid>>
  /\ Watch

revest(v, stake, period) == revest_for(v, stake, period)

compound(v, more) ==
  /\ vester[v] # None
  /\ revest_for(v, vester[v].stake + more, vester[v].locking_period)

\* The power is halved.  What is to be taken off total_power is checked
\* against it, but the difference is dropped and the pool stays as it is.
cooldown(v) ==
  /\ vester[v] # None
  /\ vester[v].cooldown_started = None
  /\ vester[v].power - vester[v].power \div 2 <= pool.total_power
  /\ vester' = [vester EXCEPT ![v] =
       [accrue(vester[v]) EXCEPT !.cooldown_started = block, !.power = @ \div 2]]
  /\ UNCHANGED <<block, pool, locked, distributed, paid, raised>>

CooldownEnd(v) == vester[v].cooldown_started + vester[v].locking_period

InCooldown(v) == vester[v] # None /\ vester[v].cooldown_started # None

CanDivest(v) ==
  /\ InCooldown(v)
  /\ CooldownEnd(v) <= block
  /\ block <= CooldownEnd(v) + DivestTolerance

\* Mutant of CanKickOut: one block early.
CanKickOutEarly(v) ==
  InCooldown(v) /\ CooldownEnd(v) + DivestTolerance <= block

CanKickOut(v) ==
  InCooldown(v) /\ CooldownEnd(v) + DivestTolerance < block

\* Mutant of Leave: the stake stays locked.
LeaveLocked(v) ==
  /\ paid' = paid + accrue(vester[v]).accrued
  /\ vester' = [vester EXCEPT ![v] = None]
  /\ UNCHANGED <<block, pool, locked, distributed, raised>>

\* What divest and kick_out have in common; the rewards go to the vester or
\* to the kicker.  The pool keeps the power and the stake.
Leave(v) ==
  /\ paid' = paid + accrue(vester[v]).accrued
  /\ vester' = [vester EXCEPT ![v] = None]
  /\ locked' = [locked EXCEPT ![v] = 0]
  /\ UNCHANGED <<block, pool, distributed, raised>>

divest(v) == CanDivest(v) /\ Leave(v)

kick_out(v) == CanKickOut(v) /\ Leave(v)

distribute_reward(reward) ==
  /\ distributed + reward <= MaxDistributed
  /\ distributed' = distributed + reward
  /\ pool' = IF pool.total_power > 0
               THEN [pool EXCEPT !.s =
                      <<@[1] + (reward * BalanceUnit) \div pool.total_power,
                        @[2] + ((reward + pool.total_power - 1) * BalanceUnit)
                                 \div pool.total_power>>]
               ELSE pool
  /\ UNCHANGED <<block, vester, locked, paid, raised>>

NextBlock ==
  /\ block < MaxBlock
  /\ block' = block + 1
  /\ UNCHANGED <<pool, vester, locked, distributed, paid, raised>>

VesterStep ==
  \E v \in Vesters :
    \/ \E stake \in Stakes, period \in Periods : vest(v, stake, period)
    \/ \E stake \in Stakes, period \in Periods : revest(v, stake, period)
    \/ \E more \in Compounds : compound(v, more)
    \/ cooldown(v)
    \/ divest(v)
    \/ kick_out(v)

Next ==
  \/ VesterStep
  \/ \E reward \in Rewards : distribute_reward(reward)
  \/ NextBlock

Spec == Init /\ [][Next]_vars

-----------------------------------------------------------------------------
(***************************************************************************)
(* Properties.                                                             *)
(***************************************************************************)
\* All that vesters were paid and could still claim.
Claims ==
  paid + Sum([v \in Vesters |-> IF vester[v] = None THEN 0 ELSE accrue(vester[v]).accrued], Vesters)

\* distribute_reward and accrue: no matter how rewards, cooldowns, exits and
\* late entries interleave and how the divisions round, the vesters together
\* never get more than was distributed, as long as total_power has covered
\* the powers there are.
RewardsCovered == ~raised => Claims <= distributed

\* vest, revest, compound, divest and kick_out: the stake that is locked is
\* the stake the pool counts for a vester, and nothing stays locked for one
\* that has left.
StakeLocked ==
  \A v \in Vesters : locked[v] = IF vester[v] = None THEN 0 ELSE vester[v].stake

\* divest and kick_out: once the cooldown is over a vester can leave or be
\* kicked out, never both; no block falls between the two conditions.
OneWayOut ==
  \A v \in Vesters :
    InCooldown(v) =>
      /\ ~(CanDivest(v) /\ CanKickOut(v))
      /\ CooldownEnd(v) <= block => CanDivest(v) \/ CanKickOut(v)

\* The documentation of distribute_reward: "Distributes a reward to the entire
\* pool according to current power distribution."  So the shares are parts of
\* the reward, and no more than was distributed is ever paid.
OnlyDistributedPaid == paid <= distributed

=============================================================================
