---------------------------- MODULE VestingProofs ----------------------------
(***************************************************************************)
(* Type correctness, StakeLocked, RewardsCovered and OneWayOut of Vesting, *)
(* for any vesters, stakes, periods and rewards.                           *)
(***************************************************************************)
EXTENDS Vesting, SumsProofs, TLAPS

\* A quotient of balances is a balance.
LEMMA DivNat ==
  ASSUME NEW a \in Nat, NEW b \in Nat \ {0}
  PROVE  a \div b \in Nat
OBVIOUS

\* calculate_power yields a balance.
LEMMA PowerType ==
  ASSUME NEW stake \in Nat, NEW period \in Nat
  PROVE  calculate_power(stake, period) \in Nat
BY MulNat, DivNat, VestingAssumption DEF calculate_power

\* accrue keeps the type of a vester's state and changes only accrued and s.
LEMMA AccrueType ==
  ASSUME TypeOK, NEW st \in VesterState
  PROVE  /\ accrue(st) \in VesterState
         /\ accrue(st).stake = st.stake
         /\ accrue(st).power = st.power
         /\ accrue(st).s = pool.s[2]
         /\ accrue(st).accrued = st.accrued + (st.power * Grown(st)) \div BalanceUnit
         /\ Grown(st) \in Nat
<1>1. pool.s[1] \in Nat /\ pool.s[2] \in Nat
  BY DEF TypeOK, PoolState
<1>2. st.s \in Nat /\ st.power \in Nat /\ st.accrued \in Nat
  BY DEF VesterState
<1>3. Grown(st) \in Nat
  BY <1>1, <1>2 DEF Grown
<1>4. (st.power * Grown(st)) \div BalanceUnit \in Nat
  BY <1>2, <1>3, MulNat, DivNat, VestingAssumption
<1> DEFINE sum == st.accrued + (st.power * Grown(st)) \div BalanceUnit
<1>5. sum \in Nat
  BY <1>2, <1>4
<1>6. accrue(st) = [st EXCEPT !.accrued = sum, !.s = pool.s[2]]
  BY DEF accrue
<1> HIDE DEF sum
<1>7. /\ accrue(st) \in VesterState /\ accrue(st).stake = st.stake
      /\ accrue(st).power = st.power /\ accrue(st).s = pool.s[2] /\ accrue(st).accrued = sum
  BY <1>1, <1>2, <1>5, <1>6 DEF VesterState
<1> QED BY <1>3, <1>7 DEF sum

Locked == TypeOK /\ StakeLocked

\* revest and compound keep the types and what is locked.
LEMMA RevestStep ==
  ASSUME Locked, NEW v \in Vesters, NEW stake \in Nat, NEW period \in Nat,
         revest_for(v, stake, period)
  PROVE  Locked'
<1>1. vester[v] \in VesterState
  BY DEF Locked, TypeOK, revest_for
<1>2. accrue(vester[v]) \in VesterState
  BY <1>1, AccrueType DEF Locked
<1>3. calculate_power(stake, period) \in Nat
  BY PowerType
<1>4. pool.s[2] \in Nat
  BY DEF Locked, TypeOK, PoolState
<1> DEFINE st == [accrue(vester[v]) EXCEPT
                    !.locking_period = period, !.power = calculate_power(stake, period),
                    !.stake = stake, !.s = pool.s[2], !.cooldown_started = None]
<1>5. st \in VesterState /\ st.stake = stake
  BY <1>2, <1>3, <1>4 DEF VesterState
<1>6. vester' = [vester EXCEPT ![v] = st] /\ locked' = [locked EXCEPT ![v] = stake]
  BY DEF revest_for
<1>7. UNCHANGED <<block, pool, distributed, paid>> /\ raised' \in BOOLEAN
  BY DEF revest_for, Watch
<1> HIDE DEF st
<1>8. TypeOK'
  BY <1>5, <1>6, <1>7 DEF Locked, TypeOK
<1>9. StakeLocked'
  BY <1>5, <1>6, VestingAssumption DEF Locked, TypeOK, StakeLocked
<1> QED BY <1>8, <1>9 DEF Locked

\* So do divest and kick_out.
LEMMA LeaveStep ==
  ASSUME Locked, NEW v \in Vesters, vester[v] # None, Leave(v)
  PROVE  Locked'
<1>1. vester[v] \in VesterState
  BY DEF Locked, TypeOK
<1>2. accrue(vester[v]).accrued \in Nat
  BY <1>1, AccrueType DEF Locked, VesterState
<1>3. TypeOK'
  BY <1>2 DEF Locked, TypeOK, Leave
<1>4. StakeLocked'
  BY DEF Locked, TypeOK, StakeLocked, Leave
<1> QED BY <1>3, <1>4 DEF Locked

\* So does every call.
LEMMA LockedStep ==
  Locked /\ [Next]_vars => Locked'
<1> SUFFICES ASSUME Locked, [Next]_vars PROVE Locked'
  OBVIOUS
<1>1. ASSUME NEW v \in Vesters, NEW stake \in Stakes, NEW period \in Periods,
             vest(v, stake, period)
      PROVE  Locked'
  <2>1. stake \in Nat /\ period \in Nat
    BY VestingAssumption
  <2>2. calculate_power(stake, period) \in Nat
    BY <2>1, PowerType
  <2>3. /\ pool \in PoolState /\ pool.s[2] \in Nat
        /\ pool.total_stake \in Nat /\ pool.total_power \in Nat
    BY DEF Locked, TypeOK, PoolState
  <2> DEFINE st == [locking_period |-> period, power |-> calculate_power(stake, period),
                    stake |-> stake, accrued |-> 0, s |-> pool.s[2], cooldown_started |-> None]
  <2>4. st \in VesterState /\ st.stake = stake
    BY <2>1, <2>2, <2>3 DEF VesterState
  <2>5. pool' \in PoolState
    <3> DEFINE stakes == pool.total_stake + stake
               powers == pool.total_power + calculate_power(stake, period)
    <3>1. pool' = [pool EXCEPT !.total_stake = stakes, !.total_power = powers]
      BY <1>1 DEF vest
    <3>2. stakes \in Nat /\ powers \in Nat
      BY <2>1, <2>2, <2>3
    <3> HIDE DEF stakes, powers
    <3> QED BY <2>3, <3>1, <3>2 DEF PoolState
  <2>6. /\ vester' = [vester EXCEPT ![v] = st]
        /\ locked' = [locked EXCEPT ![v] = stake]
        /\ UNCHANGED <<block, distributed, paid>>
        /\ raised' \in BOOLEAN
    BY <1>1 DEF vest, Watch
  <2> HIDE DEF st
  <2>7. TypeOK'
    BY <2>1, <2>4, <2>5, <2>6 DEF Locked, TypeOK
  <2>8. StakeLocked'
    BY <2>4, <2>6, VestingAssumption DEF Locked, TypeOK, StakeLocked
  <2> QED BY <2>7, <2>8 DEF Locked
<1>2. ASSUME NEW v \in Vesters, NEW stake \in Stakes, NEW period \in Periods,
             revest(v, stake, period)
      PROVE  Locked'
  BY <1>2, RevestStep, VestingAssumption DEF revest
<1>3. ASSUME NEW v \in Vesters, NEW more \in Compounds, compound(v, more)
      PROVE  Locked'
  <2>1. vester[v] \in VesterState
    BY <1>3 DEF Locked, TypeOK, compound
  <2>2. vester[v].stake + more \in Nat /\ vester[v].locking_period \in Nat
    BY <2>1, VestingAssumption DEF VesterState
  <2> QED BY <1>3, <2>2, RevestStep DEF compound
<1>4. ASSUME NEW v \in Vesters, cooldown(v)
      PROVE  Locked'
  <2>1. vester[v] \in VesterState
    BY <1>4 DEF Locked, TypeOK, cooldown
  <2>2. accrue(vester[v]) \in VesterState /\ accrue(vester[v]).stake = vester[v].stake
    BY <2>1, AccrueType DEF Locked
  <2>3. accrue(vester[v]).power \div 2 \in Nat
    BY <2>2, DivNat DEF VesterState
  <2> DEFINE st == [accrue(vester[v]) EXCEPT !.cooldown_started = block, !.power = @ \div 2]
  <2>4. st \in VesterState /\ st.stake = vester[v].stake
    BY <2>2, <2>3 DEF VesterState, Locked, TypeOK
  <2>5. /\ vester' = [vester EXCEPT ![v] = st]
        /\ UNCHANGED <<block, pool, locked, distributed, paid, raised>>
        /\ vester[v] # None
    BY <1>4 DEF cooldown
  <2> HIDE DEF st
  <2>6. TypeOK'
    BY <2>4, <2>5 DEF Locked, TypeOK
  <2>7. StakeLocked'
    BY <2>4, <2>5, VestingAssumption DEF Locked, TypeOK, StakeLocked
  <2> QED BY <2>6, <2>7 DEF Locked
<1>5. ASSUME NEW v \in Vesters, divest(v) \/ kick_out(v)
      PROVE  Locked'
  BY <1>5, LeaveStep DEF divest, kick_out, CanDivest, CanKickOut, InCooldown
<1>6. ASSUME NEW reward \in Rewards, distribute_reward(reward)
      PROVE  Locked'
  <2>1. reward \in Nat /\ BalanceUnit \in Nat
    BY VestingAssumption
  <2>2. pool \in PoolState /\ pool.total_power \in Nat /\ pool.s \in Nat \X Nat
    BY DEF Locked, TypeOK, PoolState
  <2>3. pool' \in PoolState
    <3>1. CASE pool.total_power > 0
      <4>1. (reward * BalanceUnit) \div pool.total_power \in Nat
        BY <2>1, <2>2, <3>1, MulNat, DivNat
      <4>2. ((reward + pool.total_power - 1) * BalanceUnit) \div pool.total_power \in Nat
        <5>1. reward + pool.total_power - 1 \in Nat
          BY <2>1, <2>2, <3>1
        <5>2. (reward + pool.total_power - 1) * BalanceUnit \in Nat
          BY <2>1, <5>1, MulNat
        <5> QED BY <2>2, <3>1, <5>2, DivNat
      <4> QED BY <1>6, <2>2, <3>1, <4>1, <4>2 DEF distribute_reward, PoolState
    <3>2. CASE ~(pool.total_power > 0)
      BY <1>6, <2>2, <3>2 DEF distribute_reward
    <3> QED BY <3>1, <3>2
  <2> QED BY <1>6, <2>1, <2>3 DEF distribute_reward, Locked, TypeOK, StakeLocked
<1>7. CASE NextBlock
  BY <1>7 DEF NextBlock, Locked, TypeOK, StakeLocked
<1>8. CASE UNCHANGED vars
  BY <1>8 DEF vars, Locked, TypeOK, StakeLocked
<1> QED BY <1>1, <1>2, <1>3, <1>4, <1>5, <1>6, <1>7, <1>8 DEF Next, VesterStep

\* At first nobody vests and nothing is locked.
LEMMA LockedInit ==
  Init => Locked
<1> SUFFICES ASSUME Init PROVE Locked
  OBVIOUS
<1>1. pool \in PoolState
  BY DEF Init, PoolState
<1>2. TypeOK
  BY <1>1 DEF Init, TypeOK
<1>3. StakeLocked
  BY DEF Init, StakeLocked
<1> QED BY <1>2, <1>3 DEF Locked

\* Balances and powers stay natural numbers: no subtraction of the pallet
\* underflows.
THEOREM TypeCorrect ==
  Spec => []TypeOK
<1>1. Locked => TypeOK
  BY DEF Locked
<1> QED BY <1>1, LockedInit, LockedStep, PTL DEF Spec

\* vest, revest, compound, divest, kick_out: a vester's stake is locked in
\* full until it leaves, and not at all after that.
THEOREM StakesStayLocked ==
  Spec => []StakeLocked
<1>1. Locked => StakeLocked
  BY DEF Locked
<1> QED BY <1>1, LockedInit, LockedStep, PTL DEF Spec

\* divest and kick_out: the two ways out of a cooldown exclude each other and
\* leave no block without one, for any locking period and tolerance.
THEOREM AlwaysOneWayOut ==
  Spec => []OneWayOut
<1>1. Locked => OneWayOut
  <2> SUFFICES ASSUME Locked, NEW v \in Vesters, InCooldown(v)
               PROVE  /\ ~(CanDivest(v) /\ CanKickOut(v))
                      /\ CooldownEnd(v) <= block => CanDivest(v) \/ CanKickOut(v)
    BY DEF OneWayOut
  <2>1. vester[v] \in VesterState /\ vester[v].cooldown_started # None
    BY DEF Locked, TypeOK, InCooldown
  <2>2. CooldownEnd(v) \in Nat
    BY <2>1 DEF CooldownEnd, VesterState
  <2>3. block \in Nat /\ DivestTolerance \in Nat
    BY VestingAssumption DEF Locked, TypeOK
  <2> QED BY <2>2, <2>3 DEF CanDivest, CanKickOut
<1> QED BY <1>1, LockedInit, LockedStep, PTL DEF Spec

-----------------------------------------------------------------------------
(***************************************************************************)
(* RewardsCovered.  Rewards are counted in units of 1 / BalanceUnit, in    *)
(* which the shares below are exact: a vester's share only loses what a    *)
(* division drops, and a reward adds at most its own size to all of them.  *)
(***************************************************************************)
Share(st) == BalanceUnit * st.accrued + st.power * Grown(st)

Shares == [v \in Vesters |-> IF vester[v] = None THEN 0 ELSE Share(vester[v])]

PowerOf == [v \in Vesters |-> IF vester[v] = None THEN 0 ELSE vester[v].power]

Covered ==
  /\ Powers(vester) <= pool.total_power
  /\ BalanceUnit * paid + Sum(Shares, Vesters) <= BalanceUnit * distributed

RewardInv ==
  /\ Locked
  /\ pool.s[1] <= pool.s[2]
  /\ ~raised => Covered

\* A quotient times its divisor is at most the dividend.
LEMMA DivBound ==
  ASSUME NEW a \in Nat, NEW b \in Nat \ {0}
  PROVE  b * (a \div b) <= a
<1> DEFINE d == a \div b
           r == a % b
<1>1. d \in Nat /\ r \in 0 .. (b - 1) /\ a = b * d + r
  OBVIOUS
<1> HIDE DEF d, r
<1>2. b * d \in Nat
  BY <1>1, MulNat
<1>3. b * d <= a
  BY <1>1, <1>2
<1> QED BY <1>3 DEF d

\* A larger dividend has a quotient that is no smaller.
LEMMA DivMono ==
  ASSUME NEW a \in Nat, NEW c \in Nat, NEW b \in Nat \ {0}, a <= c
  PROVE  a \div b <= c \div b
<1> DEFINE d == a \div b
           r == a % b
           e == c \div b
           t == c % b
<1>1. /\ d \in Nat /\ r \in 0 .. (b - 1) /\ a = b * d + r
      /\ e \in Nat /\ t \in 0 .. (b - 1) /\ c = b * e + t
  OBVIOUS
<1> HIDE DEF d, r, e, t
<1>2. d <= e
  <2> SUFFICES ASSUME e + 1 <= d PROVE FALSE
    BY <1>1
  <2>1. b * (e + 1) <= b * d
    BY <1>1, MulMono
  <2>2. b * (e + 1) = b * e + b
    BY <1>1
  <2>3. b * e \in Nat /\ b * d \in Nat
    BY <1>1, MulNat
  <2> QED BY <1>1, <2>1, <2>2, <2>3
<1> QED BY <1>2 DEF d, e

\* A common factor cancels.
LEMMA MulCancel ==
  ASSUME NEW a \in Nat, NEW b \in Nat, NEW q \in Nat \ {0}, q * a <= q * b
  PROVE  a <= b
<1> SUFFICES ASSUME b + 1 <= a PROVE FALSE
  OBVIOUS
<1>1. q * (b + 1) <= q * a
  BY MulMono
<1>2. q * (b + 1) = q * b + q
  OBVIOUS
<1>3. q * a \in Nat /\ q * b \in Nat
  BY MulNat
<1> QED BY <1>1, <1>2, <1>3

\* A share is an amount, and what accrue credits is at most the share.
LEMMA ShareType ==
  ASSUME TypeOK, NEW st \in VesterState
  PROVE  /\ Share(st) \in Nat
         /\ accrue(st).accrued \in Nat
         /\ BalanceUnit * accrue(st).accrued <= Share(st)
<1>1. BalanceUnit \in Nat \ {0}
  BY VestingAssumption
<1>2. st.accrued \in Nat /\ st.power \in Nat
  BY DEF VesterState
<1>3. Grown(st) \in Nat /\ accrue(st).accrued = st.accrued + (st.power * Grown(st)) \div BalanceUnit
  BY AccrueType
<1> DEFINE gain == st.power * Grown(st)
           due == gain \div BalanceUnit
<1>4. gain \in Nat
  BY <1>2, <1>3, MulNat
<1>5. due \in Nat /\ BalanceUnit * due <= gain
  BY <1>1, <1>4, DivNat, DivBound
<1>6. accrue(st).accrued = st.accrued + due /\ Share(st) = BalanceUnit * st.accrued + gain
  BY <1>3 DEF Share
<1> HIDE DEF gain, due
<1>7. BalanceUnit * (st.accrued + due) = BalanceUnit * st.accrued + BalanceUnit * due
  BY <1>1, <1>2, <1>5
<1>8. BalanceUnit * st.accrued \in Nat /\ BalanceUnit * due \in Nat
  BY <1>1, <1>2, <1>5, MulNat
<1> QED BY <1>2, <1>4, <1>5, <1>6, <1>7, <1>8

\* All shares and powers are amounts, and so are their sums.
AmountsOK ==
  /\ \A v \in Vesters : Shares[v] \in Nat /\ PowerOf[v] \in Nat
  /\ Sum(Shares, Vesters) \in Nat
  /\ Powers(vester) = Sum(PowerOf, Vesters)
  /\ Powers(vester) \in Nat

\* They are in every state of the right type, ...
LEMMA SharesType ==
  TypeOK => AmountsOK
<1> SUFFICES ASSUME TypeOK PROVE AmountsOK
  OBVIOUS
<1>1. ASSUME NEW v \in Vesters PROVE Shares[v] \in Nat /\ PowerOf[v] \in Nat
  <2>1. CASE vester[v] = None
    BY <2>1 DEF Shares, PowerOf
  <2>2. CASE vester[v] # None
    <3>1. vester[v] \in VesterState
      BY <2>2 DEF TypeOK
    <3> QED BY <2>2, <3>1, ShareType DEF Shares, PowerOf, VesterState
  <2> QED BY <2>1, <2>2
<1>2. Sum(Shares, Vesters) \in Nat /\ Sum(PowerOf, Vesters) \in Nat
  BY <1>1, SumType, VestingAssumption
<1>3. Powers(vester) = Sum(PowerOf, Vesters)
  BY DEF Powers, PowerOf
<1> QED BY <1>1, <1>2, <1>3 DEF AmountsOK

\* ... hence also in the next one.
LEMMA SharesTypeNext ==
  TypeOK' => AmountsOK'
BY SharesType, PTL

\* A change of one vester that takes no more from its share than is paid out,
\* and does not raise its power above what total_power allows, keeps Covered.
LEMMA CoveredStep ==
  ASSUME Locked, Locked', Covered, NEW v \in Vesters,
         \A u \in Vesters \ {v} : vester'[u] = vester[u],
         pool'.s = pool.s, distributed' = distributed,
         BalanceUnit * paid' + Shares'[v] <= BalanceUnit * paid + Shares[v],
         Powers(vester') <= pool'.total_power
  PROVE  Covered'
<1>1. TypeOK /\ TypeOK'
  BY DEF Locked
<1>2. (\A u \in Vesters : Shares[u] \in Nat) /\ Sum(Shares, Vesters) \in Nat
  BY <1>1, SharesType DEF AmountsOK
<1>3. Shares'[v] \in Nat
  BY <1>1, SharesTypeNext DEF AmountsOK
<1>4. ASSUME NEW u \in Vesters \ {v} PROVE Shares'[u] = Shares[u]
  BY <1>4 DEF Shares, Share, Grown
<1>5. Sum(Shares', Vesters) = Sum(Shares, Vesters) + Shares'[v] - Shares[v]
  BY <1>2, <1>3, <1>4, SumUpdate, VestingAssumption
<1>7. BalanceUnit * paid \in Nat /\ BalanceUnit * paid' \in Nat /\ BalanceUnit * distributed \in Nat
  BY <1>1, MulNat, VestingAssumption DEF TypeOK
<1>8. BalanceUnit * paid + Sum(Shares, Vesters) <= BalanceUnit * distributed
  BY DEF Covered
<1>9. BalanceUnit * paid' + Sum(Shares', Vesters) <= BalanceUnit * distributed'
  BY <1>2, <1>3, <1>5, <1>7, <1>8
<1> QED BY <1>9 DEF Covered

\* A change of one vester that does not raise its power keeps it within total_power.
LEMMA PowersStep ==
  ASSUME TypeOK, TypeOK', NEW v \in Vesters,
         \A u \in Vesters \ {v} : vester'[u] = vester[u],
         PowerOf'[v] <= PowerOf[v],
         Powers(vester) <= pool.total_power, pool' = pool
  PROVE  Powers(vester') <= pool'.total_power
<1>1. \A u \in Vesters : PowerOf[u] \in Nat
  BY SharesType DEF AmountsOK
<1>3. PowerOf'[v] \in Nat
  BY SharesTypeNext DEF AmountsOK
<1>4. ASSUME NEW u \in Vesters \ {v} PROVE PowerOf'[u] = PowerOf[u]
  BY <1>4 DEF PowerOf
<1>5. Sum(PowerOf', Vesters) = Sum(PowerOf, Vesters) + PowerOf'[v] - PowerOf[v]
  BY <1>1, <1>3, <1>4, SumUpdate, VestingAssumption
<1>6. Powers(vester) = Sum(PowerOf, Vesters) /\ Powers(vester) \in Nat
  BY SharesType DEF AmountsOK
<1>7. Powers(vester') = Sum(PowerOf', Vesters)
  BY SharesTypeNext DEF AmountsOK
<1>8. pool.total_power \in Nat
  BY DEF TypeOK, PoolState
<1> QED BY <1>1, <1>3, <1>5, <1>6, <1>7, <1>8

\* Whoever was just paid up to the upper bound of s has nothing to come.
LEMMA JustPaid ==
  ASSUME TypeOK, TypeOK', pool.s[1] <= pool.s[2], pool'.s = pool.s,
         NEW v \in Vesters, vester'[v] # None, vester'[v].s = pool.s[2]
  PROVE  Shares'[v] = BalanceUnit * vester'[v].accrued
<1>1. pool.s[1] \in Nat /\ pool.s[2] \in Nat
  BY DEF TypeOK, PoolState
<1>2. vester'[v] \in VesterState
  BY DEF TypeOK
<1>3. Grown(vester[v])' = 0
  BY <1>1 DEF Grown
<1>4. vester'[v].power * 0 = 0 /\ BalanceUnit * vester'[v].accrued \in Nat
  BY <1>2, MulNat, VestingAssumption DEF VesterState
<1>5. Shares'[v] = BalanceUnit * vester'[v].accrued + vester'[v].power * Grown(vester[v])'
  BY DEF Shares, Share
<1> QED BY <1>3, <1>4, <1>5

\* Watch: unless raised, total_power covers the powers.
LEMMA Watched ==
  ASSUME TypeOK', Watch, ~raised'
  PROVE  ~raised /\ Powers(vester') <= pool'.total_power
<1>2. Powers(vester') \in Nat
  BY SharesTypeNext DEF AmountsOK
<1>3. pool'.total_power \in Nat
  BY DEF TypeOK, PoolState
<1>4. ~raised /\ ~(Powers(vester') > pool'.total_power)
  BY Zenon DEF Watch
<1> QED BY <1>2, <1>3, <1>4

\* revest and compound: what was due is credited, less what a division drops.
LEMMA RevestCovers ==
  ASSUME RewardInv, NEW v \in Vesters, NEW stake \in Nat, NEW period \in Nat,
         revest_for(v, stake, period)
  PROVE  RewardInv'
<1>1. Locked /\ Locked' /\ TypeOK /\ TypeOK'
  BY RevestStep DEF RewardInv, Locked
<1>2. vester[v] # None /\ vester[v] \in VesterState
  BY <1>1 DEF revest_for, TypeOK
<1> DEFINE st == accrue(vester[v])
<1>3. /\ st \in VesterState /\ st.accrued \in Nat
      /\ BalanceUnit * st.accrued <= Share(vester[v]) /\ Share(vester[v]) \in Nat
  BY <1>1, <1>2, AccrueType, ShareType
<1>4. vester' = [vester EXCEPT ![v] =
       [st EXCEPT
          !.locking_period = period, !.power = calculate_power(stake, period),
          !.stake = stake, !.s = pool.s[2], !.cooldown_started = None]]
  BY DEF revest_for
<1>5. UNCHANGED <<pool, distributed, paid>> /\ Watch
  BY DEF revest_for
<1> HIDE DEF st
<1>6. vester'[v].s = pool.s[2] /\ vester'[v].accrued = st.accrued
  BY <1>1, <1>3, <1>4 DEF TypeOK, VesterState
<1>7. vester'[v] # None
  <2>1. calculate_power(stake, period) \in Nat /\ pool.s[2] \in Nat
    BY <1>1, PowerType DEF TypeOK, PoolState
  <2>2. vester'[v] \in VesterState
    BY <1>1, <1>3, <1>4, <2>1 DEF TypeOK, VesterState
  <2> QED BY <2>2, VestingAssumption
<1>8. Shares'[v] = BalanceUnit * st.accrued
  BY <1>1, <1>5, <1>6, <1>7, JustPaid DEF RewardInv
<1>9. Shares[v] = Share(vester[v])
  BY <1>2 DEF Shares
<1>10. ASSUME ~raised' PROVE Covered'
  <2>1. Covered /\ Powers(vester') <= pool'.total_power
    BY <1>1, <1>5, <1>10, Watched DEF RewardInv
  <2>2. \A u \in Vesters \ {v} : vester'[u] = vester[u]
    BY <1>1, <1>4 DEF TypeOK
  <2>3. BalanceUnit * paid \in Nat /\ BalanceUnit * st.accrued \in Nat
    BY <1>1, <1>3, MulNat, VestingAssumption DEF TypeOK
  <2>4. BalanceUnit * paid' + Shares'[v] <= BalanceUnit * paid + Shares[v]
    BY <1>3, <1>5, <1>8, <1>9, <2>3
  <2> QED BY <1>1, <1>5, <2>1, <2>2, <2>4, CoveredStep
<1> QED BY <1>1, <1>5, <1>10 DEF RewardInv

\* divest and kick_out: what is paid was due, less what a division drops.
LEMMA LeaveCovers ==
  ASSUME RewardInv, NEW v \in Vesters, vester[v] # None, Leave(v)
  PROVE  RewardInv'
<1>1. Locked /\ Locked' /\ TypeOK /\ TypeOK'
  BY LeaveStep DEF RewardInv, Locked
<1>2. vester[v] \in VesterState
  BY <1>1 DEF TypeOK
<1> DEFINE due == accrue(vester[v]).accrued
<1>3. due \in Nat /\ BalanceUnit * due <= Share(vester[v]) /\ Share(vester[v]) \in Nat
  BY <1>1, <1>2, ShareType
<1>4. /\ paid' = paid + due /\ vester' = [vester EXCEPT ![v] = None]
      /\ UNCHANGED <<pool, distributed, raised>>
  BY DEF Leave
<1> HIDE DEF due
<1>5. vester'[v] = None /\ \A u \in Vesters \ {v} : vester'[u] = vester[u]
  BY <1>1, <1>4 DEF TypeOK
<1>6. Shares[v] = Share(vester[v]) /\ Shares'[v] = 0 /\ PowerOf'[v] = 0
  BY <1>5 DEF Shares, PowerOf
<1>7. ASSUME ~raised' PROVE Covered'
  <2>1. Covered
    BY <1>4, <1>7 DEF RewardInv
  <2>2. PowerOf[v] \in Nat
    BY <1>1, SharesType DEF AmountsOK
  <2>3. Powers(vester') <= pool'.total_power
    <3>1. PowerOf'[v] <= PowerOf[v]
      BY <1>6, <2>2
    <3>2. Powers(vester) <= pool.total_power /\ pool' = pool
      BY <1>4, <2>1 DEF Covered
    <3> QED BY <1>1, <1>5, <3>1, <3>2, PowersStep
  <2>4. paid \in Nat /\ BalanceUnit \in Nat
    BY <1>1, VestingAssumption DEF TypeOK
  <2>5. BalanceUnit * (paid + due) = BalanceUnit * paid + BalanceUnit * due
    BY <1>3, <2>4
  <2>6. BalanceUnit * paid \in Nat /\ BalanceUnit * due \in Nat
    BY <1>3, <2>4, MulNat
  <2>7. BalanceUnit * paid' + Shares'[v] <= BalanceUnit * paid + Shares[v]
    BY <1>3, <1>4, <1>6, <2>5, <2>6
  <2> QED BY <1>1, <1>4, <1>5, <2>1, <2>3, <2>7, CoveredStep
<1> QED BY <1>1, <1>4, <1>7 DEF RewardInv

\* vest: a newcomer has nothing due.
LEMMA VestCovers ==
  ASSUME RewardInv, NEW v \in Vesters, NEW stake \in Nat, NEW period \in Nat,
         vest(v, stake, period), Locked'
  PROVE  RewardInv'
<1>1. Locked /\ TypeOK /\ TypeOK'
  BY DEF RewardInv, Locked
<1>2. vester[v] = None
  BY DEF vest
<1>3. vester' = [vester EXCEPT ![v] =
       [locking_period |-> period, power |-> calculate_power(stake, period), stake |-> stake,
        accrued |-> 0, s |-> pool.s[2], cooldown_started |-> None]]
  BY DEF vest
<1>4. pool'.s = pool.s /\ UNCHANGED <<distributed, paid>> /\ Watch
  BY <1>1 DEF vest, TypeOK, PoolState
<1>5. vester'[v].s = pool.s[2] /\ vester'[v].accrued = 0
  BY <1>1, <1>3 DEF TypeOK
<1>6. vester'[v] # None
  <2>1. calculate_power(stake, period) \in Nat /\ pool.s[2] \in Nat
    BY <1>1, PowerType DEF TypeOK, PoolState
  <2>2. vester'[v] \in VesterState
    BY <1>1, <1>3, <2>1 DEF TypeOK, VesterState
  <2> QED BY <2>2, VestingAssumption
<1>7. Shares'[v] = BalanceUnit * 0
  BY <1>1, <1>4, <1>5, <1>6, JustPaid DEF RewardInv
<1>8. Shares'[v] = 0 /\ Shares[v] = 0
  BY <1>2, <1>7, VestingAssumption DEF Shares
<1>9. ASSUME ~raised' PROVE Covered'
  <2>1. Covered /\ Powers(vester') <= pool'.total_power
    BY <1>1, <1>4, <1>9, Watched DEF RewardInv
  <2>2. \A u \in Vesters \ {v} : vester'[u] = vester[u]
    BY <1>1, <1>3 DEF TypeOK
  <2>3. BalanceUnit * paid \in Nat
    BY <1>1, MulNat, VestingAssumption DEF TypeOK
  <2>4. BalanceUnit * paid' + Shares'[v] <= BalanceUnit * paid + Shares[v]
    BY <1>4, <1>8, <2>3
  <2> QED BY <1>1, <1>4, <2>1, <2>2, <2>4, CoveredStep
<1> QED BY <1>4, <1>9 DEF RewardInv

\* cooldown: as revest, and the power goes down.
LEMMA CooldownCovers ==
  ASSUME RewardInv, NEW v \in Vesters, cooldown(v), Locked'
  PROVE  RewardInv'
<1>1. Locked /\ TypeOK /\ TypeOK'
  BY DEF RewardInv, Locked
<1>2. vester[v] # None /\ vester[v] \in VesterState
  BY <1>1 DEF cooldown, TypeOK
<1> DEFINE st == accrue(vester[v])
<1>3. /\ st \in VesterState /\ st.accrued \in Nat /\ st.s = pool.s[2] /\ st.power = vester[v].power
      /\ BalanceUnit * st.accrued <= Share(vester[v]) /\ Share(vester[v]) \in Nat
  BY <1>1, <1>2, AccrueType, ShareType
<1>4. vester' = [vester EXCEPT ![v] =
        [st EXCEPT !.cooldown_started = block, !.power = st.power \div 2]]
  BY DEF cooldown
<1>5. UNCHANGED <<pool, distributed, paid, raised>>
  BY DEF cooldown
<1> HIDE DEF st
<1>6. st.power \in Nat /\ st.power \div 2 \in Nat /\ st.power \div 2 <= st.power
  <2>1. st.power \in Nat
    BY <1>3 DEF VesterState
  <2> QED BY <2>1
<1>7. /\ vester'[v].s = pool.s[2] /\ vester'[v].accrued = st.accrued
      /\ vester'[v].power = st.power \div 2
  BY <1>1, <1>3, <1>4 DEF TypeOK, VesterState
<1>8. vester'[v] # None
  <2>1. vester'[v] \in VesterState
    BY <1>1, <1>3, <1>4, <1>6 DEF TypeOK, VesterState
  <2> QED BY <2>1, VestingAssumption
<1>9. Shares'[v] = BalanceUnit * st.accrued
  BY <1>1, <1>5, <1>7, <1>8, JustPaid DEF RewardInv
<1>10. Shares[v] = Share(vester[v])
  BY <1>2 DEF Shares
<1>11. ASSUME ~raised' PROVE Covered'
  <2>1. Covered
    BY <1>5, <1>11 DEF RewardInv
  <2>2. \A u \in Vesters \ {v} : vester'[u] = vester[u]
    BY <1>1, <1>4 DEF TypeOK
  <2>3. PowerOf'[v] <= PowerOf[v]
    BY <1>2, <1>3, <1>6, <1>7, <1>8 DEF PowerOf
  <2>4. Powers(vester) <= pool.total_power /\ pool' = pool
    BY <1>5, <2>1 DEF Covered
  <2>5. Powers(vester') <= pool'.total_power
    BY <1>1, <2>2, <2>3, <2>4, PowersStep
  <2>6. BalanceUnit * paid \in Nat /\ BalanceUnit * st.accrued \in Nat
    BY <1>1, <1>3, MulNat, VestingAssumption DEF TypeOK
  <2>7. BalanceUnit * paid' + Shares'[v] <= BalanceUnit * paid + Shares[v]
    BY <1>3, <1>5, <1>9, <1>10, <2>6
  <2> QED BY <1>1, <1>5, <2>1, <2>2, <2>5, <2>7, CoveredStep
<1> QED BY <1>5, <1>11 DEF RewardInv

\* distribute_reward: s grows by no more than the reward divided by the total
\* power, so that the powers together claim no more than the reward.
LEMMA DistributeCovers ==
  ASSUME RewardInv, NEW reward \in Nat, distribute_reward(reward), Locked'
  PROVE  RewardInv'
<1>1. Locked /\ TypeOK /\ TypeOK' /\ BalanceUnit \in Nat \ {0}
  BY VestingAssumption DEF RewardInv, Locked
<1>2. UNCHANGED <<vester, paid, raised>> /\ distributed' = distributed + reward
  BY DEF distribute_reward
<1>3. pool.total_power \in Nat /\ pool.s \in Nat \X Nat /\ pool \in PoolState
  BY <1>1 DEF TypeOK, PoolState
<1>4. reward * BalanceUnit \in Nat
  BY <1>1, MulNat
<1>5. PICK q \in Nat : /\ pool'.s[1] = pool.s[1] + q /\ pool'.s[1] <= pool'.s[2]
                       /\ pool'.total_power = pool.total_power
                       /\ pool.total_power * q <= reward * BalanceUnit
  <2>1. CASE pool.total_power > 0
    <3> DEFINE low == (reward * BalanceUnit) \div pool.total_power
               more == (reward + pool.total_power - 1) * BalanceUnit
               high == more \div pool.total_power
    <3>1. low \in Nat /\ pool.total_power * low <= reward * BalanceUnit
      BY <1>3, <1>4, <2>1, DivNat, DivBound
    <3>2. reward + pool.total_power - 1 \in Nat /\ reward <= reward + pool.total_power - 1
      BY <1>3, <2>1
    <3>3. more \in Nat /\ reward * BalanceUnit <= more
      BY <1>1, <3>2, MulNat, MulMono
    <3>4. high \in Nat /\ low <= high
      <4> HIDE DEF more
      <4> QED BY <1>3, <1>4, <2>1, <3>3, DivNat, DivMono
    <3>5. pool' = [pool EXCEPT !.s = <<pool.s[1] + low, pool.s[2] + high>>]
      BY <2>1 DEF distribute_reward
    <3> HIDE DEF low, high
    <3>6. pool'.s[1] = pool.s[1] + low /\ pool'.s[2] = pool.s[2] + high
      BY <1>3, <3>5 DEF PoolState
    <3>7. pool'.total_power = pool.total_power
      BY <1>3, <3>5 DEF PoolState
    <3>8. pool'.s[1] <= pool'.s[2]
      BY <1>3, <3>1, <3>4, <3>6 DEF RewardInv
    <3> QED BY <3>1, <3>6, <3>7, <3>8
  <2>2. CASE ~(pool.total_power > 0)
    <3>1. pool' = pool
      BY <2>2 DEF distribute_reward
    <3>2. pool.total_power * 0 = 0 /\ pool.s[1] = pool.s[1] + 0 /\ 0 \in Nat
      BY <1>3
    <3> QED BY <1>4, <3>1, <3>2 DEF RewardInv
  <2> QED BY <2>1, <2>2
<1>6. /\ \A v \in Vesters : Shares[v] \in Nat /\ PowerOf[v] \in Nat
      /\ Sum(Shares, Vesters) \in Nat
      /\ Powers(vester) = Sum(PowerOf, Vesters) /\ Powers(vester) \in Nat
  BY <1>1, SharesType DEF AmountsOK
<1>7. (\A v \in Vesters : Shares'[v] \in Nat) /\ Sum(Shares', Vesters) \in Nat
  BY <1>1, SharesTypeNext DEF AmountsOK
<1>8. ASSUME NEW v \in Vesters PROVE Shares'[v] <= Shares[v] + q * PowerOf[v]
  <2>1. CASE vester[v] = None
    <3>1. Shares'[v] = 0 /\ Shares[v] = 0 /\ PowerOf[v] = 0
      BY <1>2, <2>1 DEF Shares, PowerOf
    <3> QED BY <1>5, <3>1
  <2>2. CASE vester[v] # None
    <3>1. vester[v] \in VesterState
      BY <1>1, <2>2 DEF TypeOK
    <3> DEFINE power == vester[v].power
               held == BalanceUnit * vester[v].accrued
               before == Grown(vester[v])
               after == Grown(vester[v])'
    <3>2. power \in Nat /\ vester[v].s \in Nat /\ held \in Nat
      BY <1>1, <3>1, MulNat DEF VesterState
    <3>3. before \in Nat /\ after \in Nat /\ after <= before + q
      BY <1>2, <1>3, <1>5, <3>2 DEF Grown
    <3>4. Shares[v] = held + power * before /\ Shares'[v] = held + power * after /\ PowerOf[v] = power
      BY <1>2, <2>2 DEF Shares, Share, PowerOf
    <3> HIDE DEF power, held, before, after
    <3>5. power * after <= power * (before + q)
      BY <3>2, <3>3, MulMono
    <3>6. power * (before + q) = power * before + q * power
      BY <3>2, <3>3
    <3>7. power * after \in Nat /\ power * before \in Nat /\ q * power \in Nat
      BY <3>2, <3>3, MulNat
    <3> QED BY <3>2, <3>4, <3>5, <3>6, <3>7
  <2> QED BY <2>1, <2>2
<1>9. Sum(Shares', Vesters) <= Sum(Shares, Vesters) + Sum(PowerOf, Vesters) * q
  BY <1>6, <1>7, <1>8, SumLinear, VestingAssumption
<1>10. ASSUME ~raised' PROVE Covered'
  <2>1. Powers(vester) <= pool.total_power
    BY <1>2, <1>10 DEF RewardInv, Covered
  <2>2. BalanceUnit * paid + Sum(Shares, Vesters) <= BalanceUnit * distributed
    BY <1>2, <1>10 DEF RewardInv, Covered
  <2>3. Powers(vester) * q <= pool.total_power * q
    BY <1>3, <1>6, <2>1, MulMono
  <2>4. Powers(vester) * q \in Nat /\ pool.total_power * q \in Nat
    BY <1>3, <1>6, MulNat
  <2>5. paid \in Nat /\ distributed \in Nat
    BY <1>1 DEF TypeOK
  <2>6. BalanceUnit * paid \in Nat /\ BalanceUnit * distributed \in Nat
    BY <1>1, <2>5, MulNat
  <2>7. BalanceUnit * distributed' = BalanceUnit * distributed + reward * BalanceUnit
    BY <1>1, <1>2, <2>5
  <2>8. BalanceUnit * paid' + Sum(Shares', Vesters) <= BalanceUnit * distributed'
    <3>1. Sum(Shares', Vesters) <= Sum(Shares, Vesters) + reward * BalanceUnit
      BY <1>4, <1>5, <1>6, <1>7, <1>9, <2>3, <2>4
    <3> QED BY <1>2, <1>4, <1>6, <1>7, <2>2, <2>6, <2>7, <3>1
  <2>9. Powers(vester') <= pool'.total_power
    BY <1>2, <1>5, <2>1
  <2> QED BY <2>8, <2>9 DEF Covered
<1> QED BY <1>5, <1>10 DEF RewardInv

\* Every call keeps the rewards covered.
LEMMA RewardStep ==
  RewardInv /\ [Next]_vars => RewardInv'
<1> SUFFICES ASSUME RewardInv, [Next]_vars PROVE RewardInv'
  OBVIOUS
<1>1. Locked'
  BY LockedStep DEF RewardInv
<1>2. ASSUME NEW v \in Vesters, NEW stake \in Stakes, NEW period \in Periods,
             vest(v, stake, period) \/ revest(v, stake, period)
      PROVE  RewardInv'
  <2>1. stake \in Nat /\ period \in Nat
    BY VestingAssumption
  <2> QED BY <1>1, <1>2, <2>1, VestCovers, RevestCovers DEF revest
<1>3. ASSUME NEW v \in Vesters, NEW more \in Compounds, compound(v, more)
      PROVE  RewardInv'
  <2>1. vester[v] \in VesterState
    BY <1>3 DEF RewardInv, Locked, TypeOK, compound
  <2>2. vester[v].stake + more \in Nat /\ vester[v].locking_period \in Nat
    BY <2>1, VestingAssumption DEF VesterState
  <2> QED BY <1>3, <2>2, RevestCovers DEF compound
<1>4. ASSUME NEW v \in Vesters, cooldown(v)
      PROVE  RewardInv'
  BY <1>1, <1>4, CooldownCovers
<1>5. ASSUME NEW v \in Vesters, divest(v) \/ kick_out(v)
      PROVE  RewardInv'
  BY <1>5, LeaveCovers DEF divest, kick_out, CanDivest, CanKickOut, InCooldown
<1>6. ASSUME NEW reward \in Rewards, distribute_reward(reward)
      PROVE  RewardInv'
  <2>1. reward \in Nat
    BY VestingAssumption
  <2> QED BY <1>1, <1>6, <2>1, DistributeCovers
<1>7. CASE NextBlock \/ UNCHANGED vars
  <2>1. UNCHANGED <<pool, vester, distributed, paid, raised>>
    BY <1>7 DEF NextBlock, vars
  <2>2. Powers(vester') = Powers(vester) /\ Shares' = Shares
    BY <2>1 DEF Powers, Shares, Share, Grown
  <2> QED BY <1>1, <2>1, <2>2 DEF RewardInv, Covered
<1> QED BY <1>2, <1>3, <1>4, <1>5, <1>6, <1>7 DEF Next, VesterStep

\* At first nothing is claimed and nobody has a power.
LEMMA RewardInit ==
  Init => RewardInv
<1> SUFFICES ASSUME Init PROVE RewardInv
  OBVIOUS
<1>1. Locked
  BY LockedInit
<1>2. \A v \in Vesters : Shares[v] \in 0 .. 0 /\ PowerOf[v] \in 0 .. 0
  BY DEF Init, Shares, PowerOf
<1>3. Sum(Shares, Vesters) <= Cardinality(Vesters) * 0 /\ Sum(PowerOf, Vesters) <= Cardinality(Vesters) * 0
  BY <1>2, SumBound, VestingAssumption
<1>4. Cardinality(Vesters) * 0 = 0
  <2>1. Cardinality(Vesters) \in Nat
    BY FS_CardinalityType, VestingAssumption
  <2> QED BY <2>1
<1>5. Sum(Shares, Vesters) \in Nat /\ Powers(vester) = Sum(PowerOf, Vesters)
  BY <1>1, SharesType DEF Locked, AmountsOK
<1>6. Powers(vester) <= pool.total_power
  BY <1>3, <1>4, <1>5 DEF Init
<1>7. BalanceUnit * paid = 0 /\ BalanceUnit * distributed = 0
  BY VestingAssumption DEF Init
<1>8. Covered
  BY <1>3, <1>4, <1>5, <1>6, <1>7 DEF Covered
<1> QED BY <1>1, <1>8 DEF Init, RewardInv

\* The shares bound what the vesters were paid and can still claim.
LEMMA RewardsFollow ==
  RewardInv => RewardsCovered
<1> SUFFICES ASSUME RewardInv, ~raised PROVE Claims <= distributed
  BY DEF RewardsCovered
<1>1. TypeOK /\ Covered /\ BalanceUnit \in Nat \ {0}
  BY VestingAssumption DEF RewardInv, Locked
<1> DEFINE due == [v \in Vesters |-> IF vester[v] = None THEN 0 ELSE accrue(vester[v]).accrued]
<1>2. ASSUME NEW v \in Vesters PROVE due[v] \in Nat /\ BalanceUnit * due[v] <= Shares[v]
  <2>1. CASE vester[v] = None
    BY <1>1, <2>1 DEF Shares
  <2>2. CASE vester[v] # None
    <3>1. vester[v] \in VesterState
      BY <1>1, <2>2 DEF TypeOK
    <3> QED BY <1>1, <2>2, <3>1, ShareType DEF Shares
  <2> QED BY <2>1, <2>2
<1>3. (\A v \in Vesters : Shares[v] \in Nat) /\ Sum(Shares, Vesters) \in Nat
  BY <1>1, SharesType DEF AmountsOK
<1>4. Claims = paid + Sum(due, Vesters)
  BY DEF Claims
<1> HIDE DEF due
<1>5. Sum(due, Vesters) \in Nat
  BY <1>2, SumType, VestingAssumption
<1>6. Sum(due, Vesters) * BalanceUnit <= Sum(Shares, Vesters)
  BY <1>1, <1>2, <1>3, SumMultiple, VestingAssumption
<1>7. paid \in Nat /\ distributed \in Nat
  BY <1>1 DEF TypeOK
<1>8. BalanceUnit * (paid + Sum(due, Vesters)) = BalanceUnit * paid + Sum(due, Vesters) * BalanceUnit
  BY <1>1, <1>5, <1>7
<1>9. /\ BalanceUnit * paid \in Nat /\ BalanceUnit * distributed \in Nat
      /\ Sum(due, Vesters) * BalanceUnit \in Nat
  BY <1>1, <1>5, <1>7, MulNat
<1>10. BalanceUnit * paid + Sum(Shares, Vesters) <= BalanceUnit * distributed
  BY <1>1 DEF Covered
<1>11. BalanceUnit * (paid + Sum(due, Vesters)) <= BalanceUnit * distributed
  BY <1>3, <1>6, <1>8, <1>9, <1>10
<1>12. paid + Sum(due, Vesters) \in Nat
  BY <1>5, <1>7
<1> QED BY <1>1, <1>4, <1>7, <1>11, <1>12, MulCancel

\* distribute_reward and accrue: as long as total_power has covered the powers
\* there are, the vesters together never get more than was distributed, for
\* any number of vesters and any amounts.
THEOREM RewardsStayCovered ==
  Spec => []RewardsCovered
BY RewardInit, RewardStep, RewardsFollow, PTL DEF Spec

=============================================================================
