-------------------------- MODULE MarketplaceProofs --------------------------
(***************************************************************************)
(* Theorems about Marketplace, for all values of its constants: types, the *)
(* indexes, what is agreed with a source, slots, time and storage; then    *)
(* the money: the refinement of the abstract escrow, and what it means for *)
(* the pallet's account and for the budgets of the jobs.                   *)
(***************************************************************************)
EXTENDS Marketplace, SumsProofs

-----------------------------------------------------------------------------
(***************************************************************************)
(* The operators the actions are built from.                               *)
(***************************************************************************)
\* The accounts of the pallets and of the users hold balances.
LEMMA AccountFacts ==
  /\ PalletAccount \in Accounts /\ FeeAccount \in Accounts
  /\ HyperdriveAccount \in Accounts
  /\ Users \subseteq Accounts
BY DEF Accounts

\* A job is paid for by an account.
LEMMA PayerType ==
  ASSUME NEW j \in JobIds
  PROVE  Payer(j) \in Accounts
<1>1. j[1] \in Consumers \/ j[1] \in Remote
  BY DEF JobIds, Origins
<1> QED BY <1>1, MarketplaceAssumption, AccountFacts DEF Payer

\* There are finitely many jobs.
LEMMA JobsFinite == IsFiniteSet(JobIds)
<1>1. IsFiniteSet(Origins)
  <2>1. IsFiniteSet(Users) /\ Consumers \in SUBSET Users /\ IsFiniteSet(Remote)
    BY MarketplaceAssumption
  <2>2. IsFiniteSet(Consumers)
    BY <2>1, FS_Subset
  <2> QED BY <2>1, <2>2, FS_Union DEF Origins
<1>2. IsFiniteSet(1 .. MaxJobSeq)
  BY MarketplaceAssumption, FS_Interval
<1> QED BY <1>1, <1>2, FS_Product DEF JobIds

\* A transfer that is possible leaves no balance below zero.
LEMMA TransferType ==
  ASSUME NEW bal \in [Accounts -> Nat], NEW from \in Accounts, NEW to \in Accounts,
         NEW amount \in Nat, CanTransfer(bal, from, to, amount)
  PROVE  Transfer(bal, from, to, amount) \in [Accounts -> Nat]
<1>1. ExistentialDeposit \in Nat
  BY MarketplaceAssumption
<1>2. bal[from] >= amount
  BY <1>1 DEF CanTransfer
<1> QED BY <1>2 DEF Transfer

\* A percentage of an amount is a part of it.
LEMMA MulFloor ==
  ASSUME NEW percentage \in 0 .. 100, NEW amount \in Nat
  PROVE  mul_floor(percentage, amount) \in Nat /\ mul_floor(percentage, amount) <= amount
<1>1. percentage * amount \in Nat /\ percentage * amount <= 100 * amount
  OBVIOUS
<1>2. \A x \in Nat : x <= 100 * amount => x \div 100 \in Nat /\ x \div 100 <= amount
  OBVIOUS
<1> QED BY <1>1, <1>2 DEF mul_floor

\* A payment less the fee leaves no balance below zero.
LEMMA PayType ==
  ASSUME NEW bal \in [Accounts -> Nat], NEW amount \in Nat, NEW target \in Accounts,
         CanPay(bal, amount, target)
  PROVE  Pay(bal, amount, target) \in [Accounts -> Nat]
<1> DEFINE fee == mul_floor(FeePercentage, amount)
           mid == Transfer(bal, PalletAccount, FeeAccount, fee)
<1>1. fee \in Nat /\ amount - fee \in Nat
  <2>1. FeePercentage \in 0 .. 100
    BY MarketplaceAssumption
  <2>2. fee \in Nat /\ fee <= amount
    BY <2>1, MulFloor
  <2> HIDE DEF fee
  <2> QED BY <2>2
<1>2. /\ CanTransfer(bal, PalletAccount, FeeAccount, fee)
      /\ CanTransfer(mid, PalletAccount, target, amount - fee)
  BY DEF CanPay
<1>3. mid \in [Accounts -> Nat]
  BY <1>1, <1>2, TransferType, AccountFacts
<1> HIDE DEF mid
<1>4. Transfer(mid, PalletAccount, target, amount - fee) \in [Accounts -> Nat]
  BY <1>1, <1>2, <1>3, TransferType, AccountFacts
<1> QED BY <1>4 DEF Pay, mid

\* The number of executions is a natural number.
LEMMA CountType ==
  ASSUME NEW s \in ScheduleType
  PROVE  execution_count(s) \in Nat
<1>1. s.start_time \in Int /\ s.end_time \in Int /\ s.interval \in Int
  BY MaxTimeAssumption DEF ScheduleType, Time
<1>2. \A a, b, i \in Int : a < b /\ i > 0 => (b - a - 1) \div i + 1 \in Nat
  OBVIOUS
<1> QED BY <1>1, <1>2 DEF execution_count

\* The fields of a registration that are computed with.
LEMMA RegistrationFacts ==
  ASSUME NEW r \in RegistrationType
  PROVE  /\ r.schedule \in ScheduleType
         /\ r.storage \in Nat /\ r.slots \in Nat /\ r.reward \in Nat
         /\ r.instant_match \in Plans \cup {None}
         /\ execution_count(r.schedule) \in Nat
         /\ total_reward_amount(r) \in Nat
<1>1. /\ r.schedule \in ScheduleType
      /\ r.storage \in Nat /\ r.slots \in Nat /\ r.reward \in Nat
      /\ r.instant_match \in Plans \cup {None}
  BY DEF RegistrationType
<1>2. execution_count(r.schedule) \in Nat
  BY <1>1, CountType
<1>3. \A a, b, c \in Nat : a * b * c \in Nat
  OBVIOUS
<1> QED BY <1>1, <1>2, <1>3 DEF total_reward_amount

\* The fee of a source for one execution.
LEMMA FeeType ==
  ASSUME NEW r \in RegistrationType, NEW a \in AdvertisementType
  PROVE  fee_per_execution(r, a.pricing) \in Nat
<1>1. /\ a.pricing.fee_per_millisecond \in Nat
      /\ a.pricing.fee_per_storage_byte \in Nat
      /\ a.pricing.base_fee_per_execution \in Nat
  BY DEF AdvertisementType, Pricings
<1>2. r.schedule.duration \in Nat
  BY MaxTimeAssumption DEF RegistrationType, ScheduleType, Time
<1>3. r.storage \in Nat
  BY DEF RegistrationType
<1>4. \A u, v, w, x, y \in Nat : u * v + w * x + y \in Nat
  OBVIOUS
<1> QED BY <1>1, <1>2, <1>3, <1>4 DEF fee_per_execution

\* A plan delays processors; what it says of each is a time.
LEMMA PlanFacts ==
  ASSUME NEW pl \in Plans
  PROVE  /\ DOMAIN pl \subseteq Processors
         /\ IsFiniteSet(DOMAIN pl)
         /\ \A p \in DOMAIN pl : pl[p] \in Time
<1>1. PICK S \in SUBSET Processors : pl \in [S -> Delays]
  BY DEF Plans
<1>2. IsFiniteSet(S)
  BY MarketplaceAssumption, FS_Subset
<1> QED BY <1>1, <1>2, MarketplaceAssumption

\* What a processor is to store for the jobs of a call is a natural number.
LEMMA NewStorageType ==
  ASSUME NEW reg, NEW J \in SUBSET JobIds, NEW plan \in [J -> Plans], NEW p,
         \A j \in J : reg[j] \in RegistrationType
  PROVE  NewStorage(reg, plan, p) \in Nat
<1> DEFINE mine == JobsOf(plan, p)
           f == [j \in mine |-> reg[j].storage]
<1>1. mine \in SUBSET J
  BY DEF JobsOf
<1>2. IsFiniteSet(mine)
  BY <1>1, JobsFinite, FS_Subset
<1>3. \A j \in mine : f[j] \in Nat
  BY <1>1, RegistrationFacts
<1> HIDE DEF mine, f
<1>4. Sum(f, mine) \in Nat
  BY <1>2, <1>3, SumType
<1> QED BY <1>4 DEF NewStorage, f, mine

\* What the sources of a job cost is a natural number.
LEMMA TotalFeeType ==
  ASSUME NEW r \in RegistrationType, NEW sources, IsFiniteSet(sources),
         \A p \in sources : ad[p] \in AdvertisementType
  PROVE  TotalFee(r, sources) \in Nat
<1> DEFINE f == [p \in sources |->
                   fee_per_execution(r, ad[p].pricing) * execution_count(r.schedule)]
<1>1. \A p \in sources : f[p] \in Nat
  <2>1. execution_count(r.schedule) \in Nat
    BY RegistrationFacts
  <2>2. \A p \in sources : fee_per_execution(r, ad[p].pricing) \in Nat
    BY FeeType
  <2>3. \A a, b \in Nat : a * b \in Nat
    OBVIOUS
  <2> QED BY <2>1, <2>2, <2>3
<1> HIDE DEF f
<1>2. Sum(f, sources) \in Nat
  BY <1>1, SumType
<1> QED BY <1>2 DEF TotalFee, f

-----------------------------------------------------------------------------
(***************************************************************************)
(* Type correctness.  deregister_for divides by the number of slots, so    *)
(* that it needs to know what register_hook has let in.                    *)
(***************************************************************************)
\* Every job in the registry has a schedule with an execution and a slot.
RegistrationsSound ==
  \A j \in JobIds : registration[j] # None =>
    /\ WellFormed(registration[j].schedule, MaxExecutions)
    /\ registration[j].slots \in 1 .. MaxSlots

\* Taking money in leaves balances and budgets natural numbers.
LEMMA LockType ==
  ASSUME TypeOK, NEW j \in JobIds, NEW reward \in Nat, lock_reward(j, reward)
  PROVE  balance' \in [Accounts -> Nat] /\ budget' \in [JobIds -> Nat]
<1>1. balance \in [Accounts -> Nat] /\ budget \in [JobIds -> Nat]
  BY DEF TypeOK
<1>2. balance' \in [Accounts -> Nat]
  BY <1>1, TransferType, PayerType, AccountFacts DEF lock_reward
<1>3. budget' \in [JobIds -> Nat]
  BY <1>1 DEF lock_reward
<1> QED BY <1>2, <1>3

\* So does paying a processor's manager ...
LEMMA PayRewardType ==
  ASSUME TypeOK, NEW j \in JobIds, NEW reward \in Nat, NEW target \in Accounts,
         pay_reward(j, reward, target)
  PROVE  balance' \in [Accounts -> Nat] /\ budget' \in [JobIds -> Nat]
<1>1. balance \in [Accounts -> Nat] /\ budget \in [JobIds -> Nat]
  BY DEF TypeOK
<1>2. balance' \in [Accounts -> Nat]
  BY <1>1, PayType DEF pay_reward
<1>3. budget' \in [JobIds -> Nat]
  BY <1>1 DEF pay_reward
<1> QED BY <1>2, <1>3

\* ... and giving the rest of a budget back ...
LEMMA RefundType ==
  ASSUME TypeOK, NEW bal \in [Accounts -> Nat], NEW j \in JobIds, NEW remaining \in Nat,
         refund(bal, j, remaining)
  PROVE  balance' \in [Accounts -> Nat] /\ budget' \in [JobIds -> Nat]
<1>1. budget \in [JobIds -> Nat]
  BY DEF TypeOK
<1>2. balance' \in [Accounts -> Nat]
  BY TransferType, PayerType, AccountFacts DEF refund
<1>3. budget' \in [JobIds -> Nat]
  BY <1>1 DEF refund
<1> QED BY <1>2, <1>3

\* ... and paying a matcher out of several budgets.
LEMMA PayMatcherType ==
  ASSUME TypeOK, NEW J \in SUBSET JobIds, NEW remaining \in [J -> Nat],
         NEW matcher \in Accounts, pay_matcher_reward(remaining, matcher)
  PROVE  balance' \in [Accounts -> Nat] /\ budget' \in [JobIds -> Nat]
<1> DEFINE fee == [j \in DOMAIN remaining |-> mul_floor(MatcherPercentage, remaining[j])]
           share == Sum(fee, DOMAIN remaining)
<1>0. balance \in [Accounts -> Nat] /\ budget \in [JobIds -> Nat]
  BY DEF TypeOK
<1>1. DOMAIN remaining = J /\ IsFiniteSet(J)
  BY JobsFinite, FS_Subset
<1>2. \A j \in J : fee[j] \in Nat
  <2>1. MatcherPercentage \in 0 .. 100
    BY MarketplaceAssumption
  <2> QED BY <2>1, <1>1, MulFloor
<1>3. /\ \A j \in J : fee[j] <= budget[j]
      /\ budget' = [j \in JobIds |-> IF j \in J THEN budget[j] - fee[j] ELSE budget[j]]
      /\ CanPay(balance, share, matcher)
      /\ balance' = Pay(balance, share, matcher)
  BY <1>1 DEF pay_matcher_reward
<1> HIDE DEF fee
<1>4. share \in Nat
  BY <1>1, <1>2, SumType
<1> HIDE DEF share
<1>5. balance' \in [Accounts -> Nat]
  BY <1>0, <1>3, <1>4, PayType
<1>6. budget' \in [JobIds -> Nat]
  <2> SUFFICES ASSUME NEW j \in JobIds
               PROVE  (IF j \in J THEN budget[j] - fee[j] ELSE budget[j]) \in Nat
    BY <1>3
  <2>1. budget[j] \in Nat
    BY <1>0
  <2>2. CASE j \in J
    BY <2>1, <2>2, <1>2, <1>3
  <2>3. CASE j \notin J
    BY <2>1, <2>3
  <2> QED BY <2>2, <2>3
<1> QED BY <1>5, <1>6

\* What a successful call of process_matching has checked of its jobs.
LEMMA MatchedFacts ==
  ASSUME TypeOK, NEW reg \in [JobIds -> RegistrationType \cup {None}],
         NEW J \in SUBSET JobIds, NEW plan \in [J -> Plans], CanMatch(reg, plan)
  PROVE  \A j \in J :
           /\ reg[j] \in RegistrationType
           /\ DOMAIN plan[j] \subseteq Processors /\ IsFiniteSet(DOMAIN plan[j])
           /\ Cardinality(DOMAIN plan[j]) = reg[j].slots
           /\ \A p \in DOMAIN plan[j] :
                /\ plan[j][p] \in Time
                /\ ad[p] \in AdvertisementType
                /\ capacity[p] \in Int
                /\ matches[p][j] = None
           /\ TotalFee(reg[j], DOMAIN plan[j]) \in Nat
           /\ TotalFee(reg[j], DOMAIN plan[j]) <= total_reward_amount(reg[j])
<1> TAKE j \in J
<1>1. /\ reg[j] # None
      /\ Cardinality(DOMAIN plan[j]) = reg[j].slots
      /\ \A p \in DOMAIN plan[j] : SourceSuits(reg[j], j, p, plan[j][p])
      /\ TotalFee(reg[j], DOMAIN plan[j]) <= total_reward_amount(reg[j])
  BY DEF CanMatch
<1>2. reg[j] \in RegistrationType
  BY <1>1
<1>3. plan[j] \in Plans
  OBVIOUS
<1>4. /\ DOMAIN plan[j] \subseteq Processors /\ IsFiniteSet(DOMAIN plan[j])
      /\ \A p \in DOMAIN plan[j] : plan[j][p] \in Time
  BY <1>3, PlanFacts
<1>5. \A p \in DOMAIN plan[j] :
        ad[p] \in AdvertisementType /\ capacity[p] \in Int /\ matches[p][j] = None
  <2> TAKE p \in DOMAIN plan[j]
  <2>1. ad[p] # None /\ capacity[p] # None /\ matches[p][j] = None
    BY <1>1 DEF SourceSuits
  <2>2. p \in Processors
    BY <1>4
  <2> QED BY <2>1, <2>2 DEF TypeOK
<1>6. TotalFee(reg[j], DOMAIN plan[j]) \in Nat
  BY <1>2, <1>4, <1>5, TotalFeeType
<1> QED BY <1>1, <1>2, <1>4, <1>5, <1>6

\* A call of process_matching leaves its storage well typed.
LEMMA MatchingType ==
  ASSUME TypeOK, NEW reg \in [JobIds -> RegistrationType \cup {None}],
         NEW J \in SUBSET JobIds, NEW plan \in [J -> Plans], process_matching(reg, plan)
  PROVE  /\ matches' \in [Processors -> [JobIds -> AssignmentType \cup {None}]]
         /\ assigned' \subseteq JobIds \X Processors
         /\ capacity' \in [Processors -> Int \cup {None}]
         /\ total_assigned' \in Nat /\ average_reward' \in Nat
<1>0. CanMatch(reg, plan)
  BY DEF process_matching
<1>1. \A j \in J : reg[j] \in RegistrationType
  BY <1>0, MatchedFacts
<1>2. matches' \in [Processors -> [JobIds -> AssignmentType \cup {None}]]
  <2>1. matches' = [p \in Processors |-> [j \in JobIds |->
                      IF j \in JobsOf(plan, p) THEN NewAssignment(reg[j], p, plan[j][p])
                                               ELSE matches[p][j]]]
    BY DEF process_matching
  <2>2. ASSUME NEW p \in Processors, NEW j \in JobIds
        PROVE  (IF j \in JobsOf(plan, p) THEN NewAssignment(reg[j], p, plan[j][p])
                                         ELSE matches[p][j]) \in AssignmentType \cup {None}
    <3>1. CASE j \in JobsOf(plan, p)
      <4>1. j \in J /\ p \in DOMAIN plan[j]
        BY <3>1 DEF JobsOf
      <4>2. /\ reg[j] \in RegistrationType /\ plan[j][p] \in Time
            /\ ad[p] \in AdvertisementType
        BY <4>1, <1>0, MatchedFacts
      <4>3. fee_per_execution(reg[j], ad[p].pricing) \in Nat
        BY <4>2, FeeType
      <4>4. execution_count(reg[j].schedule) \in Nat
        BY <4>2, RegistrationFacts
      <4>5. NewAssignment(reg[j], p, plan[j][p]) \in AssignmentType
        BY <4>2, <4>3, <4>4 DEF NewAssignment, AssignmentType
      <4> QED BY <3>1, <4>5
    <3>2. CASE j \notin JobsOf(plan, p)
      <4>1. matches[p][j] \in AssignmentType \cup {None}
        BY DEF TypeOK
      <4> QED BY <3>2, <4>1
    <3> QED BY <3>1, <3>2
  <2> QED BY <2>1, <2>2
<1>3. assigned' \subseteq JobIds \X Processors
  BY DEF process_matching, TypeOK
<1>4. capacity' \in [Processors -> Int \cup {None}]
  <2>1. capacity' = [p \in Processors |->
                       IF JobsOf(plan, p) = {} THEN capacity[p]
                       ELSE capacity[p] - NewStorage(reg, plan, p)]
    BY DEF process_matching
  <2>2. ASSUME NEW p \in Processors
        PROVE  (IF JobsOf(plan, p) = {} THEN capacity[p]
                ELSE capacity[p] - NewStorage(reg, plan, p)) \in Int \cup {None}
    <3>1. CASE JobsOf(plan, p) = {}
      <4>1. capacity[p] \in Int \cup {None}
        BY DEF TypeOK
      <4> QED BY <3>1, <4>1
    <3>2. CASE JobsOf(plan, p) # {}
      <4>1. PICK j \in J : p \in DOMAIN plan[j]
        BY <3>2 DEF JobsOf
      <4>2. capacity[p] \in Int
        BY <4>1, <1>0, MatchedFacts
      <4>3. NewStorage(reg, plan, p) \in Nat
        BY <1>1, NewStorageType
      <4> QED BY <3>2, <4>2, <4>3
    <3> QED BY <3>1, <3>2
  <2> QED BY <2>1, <2>2
<1>5. total_assigned' \in Nat /\ average_reward' \in Nat
  <2>1. Cardinality(J) \in Nat
    BY JobsFinite, FS_Subset, FS_CardinalityType
  <2>2. DOMAIN plan = J
    OBVIOUS
  <2>3. total_assigned \in Nat /\ average_reward \in Nat
    BY DEF TypeOK
  <2>4. total_assigned' = total_assigned + Cardinality(J) /\ average_reward' = average_reward
    BY <2>2 DEF process_matching
  <2> QED BY <2>1, <2>3, <2>4
<1> QED BY <1>2, <1>3, <1>4, <1>5

\* clear_prefix removes entries of the prefix only.
LEMMA ClearPrefixFacts ==
  ASSUME NEW keys, NEW j, NEW limit, NEW rest \in ClearPrefix(keys, j, limit)
  PROVE  rest \subseteq keys /\ \A e \in keys : e[1] # j => e \in rest
BY DEF ClearPrefix

\* Releasing the matches of a registered job.
LEMMA ReleaseType ==
  ASSUME TypeOK, NEW j \in JobIds, registration[j] # None, Release(j)
  PROVE  /\ matches' \in [Processors -> [JobIds -> AssignmentType \cup {None}]]
         /\ assigned' \subseteq JobIds \X Processors
         /\ capacity' \in [Processors -> Int \cup {None}]
<1>1. registration[j].storage \in Nat
  BY RegistrationFacts DEF TypeOK
<1>2. matches' \in [Processors -> [JobIds -> AssignmentType \cup {None}]]
  BY DEF Release, TypeOK
<1>3. assigned' \subseteq JobIds \X Processors
  BY ClearPrefixFacts DEF Release, TypeOK
<1>4. capacity' \in [Processors -> Int \cup {None}]
  BY <1>1 DEF Release, TypeOK
<1> QED BY <1>2, <1>3, <1>4

\* Forgetting a job.
LEMMA ForgetType ==
  ASSUME TypeOK, RegistrationsSound, NEW j \in JobIds, Forget(j)
  PROVE  /\ registration' \in [JobIds -> RegistrationType \cup {None}]
         /\ status' \in [JobIds -> Statuses \cup {None}]
         /\ environment' \subseteq JobIds \X Processors
         /\ RegistrationsSound'
<1>1. registration' \in [JobIds -> RegistrationType \cup {None}]
  BY DEF Forget, TypeOK
<1>2. status' \in [JobIds -> Statuses \cup {None}]
  BY DEF Forget, TypeOK
<1>3. environment' \subseteq JobIds \X Processors
  BY ClearPrefixFacts DEF Forget, TypeOK
<1>4. RegistrationsSound'
  BY DEF Forget, TypeOK, RegistrationsSound
<1> QED BY <1>1, <1>2, <1>3, <1>4

\* Compensating the processors that have acknowledged a job leaves no balance
\* below zero, and no more is paid than the budget holds.
LEMMA CompensatedType ==
  ASSUME TypeOK, RegistrationsSound, NEW j \in JobIds, registration[j] # None,
         CanCompensate(j)
  PROVE  /\ Compensated(j) \in [Accounts -> Nat]
         /\ budget[j] - Cardinality(Acknowledged(j)) * Compensation(j) \in Nat
<1> DEFINE n == Cardinality(Acknowledged(j))
           reward == Compensation(j)
           fee == mul_floor(FeePercentage, reward)
           share(a) == Cardinality({ p \in Acknowledged(j) : manager[p] = a })
<1>1. budget[j] \in Nat /\ registration[j].slots \in Nat /\ registration[j].slots > 0
  BY MarketplaceAssumption DEF TypeOK, RegistrationsSound
<1>2. reward \in Nat
  <2>1. \A a, b \in Nat : b > 0 => a \div b \in Nat
    OBVIOUS
  <2> QED BY <1>1, <2>1 DEF Compensation
<1>3. fee \in Nat /\ fee <= reward
  BY <1>2, MulFloor, MarketplaceAssumption
<1>4. IsFiniteSet(Acknowledged(j))
  BY MarketplaceAssumption, FS_Subset DEF Acknowledged
<1>5. n \in Nat
  BY <1>4, FS_CardinalityType
<1>6. \A a : share(a) \in Nat
  <2> TAKE a
  <2> DEFINE those == { p \in Acknowledged(j) : manager[p] = a }
  <2>1. those \in SUBSET Acknowledged(j)
    OBVIOUS
  <2>2. IsFiniteSet(those)
    BY <1>4, <2>1, FS_Subset
  <2> QED BY <2>2, FS_CardinalityType
<1>7. n * reward <= budget[j]
  BY DEF CanCompensate
<1>8. \A a \in Accounts : balance[a] \in Nat
  BY DEF TypeOK
<1>9. balance[PalletAccount] >= n * reward
  <2>1. CASE Acknowledged(j) = {}
    <3>1. n = 0
      BY <2>1, FS_EmptySet
    <3>2. n * reward = 0
      BY <3>1, <1>2
    <3> QED BY <3>2, <1>8, AccountFacts
  <2>2. CASE reward = 0
    <3>1. n * reward = 0
      BY <2>2, <1>5
    <3> QED BY <3>1, <1>8, AccountFacts
  <2>3. CASE Acknowledged(j) # {} /\ reward > 0
    <3>1. balance[PalletAccount] >= n * reward + ExistentialDeposit
      BY <2>3 DEF CanCompensate
    <3>2. ExistentialDeposit \in Nat
      BY MarketplaceAssumption
    <3>3. n * reward \in Nat
      BY <1>2, <1>5
    <3> HIDE DEF n, reward
    <3> QED BY <3>1, <3>2, <3>3, <1>8, AccountFacts
  <2> QED BY <2>1, <2>2, <2>3, <1>2
<1>10. Compensated(j) = [a \in Accounts |->
          CASE a = PalletAccount -> balance[a] - n * reward
            [] a = FeeAccount    -> balance[a] + n * fee
            [] OTHER -> balance[a] + share(a) * (reward - fee)]
  BY DEF Compensated
<1> HIDE DEF n, reward, fee, share
<1>11. Compensated(j) \in [Accounts -> Nat]
  <2>1. ASSUME NEW a \in Accounts
        PROVE  (CASE a = PalletAccount -> balance[a] - n * reward
                  [] a = FeeAccount    -> balance[a] + n * fee
                  [] OTHER -> balance[a] + share(a) * (reward - fee)) \in Nat
    <3>1. CASE a = PalletAccount
      <4>1. n * reward \in Nat
        BY <1>2, <1>5
      <4>2. balance[a] - n * reward \in Nat
        BY <3>1, <4>1, <1>8, <1>9
      <4> QED BY <3>1, <4>2, MarketplaceAssumption
    <3>2. CASE a = FeeAccount
      <4>1. n * fee \in Nat
        BY <1>3, <1>5
      <4>2. balance[a] + n * fee \in Nat
        BY <4>1, <1>8
      <4> QED BY <3>2, <4>2, MarketplaceAssumption
    <3>3. CASE a # PalletAccount /\ a # FeeAccount
      <4>1. reward - fee \in Nat /\ share(a) \in Nat
        BY <1>2, <1>3, <1>6
      <4>2. share(a) * (reward - fee) \in Nat
        BY <4>1
      <4>3. balance[a] + share(a) * (reward - fee) \in Nat
        BY <4>2, <1>8
      <4> QED BY <3>3, <4>3
    <3> QED BY <3>1, <3>2, <3>3
  <2> QED BY <2>1, <1>10
<1>12. n * reward \in Nat
  BY <1>2, <1>5
<1>13. budget[j] - n * reward \in Nat
  BY <1>1, <1>7, <1>12
<1> QED BY <1>11, <1>13 DEF n, reward

-----------------------------------------------------------------------------
\* The type invariant and what the registry guarantees.
TypeInv == TypeOK /\ RegistrationsSound

\* The initial state.
LEMMA InitType == Init => TypeInv
<1> SUFFICES ASSUME Init PROVE TypeInv
  OBVIOUS
<1>1. TypeOK
  BY MarketplaceAssumption, MaxTimeAssumption DEF Init, TypeOK, Time
<1>2. RegistrationsSound
  BY DEF Init, RegistrationsSound
<1> QED BY <1>1, <1>2 DEF TypeInv

\* Registration, by a consumer or by Hyperdrive.
LEMMA RegisterType ==
  ASSUME TypeInv, NEW j \in JobIds, NEW r \in JobRegistrations, register_for(j, r),
         job_id_seq' \in 0 .. MaxJobSeq
  PROVE  TypeInv'
<1> USE DEF TypeInv
<1>1. r \in RegistrationType
  BY MarketplaceAssumption
<1>2. registration' = [registration EXCEPT ![j] = r]
  BY DEF register_for
<1>3. registration' \in [JobIds -> RegistrationType \cup {None}]
  BY <1>1, <1>2 DEF TypeOK
<1>4. RegistrationsSound'
  BY <1>2 DEF register_for, Registrable, RegistrationsSound, TypeOK
<1>5. balance' \in [Accounts -> Nat] /\ budget' \in [JobIds -> Nat]
  BY <1>1, RegistrationFacts, LockType DEF register_for
<1>6. /\ environment' \subseteq JobIds \X Processors
      /\ ad' \in [Processors -> AdvertisementType \cup {None}]
      /\ reputation' \in [Processors -> Nat \cup {None}]
      /\ now' \in Time
      /\ manager' \in [Processors -> Managers \cup {None}]
      /\ verified' \subseteq Processors
  BY DEF register_for, TypeOK, advertVars, outsideVars
<1>7. status' \in [JobIds -> Statuses \cup {None}]
  <2>1. Open \in Statuses /\ Matched \in Statuses
    BY DEF Open, Matched, Statuses
  <2> QED BY <2>1 DEF register_for, TypeOK
<1>8. /\ matches' \in [Processors -> [JobIds -> AssignmentType \cup {None}]]
      /\ assigned' \subseteq JobIds \X Processors
      /\ capacity' \in [Processors -> Int \cup {None}]
      /\ total_assigned' \in Nat /\ average_reward' \in Nat
  <2>1. CASE r.instant_match = None
    BY <2>1 DEF register_for, TypeOK, matchVars, statVars
  <2>2. CASE r.instant_match # None
    <3> DEFINE reg == [registration EXCEPT ![j] = r]
               plan == [k \in {j} |-> r.instant_match]
    <3>1. process_matching(reg, plan)
      BY <2>2 DEF register_for
    <3>2. reg \in [JobIds -> RegistrationType \cup {None}]
      BY <1>2, <1>3
    <3>3. plan \in [{j} -> Plans]
      BY <2>2, <1>1, RegistrationFacts
    <3> HIDE DEF reg, plan
    <3> QED BY <3>1, <3>2, <3>3, MatchingType
  <2> QED BY <2>1, <2>2
<1> QED BY <1>3, <1>4, <1>5, <1>6, <1>7, <1>8 DEF TypeOK

\* Deregistration.
LEMMA DeregisterType ==
  ASSUME TypeInv, NEW j \in JobIds, deregister_for(j)
  PROVE  TypeInv'
<1> USE DEF TypeInv
<1>1. /\ registration' \in [JobIds -> RegistrationType \cup {None}]
      /\ status' \in [JobIds -> Statuses \cup {None}]
      /\ environment' \subseteq JobIds \X Processors
      /\ RegistrationsSound'
  BY ForgetType DEF deregister_for
<1>2. /\ job_id_seq' \in 0 .. MaxJobSeq
      /\ ad' \in [Processors -> AdvertisementType \cup {None}]
      /\ reputation' \in [Processors -> Nat \cup {None}]
      /\ total_assigned' \in Nat /\ average_reward' \in Nat
      /\ now' \in Time
      /\ manager' \in [Processors -> Managers \cup {None}]
      /\ verified' \subseteq Processors
  BY DEF deregister_for, TypeOK, advertVars, statVars, outsideVars
<1>3. balance \in [Accounts -> Nat] /\ budget[j] \in Nat
  BY DEF TypeOK
<1>4. /\ balance' \in [Accounts -> Nat] /\ budget' \in [JobIds -> Nat]
      /\ matches' \in [Processors -> [JobIds -> AssignmentType \cup {None}]]
      /\ assigned' \subseteq JobIds \X Processors
      /\ capacity' \in [Processors -> Int \cup {None}]
  <2>1. CASE deregister_open(j)
    <3>1. balance' \in [Accounts -> Nat] /\ budget' \in [JobIds -> Nat]
      BY <2>1, <1>3, RefundType DEF deregister_open
    <3> QED BY <2>1, <3>1 DEF deregister_open, matchVars, TypeOK
  <2>2. CASE deregister_matched(j)
    <3>1. balance' \in [Accounts -> Nat] /\ budget' \in [JobIds -> Nat]
      BY <2>2, <1>3, RefundType DEF deregister_matched
    <3> QED BY <2>2, <3>1, ReleaseType DEF deregister_matched
  <2>3. CASE deregister_assigned(j)
    <3>1. balance' \in [Accounts -> Nat] /\ budget' \in [JobIds -> Nat]
      BY <2>3, CompensatedType, RefundType DEF deregister_assigned
    <3> QED BY <2>3, <3>1, ReleaseType DEF deregister_assigned
  <2> QED BY <2>1, <2>2, <2>3 DEF deregister_for
<1> QED BY <1>1, <1>2, <1>4 DEF TypeOK

\* The other steps of a consumer.
LEMMA ConsumerType ==
  ASSUME TypeInv, ConsumerStep
  PROVE  TypeInv'
<1> USE DEF TypeInv
<1>1. ASSUME NEW c \in Consumers, NEW r \in JobRegistrations, register(c, r)
      PROVE  TypeInv'
  <2>1. job_id_seq + 1 \in 1 .. MaxJobSeq /\ job_id_seq' = job_id_seq + 1
    BY <1>1, MarketplaceAssumption DEF register, TypeOK
  <2>2. <<c, job_id_seq + 1>> \in JobIds
    BY <2>1 DEF JobIds, Origins
  <2>3. job_id_seq' \in 0 .. MaxJobSeq
    BY <2>1, MarketplaceAssumption
  <2>4. register_for(<<c, job_id_seq + 1>>, r)
    BY <1>1 DEF register
  <2> QED BY <2>2, <2>3, <2>4, RegisterType
<1>2. ASSUME NEW j \in JobIds, NEW r \in JobRegistrations, register_remote(j, r)
      PROVE  TypeInv'
  <2>1. register_for(j, r) /\ job_id_seq' \in 0 .. MaxJobSeq
    BY <1>2 DEF register_remote, TypeOK
  <2> QED BY <2>1, RegisterType
<1>3. ASSUME NEW j \in JobIds, deregister_for(j)
      PROVE  TypeInv'
  BY <1>3, DeregisterType
<1>4. ASSUME NEW j \in JobIds, NEW allowed \in SourceLists, update_allowed_sources(j, allowed)
      PROVE  TypeInv'
  <2>1. registration[j] \in RegistrationType /\ allowed \subseteq Processors
    BY <1>4, MarketplaceAssumption DEF update_allowed_sources, TypeOK
  <2>2. registration' =
          [registration EXCEPT ![j] = [registration[j] EXCEPT !.allowed_sources = allowed]]
    BY <1>4, <2>1 DEF update_allowed_sources, TypeOK
  <2> DEFINE r == [registration[j] EXCEPT !.allowed_sources = allowed]
  <2>3. /\ r \in RegistrationType
        /\ r.schedule = registration[j].schedule /\ r.slots = registration[j].slots
    BY <2>1 DEF RegistrationType
  <2> HIDE DEF r
  <2>4. registration' \in [JobIds -> RegistrationType \cup {None}]
    BY <2>2, <2>3 DEF TypeOK, r
  <2>5. RegistrationsSound'
    BY <2>1, <2>2, <2>3, MarketplaceAssumption DEF TypeOK, RegistrationsSound, r
  <2> QED BY <1>4, <2>4, <2>5
          DEF update_allowed_sources, TypeOK, advertVars, matchVars, statVars, moneyVars,
              outsideVars
<1>5. ASSUME NEW j \in JobIds, NEW sources \in SourceLists, set_environment(j, sources)
      PROVE  TypeInv'
  <2>1. environment' \subseteq JobIds \X Processors
    BY <1>5, MarketplaceAssumption DEF set_environment, TypeOK
  <2>2. RegistrationsSound'
    BY <1>5 DEF set_environment, RegistrationsSound
  <2> QED BY <1>5, <2>1, <2>2
          DEF set_environment, TypeOK, advertVars, matchVars, statVars, moneyVars, outsideVars
<1>6. ASSUME NEW j \in JobIds, finalize_jobs_for(j)
      PROVE  TypeInv'
  <2>1. /\ registration' \in [JobIds -> RegistrationType \cup {None}]
        /\ status' \in [JobIds -> Statuses \cup {None}]
        /\ environment' \subseteq JobIds \X Processors
        /\ RegistrationsSound'
    BY <1>6, ForgetType DEF finalize_jobs_for
  <2>2. /\ matches' \in [Processors -> [JobIds -> AssignmentType \cup {None}]]
        /\ assigned' \subseteq JobIds \X Processors
        /\ capacity' \in [Processors -> Int \cup {None}]
    BY <1>6, ReleaseType DEF finalize_jobs_for
  <2>3. balance \in [Accounts -> Nat] /\ budget[j] \in Nat
    BY DEF TypeOK
  <2>4. balance' \in [Accounts -> Nat] /\ budget' \in [JobIds -> Nat]
    BY <1>6, <2>3, RefundType DEF finalize_jobs_for
  <2> QED BY <1>6, <2>1, <2>2, <2>4
          DEF finalize_jobs_for, TypeOK, advertVars, statVars, outsideVars
<1> QED BY <1>1, <1>2, <1>3, <1>4, <1>5, <1>6 DEF ConsumerStep

\* The steps of a processor.
LEMMA ProcessorType ==
  ASSUME TypeInv, ProcessorStep
  PROVE  TypeInv'
<1> USE DEF TypeInv
<1>0. PICK p \in Processors :
        \/ \E a \in Advertisements : advertise(p, a)
        \/ delete_advertisement(p)
        \/ \E j \in JobIds : acknowledge_match(p, j)
        \/ \E j \in JobIds : report(p, j)
        \/ \E j \in JobIds : finalize_job(p, j)
  BY DEF ProcessorStep
<1>1. ASSUME NEW a \in Advertisements, advertise(p, a)
      PROVE  TypeInv'
  <2>1. a \in AdvertisementType /\ a.storage_capacity \in Nat
    BY MarketplaceAssumption DEF AdvertisementType
  <2>2. ad[p] # None => ad[p].storage_capacity \in Nat
    BY DEF TypeOK, AdvertisementType
  <2>3. capacity' \in [Processors -> Int \cup {None}]
    BY <1>1, <2>1, <2>2 DEF advertise, TypeOK
  <2>4. ad' \in [Processors -> AdvertisementType \cup {None}]
    BY <1>1, <2>1 DEF advertise, TypeOK
  <2>5. reputation' \in [Processors -> Nat \cup {None}]
    BY <1>1 DEF advertise, TypeOK
  <2>6. RegistrationsSound'
    BY <1>1 DEF advertise, RegistrationsSound, registryVars
  <2> QED BY <1>1, <2>3, <2>4, <2>5, <2>6
          DEF advertise, TypeOK, registryVars, statVars, moneyVars, outsideVars
<1>2. ASSUME delete_advertisement(p)
      PROVE  TypeInv'
  <2>1. RegistrationsSound'
    BY <1>2 DEF delete_advertisement, RegistrationsSound, registryVars
  <2>2. /\ ad' \in [Processors -> AdvertisementType \cup {None}]
        /\ capacity' \in [Processors -> Int \cup {None}]
    BY <1>2 DEF delete_advertisement, TypeOK
  <2> QED BY <1>2, <2>1, <2>2
          DEF delete_advertisement, TypeOK, registryVars, statVars, moneyVars, outsideVars
<1>3. ASSUME NEW j \in JobIds, acknowledge_match(p, j)
      PROVE  TypeInv'
  <2>1. RegistrationsSound'
    BY <1>3 DEF acknowledge_match, RegistrationsSound, registryVars
  <2>2. matches[p][j] \in AssignmentType
    BY <1>3 DEF acknowledge_match, TypeOK
  <2>3. [matches[p][j] EXCEPT !.acknowledged = TRUE] \in AssignmentType
    BY <2>2 DEF AssignmentType
  <2>4. matches' \in [Processors -> [JobIds -> AssignmentType \cup {None}]]
    BY <1>3, <2>3 DEF acknowledge_match, TypeOK
  <2>5. status' \in [JobIds -> Statuses \cup {None}]
    <3>1. CASE UNCHANGED status
      BY <3>1 DEF TypeOK
    <3>2. CASE /\ status[j] \notin {None, Open}
               /\ status' = [status EXCEPT ![j] =
                               IF @ = Matched THEN Assigned(1) ELSE Assigned(@.count + 1)]
      <4>1. status[j] \in Statuses
        BY <3>2 DEF TypeOK
      <4>2. Assigned(1) \in Statuses /\ Assigned(status[j].count + 1) \in Statuses
        BY <4>1 DEF Assigned, Statuses
      <4> QED BY <3>2, <4>2 DEF TypeOK
    <3> QED BY <1>3, <3>1, <3>2 DEF acknowledge_match
  <2> QED BY <1>3, <2>1, <2>4, <2>5
          DEF acknowledge_match, TypeOK, registryVars, advertVars, statVars, moneyVars,
              outsideVars
<1>4. ASSUME NEW j \in JobIds, report(p, j)
      PROVE  TypeInv'
  <2>1. RegistrationsSound'
    BY <1>4 DEF report, RegistrationsSound, registryVars
  <2>2. matches[p][j] \in AssignmentType
    BY <1>4 DEF report, TypeOK
  <2>3. /\ [matches[p][j] EXCEPT !.met = @ + 1] \in AssignmentType
        /\ matches[p][j].fee_per_execution \in Nat
    BY <2>2 DEF AssignmentType
  <2>4. matches' \in [Processors -> [JobIds -> AssignmentType \cup {None}]]
    BY <1>4, <2>3 DEF report, TypeOK
  <2>5. manager[p] \in Accounts
    BY <1>4, MarketplaceAssumption, AccountFacts DEF report, TypeOK
  <2>6. balance' \in [Accounts -> Nat] /\ budget' \in [JobIds -> Nat]
    BY <1>4, <2>3, <2>5, PayRewardType DEF report
  <2> QED BY <1>4, <2>1, <2>4, <2>6
          DEF report, TypeOK, registryVars, advertVars, statVars, outsideVars
<1>5. ASSUME NEW j \in JobIds, finalize_job(p, j)
      PROVE  TypeInv'
  <2>1. RegistrationsSound'
    BY <1>5 DEF finalize_job, RegistrationsSound, registryVars
  <2>2. /\ registration[j].storage \in Nat
        /\ matches[p][j].fee_per_execution \in Nat
    BY <1>5, RegistrationFacts DEF finalize_job, TypeOK, AssignmentType
  <2>3. capacity' \in [Processors -> Int \cup {None}]
    BY <1>5, <2>2 DEF finalize_job, TypeOK
  <2>4. reputation' \in [Processors -> Nat \cup {None}] /\ average_reward' \in Nat
    <3> DEFINE fee == matches[p][j].fee_per_execution
    <3>1. CASE UNCHANGED <<reputation, average_reward>>
      BY <3>1 DEF TypeOK
    <3>2. CASE /\ \E score \in Scores : reputation' = [reputation EXCEPT ![p] = score]
               /\ total_assigned > 0
               /\ average_reward' =
                    (average_reward * (total_assigned - 1) + fee) \div total_assigned
      <4>1. reputation' \in [Processors -> Nat \cup {None}]
        BY <3>2, MarketplaceAssumption DEF TypeOK
      <4>2. \A a, t, f \in Nat : t > 0 => a * (t - 1) + f \in Nat
        OBVIOUS
      <4>3. \A x, t \in Nat : t > 0 => x \div t \in Nat
        OBVIOUS
      <4>4. average_reward \in Nat /\ total_assigned \in Nat
        BY DEF TypeOK
      <4> QED BY <3>2, <4>1, <4>2, <4>3, <4>4, <2>2
    <3> QED BY <1>5, <3>1, <3>2 DEF finalize_job, UpdateReputation
  <2>5. /\ matches' \in [Processors -> [JobIds -> AssignmentType \cup {None}]]
        /\ assigned' \subseteq JobIds \X Processors
    BY <1>5 DEF finalize_job, TypeOK
  <2> QED BY <1>5, <2>1, <2>3, <2>4, <2>5
          DEF finalize_job, TypeOK, registryVars, moneyVars, outsideVars
<1> QED BY <1>0, <1>1, <1>2, <1>3, <1>4, <1>5

\* The steps of a matcher.
LEMMA MatcherType ==
  ASSUME TypeInv, MatcherStep
  PROVE  TypeInv'
<1> USE DEF TypeInv
<1>0. PICK matcher \in Matchers, J \in SUBSET { j \in JobIds : status[j] = Open } :
        \E plan \in [J -> Plans] : propose_matching(matcher, plan)
  BY DEF MatcherStep
<1>1. PICK plan \in [J -> Plans] : propose_matching(matcher, plan)
  BY <1>0
<1>2. J \in SUBSET JobIds /\ DOMAIN plan = J
  OBVIOUS
<1>3. /\ process_matching(registration, plan)
      /\ registration \in [JobIds -> RegistrationType \cup {None}]
  BY <1>1 DEF propose_matching, TypeOK
<1>4. /\ matches' \in [Processors -> [JobIds -> AssignmentType \cup {None}]]
      /\ assigned' \subseteq JobIds \X Processors
      /\ capacity' \in [Processors -> Int \cup {None}]
      /\ total_assigned' \in Nat /\ average_reward' \in Nat
  BY <1>2, <1>3, MatchingType
<1> DEFINE remaining ==
      [j \in DOMAIN plan |->
         total_reward_amount(registration[j]) - TotalFee(registration[j], DOMAIN plan[j])]
<1>5. remaining \in [J -> Nat]
  <2>1. CanMatch(registration, plan)
    BY <1>3 DEF process_matching
  <2>2. ASSUME NEW j \in J
        PROVE  total_reward_amount(registration[j])
                 - TotalFee(registration[j], DOMAIN plan[j]) \in Nat
    <3>1. /\ registration[j] \in RegistrationType
          /\ TotalFee(registration[j], DOMAIN plan[j]) \in Nat
          /\ TotalFee(registration[j], DOMAIN plan[j]) <= total_reward_amount(registration[j])
      BY <1>2, <1>3, <2>1, MatchedFacts
    <3>2. total_reward_amount(registration[j]) \in Nat
      BY <3>1, RegistrationFacts
    <3> QED BY <3>1, <3>2
  <2> QED BY <1>2, <2>2
<1>6. pay_matcher_reward(remaining, matcher)
  BY <1>1 DEF propose_matching
<1>7. matcher \in Accounts
  BY MarketplaceAssumption, AccountFacts
<1> HIDE DEF remaining
<1>8. balance' \in [Accounts -> Nat] /\ budget' \in [JobIds -> Nat]
  BY <1>2, <1>5, <1>6, <1>7, PayMatcherType
<1>9. status' \in [JobIds -> Statuses \cup {None}]
  <2>1. Matched \in Statuses
    BY DEF Matched, Statuses
  <2> QED BY <1>1, <2>1 DEF propose_matching, TypeOK
<1>10. RegistrationsSound'
  BY <1>1 DEF propose_matching, RegistrationsSound, registryVars
<1> QED BY <1>1, <1>4, <1>8, <1>9, <1>10
        DEF propose_matching, TypeOK, registryVars, advertVars, outsideVars

\* Everything else.
LEMMA OutsideType ==
  ASSUME TypeInv, OutsideStep
  PROVE  TypeInv'
<1> USE DEF TypeInv, registryVars, advertVars, matchVars, statVars, moneyVars
<1>1. CASE Tick
  <2>1. now' \in Time
    BY <1>1, MarketplaceAssumption, MaxTimeAssumption DEF Tick, TypeOK, Time
  <2> QED BY <1>1, <2>1 DEF Tick, TypeOK, RegistrationsSound
<1>2. ASSUME NEW p \in Fickle, NEW m \in Managers \cup {None}, ChangePairing(p, m)
      PROVE  TypeInv'
  BY <1>2, MarketplaceAssumption DEF ChangePairing, TypeOK, RegistrationsSound
<1>3. ASSUME NEW p \in Fickle, ChangeAttestation(p)
      PROVE  TypeInv'
  BY <1>3, MarketplaceAssumption DEF ChangeAttestation, TypeOK, RegistrationsSound
<1> QED BY <1>1, <1>2, <1>3 DEF OutsideStep

\* Every storage item of the two pallets keeps its type: no balance and no
\* budget falls below zero, and no call reads a field of a missing entry.
THEOREM TypeCorrect == Spec => []TypeOK
<1>1. Init => TypeInv
  BY InitType
<1>2. TypeInv /\ [Next]_vars => TypeInv'
  <2> SUFFICES ASSUME TypeInv, [Next]_vars PROVE TypeInv'
    OBVIOUS
  <2>1. CASE Next
    BY <2>1, ConsumerType, ProcessorType, MatcherType, OutsideType DEF Next
  <2>2. CASE UNCHANGED vars
    BY <2>2 DEF vars, registryVars, advertVars, matchVars, statVars, moneyVars, outsideVars,
                TypeInv, TypeOK, RegistrationsSound
  <2> QED BY <2>1, <2>2
<1>3. TypeInv => TypeOK
  BY DEF TypeInv
<1> QED BY <1>1, <1>2, <1>3, PTL DEF Spec

-----------------------------------------------------------------------------
(***************************************************************************)
(* The maps of the two pallets stay consistent.  When a job ends the code  *)
(* walks AssignedProcessors to find the matches to remove and then calls   *)
(* clear_prefix with the limit MaxSlots; both maps stay in step only       *)
(* because a job never has more matches than slots.                        *)
(***************************************************************************)
\* A job has at most as many matches as slots.
SlotsFit ==
  \A j \in JobIds : registration[j] # None =>
    Cardinality(MatchedTo(j)) <= registration[j].slots

\* The inductive invariant.
Consistent == TypeInv /\ SameIndex /\ JobsConsistent /\ SlotsFit

\* Releasing a job removes its matches from both maps and no others.
LEMMA ReleaseFacts ==
  ASSUME Consistent, NEW j \in JobIds, registration[j] # None, Release(j)
  PROVE  /\ assigned' = { e \in assigned : e[1] # j }
         /\ \A p \in Processors : matches'[p][j] = None
         /\ \A p \in Processors, k \in JobIds : k # j => matches'[p][k] = matches[p][k]
<1> USE DEF Consistent, TypeInv
<1> DEFINE mine == { e \in assigned : e[1] = j }
<1>1. mine = {j} \X MatchedTo(j)
  BY DEF SameIndex, MatchedTo, TypeOK
<1>2. IsFiniteSet(MatchedTo(j)) /\ Cardinality(MatchedTo(j)) \in Nat
  BY MarketplaceAssumption, FS_Subset, FS_CardinalityType DEF MatchedTo
<1>3. IsFiniteSet(mine) /\ Cardinality(mine) <= MaxSlots
  <2>1. IsFiniteSet({j}) /\ Cardinality({j}) = 1
    BY FS_Singleton
  <2>2. /\ IsFiniteSet({j} \X MatchedTo(j))
        /\ Cardinality({j} \X MatchedTo(j)) = Cardinality({j}) * Cardinality(MatchedTo(j))
    BY <1>2, <2>1, FS_Product
  <2>3. Cardinality({j} \X MatchedTo(j)) = Cardinality(MatchedTo(j))
    BY <1>2, <2>1, <2>2
  <2>4. Cardinality(MatchedTo(j)) <= registration[j].slots
    BY DEF SlotsFit
  <2>5. registration[j].slots \in 1 .. MaxSlots
    BY DEF RegistrationsSound
  <2>6. MaxSlots \in Nat
    BY MarketplaceAssumption
  <2> HIDE DEF mine
  <2> QED BY <1>1, <1>2, <2>2, <2>3, <2>4, <2>5, <2>6
<1>4. assigned' = assigned \ mine
  <2>1. Cardinality(mine) \in Nat /\ MaxSlots \in Nat
    BY <1>3, FS_CardinalityType, MarketplaceAssumption
  <2>2. ~ (Cardinality(mine) > MaxSlots)
    BY <1>3, <2>1
  <2>3. PICK left \in SUBSET mine :
          Cardinality(left) = 0 /\ assigned' = (assigned \ mine) \cup left
    BY <2>2 DEF Release, ClearPrefix
  <2>4. left = {}
    BY <1>3, <2>3, FS_Subset, FS_EmptySet
  <2> QED BY <2>3, <2>4
<1>5. matches' = [p \in Processors |->
                    IF <<j, p>> \in assigned THEN [matches[p] EXCEPT ![j] = None]
                                             ELSE matches[p]]
  BY DEF Release
<1>6. \A p \in Processors : matches[p] \in [JobIds -> AssignmentType \cup {None}]
  BY DEF TypeOK
<1>7. \A p \in Processors : matches'[p][j] = None
  BY <1>5, <1>6 DEF SameIndex
<1>8. \A p \in Processors, k \in JobIds : k # j => matches'[p][k] = matches[p][k]
  BY <1>5, <1>6
<1> QED BY <1>4, <1>7, <1>8

\* A job that ends takes all of its entries along.
LEMMA EndConsistent ==
  ASSUME Consistent, NEW j \in JobIds, registration[j] # None, Release(j), Forget(j)
  PROVE  SameIndex' /\ JobsConsistent' /\ SlotsFit'
<1> USE DEF Consistent, TypeInv
<1>1. /\ assigned' = { e \in assigned : e[1] # j }
      /\ \A p \in Processors : matches'[p][j] = None
      /\ \A p \in Processors, k \in JobIds : k # j => matches'[p][k] = matches[p][k]
  BY ReleaseFacts
<1>2. /\ status'[j] = None /\ registration'[j] = None
      /\ \A k \in JobIds : k # j => status'[k] = status[k] /\ registration'[k] = registration[k]
  BY DEF Forget, TypeOK
<1>3. SameIndex'
  BY <1>1 DEF SameIndex
<1>4. MatchedTo(j)' = {}
  BY <1>1 DEF MatchedTo
<1>5. \A k \in JobIds : k # j => MatchedTo(k)' = MatchedTo(k)
  BY <1>1 DEF MatchedTo
<1>6. JobsConsistent'
  BY <1>2, <1>4, <1>5 DEF JobsConsistent
<1>7. SlotsFit'
  BY <1>2, <1>5 DEF SlotsFit
<1> QED BY <1>3, <1>6, <1>7

\* Open jobs that are matched get their entries in both maps, one per slot.
LEMMA MatchConsistent ==
  ASSUME Consistent, NEW J \in SUBSET JobIds, NEW plan \in [J -> Plans],
         NEW reg \in [JobIds -> RegistrationType \cup {None}],
         \A j \in J : MatchedTo(j) = {},
         process_matching(reg, plan)
  PROVE  /\ SameIndex'
         /\ \A j \in J : reg[j] # None /\ Cardinality(MatchedTo(j)') = reg[j].slots
         /\ \A j \in JobIds \ J : MatchedTo(j)' = MatchedTo(j)
<1> USE DEF Consistent, TypeInv
<1>0. CanMatch(reg, plan)
  BY DEF process_matching
<1>1. \A j \in J : /\ reg[j] \in RegistrationType
                   /\ DOMAIN plan[j] \subseteq Processors
                   /\ Cardinality(DOMAIN plan[j]) = reg[j].slots
  BY <1>0, MatchedFacts
<1>2. matches' = [p \in Processors |-> [j \in JobIds |->
                    IF j \in JobsOf(plan, p) THEN NewAssignment(reg[j], p, plan[j][p])
                                             ELSE matches[p][j]]]
  BY DEF process_matching
<1>3. \A p \in Processors, j \in JobIds :
        matches'[p][j] # None <=> j \in JobsOf(plan, p) \/ matches[p][j] # None
  <2> TAKE p \in Processors, j \in JobIds
  <2>1. CASE j \in JobsOf(plan, p)
    <3>1. matches'[p][j] = NewAssignment(reg[j], p, plan[j][p])
      BY <1>2, <2>1
    <3>2. j \in J /\ p \in DOMAIN plan[j]
      BY <2>1 DEF JobsOf
    <3>3. /\ reg[j] \in RegistrationType /\ plan[j][p] \in Time /\ ad[p] \in AdvertisementType
      BY <1>0, <3>2, MatchedFacts
    <3>4. NewAssignment(reg[j], p, plan[j][p]) \in AssignmentType
      BY <3>3, FeeType, RegistrationFacts DEF NewAssignment, AssignmentType
    <3> QED BY <2>1, <3>1, <3>4, MarketplaceAssumption
  <2>2. CASE j \notin JobsOf(plan, p)
    BY <1>2, <2>2
  <2> QED BY <2>1, <2>2
<1>4. assigned' = assigned \cup { jp \in JobIds \X Processors : jp[1] \in JobsOf(plan, jp[2]) }
  BY DEF process_matching
<1>5. SameIndex'
  BY <1>3, <1>4 DEF SameIndex
<1>6. \A j \in J : MatchedTo(j)' = DOMAIN plan[j]
  BY <1>1, <1>3 DEF MatchedTo, JobsOf
<1>7. \A j \in JobIds \ J : MatchedTo(j)' = MatchedTo(j)
  BY <1>3 DEF MatchedTo, JobsOf
<1>8. \A j \in J : reg[j] # None
  BY <1>1, MarketplaceAssumption
<1> QED BY <1>1, <1>5, <1>6, <1>7, <1>8

\* The constants that stand for a status.
LEMMA StatusFacts ==
  /\ Open # None /\ Matched # None /\ Open # Matched
  /\ \A n \in Nat : Assigned(n) # None /\ Assigned(n) # Open /\ Assigned(n) # Matched
<1>1. Open \in Statuses /\ Matched \in Statuses /\ \A n \in Nat : Assigned(n) \in Statuses
  BY DEF Open, Matched, Assigned, Statuses
<1>2. Open.state = "Open" /\ Matched.state = "Matched" /\ \A n \in Nat : Assigned(n).state = "Assigned"
  BY DEF Open, Matched, Assigned
<1>3. None \notin Statuses
  BY MarketplaceAssumption
<1> QED BY <1>1, <1>2, <1>3

\* Registration, by a consumer or by Hyperdrive.
LEMMA RegisterConsistent ==
  ASSUME Consistent, NEW j \in JobIds, NEW r \in JobRegistrations, register_for(j, r)
  PROVE  SameIndex' /\ JobsConsistent' /\ SlotsFit'
<1> USE DEF Consistent, TypeInv
<1>1. r \in RegistrationType /\ r # None
  BY MarketplaceAssumption
<1>2. /\ registration'[j] = r
      /\ \A k \in JobIds : k # j => registration'[k] = registration[k]
  BY DEF register_for, TypeOK
<1>3. MatchedTo(j) = {}
  BY DEF register_for, JobsConsistent
<1>4. CASE r.instant_match = None
  <2>1. /\ status'[j] = Open
        /\ \A k \in JobIds : k # j => status'[k] = status[k]
    BY <1>4 DEF register_for, TypeOK
  <2>2. matches' = matches /\ assigned' = assigned
    BY <1>4 DEF register_for, matchVars
  <2>3. \A k \in JobIds : MatchedTo(k)' = MatchedTo(k)
    BY <2>2 DEF MatchedTo
  <2>4. SameIndex'
    BY <2>2 DEF SameIndex
  <2>5. JobsConsistent'
    BY <1>1, <1>2, <1>3, <2>1, <2>3, StatusFacts DEF JobsConsistent
  <2>6. SlotsFit'
    <3>1. r.slots \in Nat /\ Cardinality({}) = 0
      BY <1>1, RegistrationFacts, FS_EmptySet
    <3> QED BY <1>2, <1>3, <2>3, <3>1 DEF SlotsFit
  <2> QED BY <2>4, <2>5, <2>6
<1>5. CASE r.instant_match # None
  <2> DEFINE reg == [registration EXCEPT ![j] = r]
             plan == [k \in {j} |-> r.instant_match]
  <2>1. process_matching(reg, plan)
    BY <1>5 DEF register_for
  <2>2. reg \in [JobIds -> RegistrationType \cup {None}] /\ reg[j] = r
    BY <1>1 DEF TypeOK
  <2>3. plan \in [{j} -> Plans]
    BY <1>1, <1>5, RegistrationFacts
  <2>4. /\ status'[j] = Matched
        /\ \A k \in JobIds : k # j => status'[k] = status[k]
    BY <1>5 DEF register_for, TypeOK
  <2> HIDE DEF reg, plan
  <2>5. /\ SameIndex'
        /\ Cardinality(MatchedTo(j)') = r.slots
        /\ \A k \in JobIds : k # j => MatchedTo(k)' = MatchedTo(k)
    BY <1>3, <2>1, <2>2, <2>3, MatchConsistent
  <2>6. JobsConsistent'
    BY <1>1, <1>2, <2>4, <2>5, StatusFacts DEF JobsConsistent
  <2>7. SlotsFit'
    <3>1. r.slots \in Nat
      BY <1>1, RegistrationFacts
    <3> QED BY <1>2, <2>5, <3>1 DEF SlotsFit
  <2> QED BY <2>5, <2>6, <2>7
<1> QED BY <1>4, <1>5

\* A step that touches no registration and no status, and removes or keeps
\* each match, keeps the maps consistent if it keeps the index in step.
LEMMA FewerMatches ==
  ASSUME Consistent, SameIndex', UNCHANGED registration,
         \A j \in JobIds : MatchedTo(j)' \subseteq MatchedTo(j),
         \A j \in JobIds : \/ status'[j] = status[j]
                           \/ /\ status[j] \notin {None, Open}
                              /\ status'[j] \notin {None, Open}
  PROVE  JobsConsistent' /\ SlotsFit'
<1> USE DEF Consistent, TypeInv
<1>1. JobsConsistent'
  BY DEF JobsConsistent
<1>2. SlotsFit'
  <2> SUFFICES ASSUME NEW j \in JobIds, registration[j] # None
               PROVE  Cardinality(MatchedTo(j)') <= registration[j].slots
    BY DEF SlotsFit
  <2>1. IsFiniteSet(MatchedTo(j))
    BY MarketplaceAssumption, FS_Subset DEF MatchedTo
  <2>2. /\ IsFiniteSet(MatchedTo(j)')
        /\ Cardinality(MatchedTo(j)') <= Cardinality(MatchedTo(j))
    BY <2>1, FS_Subset
  <2>3. Cardinality(MatchedTo(j)) \in Nat /\ Cardinality(MatchedTo(j)') \in Nat
    BY <2>1, <2>2, FS_CardinalityType
  <2>4. Cardinality(MatchedTo(j)) <= registration[j].slots
    BY DEF SlotsFit
  <2>5. registration[j].slots \in Nat
    BY RegistrationFacts DEF TypeOK
  <2> HIDE DEF Consistent, TypeInv
  <2> QED BY <2>2, <2>3, <2>4, <2>5
<1> QED BY <1>1, <1>2

\* The steps that leave registrations, statuses and matches alone.
LEMMA NothingMatched ==
  ASSUME Consistent, UNCHANGED <<registration, status, matches, assigned>>
  PROVE  SameIndex' /\ JobsConsistent' /\ SlotsFit'
BY DEF Consistent, SameIndex, JobsConsistent, SlotsFit, MatchedTo

\* The steps of a consumer keep the maps consistent.
LEMMA ConsumerConsistent ==
  ASSUME Consistent, ConsumerStep
  PROVE  SameIndex' /\ JobsConsistent' /\ SlotsFit'
<1> DEFINE Goal == SameIndex' /\ JobsConsistent' /\ SlotsFit'
<1> USE DEF Consistent, TypeInv
<1>1. ASSUME NEW c \in Consumers, NEW r \in JobRegistrations, register(c, r)
      PROVE  Goal
  <2>1. job_id_seq + 1 \in 1 .. MaxJobSeq
    BY <1>1, MarketplaceAssumption DEF register, TypeOK
  <2>2. <<c, job_id_seq + 1>> \in JobIds
    BY <2>1 DEF JobIds, Origins
  <2> QED BY <1>1, <2>2, RegisterConsistent DEF register
<1>2. ASSUME NEW j \in JobIds, NEW r \in JobRegistrations, register_remote(j, r)
      PROVE  Goal
  BY <1>2, RegisterConsistent DEF register_remote
<1>3. ASSUME NEW j \in JobIds, deregister_for(j)
      PROVE  Goal
  <2>1. CASE deregister_open(j)
    <3>1. /\ matches' = matches /\ assigned' = assigned
          /\ MatchedTo(j) = {}
      BY <2>1 DEF deregister_open, matchVars, JobsConsistent
    <3>2. /\ status'[j] = None /\ registration'[j] = None
          /\ \A k \in JobIds : k # j => status'[k] = status[k]
                                        /\ registration'[k] = registration[k]
      BY <1>3 DEF deregister_for, Forget, TypeOK
    <3>3. \A k \in JobIds : MatchedTo(k)' = MatchedTo(k)
      BY <3>1 DEF MatchedTo
    <3>4. SameIndex'
      BY <3>1 DEF SameIndex
    <3>5. JobsConsistent'
      BY <3>1, <3>2, <3>3 DEF JobsConsistent
    <3>6. SlotsFit'
      BY <3>2, <3>3 DEF SlotsFit
    <3> QED BY <3>4, <3>5, <3>6
  <2>2. CASE deregister_matched(j) \/ deregister_assigned(j)
    <3>1. registration[j] # None /\ Release(j) /\ Forget(j)
      BY <1>3, <2>2 DEF deregister_for, deregister_matched, deregister_assigned
    <3> QED BY <3>1, EndConsistent
  <2> QED BY <1>3, <2>1, <2>2 DEF deregister_for
<1>4. ASSUME NEW j \in JobIds, NEW allowed \in SourceLists, update_allowed_sources(j, allowed)
      PROVE  Goal
  <2>1. registration[j] \in RegistrationType /\ status[j] = Open
    BY <1>4 DEF update_allowed_sources, TypeOK
  <2> DEFINE r == [registration[j] EXCEPT !.allowed_sources = allowed]
  <2>2. allowed \subseteq Processors
    BY MarketplaceAssumption
  <2>3. r \in RegistrationType /\ r.slots = registration[j].slots
    BY <2>1, <2>2 DEF RegistrationType
  <2>4. registration'[j] = r /\ \A k \in JobIds : k # j => registration'[k] = registration[k]
    BY <1>4, <2>1 DEF update_allowed_sources, TypeOK
  <2>5. r # None /\ registration[j] # None
    BY <2>1, <2>3, MarketplaceAssumption
  <2>6. matches' = matches /\ assigned' = assigned /\ status' = status
    BY <1>4 DEF update_allowed_sources, matchVars
  <2> HIDE DEF r
  <2>7. SameIndex'
    BY <2>6 DEF SameIndex
  <2>8. \A k \in JobIds : MatchedTo(k)' = MatchedTo(k)
    BY <2>6 DEF MatchedTo
  <2>9. JobsConsistent'
    BY <2>4, <2>5, <2>6, <2>8 DEF JobsConsistent
  <2>10. SlotsFit'
    BY <2>3, <2>4, <2>5, <2>8 DEF SlotsFit
  <2> QED BY <2>7, <2>9, <2>10
<1>5. ASSUME NEW j \in JobIds, NEW sources \in SourceLists, set_environment(j, sources)
      PROVE  Goal
  BY <1>5, NothingMatched DEF set_environment, matchVars
<1>6. ASSUME NEW j \in JobIds, finalize_jobs_for(j)
      PROVE  Goal
  BY <1>6, EndConsistent DEF finalize_jobs_for
<1> QED BY <1>1, <1>2, <1>3, <1>4, <1>5, <1>6 DEF ConsumerStep

\* So do those of a processor.
LEMMA ProcessorConsistent ==
  ASSUME Consistent, ProcessorStep
  PROVE  SameIndex' /\ JobsConsistent' /\ SlotsFit'
<1> DEFINE Goal == SameIndex' /\ JobsConsistent' /\ SlotsFit'
<1> USE DEF Consistent, TypeInv
<1>0. PICK p \in Processors :
        \/ \E a \in Advertisements : advertise(p, a)
        \/ delete_advertisement(p)
        \/ \E j \in JobIds : acknowledge_match(p, j)
        \/ \E j \in JobIds : report(p, j)
        \/ \E j \in JobIds : finalize_job(p, j)
  BY DEF ProcessorStep
<1>1. ASSUME NEW a \in Advertisements, advertise(p, a)
      PROVE  Goal
  BY <1>1, NothingMatched DEF advertise, registryVars
<1>2. ASSUME delete_advertisement(p)
      PROVE  Goal
  BY <1>2, NothingMatched DEF delete_advertisement, registryVars
<1>3. ASSUME NEW j \in JobIds, acknowledge_match(p, j)
      PROVE  Goal
  <2>1. matches[p][j] \in AssignmentType
    BY <1>3 DEF acknowledge_match, TypeOK
  <2>2. /\ [matches[p][j] EXCEPT !.acknowledged = TRUE] \in AssignmentType
        /\ None \notin AssignmentType
    BY <2>1, MarketplaceAssumption DEF AssignmentType
  <2>3. \A q \in Processors, k \in JobIds : matches'[q][k] # None <=> matches[q][k] # None
    BY <1>3, <2>1, <2>2 DEF acknowledge_match, TypeOK
  <2>4. \A k \in JobIds : MatchedTo(k)' = MatchedTo(k)
    BY <2>3 DEF MatchedTo
  <2>5. SameIndex'
    BY <1>3, <2>3 DEF acknowledge_match, SameIndex
  <2>6. \A k \in JobIds : \/ status'[k] = status[k]
                          \/ /\ status[k] \notin {None, Open}
                             /\ status'[k] \notin {None, Open}
    <3>1. CASE UNCHANGED status
      BY <3>1
    <3>2. CASE /\ status[j] \notin {None, Open}
               /\ status' = [status EXCEPT ![j] =
                               IF @ = Matched THEN Assigned(1) ELSE Assigned(@.count + 1)]
      <4>1. status[j].count + 1 \in Nat
        BY <3>2 DEF TypeOK, Statuses
      <4>2. status'[j] \notin {None, Open}
        BY <3>2, <4>1, StatusFacts DEF TypeOK
      <4> QED BY <3>2, <4>2 DEF TypeOK
    <3> QED BY <1>3, <3>1, <3>2 DEF acknowledge_match
  <2>7. UNCHANGED registration
    BY <1>3 DEF acknowledge_match, registryVars
  <2> QED BY <2>4, <2>5, <2>6, <2>7, FewerMatches
<1>4. ASSUME NEW j \in JobIds, report(p, j)
      PROVE  Goal
  <2>1. matches[p][j] \in AssignmentType
    BY <1>4 DEF report, TypeOK
  <2>2. /\ [matches[p][j] EXCEPT !.met = @ + 1] \in AssignmentType
        /\ None \notin AssignmentType
    BY <2>1, MarketplaceAssumption DEF AssignmentType
  <2>3. \A q \in Processors, k \in JobIds : matches'[q][k] # None <=> matches[q][k] # None
    BY <1>4, <2>1, <2>2 DEF report, TypeOK
  <2>4. \A k \in JobIds : MatchedTo(k)' = MatchedTo(k)
    BY <2>3 DEF MatchedTo
  <2>5. SameIndex'
    BY <1>4, <2>3 DEF report, SameIndex
  <2>6. UNCHANGED <<registration, status>>
    BY <1>4 DEF report, registryVars
  <2> QED BY <2>4, <2>5, <2>6, FewerMatches
<1>5. ASSUME NEW j \in JobIds, finalize_job(p, j)
      PROVE  Goal
  <2>1. \A q \in Processors, k \in JobIds :
          matches'[q][k] # None <=> matches[q][k] # None /\ ~(q = p /\ k = j)
    BY <1>5 DEF finalize_job, TypeOK
  <2>2. \A k \in JobIds : MatchedTo(k)' \subseteq MatchedTo(k)
    BY <2>1 DEF MatchedTo
  <2>3. SameIndex'
    BY <1>5, <2>1 DEF finalize_job, SameIndex
  <2>4. UNCHANGED <<registration, status>>
    BY <1>5 DEF finalize_job, registryVars
  <2> QED BY <2>2, <2>3, <2>4, FewerMatches
<1> QED BY <1>0, <1>1, <1>2, <1>3, <1>4, <1>5

\* And those of a matcher.
LEMMA MatcherConsistent ==
  ASSUME Consistent, MatcherStep
  PROVE  SameIndex' /\ JobsConsistent' /\ SlotsFit'
<1> USE DEF Consistent, TypeInv
<1>0. PICK matcher \in Matchers, J \in SUBSET { j \in JobIds : status[j] = Open } :
        \E plan \in [J -> Plans] : propose_matching(matcher, plan)
  BY DEF MatcherStep
<1>1. PICK plan \in [J -> Plans] : propose_matching(matcher, plan)
  BY <1>0
<1>2. J \in SUBSET JobIds /\ DOMAIN plan = J
  OBVIOUS
<1>3. \A j \in J : MatchedTo(j) = {} /\ registration[j] # None
  BY StatusFacts DEF JobsConsistent
<1>4. /\ process_matching(registration, plan)
      /\ registration \in [JobIds -> RegistrationType \cup {None}]
  BY <1>1 DEF propose_matching, TypeOK
<1>5. /\ SameIndex'
      /\ \A j \in J : Cardinality(MatchedTo(j)') = registration[j].slots
      /\ \A j \in JobIds \ J : MatchedTo(j)' = MatchedTo(j)
  BY <1>2, <1>3, <1>4, MatchConsistent
<1>6. /\ registration' = registration
      /\ \A j \in JobIds : status'[j] = IF j \in J THEN Matched ELSE status[j]
  BY <1>1, <1>2 DEF propose_matching, registryVars
<1>7. JobsConsistent'
  BY <1>3, <1>5, <1>6, StatusFacts DEF JobsConsistent
<1>8. SlotsFit'
  <2>1. \A j \in J : registration[j].slots \in Nat
    BY <1>2, <1>3, RegistrationFacts DEF TypeOK
  <2> QED BY <1>5, <1>6, <2>1 DEF SlotsFit
<1> QED BY <1>5, <1>7, <1>8

\* The invariant is inductive.
LEMMA ConsistentStep ==
  ASSUME Consistent, [Next]_vars
  PROVE  Consistent'
<1>1. TypeInv'
  <2>1. CASE Next
    BY <2>1, ConsumerType, ProcessorType, MatcherType, OutsideType DEF Next, Consistent
  <2>2. CASE UNCHANGED vars
    BY <2>2 DEF vars, registryVars, advertVars, matchVars, statVars, moneyVars, outsideVars,
                Consistent, TypeInv, TypeOK, RegistrationsSound
  <2> QED BY <2>1, <2>2
<1>2. SameIndex' /\ JobsConsistent' /\ SlotsFit'
  <2>1. CASE ConsumerStep
    BY <2>1, ConsumerConsistent
  <2>2. CASE ProcessorStep
    BY <2>2, ProcessorConsistent
  <2>3. CASE MatcherStep
    BY <2>3, MatcherConsistent
  <2>4. CASE OutsideStep
    BY <2>4, NothingMatched
       DEF OutsideStep, Tick, ChangePairing, ChangeAttestation, registryVars, matchVars
  <2>5. CASE UNCHANGED vars
    BY <2>5, NothingMatched DEF vars, registryVars, matchVars
  <2> QED BY <2>1, <2>2, <2>3, <2>4, <2>5 DEF Next
<1> QED BY <1>1, <1>2 DEF Consistent

\* It holds at the beginning.
LEMMA ConsistentInit == Init => Consistent
<1> SUFFICES ASSUME Init PROVE Consistent
  OBVIOUS
<1>1. TypeInv
  BY InitType
<1>2. SameIndex /\ JobsConsistent
  BY DEF Init, SameIndex, JobsConsistent, MatchedTo
<1>3. SlotsFit
  BY DEF Init, SlotsFit
<1> QED BY <1>1, <1>2, <1>3 DEF Consistent

\* The registry and the marketplace always agree on which jobs exist, and a
\* job that is open has no matches.
THEOREM JobsAlwaysConsistent == Spec => []JobsConsistent
<1>1. Consistent => JobsConsistent
  BY DEF Consistent
<1> QED BY <1>1, ConsistentInit, ConsistentStep, PTL DEF Spec

-----------------------------------------------------------------------------
(***************************************************************************)
(* The steps, sorted by what they may touch.                               *)
(***************************************************************************)
\* Nothing that the properties below speak of changes.
Quiet ==
  UNCHANGED <<registration, status, ad, matches, assigned, capacity, total_assigned, budget, balance>>

\* The calls that change the list of jobs or of matches, or an advertisement.
LEMMA StepCases ==
  ASSUME TypeOK, [Next]_vars
  PROVE  \/ \E j \in JobIds, r \in JobRegistrations : register_for(j, r)
         \/ \E j \in JobIds : deregister_for(j) \/ finalize_jobs_for(j)
         \/ \E j \in JobIds, allowed \in SourceLists : update_allowed_sources(j, allowed)
         \/ \E J \in SUBSET { j \in JobIds : status[j] = Open } :
              \E plan \in [J -> Plans], matcher \in Matchers : propose_matching(matcher, plan)
         \/ \E p \in Processors, j \in JobIds :
              acknowledge_match(p, j) \/ report(p, j) \/ finalize_job(p, j)
         \/ \E p \in Processors :
              delete_advertisement(p) \/ \E a \in Advertisements : advertise(p, a)
         \/ Quiet
<1>1. ASSUME NEW c \in Consumers, NEW r \in JobRegistrations, register(c, r)
      PROVE  <<c, job_id_seq + 1>> \in JobIds /\ register_for(<<c, job_id_seq + 1>>, r)
  <2>1. job_id_seq + 1 \in 1 .. MaxJobSeq
    BY <1>1, MarketplaceAssumption DEF register, TypeOK
  <2> QED BY <1>1, <2>1 DEF JobIds, Origins, register
<1>2. ASSUME NEW j \in JobIds, NEW r \in JobRegistrations, register_remote(j, r)
      PROVE  register_for(j, r)
  BY <1>2 DEF register_remote
<1>3. ASSUME NEW j \in JobIds, NEW sources \in SourceLists, set_environment(j, sources)
      PROVE  Quiet
  BY <1>3 DEF set_environment, Quiet, advertVars, matchVars, statVars, moneyVars
<1>4. OutsideStep => Quiet
  BY DEF OutsideStep, Tick, ChangePairing, ChangeAttestation, Quiet,
         registryVars, advertVars, matchVars, statVars, moneyVars
<1>5. UNCHANGED vars => Quiet
  BY DEF vars, Quiet, registryVars, advertVars, matchVars, statVars, moneyVars
<1>6. CASE ConsumerStep
  BY <1>6, <1>1, <1>2, <1>3 DEF ConsumerStep
<1>7. CASE ProcessorStep
  BY <1>7 DEF ProcessorStep
<1>8. CASE MatcherStep
  BY <1>8 DEF MatcherStep
<1> QED BY <1>4, <1>5, <1>6, <1>7, <1>8 DEF Next

\* A step makes no match without counting it, and takes nothing off the count.
LEMMA CountedStep ==
  ASSUME Consistent, MatchesCounted, [Next]_vars
  PROVE  MatchesCounted'
<1> DEFINE Fewer == assigned' \subseteq assigned /\ total_assigned' = total_assigned
<1>0. TypeOK /\ total_assigned \in Nat
  BY DEF Consistent, TypeInv, TypeOK
<1>1. Fewer => MatchesCounted'
  BY DEF MatchesCounted
<1>2. ASSUME NEW J \in SUBSET JobIds, NEW plan \in [J -> Plans], NEW reg, J # {},
             IsFiniteSet(J), process_matching(reg, plan)
      PROVE  MatchesCounted'
  <2>1. total_assigned' = total_assigned + Cardinality(J)
    BY <1>2 DEF process_matching
  <2>2. Cardinality(J) \in Nat /\ Cardinality(J) # 0
    BY <1>2, FS_CardinalityType, FS_EmptySet
  <2>3. total_assigned' > 0
    BY <1>0, <2>1, <2>2
  <2> QED BY <2>3 DEF MatchesCounted
<1>3. ASSUME NEW j \in JobIds, NEW r \in JobRegistrations, register_for(j, r)
      PROVE  MatchesCounted'
  <2>1. CASE r.instant_match = None
    BY <1>1, <1>3, <2>1 DEF register_for, matchVars, statVars
  <2>2. CASE r.instant_match # None
    <3> DEFINE plan == [k \in {j} |-> r.instant_match]
    <3>1. process_matching([registration EXCEPT ![j] = r], plan)
      BY <1>3, <2>2 DEF register_for
    <3>2. r \in RegistrationType
      BY MarketplaceAssumption
    <3>3. plan \in [{j} -> Plans] /\ {j} \in SUBSET JobIds /\ {j} # {}
      BY <2>2, <3>2, RegistrationFacts
    <3>4. IsFiniteSet({j})
      BY FS_Singleton
    <3> HIDE DEF plan
    <3> QED BY <1>2, <3>1, <3>3, <3>4
  <2> QED BY <2>1, <2>2
<1>4. ASSUME NEW j \in JobIds, deregister_for(j) \/ finalize_jobs_for(j)
      PROVE  MatchesCounted'
  <2>1. total_assigned' = total_assigned
    BY <1>4 DEF deregister_for, finalize_jobs_for, statVars
  <2>2. CASE deregister_open(j)
    BY <1>1, <2>1, <2>2 DEF deregister_open, matchVars
  <2>3. CASE registration[j] # None /\ Release(j)
    BY <1>1, <2>1, <2>3, ReleaseFacts
  <2> QED BY <1>4, <2>2, <2>3
          DEF deregister_for, deregister_matched, deregister_assigned, finalize_jobs_for
<1>5. ASSUME NEW J \in SUBSET { j \in JobIds : status[j] = Open }, NEW plan \in [J -> Plans],
             NEW matcher \in Matchers, propose_matching(matcher, plan)
      PROVE  MatchesCounted'
  <2>1. J \in SUBSET JobIds /\ DOMAIN plan = J
    OBVIOUS
  <2>2. J # {} /\ process_matching(registration, plan)
    BY <1>5, <2>1 DEF propose_matching
  <2>3. IsFiniteSet(J)
    BY <2>1, JobsFinite, FS_Subset
  <2> QED BY <1>2, <2>1, <2>2, <2>3
<1>6. ASSUME NEW p \in Processors, NEW j \in JobIds,
             acknowledge_match(p, j) \/ report(p, j) \/ finalize_job(p, j)
      PROVE  MatchesCounted'
  BY <1>1, <1>6 DEF acknowledge_match, report, finalize_job, statVars
<1>7. ASSUME NEW p \in Processors,
             delete_advertisement(p) \/ \E a \in Advertisements : advertise(p, a)
      PROVE  MatchesCounted'
  BY <1>1, <1>7 DEF delete_advertisement, advertise, statVars
<1>8. ASSUME NEW j \in JobIds, NEW allowed \in SourceLists, update_allowed_sources(j, allowed)
      PROVE  MatchesCounted'
  BY <1>1, <1>8 DEF update_allowed_sources, matchVars, statVars
<1>9. Quiet => MatchesCounted'
  BY <1>1 DEF Quiet
<1> HIDE DEF Fewer
<1> QED BY <1>0, <1>3, <1>4, <1>5, <1>6, <1>7, <1>8, <1>9, StepCases

\* StoredMatches and AssignedProcessors always hold the same pairs: the walk
\* over the index in deregister_hook and finalize_jobs_for finds every match,
\* and clear_prefix with the limit MaxSlots leaves none behind.  Whoever has a
\* match is counted in StoredTotalAssigned, from which finalize_job subtracts 1.
THEOREM IndexAlwaysConsistent == Spec => []IndexConsistent
<1>1. Init => MatchesCounted
  BY DEF Init, MatchesCounted
<1>2. Consistent /\ MatchesCounted /\ [Next]_vars => MatchesCounted'
  BY CountedStep
<1>3. Consistent /\ MatchesCounted => IndexConsistent
  BY DEF Consistent, IndexConsistent
<1> QED BY <1>1, <1>2, <1>3, ConsistentInit, ConsistentStep, PTL DEF Spec

\* A registration replaces no job that has matches; its instant match, if it
\* has one, is a plan for this job alone.
LEMMA RegisterFacts ==
  ASSUME Consistent, NEW j \in JobIds, NEW r \in JobRegistrations, register_for(j, r)
  PROVE  /\ r \in RegistrationType /\ r # None /\ registration'[j] = r
         /\ registration' \in [JobIds -> RegistrationType \cup {None}]
         /\ \A k \in JobIds : k # j => registration'[k] = registration[k]
         /\ \A p \in Processors : matches[p][j] = None
         /\ \A k \in JobIds : k # j => status'[k] = status[k]
         /\ UNCHANGED ad
         /\ \/ /\ status'[j] = Open
               /\ UNCHANGED <<matches, assigned, capacity>>
            \/ /\ status'[j] = Matched
               /\ \E plan \in [{j} -> Plans] : process_matching(registration', plan)
<1> USE DEF Consistent, TypeInv
<1>1. r \in RegistrationType /\ r # None
  BY MarketplaceAssumption
<1>2. registration' = [registration EXCEPT ![j] = r]
  BY DEF register_for
<1>3. /\ registration'[j] = r
      /\ registration' \in [JobIds -> RegistrationType \cup {None}]
      /\ \A k \in JobIds : k # j => registration'[k] = registration[k]
  BY <1>1, <1>2 DEF TypeOK
<1>4. \A p \in Processors : matches[p][j] = None
  BY DEF register_for, JobsConsistent, MatchedTo
<1>5. ad' = ad /\ \A k \in JobIds : k # j => status'[k] = status[k]
  BY DEF register_for, TypeOK, advertVars
<1>6. CASE r.instant_match = None
  BY <1>1, <1>3, <1>4, <1>5, <1>6 DEF register_for, matchVars, TypeOK
<1>7. CASE r.instant_match # None
  <2> DEFINE plan == [k \in {j} |-> r.instant_match]
  <2>1. process_matching(registration', plan) /\ status'[j] = Matched
    BY <1>2, <1>7 DEF register_for, TypeOK
  <2>2. plan \in [{j} -> Plans]
    BY <1>1, <1>7, RegistrationFacts
  <2> HIDE DEF plan
  <2> QED BY <1>1, <1>3, <1>4, <1>5, <2>1, <2>2
<1> QED BY <1>6, <1>7

\* The matches that process_matching makes.
LEMMA MatchingFacts ==
  ASSUME TypeOK, NEW reg \in [JobIds -> RegistrationType \cup {None}],
         NEW J \in SUBSET JobIds, NEW plan \in [J -> Plans], process_matching(reg, plan),
         NEW p \in Processors, NEW k \in JobIds
  PROVE  /\ k \in J /\ p \in DOMAIN plan[k] =>
              /\ matches'[p][k] = NewAssignment(reg[k], p, plan[k][p])
              /\ matches'[p][k] \in AssignmentType
         /\ ~(k \in J /\ p \in DOMAIN plan[k]) => matches'[p][k] = matches[p][k]
<1>1. CanMatch(reg, plan)
  BY DEF process_matching
<1>2. matches'[p][k] = IF k \in JobsOf(plan, p) THEN NewAssignment(reg[k], p, plan[k][p])
                                                ELSE matches[p][k]
  BY DEF process_matching
<1>3. k \in JobsOf(plan, p) <=> k \in J /\ p \in DOMAIN plan[k]
  BY DEF JobsOf
<1>4. ASSUME k \in J, p \in DOMAIN plan[k]
      PROVE  NewAssignment(reg[k], p, plan[k][p]) \in AssignmentType
  <2>1. reg[k] \in RegistrationType /\ plan[k][p] \in Time /\ ad[p] \in AdvertisementType
    BY <1>1, <1>4, MatchedFacts
  <2> QED BY <2>1, FeeType, RegistrationFacts DEF NewAssignment, AssignmentType
<1> QED BY <1>2, <1>3, <1>4

\* A job that ends, in whichever way, leaves both maps.
LEMMA EndFacts ==
  ASSUME Consistent, NEW j \in JobIds, deregister_for(j) \/ finalize_jobs_for(j)
  PROVE  /\ status[j] # None /\ status'[j] = None
         /\ registration[j] \in RegistrationType /\ registration'[j] = None
         /\ \A k \in JobIds : k # j => status'[k] = status[k] /\ registration'[k] = registration[k]
         /\ \A p \in Processors : matches'[p][j] = None
         /\ \A p \in Processors, k \in JobIds : k # j => matches'[p][k] = matches[p][k]
         /\ assigned' = { e \in assigned : e[1] # j }
         /\ \A p \in Processors :
              capacity'[p] = IF matches[p][j] # None
                               THEN (IF capacity[p] = None THEN 0 ELSE capacity[p])
                                      + registration[j].storage
                               ELSE capacity[p]
         /\ UNCHANGED ad
<1> USE DEF Consistent, TypeInv
<1>1. /\ status'[j] = None /\ registration'[j] = None
      /\ \A k \in JobIds : k # j => status'[k] = status[k] /\ registration'[k] = registration[k]
      /\ ad' = ad
  BY DEF deregister_for, finalize_jobs_for, Forget, TypeOK, advertVars
<1>2. registration[j] # None /\ status[j] # None
  BY StatusFacts DEF deregister_for, deregister_open, deregister_matched, deregister_assigned,
                     finalize_jobs_for, JobsConsistent
<1>3. registration[j] \in RegistrationType
  BY <1>2 DEF TypeOK
<1>4. CASE Release(j)
  <2>1. /\ assigned' = { e \in assigned : e[1] # j }
        /\ \A p \in Processors : matches'[p][j] = None
        /\ \A p \in Processors, k \in JobIds : k # j => matches'[p][k] = matches[p][k]
    BY <1>2, <1>4, ReleaseFacts
  <2>2. \A p \in Processors :
          capacity'[p] = IF matches[p][j] # None
                           THEN (IF capacity[p] = None THEN 0 ELSE capacity[p])
                                  + registration[j].storage
                           ELSE capacity[p]
    BY <1>4 DEF Release, SameIndex
  <2> HIDE DEF Consistent, TypeInv
  <2> QED BY <1>1, <1>2, <1>3, <2>1, <2>2
<1>5. CASE deregister_open(j)
  <2>1. matches' = matches /\ assigned' = assigned /\ capacity' = capacity
    BY <1>5 DEF deregister_open, matchVars
  <2>2. \A p \in Processors : matches[p][j] = None
    BY <1>5 DEF deregister_open, JobsConsistent, MatchedTo
  <2>3. assigned = { e \in assigned : e[1] # j }
    BY <2>2 DEF SameIndex, TypeOK
  <2> HIDE DEF Consistent, TypeInv
  <2> QED BY <1>1, <1>2, <1>3, <2>1, <2>2, <2>3
<1> QED BY <1>4, <1>5 DEF deregister_for, deregister_matched, deregister_assigned,
                          finalize_jobs_for

\* A processor touches its own match only: it marks it as acknowledged, ...
LEMMA AcknowledgeFacts ==
  ASSUME TypeOK, NEW p \in Processors, NEW j \in JobIds, acknowledge_match(p, j)
  PROVE  /\ matches[p][j] \in AssignmentType
         /\ matches'[p][j] = [matches[p][j] EXCEPT !.acknowledged = TRUE]
         /\ matches'[p][j] \in AssignmentType
         /\ \A q \in Processors, k \in JobIds : q # p \/ k # j => matches'[q][k] = matches[q][k]
         /\ UNCHANGED <<registration, ad, assigned, capacity, budget, balance>>
<1>1. matches[p][j] \in AssignmentType
  BY DEF acknowledge_match, TypeOK
<1>2. [matches[p][j] EXCEPT !.acknowledged = TRUE] \in AssignmentType
  BY <1>1 DEF AssignmentType
<1> QED BY <1>1, <1>2 DEF acknowledge_match, TypeOK, registryVars, advertVars, moneyVars

\* ... adds a report to it, ...
LEMMA ReportFacts ==
  ASSUME TypeOK, NEW p \in Processors, NEW j \in JobIds, report(p, j)
  PROVE  /\ matches[p][j] \in AssignmentType
         /\ matches'[p][j] = [matches[p][j] EXCEPT !.met = @ + 1]
         /\ matches'[p][j] \in AssignmentType
         /\ \A q \in Processors, k \in JobIds : q # p \/ k # j => matches'[q][k] = matches[q][k]
         /\ UNCHANGED <<registration, status, ad, assigned, capacity>>
<1>1. matches[p][j] \in AssignmentType
  BY DEF report, TypeOK
<1>2. [matches[p][j] EXCEPT !.met = @ + 1] \in AssignmentType
  BY <1>1 DEF AssignmentType
<1> QED BY <1>1, <1>2 DEF report, TypeOK, registryVars, advertVars

\* ... or removes it.
LEMMA FinalizeFacts ==
  ASSUME TypeOK, NEW p \in Processors, NEW j \in JobIds, finalize_job(p, j)
  PROVE  /\ matches[p][j] \in AssignmentType
         /\ registration[j] \in RegistrationType
         /\ matches'[p][j] = None
         /\ \A q \in Processors, k \in JobIds : q # p \/ k # j => matches'[q][k] = matches[q][k]
         /\ assigned' = assigned \ {<<j, p>>}
         /\ capacity' = [capacity EXCEPT ![p] = (IF @ = None THEN 0 ELSE @)
                                                  + registration[j].storage]
         /\ UNCHANGED <<registration, status, ad, budget, balance>>
BY DEF finalize_job, TypeOK, registryVars, moneyVars

-----------------------------------------------------------------------------
(***************************************************************************)
(* Agreements.                                                             *)
(***************************************************************************)
\* What AgreementKept says of one match.
Kept(p, j) ==
  matches[p][j] # None /\ matches'[p][j] # None =>
    /\ registration'[j] = registration[j]
    /\ matches'[p][j].fee_per_execution = matches[p][j].fee_per_execution
    /\ matches'[p][j].start_delay = matches[p][j].start_delay
    /\ matches'[p][j].met \in {matches[p][j].met, matches[p][j].met + 1}
    /\ matches[p][j].acknowledged => matches'[p][j].acknowledged

LEMMA KeptStep ==
  ASSUME Consistent, [Next]_vars, NEW p \in Processors, NEW j \in JobIds
  PROVE  Kept(p, j)
<1> USE DEF Consistent, TypeInv
<1>0. SUFFICES ASSUME matches[p][j] # None, matches'[p][j] # None PROVE Kept(p, j)
  BY DEF Kept
<1>1. ASSUME NEW k \in JobIds, NEW r \in JobRegistrations, register_for(k, r)
      PROVE  Kept(p, j)
  <2>1. k # j
    BY <1>0, <1>1, RegisterFacts
  <2>2. registration'[j] = registration[j]
    BY <1>1, <2>1, RegisterFacts
  <2>3. CASE UNCHANGED matches
    BY <2>2, <2>3 DEF Kept
  <2>4. ASSUME NEW plan \in [{k} -> Plans], process_matching(registration', plan)
        PROVE  Kept(p, j)
    <3>1. registration' \in [JobIds -> RegistrationType \cup {None}]
      BY <1>1, RegisterFacts
    <3>2. matches'[p][j] = matches[p][j]
      BY <2>1, <2>4, <3>1, MatchingFacts
    <3> QED BY <2>2, <3>2 DEF Kept
  <2> QED BY <1>1, <2>3, <2>4, RegisterFacts
<1>2. ASSUME NEW k \in JobIds, deregister_for(k) \/ finalize_jobs_for(k)
      PROVE  Kept(p, j)
  <2>1. k # j
    BY <1>0, <1>2, EndFacts
  <2>2. registration'[j] = registration[j] /\ matches'[p][j] = matches[p][j]
    BY <1>2, <2>1, EndFacts
  <2> QED BY <2>2 DEF Kept
<1>3. ASSUME NEW k \in JobIds, NEW allowed \in SourceLists, update_allowed_sources(k, allowed)
      PROVE  Kept(p, j)
  <2>1. k # j
    BY <1>0, <1>3 DEF update_allowed_sources, JobsConsistent, MatchedTo
  <2>2. registration'[j] = registration[j] /\ matches'[p][j] = matches[p][j]
    BY <1>3, <2>1 DEF update_allowed_sources, TypeOK, matchVars
  <2> QED BY <2>2 DEF Kept
<1>4. ASSUME NEW J \in SUBSET { k \in JobIds : status[k] = Open }, NEW plan \in [J -> Plans],
             NEW matcher \in Matchers, propose_matching(matcher, plan)
      PROVE  Kept(p, j)
  <2>1. j \notin J
    BY <1>0 DEF JobsConsistent, MatchedTo
  <2>2. /\ process_matching(registration, plan) /\ registration' = registration
        /\ registration \in [JobIds -> RegistrationType \cup {None}]
        /\ J \in SUBSET JobIds
    BY <1>4 DEF propose_matching, registryVars, TypeOK
  <2>3. matches'[p][j] = matches[p][j]
    BY <2>1, <2>2, MatchingFacts
  <2> QED BY <2>2, <2>3 DEF Kept
<1>5. ASSUME NEW q \in Processors, NEW k \in JobIds, acknowledge_match(q, k)
      PROVE  Kept(p, j)
  <2>1. /\ registration' = registration
        /\ matches[q][k] \in AssignmentType
        /\ matches'[q][k] = [matches[q][k] EXCEPT !.acknowledged = TRUE]
        /\ q # p \/ k # j => matches'[p][j] = matches[p][j]
    BY <1>5, AcknowledgeFacts
  <2>2. CASE q = p /\ k = j
    BY <2>1, <2>2 DEF Kept, AssignmentType
  <2>3. CASE q # p \/ k # j
    <3>1. registration'[j] = registration[j] /\ matches'[p][j] = matches[p][j]
      BY <2>1, <2>3
    <3> QED BY <3>1 DEF Kept
  <2> QED BY <2>2, <2>3
<1>6. ASSUME NEW q \in Processors, NEW k \in JobIds, report(q, k)
      PROVE  Kept(p, j)
  <2>1. /\ registration' = registration
        /\ matches[q][k] \in AssignmentType
        /\ matches'[q][k] = [matches[q][k] EXCEPT !.met = @ + 1]
        /\ q # p \/ k # j => matches'[p][j] = matches[p][j]
    BY <1>6, ReportFacts
  <2>2. CASE q = p /\ k = j
    BY <2>1, <2>2 DEF Kept, AssignmentType
  <2>3. CASE q # p \/ k # j
    <3>1. registration'[j] = registration[j] /\ matches'[p][j] = matches[p][j]
      BY <2>1, <2>3
    <3> QED BY <3>1 DEF Kept
  <2> QED BY <2>2, <2>3
<1>7. ASSUME NEW q \in Processors, NEW k \in JobIds, finalize_job(q, k)
      PROVE  Kept(p, j)
  BY <1>0, <1>7, FinalizeFacts DEF Kept
<1>8. ASSUME NEW q \in Processors,
             delete_advertisement(q) \/ \E a \in Advertisements : advertise(q, a)
      PROVE  Kept(p, j)
  BY <1>8 DEF delete_advertisement, advertise, registryVars, Kept
<1>9. CASE Quiet
  BY <1>9 DEF Quiet, Kept
<1> HIDE DEF Consistent, TypeInv
<1>10. TypeOK
  BY DEF Consistent, TypeInv
<1> QED BY <1>10, <1>1, <1>2, <1>3, <1>4, <1>5, <1>6, <1>7, <1>8, <1>9, StepCases

\* As long as a match exists, the registration it was made for, its fee and its
\* delay never change, its reports are only added to and its acknowledgement is
\* never taken back: neither registering the job anew nor update_allowed_sources
\* nor another call of propose_matching reaches a job that has matches.
THEOREM AgreementAlwaysKept == Spec => AgreementKept
<1>1. Consistent /\ [Next]_vars =>
        [\A p \in Processors, j \in JobIds : Kept(p, j)]_vars
  BY KeptStep
<1>2. (\A p \in Processors, j \in JobIds : Kept(p, j)) <=>
      \A p \in Processors, j \in JobIds :
       matches[p][j] # None /\ matches'[p][j] # None =>
         /\ registration'[j] = registration[j]
         /\ matches'[p][j].fee_per_execution = matches[p][j].fee_per_execution
         /\ matches'[p][j].start_delay = matches[p][j].start_delay
         /\ matches'[p][j].met \in {matches[p][j].met, matches[p][j].met + 1}
         /\ matches[p][j].acknowledged => matches'[p][j].acknowledged
  BY DEF Kept
<1> QED BY <1>1, <1>2, ConsistentInit, ConsistentStep, PTL DEF Spec, AgreementKept

-----------------------------------------------------------------------------
(***************************************************************************)
(* Schedules.                                                              *)
(***************************************************************************)
\* A match that a step adds was made by process_matching, for a job that had
\* no match before.
LEMMA NewMatches ==
  ASSUME Consistent, [Next]_vars, NEW p \in Processors, NEW j \in JobIds,
         matches[p][j] = None, matches'[p][j] # None
  PROVE  /\ registration' \in [JobIds -> RegistrationType \cup {None}]
         /\ \E J \in SUBSET JobIds : \E plan \in [J -> Plans] :
              /\ process_matching(registration', plan)
              /\ j \in J /\ p \in DOMAIN plan[j]
<1> DEFINE Goal == /\ registration' \in [JobIds -> RegistrationType \cup {None}]
                   /\ \E J \in SUBSET JobIds : \E plan \in [J -> Plans] :
                        /\ process_matching(registration', plan)
                        /\ j \in J /\ p \in DOMAIN plan[j]
<1>0. TypeOK
  BY DEF Consistent, TypeInv
<1>1. ASSUME NEW k \in JobIds, NEW r \in JobRegistrations, register_for(k, r)
      PROVE  Goal
  <2>1. registration' \in [JobIds -> RegistrationType \cup {None}]
    BY <1>1, RegisterFacts
  <2>2. CASE UNCHANGED matches
    BY <2>2
  <2>3. ASSUME NEW plan \in [{k} -> Plans], process_matching(registration', plan)
        PROVE  Goal
    <3>1. {k} \in SUBSET JobIds
      OBVIOUS
    <3>2. j \in {k} /\ p \in DOMAIN plan[j]
      BY <1>0, <2>1, <2>3, <3>1, MatchingFacts
    <3> QED BY <2>1, <2>3, <3>1, <3>2
  <2> HIDE DEF Goal
  <2> QED BY <1>1, <2>2, <2>3, RegisterFacts
<1>2. ASSUME NEW k \in JobIds, deregister_for(k) \/ finalize_jobs_for(k)
      PROVE  FALSE
  BY <1>2, EndFacts
<1>3. ASSUME NEW k \in JobIds, NEW allowed \in SourceLists, update_allowed_sources(k, allowed)
      PROVE  FALSE
  BY <1>3 DEF update_allowed_sources, matchVars
<1>4. ASSUME NEW J \in SUBSET { k \in JobIds : status[k] = Open }, NEW plan \in [J -> Plans],
             NEW matcher \in Matchers, propose_matching(matcher, plan)
      PROVE  Goal
  <2>1. /\ process_matching(registration, plan) /\ registration' = registration
        /\ registration \in [JobIds -> RegistrationType \cup {None}]
        /\ J \in SUBSET JobIds
    BY <1>0, <1>4 DEF propose_matching, registryVars, TypeOK
  <2>2. process_matching(registration', plan)
    BY <2>1
  <2>3. j \in J /\ p \in DOMAIN plan[j]
    BY <1>0, <2>1, MatchingFacts
  <2> QED BY <2>1, <2>2, <2>3
<1>5. ASSUME NEW q \in Processors, NEW k \in JobIds, acknowledge_match(q, k)
      PROVE  FALSE
  BY <1>0, <1>5, AcknowledgeFacts, MarketplaceAssumption
<1>6. ASSUME NEW q \in Processors, NEW k \in JobIds, report(q, k)
      PROVE  FALSE
  BY <1>0, <1>6, ReportFacts, MarketplaceAssumption
<1>7. ASSUME NEW q \in Processors, NEW k \in JobIds, finalize_job(q, k)
      PROVE  FALSE
  BY <1>0, <1>7, FinalizeFacts
<1>8. ASSUME NEW q \in Processors,
             delete_advertisement(q) \/ \E a \in Advertisements : advertise(q, a)
      PROVE  FALSE
  BY <1>8 DEF delete_advertisement, advertise
<1>9. ~Quiet
  BY DEF Quiet
<1> HIDE DEF Goal
<1>10. Goal
  BY <1>0, <1>1, <1>2, <1>3, <1>4, <1>5, <1>6, <1>7, <1>8, <1>9, StepCases
<1> QED BY <1>10 DEF Goal

\* Whether two jobs fit beside each other does not depend on which one came
\* first.
LEMMA CompatibleSymmetric ==
  ASSUME NEW s \in ScheduleType, NEW d, NEW o \in ScheduleType, NEW e, Compatible(s, d, o, e)
  PROVE  Compatible(o, e, s, d)
<1>1. /\ s.start_time \in Int /\ s.end_time \in Int
      /\ o.start_time \in Int /\ o.end_time \in Int
  BY MaxTimeAssumption DEF ScheduleType, Time
<1>2. s.start_time >= o.end_time => o.end_time <= s.start_time
  BY <1>1
<1>3. s.end_time <= o.start_time => o.start_time >= s.end_time
  BY <1>1
<1>4. Disjoint(s, d, o, e) => Disjoint(o, e, s, d)
  BY DEF Disjoint
<1> QED BY <1>2, <1>3, <1>4 DEF Compatible

LEMMA SchedulesStep ==
  ASSUME Consistent, SchedulesCompatible, [Next]_vars
  PROVE  SchedulesCompatible'
<1> DEFINE Fit(p, j, k) ==
      Compatible(registration'[j].schedule, matches'[p][j].start_delay,
                 registration'[k].schedule, matches'[p][k].start_delay)
<1> SUFFICES ASSUME NEW p \in Processors, NEW j \in JobIds, NEW k \in JobIds, j # k,
                    matches'[p][j] # None, matches'[p][k] # None
             PROVE  Fit(p, j, k)
  BY DEF SchedulesCompatible
<1>0. TypeOK
  BY DEF Consistent, TypeInv
<1>1. \A i \in JobIds : matches[p][i] # None /\ matches'[p][i] # None =>
        /\ registration'[i] = registration[i]
        /\ matches'[p][i].start_delay = matches[p][i].start_delay
  BY KeptStep DEF Kept
<1>2. CASE matches[p][j] # None /\ matches[p][k] # None
  <2>1. Compatible(registration[j].schedule, matches[p][j].start_delay,
                   registration[k].schedule, matches[p][k].start_delay)
    BY <1>2 DEF SchedulesCompatible
  <2> QED BY <1>1, <1>2, <2>1
<1>3. ASSUME NEW i \in JobIds, NEW l \in JobIds, i # l, matches'[p][i] # None,
             matches'[p][l] # None, matches[p][i] = None
      PROVE  Fit(p, i, l) /\ registration'[i] \in RegistrationType
                          /\ registration'[l] \in RegistrationType
  <2>1. registration' \in [JobIds -> RegistrationType \cup {None}]
    BY <1>3, NewMatches
  <2>2. PICK J \in SUBSET JobIds : \E plan \in [J -> Plans] :
          process_matching(registration', plan) /\ i \in J /\ p \in DOMAIN plan[i]
    BY <1>3, NewMatches
  <2>3. PICK plan \in [J -> Plans] :
          process_matching(registration', plan) /\ i \in J /\ p \in DOMAIN plan[i]
    BY <2>2
  <2>4. i \in JobsOf(plan, p)
    BY <2>3 DEF JobsOf
  <2>5. CanMatch(registration', plan)
    BY <2>3 DEF process_matching
  <2>6. fits_schedule(registration', plan, p)
    BY <2>5 DEF CanMatch
  <2>7. \A m \in J : registration'[m] \in RegistrationType
    BY <1>0, <2>1, <2>5, MatchedFacts
  <2>8. ASSUME NEW m \in J, p \in DOMAIN plan[m]
        PROVE  matches'[p][m].start_delay = plan[m][p]
    <3>1. matches'[p][m] = NewAssignment(registration'[m], p, plan[m][p])
      BY <1>0, <2>1, <2>3, <2>8, MatchingFacts
    <3> QED BY <3>1 DEF NewAssignment
  <2>9. CASE matches[p][l] # None
    <3>1. /\ registration'[l] # None
          /\ Compatible(registration'[i].schedule, plan[i][p],
                        registration'[l].schedule, matches[p][l].start_delay)
      BY <2>4, <2>6, <2>9 DEF fits_schedule
    <3>2. matches'[p][l].start_delay = matches[p][l].start_delay
      BY <1>1, <1>3, <2>9
    <3> QED BY <2>1, <2>3, <2>7, <2>8, <3>1, <3>2
  <2>10. CASE matches[p][l] = None
    <3>1. l \in J /\ p \in DOMAIN plan[l]
      BY <1>0, <1>3, <2>1, <2>3, <2>10, MatchingFacts
    <3>2. l \in JobsOf(plan, p)
      BY <3>1 DEF JobsOf
    <3>3. Compatible(registration'[i].schedule, plan[i][p],
                     registration'[l].schedule, plan[l][p])
      BY <1>3, <2>4, <2>6, <3>2 DEF fits_schedule
    <3> QED BY <2>3, <2>7, <2>8, <3>1, <3>3
  <2> QED BY <2>9, <2>10
<1>4. CASE matches[p][j] = None
  BY <1>3, <1>4
<1>5. CASE matches[p][k] = None
  <2>1. /\ Fit(p, k, j)
        /\ registration'[j] \in RegistrationType /\ registration'[k] \in RegistrationType
    BY <1>3, <1>5
  <2>2. registration'[j].schedule \in ScheduleType /\ registration'[k].schedule \in ScheduleType
    BY <2>1, RegistrationFacts
  <2> QED BY <2>1, <2>2, CompatibleSymmetric
<1> QED BY <1>2, <1>4, <1>5

\* Any two jobs of a processor have passed the test of fits_schedule against
\* each other, and still pass it in the form in which they are registered:
\* the test is made when the later of the two is matched, and from then on
\* neither registration nor delay changes.
THEOREM SchedulesAlwaysCompatible == Spec => []SchedulesCompatible
<1>1. Init => SchedulesCompatible
  BY DEF Init, SchedulesCompatible
<1>2. Consistent /\ SchedulesCompatible /\ [Next]_vars => SchedulesCompatible'
  BY SchedulesStep
<1> QED BY <1>1, <1>2, ConsistentInit, ConsistentStep, PTL DEF Spec

-----------------------------------------------------------------------------
(***************************************************************************)
(* Slots.                                                                  *)
(***************************************************************************)
\* What SlotsAccounted says of one job.
SlotsOf(j) ==
  /\ status[j] = Matched =>
       /\ Acknowledged(j) = {}
       /\ Cardinality(MatchedTo(j)) <= registration[j].slots
  /\ IsAssigned(j) =>
       /\ status[j].count > 0
       /\ Cardinality(Acknowledged(j)) <= status[j].count
       /\ status[j].count + Cardinality(MatchedTo(j) \ Acknowledged(j)) <= registration[j].slots

\* The processors that have acknowledged are among those that are matched.
LEMMA AcknowledgedFacts ==
  ASSUME SameIndex, NEW j \in JobIds
  PROVE  /\ Acknowledged(j) = { p \in MatchedTo(j) : matches[p][j].acknowledged }
         /\ IsFiniteSet(MatchedTo(j)) /\ IsFiniteSet(Acknowledged(j))
         /\ IsFiniteSet(MatchedTo(j) \ Acknowledged(j))
         /\ Cardinality(MatchedTo(j)) \in Nat /\ Cardinality(Acknowledged(j)) \in Nat
         /\ Cardinality(MatchedTo(j) \ Acknowledged(j)) \in Nat
<1>1. Acknowledged(j) = { p \in MatchedTo(j) : matches[p][j].acknowledged }
  BY DEF Acknowledged, MatchedTo, SameIndex
<1>2. IsFiniteSet(MatchedTo(j))
  BY MarketplaceAssumption, FS_Subset DEF MatchedTo
<1>3. Acknowledged(j) \in SUBSET MatchedTo(j) /\ MatchedTo(j) \ Acknowledged(j) \in SUBSET MatchedTo(j)
  BY <1>1
<1>4. IsFiniteSet(Acknowledged(j)) /\ IsFiniteSet(MatchedTo(j) \ Acknowledged(j))
  BY <1>2, <1>3, FS_Subset
<1> QED BY <1>1, <1>2, <1>4, FS_CardinalityType

\* A job of which fewer matches are left than before, the others as they were.
LEMMA SlotsKept ==
  ASSUME Consistent, Consistent', NEW j \in JobIds, SlotsOf(j),
         status'[j] = status[j], registration[j] # None => registration'[j].slots = registration[j].slots,
         \A p \in Processors : \/ matches'[p][j] = None
                               \/ /\ matches[p][j] # None
                                  /\ matches'[p][j].acknowledged <=> matches[p][j].acknowledged
  PROVE  SlotsOf(j)'
<1>0. SameIndex /\ SameIndex' /\ JobsConsistent
  BY DEF Consistent
<1>1. /\ Acknowledged(j) = { p \in MatchedTo(j) : matches[p][j].acknowledged }
      /\ IsFiniteSet(MatchedTo(j)) /\ IsFiniteSet(Acknowledged(j))
      /\ IsFiniteSet(MatchedTo(j) \ Acknowledged(j))
  BY <1>0, AcknowledgedFacts
<1>2. Acknowledged(j)' = { p \in MatchedTo(j)' : matches'[p][j].acknowledged }
  BY <1>0 DEF Acknowledged, MatchedTo, SameIndex
<1>3. MatchedTo(j)' \in SUBSET MatchedTo(j) /\ \A p \in MatchedTo(j)' : matches'[p][j] # None
  BY DEF MatchedTo
<1>4. \A p \in MatchedTo(j)' : matches'[p][j].acknowledged <=> matches[p][j].acknowledged
  BY <1>3 DEF MatchedTo
<1>5. /\ Acknowledged(j)' \in SUBSET Acknowledged(j)
      /\ MatchedTo(j)' \ Acknowledged(j)' \in SUBSET (MatchedTo(j) \ Acknowledged(j))
  BY <1>1, <1>2, <1>3, <1>4
<1> DEFINE m == Cardinality(MatchedTo(j))
           a == Cardinality(Acknowledged(j))
           u == Cardinality(MatchedTo(j) \ Acknowledged(j))
           mm == Cardinality(MatchedTo(j)')
           aa == Cardinality(Acknowledged(j)')
           uu == Cardinality(MatchedTo(j)' \ Acknowledged(j)')
<1>6. mm <= m /\ aa <= a /\ uu <= u
  BY <1>1, <1>3, <1>5, FS_Subset
<1>7. m \in Nat /\ a \in Nat /\ u \in Nat /\ mm \in Nat /\ aa \in Nat /\ uu \in Nat
  BY <1>1, <1>3, <1>5, FS_Subset, FS_CardinalityType
<1>8. CASE status[j] = Matched
  <2>1. registration[j] # None
    BY <1>0, <1>8, StatusFacts DEF JobsConsistent
  <2>2. registration[j].slots \in Nat
    BY <2>1, RegistrationFacts DEF Consistent, TypeInv, TypeOK
  <2>3. Acknowledged(j)' = {}
    BY <1>5, <1>8 DEF SlotsOf
  <2>4. m <= registration[j].slots
    BY <1>8 DEF SlotsOf
  <2> HIDE DEF m, a, u, mm, aa, uu
  <2>5. mm <= registration'[j].slots
    BY <1>6, <1>7, <2>1, <2>2, <2>4
  <2> QED BY <1>8, <2>3, <2>5 DEF SlotsOf, IsAssigned, mm
<1>9. CASE IsAssigned(j)
  <2>1. registration[j] # None /\ status[j] \in Statuses
    BY <1>0, <1>9, StatusFacts DEF JobsConsistent, IsAssigned, Consistent, TypeInv, TypeOK
  <2>2. registration[j].slots \in Nat /\ status[j].count \in Nat
    BY <2>1, RegistrationFacts DEF Consistent, TypeInv, TypeOK, Statuses
  <2>3. status[j].count > 0 /\ a <= status[j].count /\ status[j].count + u <= registration[j].slots
    BY <1>9 DEF SlotsOf
  <2> HIDE DEF m, a, u, mm, aa, uu
  <2>4. /\ status'[j].count > 0 /\ aa <= status'[j].count
        /\ status'[j].count + uu <= registration'[j].slots
    BY <1>6, <1>7, <2>1, <2>2, <2>3
  <2> QED BY <1>9, <2>4 DEF SlotsOf, IsAssigned, aa, uu
<1>10. CASE ~(status[j] = Matched) /\ ~IsAssigned(j)
  BY <1>10 DEF SlotsOf, IsAssigned
<1> QED BY <1>8, <1>9, <1>10

\* A job that has just been matched.
LEMMA SlotsNew ==
  ASSUME Consistent, Consistent', NEW J \in SUBSET JobIds, NEW plan \in [J -> Plans],
         process_matching(registration', plan), NEW j \in J, status'[j] = Matched,
         \A p \in Processors : matches[p][j] = None
  PROVE  SlotsOf(j)'
<1>0. TypeOK /\ TypeOK' /\ SameIndex' /\ JobsConsistent' /\ SlotsFit'
  BY DEF Consistent, TypeInv
<1>1. registration' \in [JobIds -> RegistrationType \cup {None}]
  BY <1>0 DEF TypeOK
<1>2. ASSUME NEW p \in Processors, matches'[p][j] # None
      PROVE  matches'[p][j].acknowledged = FALSE
  <2>1. matches'[p][j] = NewAssignment(registration'[j], p, plan[j][p])
    BY <1>0, <1>1, <1>2, MatchingFacts
  <2> QED BY <2>1 DEF NewAssignment
<1>3. Acknowledged(j)' = {}
  BY <1>0, <1>2 DEF Acknowledged, SameIndex
<1>4. registration'[j] # None
  BY <1>0, StatusFacts DEF JobsConsistent
<1>5. Cardinality(MatchedTo(j)') <= registration'[j].slots
  BY <1>0, <1>4 DEF SlotsFit
<1> QED BY <1>3, <1>5 DEF SlotsOf, IsAssigned

\* The first and every further acknowledgement.
LEMMA SlotsAcknowledged ==
  ASSUME Consistent, Consistent', NEW p \in Processors, NEW j \in JobIds, SlotsOf(j),
         acknowledge_match(p, j), ~matches[p][j].acknowledged
  PROVE  SlotsOf(j)'
<1>0. TypeOK /\ SameIndex /\ SameIndex' /\ JobsConsistent /\ SlotsFit
  BY DEF Consistent, TypeInv
<1>1. /\ matches[p][j] \in AssignmentType
      /\ matches'[p][j] = [matches[p][j] EXCEPT !.acknowledged = TRUE]
      /\ matches'[p][j] \in AssignmentType
      /\ \A q \in Processors : q # p => matches'[q][j] = matches[q][j]
      /\ registration' = registration
  BY <1>0, AcknowledgeFacts
<1>2. matches'[p][j].acknowledged = TRUE /\ matches[p][j] # None /\ matches'[p][j] # None
  BY <1>1, MarketplaceAssumption DEF AssignmentType
<1>3. MatchedTo(j)' = MatchedTo(j) /\ p \in MatchedTo(j)
  BY <1>1, <1>2 DEF MatchedTo
<1>4. /\ Acknowledged(j) = { q \in MatchedTo(j) : matches[q][j].acknowledged }
      /\ IsFiniteSet(MatchedTo(j)) /\ IsFiniteSet(Acknowledged(j))
      /\ IsFiniteSet(MatchedTo(j) \ Acknowledged(j))
      /\ Cardinality(MatchedTo(j)) \in Nat /\ Cardinality(Acknowledged(j)) \in Nat
      /\ Cardinality(MatchedTo(j) \ Acknowledged(j)) \in Nat
  BY <1>0, AcknowledgedFacts
<1>5. Acknowledged(j)' = { q \in MatchedTo(j)' : matches'[q][j].acknowledged }
  BY <1>0 DEF Acknowledged, MatchedTo, SameIndex
<1>6. p \notin Acknowledged(j) /\ Acknowledged(j)' = Acknowledged(j) \cup {p}
  BY <1>1, <1>2, <1>3, <1>4, <1>5 DEF MatchedTo
<1> DEFINE a == Cardinality(Acknowledged(j))
           U == MatchedTo(j) \ Acknowledged(j)
           u == Cardinality(U)
<1>7. Cardinality(Acknowledged(j)') = a + 1
  BY <1>4, <1>6, FS_AddElement
<1>8. p \in U /\ MatchedTo(j)' \ Acknowledged(j)' = U \ {p}
  BY <1>3, <1>6
<1>9. Cardinality(U \ {p}) = u - 1 /\ u \in Nat
  BY <1>4, <1>8, FS_RemoveElement
<1>10. /\ status[j] \notin {None, Open}
       /\ status'[j] = IF status[j] = Matched THEN Assigned(1) ELSE Assigned(status[j].count + 1)
  BY <1>0 DEF acknowledge_match, TypeOK
<1>11. registration[j] # None /\ registration[j].slots \in Nat
  BY <1>0, <1>10, RegistrationFacts DEF JobsConsistent, TypeOK
<1> SUFFICES /\ status'[j] # Matched
             /\ status'[j].count > 0
             /\ a + 1 <= status'[j].count
             /\ status'[j].count + (u - 1) <= registration[j].slots
  BY <1>1, <1>7, <1>8, <1>9 DEF SlotsOf, IsAssigned
<1>12. CASE status[j] = Matched
  <2>1. Acknowledged(j) = {} /\ Cardinality(MatchedTo(j)) <= registration[j].slots
    BY <1>12 DEF SlotsOf
  <2>2. a = 0 /\ U = MatchedTo(j)
    BY <2>1, FS_EmptySet
  <2>3. status'[j] = Assigned(1) /\ status'[j].count = 1
    BY <1>10, <1>12 DEF Assigned
  <2>4. u <= registration[j].slots
    BY <2>1, <2>2
  <2> HIDE DEF a, U, u
  <2> QED BY <1>9, <1>11, <2>2, <2>3, <2>4, StatusFacts
<1>13. CASE status[j] # Matched
  <2>1. IsAssigned(j) /\ status[j] \in Statuses
    BY <1>0, <1>10, <1>13 DEF IsAssigned, TypeOK
  <2>2. status[j].count \in Nat
    BY <2>1 DEF Statuses
  <2>3. a <= status[j].count /\ status[j].count + u <= registration[j].slots
    BY <2>1 DEF SlotsOf
  <2>4. status'[j] = Assigned(status[j].count + 1) /\ status'[j].count = status[j].count + 1
    BY <1>10, <1>13 DEF Assigned
  <2>5. a \in Nat /\ status[j].count + 1 \in Nat
    BY <1>4, <2>2
  <2> HIDE DEF a, U, u
  <2> QED BY <1>9, <1>11, <2>2, <2>3, <2>4, <2>5, StatusFacts
<1> QED BY <1>12, <1>13

\* Every step keeps the count of one job right.
LEMMA SlotsStep ==
  ASSUME Consistent, Consistent', [Next]_vars, NEW j \in JobIds, SlotsOf(j)
  PROVE  SlotsOf(j)'
<1>0. TypeOK /\ TypeOK' /\ JobsConsistent /\ JobsConsistent'
  BY DEF Consistent, TypeInv
<1>1. ASSUME NEW k \in JobIds, NEW r \in JobRegistrations, register_for(k, r)
      PROVE  SlotsOf(j)'
  <2>1. /\ registration' \in [JobIds -> RegistrationType \cup {None}]
        /\ k # j => registration'[j] = registration[j] /\ status'[j] = status[j]
        /\ \A p \in Processors : matches[p][k] = None
    BY <1>1, RegisterFacts
  <2>2. CASE UNCHANGED matches /\ status'[k] = Open
    <3>1. CASE k = j
      BY <2>2, <3>1, StatusFacts DEF SlotsOf, IsAssigned
    <3>2. CASE k # j
      BY <2>1, <2>2, <3>2, SlotsKept
    <3> QED BY <3>1, <3>2
  <2>3. ASSUME NEW plan \in [{k} -> Plans], process_matching(registration', plan),
               status'[k] = Matched
        PROVE  SlotsOf(j)'
    <3>0. {k} \in SUBSET JobIds
      OBVIOUS
    <3>1. CASE k = j
      BY <2>1, <2>3, <3>0, <3>1, SlotsNew
    <3>2. CASE k # j
      <4>1. \A p \in Processors : matches'[p][j] = matches[p][j]
        BY <1>0, <2>1, <2>3, <3>0, <3>2, MatchingFacts
      <4> QED BY <2>1, <3>2, <4>1, SlotsKept
    <3> QED BY <3>1, <3>2
  <2> QED BY <1>1, <2>2, <2>3, RegisterFacts
<1>2. ASSUME NEW k \in JobIds, deregister_for(k) \/ finalize_jobs_for(k)
      PROVE  SlotsOf(j)'
  <2>1. CASE k = j
    <3>1. status'[j] = None
      BY <1>2, <2>1, EndFacts
    <3> QED BY <3>1, StatusFacts DEF SlotsOf, IsAssigned
  <2>2. CASE k # j
    <3>1. /\ status'[j] = status[j] /\ registration'[j] = registration[j]
          /\ \A p \in Processors : matches'[p][j] = matches[p][j]
      BY <1>2, <2>2, EndFacts
    <3> QED BY <3>1, SlotsKept
  <2> QED BY <2>1, <2>2
<1>3. ASSUME NEW k \in JobIds, NEW allowed \in SourceLists, update_allowed_sources(k, allowed)
      PROVE  SlotsOf(j)'
  <2>1. /\ status'[j] = status[j] /\ status[k] = Open /\ matches' = matches
        /\ k # j => registration'[j] = registration[j]
    BY <1>0, <1>3 DEF update_allowed_sources, TypeOK, matchVars
  <2>2. CASE k = j
    BY <2>1, <2>2, StatusFacts DEF SlotsOf, IsAssigned
  <2>3. CASE k # j
    BY <2>1, <2>3, SlotsKept
  <2> QED BY <2>2, <2>3
<1>4. ASSUME NEW J \in SUBSET { k \in JobIds : status[k] = Open }, NEW plan \in [J -> Plans],
             NEW matcher \in Matchers, propose_matching(matcher, plan)
      PROVE  SlotsOf(j)'
  <2>1. /\ process_matching(registration', plan) /\ registration' = registration
        /\ registration' \in [JobIds -> RegistrationType \cup {None}]
        /\ J \in SUBSET JobIds
        /\ status'[j] = IF j \in J THEN Matched ELSE status[j]
    BY <1>0, <1>4 DEF propose_matching, registryVars, TypeOK
  <2>2. CASE j \in J
    <3>1. \A p \in Processors : matches[p][j] = None
      BY <1>0, <2>2 DEF JobsConsistent, MatchedTo
    <3> QED BY <2>1, <2>2, <3>1, SlotsNew
  <2>3. CASE j \notin J
    <3>1. \A p \in Processors : matches'[p][j] = matches[p][j]
      BY <1>0, <2>1, <2>3, MatchingFacts
    <3> QED BY <2>1, <2>3, <3>1, SlotsKept
  <2> QED BY <2>2, <2>3
<1>5. ASSUME NEW p \in Processors, NEW k \in JobIds, acknowledge_match(p, k)
      PROVE  SlotsOf(j)'
  <2>1. /\ matches[p][k] \in AssignmentType
        /\ matches'[p][k] = [matches[p][k] EXCEPT !.acknowledged = TRUE]
        /\ \A q \in Processors, l \in JobIds : q # p \/ l # k => matches'[q][l] = matches[q][l]
        /\ registration' = registration
        /\ matches[p][k] # None
    BY <1>0, <1>5, AcknowledgeFacts, MarketplaceAssumption
  <2>2. CASE k = j /\ ~matches[p][k].acknowledged
    BY <1>5, <2>2, SlotsAcknowledged
  <2>3. CASE k # j \/ matches[p][k].acknowledged
    <3>1. status'[j] = status[j]
      BY <1>0, <1>5, <2>3 DEF acknowledge_match, TypeOK
    <3>2. \A q \in Processors : matches'[q][j] = matches[q][j]
      <4> TAKE q \in Processors
      <4>1. CASE q # p \/ k # j
        BY <2>1, <4>1
      <4>2. CASE q = p /\ k = j
        <5>1. matches[p][k].acknowledged = TRUE
          BY <2>1, <2>3, <4>2 DEF AssignmentType
        <5>2. [matches[p][k] EXCEPT !.acknowledged = TRUE] = matches[p][k]
          BY <2>1, <5>1 DEF AssignmentType
        <5> QED BY <2>1, <4>2, <5>2
      <4> QED BY <4>1, <4>2
    <3> QED BY <2>1, <3>1, <3>2, SlotsKept
  <2> QED BY <2>2, <2>3
<1>6. ASSUME NEW p \in Processors, NEW k \in JobIds, report(p, k)
      PROVE  SlotsOf(j)'
  <2>1. /\ matches[p][k] \in AssignmentType
        /\ matches'[p][k] = [matches[p][k] EXCEPT !.met = @ + 1]
        /\ \A q \in Processors, l \in JobIds : q # p \/ l # k => matches'[q][l] = matches[q][l]
        /\ registration' = registration /\ status' = status
        /\ matches[p][k] # None
    BY <1>0, <1>6, ReportFacts, MarketplaceAssumption
  <2>2. matches'[p][k].acknowledged = matches[p][k].acknowledged
    BY <2>1 DEF AssignmentType
  <2>3. \A q \in Processors : \/ matches'[q][j] = matches[q][j]
                              \/ /\ matches[q][j] # None
                                 /\ matches'[q][j].acknowledged = matches[q][j].acknowledged
    BY <2>1, <2>2
  <2>4. \A q \in Processors : \/ matches'[q][j] = None
                              \/ /\ matches[q][j] # None
                                 /\ matches'[q][j].acknowledged <=> matches[q][j].acknowledged
    BY <2>3
  <2> QED BY <2>1, <2>4, SlotsKept
<1>7. ASSUME NEW p \in Processors, NEW k \in JobIds, finalize_job(p, k)
      PROVE  SlotsOf(j)'
  <2>1. /\ registration' = registration /\ status' = status
        /\ \A q \in Processors : matches'[q][j] = None \/ matches'[q][j] = matches[q][j]
    BY <1>0, <1>7, FinalizeFacts
  <2>2. \A q \in Processors : \/ matches'[q][j] = None
                              \/ /\ matches[q][j] # None
                                 /\ matches'[q][j].acknowledged <=> matches[q][j].acknowledged
    BY <2>1
  <2> QED BY <2>1, <2>2, SlotsKept
<1>8. ASSUME NEW p \in Processors,
             delete_advertisement(p) \/ \E a \in Advertisements : advertise(p, a)
      PROVE  SlotsOf(j)'
  <2>1. UNCHANGED <<registration, status, matches>>
    BY <1>8 DEF delete_advertisement, advertise, registryVars
  <2> QED BY <2>1, SlotsKept
<1>9. CASE Quiet
  <2>1. UNCHANGED <<registration, status, matches>>
    BY <1>9 DEF Quiet
  <2> QED BY <2>1, SlotsKept
<1> QED BY <1>0, <1>1, <1>2, <1>3, <1>4, <1>5, <1>6, <1>7, <1>8, <1>9, StepCases

\* The count in JobStatus::Assigned and the matches still waiting for their
\* acknowledgement never exceed the slots the consumer has paid for, whatever
\* processors acknowledge, finalize or fail to: acknowledge_match counts a
\* processor once.
THEOREM SlotsAlwaysAccounted == Spec => []SlotsAccounted
<1> DEFINE Inv == \A j \in JobIds : SlotsOf(j)
<1>1. Init => Inv
  BY StatusFacts DEF Init, SlotsOf, IsAssigned
<1>2. Consistent /\ Consistent' /\ Inv /\ [Next]_vars => Inv'
  BY SlotsStep
<1>3. Inv => SlotsAccounted
  BY DEF SlotsAccounted, SlotsOf
<1> HIDE DEF Inv
<1> QED BY <1>1, <1>2, <1>3, ConsistentInit, ConsistentStep, PTL DEF Spec

-----------------------------------------------------------------------------
(***************************************************************************)
(* Storage.                                                                *)
(***************************************************************************)
\* The jobs a processor has and the storage they take up.
JobsWith(p) == { j \in JobIds : matches[p][j] # None }

Stored(p) == Sum([j \in JobsWith(p) |-> registration[j].storage], JobsWith(p))

\* What CapacityAccounted says of one processor.
CapacityOf(p) ==
  IF ad[p] = None THEN capacity[p] = None /\ JobsWith(p) = {}
  ELSE capacity[p] = ad[p].storage_capacity - Stored(p)

\* The jobs of a processor are registered, so that they have a storage.
LEMMA StoredFacts ==
  ASSUME TypeOK, JobsConsistent, NEW p \in Processors
  PROVE  /\ \A j \in JobsWith(p) : registration[j].storage \in Nat
         /\ IsFiniteSet(JobsWith(p))
         /\ Stored(p) \in Nat
<1> DEFINE f == [j \in JobsWith(p) |-> registration[j].storage]
<1>1. ASSUME NEW j \in JobsWith(p) PROVE registration[j].storage \in Nat
  <2>1. j \in JobIds /\ p \in MatchedTo(j)
    BY DEF JobsWith, MatchedTo
  <2>2. registration[j] # None
    BY <2>1 DEF JobsConsistent
  <2> QED BY <2>1, <2>2, RegistrationFacts DEF TypeOK
<1>2. IsFiniteSet(JobsWith(p))
  BY JobsFinite, FS_Subset DEF JobsWith
<1>3. \A j \in JobsWith(p) : f[j] \in Nat
  BY <1>1
<1> HIDE DEF f
<1>4. Sum(f, JobsWith(p)) \in Nat
  BY <1>2, <1>3, SumType
<1> QED BY <1>1, <1>2, <1>4 DEF Stored, f

\* The storage taken up by the same jobs is the same, ...
LEMMA StoredSame ==
  ASSUME NEW p \in Processors, JobsWith(p)' = JobsWith(p),
         \A j \in JobsWith(p) : registration'[j].storage = registration[j].storage
  PROVE  Stored(p)' = Stored(p)
<1>1. [j \in JobsWith(p) |-> registration'[j].storage]
        = [j \in JobsWith(p) |-> registration[j].storage]
  OBVIOUS
<1> QED BY <1>1 DEF Stored

\* ... that of one job less is less by the storage of that job, ...
LEMMA StoredLess ==
  ASSUME TypeOK, JobsConsistent, NEW p \in Processors, NEW j \in JobsWith(p),
         JobsWith(p)' = JobsWith(p) \ {j},
         \A k \in JobsWith(p) \ {j} : registration'[k].storage = registration[k].storage
  PROVE  Stored(p)' = Stored(p) - registration[j].storage
<1> DEFINE S == JobsWith(p)
           R == S \ {j}
           f == [k \in S |-> registration[k].storage]
           g == [k \in R |-> registration'[k].storage]
<1>1. IsFiniteSet(S) /\ \A k \in S : f[k] \in Nat
  BY StoredFacts
<1>2. IsFiniteSet(R) /\ IsFiniteSet({j}) /\ R \cap {j} = {} /\ S = R \cup {j}
  <2>1. IsFiniteSet(R) /\ IsFiniteSet({j})
    BY <1>1, FS_Subset, FS_Singleton
  <2> QED BY <2>1
<1>3. \A k \in R : f[k] = g[k]
  OBVIOUS
<1>4. f[j] = registration[j].storage
  OBVIOUS
<1>5. Stored(p) = Sum(f, S) /\ Stored(p)' = Sum(g, R)
  BY DEF Stored
<1> HIDE DEF S, R, f, g
<1>6. Sum(f, R \cup {j}) = Sum(f, R) + Sum(f, {j})
  BY <1>1, <1>2, SumUnion
<1>7. Sum(f, {j}) = f[j] /\ Sum(f, R) = Sum(g, R)
  BY <1>1, <1>2, <1>3, SumOne, SumSame
<1>8. Sum(f, R) \in Nat /\ f[j] \in Nat
  BY <1>1, <1>2, SumType
<1> QED BY <1>2, <1>4, <1>5, <1>6, <1>7, <1>8

\* ... and that of more jobs is more by theirs.
LEMMA StoredMore ==
  ASSUME TypeOK, JobsConsistent, TypeOK', JobsConsistent', NEW p \in Processors,
         NEW J, NEW plan \in [J -> Plans],
         JobsWith(p)' = JobsWith(p) \cup JobsOf(plan, p), JobsWith(p) \cap JobsOf(plan, p) = {},
         \A k \in JobsWith(p) : registration'[k].storage = registration[k].storage
  PROVE  Stored(p)' = Stored(p) + NewStorage(registration', plan, p)
<1> DEFINE S == JobsWith(p)
           N == JobsOf(plan, p)
           f == [k \in S |-> registration[k].storage]
           g == [k \in S \cup N |-> registration'[k].storage]
           h == [k \in N |-> registration'[k].storage]
<1>1. IsFiniteSet(S)
  BY StoredFacts
<1>2. ASSUME NEW k \in JobsWith(p)'
      PROVE  registration'[k].storage \in Nat
  <2>1. k \in JobIds /\ p \in MatchedTo(k)'
    BY DEF JobsWith, MatchedTo
  <2>2. registration'[k] # None
    BY <2>1 DEF JobsConsistent
  <2> QED BY <2>1, <2>2, RegistrationFacts DEF TypeOK
<1>3. IsFiniteSet(N) /\ \A k \in S \cup N : g[k] \in Nat
  <2>1. N \in SUBSET JobIds
    BY DEF JobsWith
  <2>2. IsFiniteSet(N)
    BY <2>1, JobsFinite, FS_Subset
  <2> QED BY <1>2, <2>2
<1>4. (\A k \in S : g[k] = f[k]) /\ (\A k \in N : g[k] = h[k])
  OBVIOUS
<1>5. /\ Stored(p) = Sum(f, S) /\ Stored(p)' = Sum(g, S \cup N)
      /\ NewStorage(registration', plan, p) = Sum(h, N)
  BY DEF Stored, NewStorage
<1>6. S \cap N = {}
  OBVIOUS
<1> HIDE DEF S, N, f, g, h
<1>7. Sum(g, S \cup N) = Sum(g, S) + Sum(g, N)
  BY <1>1, <1>3, <1>6, SumUnion
<1>8. Sum(g, S) = Sum(f, S) /\ Sum(g, N) = Sum(h, N)
  BY <1>4, SumSame
<1> QED BY <1>5, <1>7, <1>8

\* Nothing that concerns the processor changes.
LEMMA CapacityKept ==
  ASSUME NEW p \in Processors, CapacityOf(p), ad'[p] = ad[p], capacity'[p] = capacity[p],
         JobsWith(p)' = JobsWith(p),
         \A j \in JobsWith(p) : registration'[j].storage = registration[j].storage
  PROVE  CapacityOf(p)'
BY StoredSame DEF CapacityOf

\* A match of the processor ends.
LEMMA CapacityReturned ==
  ASSUME TypeOK, JobsConsistent, NEW p \in Processors, CapacityOf(p), NEW j \in JobsWith(p),
         ad'[p] = ad[p],
         capacity'[p] = (IF capacity[p] = None THEN 0 ELSE capacity[p]) + registration[j].storage,
         JobsWith(p)' = JobsWith(p) \ {j},
         \A k \in JobsWith(p) \ {j} : registration'[k].storage = registration[k].storage
  PROVE  CapacityOf(p)'
<1>1. ad[p] # None /\ capacity[p] = ad[p].storage_capacity - Stored(p)
  BY DEF CapacityOf
<1>2. ad[p].storage_capacity \in Nat
  BY <1>1 DEF TypeOK, AdvertisementType
<1>3. Stored(p) \in Nat /\ registration[j].storage \in Nat
  BY StoredFacts
<1>4. capacity[p] \in Int /\ capacity[p] # None
  BY <1>1, <1>2, <1>3, MarketplaceAssumption
<1>5. Stored(p)' = Stored(p) - registration[j].storage
  BY StoredLess
<1>6. capacity'[p] = ad'[p].storage_capacity - (Stored(p) - registration[j].storage)
  BY <1>1, <1>2, <1>3, <1>4
<1> QED BY <1>1, <1>5, <1>6 DEF CapacityOf

\* Jobs are matched, to this processor or to others.
LEMMA CapacityTaken ==
  ASSUME Consistent, Consistent', NEW p \in Processors, CapacityOf(p),
         NEW J \in SUBSET JobIds, NEW plan \in [J -> Plans],
         process_matching(registration', plan), UNCHANGED ad,
         \A q \in Processors, j \in J : matches[q][j] = None,
         \A k \in JobIds \ J : registration'[k] = registration[k]
  PROVE  CapacityOf(p)'
<1>0. TypeOK /\ TypeOK' /\ JobsConsistent /\ JobsConsistent'
  BY DEF Consistent, TypeInv
<1>1. registration' \in [JobIds -> RegistrationType \cup {None}]
  BY <1>0 DEF TypeOK
<1>2. CanMatch(registration', plan)
  BY DEF process_matching
<1>3. \A k \in JobsWith(p) : k \notin J /\ registration'[k] = registration[k]
  BY DEF JobsWith
<1>4. JobsWith(p) \cap JobsOf(plan, p) = {}
  BY <1>3 DEF JobsOf
<1>5. JobsWith(p)' = JobsWith(p) \cup JobsOf(plan, p)
  <2>1. ASSUME NEW k \in JobIds
        PROVE  matches'[p][k] # None <=> matches[p][k] # None \/ k \in JobsOf(plan, p)
    <3>1. k \in JobsOf(plan, p) <=> k \in J /\ p \in DOMAIN plan[k]
      BY DEF JobsOf
    <3> QED BY <1>0, <1>1, <3>1, MatchingFacts, MarketplaceAssumption
  <2>2. JobsOf(plan, p) \subseteq JobIds
    BY DEF JobsOf
  <2> QED BY <2>1, <2>2 DEF JobsWith
<1>6. capacity'[p] = IF JobsOf(plan, p) = {} THEN capacity[p]
                     ELSE capacity[p] - NewStorage(registration', plan, p)
  BY DEF process_matching
<1>7. CASE JobsOf(plan, p) = {}
  BY <1>3, <1>5, <1>6, <1>7, CapacityKept
<1>8. CASE JobsOf(plan, p) # {}
  <2>1. PICK k \in J : p \in DOMAIN plan[k]
    BY <1>8 DEF JobsOf
  <2>2. ad[p] \in AdvertisementType /\ \A l \in J : registration'[l] \in RegistrationType
    BY <1>0, <1>1, <1>2, <2>1, MatchedFacts
  <2>3. ad[p] # None /\ ad[p].storage_capacity \in Nat
    BY <2>2, MarketplaceAssumption DEF AdvertisementType
  <2>4. Stored(p) \in Nat
    BY <1>0, StoredFacts
  <2>5. NewStorage(registration', plan, p) \in Nat
    BY <2>2, NewStorageType
  <2>6. Stored(p)' = Stored(p) + NewStorage(registration', plan, p)
    BY <1>0, <1>3, <1>4, <1>5, StoredMore
  <2>7. capacity[p] = ad[p].storage_capacity - Stored(p)
    BY <2>3 DEF CapacityOf
  <2>8. capacity'[p] = ad[p].storage_capacity - (Stored(p) + NewStorage(registration', plan, p))
    BY <1>6, <1>8, <2>3, <2>4, <2>5, <2>7
  <2> QED BY <2>3, <2>6, <2>8 DEF CapacityOf
<1> QED BY <1>7, <1>8

\* Every step keeps the capacity of one processor right.
LEMMA CapacityStep ==
  ASSUME Consistent, Consistent', [Next]_vars, NEW p \in Processors, CapacityOf(p)
  PROVE  CapacityOf(p)'
<1>0. TypeOK /\ TypeOK' /\ JobsConsistent /\ JobsConsistent'
  BY DEF Consistent, TypeInv
<1>1. ASSUME NEW k \in JobIds, NEW r \in JobRegistrations, register_for(k, r)
      PROVE  CapacityOf(p)'
  <2>1. /\ \A l \in JobIds : l # k => registration'[l] = registration[l]
        /\ \A q \in Processors : matches[q][k] = None
        /\ UNCHANGED ad
    BY <1>1, RegisterFacts
  <2>2. CASE UNCHANGED <<matches, assigned, capacity>>
    BY <2>1, <2>2, CapacityKept DEF JobsWith
  <2>3. ASSUME NEW plan \in [{k} -> Plans], process_matching(registration', plan)
        PROVE  CapacityOf(p)'
    <3>1. {k} \in SUBSET JobIds
      OBVIOUS
    <3> QED BY <2>1, <2>3, <3>1, CapacityTaken
  <2> QED BY <1>1, <2>2, <2>3, RegisterFacts
<1>2. ASSUME NEW k \in JobIds, deregister_for(k) \/ finalize_jobs_for(k)
      PROVE  CapacityOf(p)'
  <2>1. /\ \A l \in JobIds : l # k => /\ registration'[l] = registration[l]
                                      /\ matches'[p][l] = matches[p][l]
        /\ matches'[p][k] = None
        /\ capacity'[p] = IF matches[p][k] # None
                            THEN (IF capacity[p] = None THEN 0 ELSE capacity[p])
                                   + registration[k].storage
                            ELSE capacity[p]
        /\ UNCHANGED ad
    BY <1>2, EndFacts
  <2>2. JobsWith(p)' = JobsWith(p) \ {k}
    BY <2>1 DEF JobsWith
  <2>3. \A l \in JobsWith(p) \ {k} : registration'[l] = registration[l]
    BY <2>1 DEF JobsWith
  <2>4. CASE matches[p][k] # None
    <3>1. k \in JobsWith(p)
      BY <2>4 DEF JobsWith
    <3> QED BY <1>0, <2>1, <2>2, <2>3, <2>4, <3>1, CapacityReturned
  <2>5. CASE matches[p][k] = None
    <3>1. k \notin JobsWith(p)
      BY <2>5 DEF JobsWith
    <3> QED BY <2>1, <2>2, <2>3, <2>5, <3>1, CapacityKept
  <2> QED BY <2>4, <2>5
<1>3. ASSUME NEW k \in JobIds, NEW allowed \in SourceLists, update_allowed_sources(k, allowed)
      PROVE  CapacityOf(p)'
  <2>1. /\ UNCHANGED <<ad, matches, capacity>> /\ status[k] = Open
        /\ \A l \in JobIds : l # k => registration'[l] = registration[l]
    BY <1>0, <1>3 DEF update_allowed_sources, TypeOK, matchVars, advertVars
  <2>2. k \notin JobsWith(p)
    BY <1>0, <2>1 DEF JobsWith, JobsConsistent, MatchedTo
  <2> QED BY <2>1, <2>2, CapacityKept DEF JobsWith
<1>4. ASSUME NEW J \in SUBSET { k \in JobIds : status[k] = Open }, NEW plan \in [J -> Plans],
             NEW matcher \in Matchers, propose_matching(matcher, plan)
      PROVE  CapacityOf(p)'
  <2>1. /\ process_matching(registration', plan) /\ registration' = registration
        /\ J \in SUBSET JobIds /\ UNCHANGED ad
    BY <1>4 DEF propose_matching, registryVars, advertVars
  <2>2. \A q \in Processors, j \in J : matches[q][j] = None
    BY <1>0 DEF JobsConsistent, MatchedTo
  <2> QED BY <2>1, <2>2, CapacityTaken
<1>5. ASSUME NEW q \in Processors, NEW k \in JobIds, acknowledge_match(q, k)
      PROVE  CapacityOf(p)'
  <2>1. \A l \in JobIds : matches'[p][l] # None <=> matches[p][l] # None
    <3>1. /\ matches[q][k] \in AssignmentType /\ matches'[q][k] \in AssignmentType
          /\ \A x \in Processors, l \in JobIds :
               x # q \/ l # k => matches'[x][l] = matches[x][l]
      BY <1>0, <1>5, AcknowledgeFacts
    <3>2. matches[q][k] # None /\ matches'[q][k] # None
      BY <3>1, MarketplaceAssumption
    <3> QED BY <3>1, <3>2
  <2>2. UNCHANGED <<registration, ad, capacity>>
    BY <1>0, <1>5, AcknowledgeFacts
  <2> QED BY <2>1, <2>2, CapacityKept DEF JobsWith
<1>6. ASSUME NEW q \in Processors, NEW k \in JobIds, report(q, k)
      PROVE  CapacityOf(p)'
  <2>1. \A l \in JobIds : matches'[p][l] # None <=> matches[p][l] # None
    <3>1. /\ matches[q][k] \in AssignmentType /\ matches'[q][k] \in AssignmentType
          /\ \A x \in Processors, l \in JobIds :
               x # q \/ l # k => matches'[x][l] = matches[x][l]
      BY <1>0, <1>6, ReportFacts
    <3>2. matches[q][k] # None /\ matches'[q][k] # None
      BY <3>1, MarketplaceAssumption
    <3> QED BY <3>1, <3>2
  <2>2. UNCHANGED <<registration, ad, capacity>>
    BY <1>0, <1>6, ReportFacts
  <2> QED BY <2>1, <2>2, CapacityKept DEF JobsWith
<1>7. ASSUME NEW q \in Processors, NEW k \in JobIds, finalize_job(q, k)
      PROVE  CapacityOf(p)'
  <2>1. /\ matches[q][k] # None /\ matches'[q][k] = None
        /\ \A l \in JobIds : q # p \/ l # k => matches'[p][l] = matches[p][l]
        /\ capacity' = [capacity EXCEPT ![q] = (IF @ = None THEN 0 ELSE @)
                                                 + registration[k].storage]
        /\ UNCHANGED <<registration, ad>>
    BY <1>0, <1>7, FinalizeFacts, MarketplaceAssumption
  <2>2. CASE q = p
    <3>1. JobsWith(p)' = JobsWith(p) \ {k} /\ k \in JobsWith(p)
      BY <2>1, <2>2 DEF JobsWith
    <3>2. capacity'[p] = (IF capacity[p] = None THEN 0 ELSE capacity[p])
                           + registration[k].storage
      BY <1>0, <2>1, <2>2 DEF TypeOK
    <3> QED BY <1>0, <2>1, <3>1, <3>2, CapacityReturned
  <2>3. CASE q # p
    <3>1. JobsWith(p)' = JobsWith(p)
      BY <2>1, <2>3 DEF JobsWith
    <3>2. capacity'[p] = capacity[p]
      BY <1>0, <2>1, <2>3 DEF TypeOK
    <3> QED BY <2>1, <3>1, <3>2, CapacityKept
  <2> QED BY <2>2, <2>3
<1>8. ASSUME NEW q \in Processors, delete_advertisement(q)
      PROVE  CapacityOf(p)'
  <2>1. /\ UNCHANGED <<registration, matches>>
        /\ ad' = [ad EXCEPT ![q] = None] /\ capacity' = [capacity EXCEPT ![q] = None]
        /\ JobsWith(q) = {}
    BY <1>8 DEF delete_advertisement, registryVars, HasMatches, JobsWith
  <2>2. JobsWith(p)' = JobsWith(p)
    BY <2>1 DEF JobsWith
  <2>3. CASE q = p
    BY <1>0, <2>1, <2>2, <2>3 DEF CapacityOf, TypeOK
  <2>4. CASE q # p
    <3>1. ad'[p] = ad[p] /\ capacity'[p] = capacity[p]
      BY <1>0, <2>1, <2>4 DEF TypeOK
    <3> QED BY <2>1, <2>2, <3>1, CapacityKept
  <2> QED BY <2>3, <2>4
<1>9. ASSUME NEW q \in Processors, NEW a \in Advertisements, advertise(q, a)
      PROVE  CapacityOf(p)'
  <2>1. UNCHANGED <<registration, matches>>
    BY <1>9 DEF advertise, registryVars
  <2>2. JobsWith(p)' = JobsWith(p) /\ Stored(p)' = Stored(p)
    BY <2>1, StoredSame DEF JobsWith
  <2>3. a \in AdvertisementType /\ a # None /\ a.storage_capacity \in Nat
    BY MarketplaceAssumption DEF AdvertisementType
  <2>4. CASE q # p
    <3>1. ad'[p] = ad[p] /\ capacity'[p] = capacity[p]
      BY <1>0, <1>9, <2>4 DEF advertise, TypeOK
    <3> QED BY <2>1, <2>2, <3>1, CapacityKept
  <2>5. CASE q = p /\ ad[p] = None
    <3>1. ad'[p] = a /\ capacity'[p] = a.storage_capacity
      BY <1>0, <1>9, <2>5 DEF advertise, TypeOK
    <3>2. JobsWith(p) = {}
      BY <2>5 DEF CapacityOf
    <3>3. Stored(p) = 0
      BY <3>2, SumEmpty DEF Stored
    <3> QED BY <2>2, <2>3, <3>1, <3>3 DEF CapacityOf
  <2>6. CASE q = p /\ ad[p] # None
    <3>1. capacity[p] = ad[p].storage_capacity - Stored(p)
      BY <2>6 DEF CapacityOf
    <3>2. Stored(p) \in Nat /\ ad[p].storage_capacity \in Nat
      BY <1>0, <2>6, StoredFacts DEF TypeOK, AdvertisementType
    <3>3. capacity[p] # None /\ capacity[p] \in Int
      BY <3>1, <3>2, MarketplaceAssumption
    <3>4. /\ ad'[p] = a
          /\ capacity'[p] = capacity[p] + a.storage_capacity - ad[p].storage_capacity
      BY <1>0, <1>9, <2>6, <3>3 DEF advertise, TypeOK
    <3>5. capacity'[p] = a.storage_capacity - Stored(p)
      BY <2>3, <3>1, <3>2, <3>4
    <3> QED BY <2>2, <2>3, <3>4, <3>5 DEF CapacityOf
  <2> QED BY <2>4, <2>5, <2>6
<1>10. CASE Quiet
  BY <1>10, CapacityKept DEF Quiet, JobsWith
<1> QED BY <1>0, <1>1, <1>2, <1>3, <1>4, <1>5, <1>6, <1>7, <1>8, <1>9, <1>10, StepCases

\* StoredStorageCapacity is always what was advertised less the storage of the
\* jobs the processor has: matching takes storage, every way a match may end
\* gives it back once, and a change of the advertisement shifts it.
THEOREM CapacityAlwaysAccounted == Spec => []CapacityAccounted
<1> DEFINE Inv == \A p \in Processors : CapacityOf(p)
<1>1. Init => Inv
  BY DEF Init, CapacityOf, JobsWith
<1>2. Consistent /\ Consistent' /\ Inv /\ [Next]_vars => Inv'
  BY CapacityStep
<1>3. Inv => CapacityAccounted
  BY DEF CapacityAccounted, CapacityOf, HasMatches, JobsWith, Stored
<1> HIDE DEF Inv
<1> QED BY <1>1, <1>2, <1>3, ConsistentInit, ConsistentStep, PTL DEF Spec

-----------------------------------------------------------------------------
(***************************************************************************)
(* What each way of moving money does to the pallet's account, and that it *)
(* takes nothing from anybody else.                                        *)
(***************************************************************************)
\* The accounts that money goes to are not the pallet's.
LEMMA OtherAccounts ==
  /\ FeeAccount # PalletAccount
  /\ \A u \in Users : u # PalletAccount /\ u \in Accounts
  /\ \A j \in JobIds : Payer(j) # PalletAccount /\ Payer(j) # FeeAccount /\ Payer(j) \in Accounts
<1>1. /\ FeeAccount # PalletAccount
      /\ \A u \in Users : u # PalletAccount /\ u # FeeAccount /\ u \in Accounts
      /\ HyperdriveAccount # PalletAccount /\ HyperdriveAccount # FeeAccount
  BY MarketplaceAssumption, AccountFacts
<1>2. \A j \in JobIds : Payer(j) = HyperdriveAccount \/ Payer(j) \in Users
  BY MarketplaceAssumption DEF JobIds, Origins, Payer
<1> QED BY <1>1, <1>2, PayerType

\* lock_reward: the payer pays, and stays above the existential deposit.
LEMMA LockFacts ==
  ASSUME TypeOK, NEW j \in JobIds, NEW reward \in Nat, lock_reward(j, reward)
  PROVE  /\ balance'[PalletAccount] = balance[PalletAccount] + reward
         /\ balance'[Payer(j)] = balance[Payer(j)] - reward
         /\ reward > 0 => balance'[Payer(j)] >= ExistentialDeposit
         /\ \A a \in Accounts \ {PalletAccount, Payer(j)} : balance'[a] = balance[a]
         /\ budget'[j] = budget[j] + reward
         /\ \A k \in JobIds : k # j => budget'[k] = budget[k]
         /\ budget' = [budget EXCEPT ![j] = @ + reward]
<1>1. balance \in [Accounts -> Nat] /\ budget \in [JobIds -> Nat]
  BY DEF TypeOK
<1>2. Payer(j) # PalletAccount /\ Payer(j) \in Accounts /\ PalletAccount \in Accounts
  BY OtherAccounts, AccountFacts
<1>3. balance' = [balance EXCEPT ![Payer(j)] = @ - reward, ![PalletAccount] = @ + reward]
  BY DEF lock_reward, Transfer
<1>4. ExistentialDeposit \in Nat
  BY MarketplaceAssumption
<1>5. reward > 0 => balance[Payer(j)] >= reward + ExistentialDeposit
  BY DEF lock_reward, CanTransfer
<1>6. reward > 0 => balance[Payer(j)] - reward >= ExistentialDeposit
  BY <1>1, <1>2, <1>4, <1>5
<1>7. budget' = [budget EXCEPT ![j] = @ + reward]
  BY DEF lock_reward
<1> QED BY <1>1, <1>2, <1>3, <1>6, <1>7

\* A payment less the fee: all of it leaves the pallet's account.
LEMMA PayFacts ==
  ASSUME NEW bal \in [Accounts -> Nat], NEW amount \in Nat, NEW target \in Accounts,
         target # PalletAccount
  PROVE  /\ Pay(bal, amount, target)[PalletAccount] = bal[PalletAccount] - amount
         /\ \A a \in Accounts \ {PalletAccount} : Pay(bal, amount, target)[a] >= bal[a]
<1> DEFINE fee == mul_floor(FeePercentage, amount)
           mid == Transfer(bal, PalletAccount, FeeAccount, fee)
           fin == Transfer(mid, PalletAccount, target, amount - fee)
<1>1. fee \in Nat /\ amount - fee \in Nat
  <2>1. FeePercentage \in 0 .. 100
    BY MarketplaceAssumption
  <2>2. fee \in Nat /\ fee <= amount
    BY <2>1, MulFloor
  <2> HIDE DEF fee
  <2> QED BY <2>2
<1>2. /\ FeeAccount # PalletAccount /\ FeeAccount \in Accounts /\ PalletAccount \in Accounts
  BY OtherAccounts, AccountFacts
<1> HIDE DEF fee
<1>3. /\ mid \in [Accounts -> Int]
      /\ mid[PalletAccount] = bal[PalletAccount] - fee
      /\ \A a \in Accounts \ {PalletAccount} : mid[a] >= bal[a]
  BY <1>1, <1>2 DEF Transfer
<1> HIDE DEF mid
<1>4. /\ fin[PalletAccount] = mid[PalletAccount] - (amount - fee)
      /\ \A a \in Accounts \ {PalletAccount} : fin[a] >= mid[a]
  BY <1>1, <1>2, <1>3 DEF Transfer
<1>5. \A a \in Accounts : bal[a] \in Nat /\ mid[a] \in Int
  BY <1>3
<1>6. fin \in [Accounts -> Int]
  BY <1>1, <1>2, <1>3 DEF Transfer
<1>7. Pay(bal, amount, target) = fin
  BY DEF Pay, fin, mid, fee
<1> HIDE DEF fin
<1>8. fin[PalletAccount] = bal[PalletAccount] - amount
  BY <1>1, <1>2, <1>3, <1>4, <1>5
<1>9. \A a \in Accounts \ {PalletAccount} : fin[a] >= bal[a]
  BY <1>3, <1>4, <1>5, <1>6
<1> QED BY <1>7, <1>8, <1>9

\* Compensating the processors of a job takes from the pallet's account only.
LEMMA CompensatedMore ==
  ASSUME TypeOK, RegistrationsSound, NEW j \in JobIds, registration[j] # None
  PROVE  /\ Cardinality(Acknowledged(j)) * Compensation(j) \in Nat
         /\ Compensated(j)[PalletAccount]
              = balance[PalletAccount] - Cardinality(Acknowledged(j)) * Compensation(j)
         /\ \A a \in Accounts \ {PalletAccount} : Compensated(j)[a] >= balance[a]
<1> DEFINE n == Cardinality(Acknowledged(j))
           reward == Compensation(j)
           fee == mul_floor(FeePercentage, reward)
           share(a) == Cardinality({ p \in Acknowledged(j) : manager[p] = a })
<1>1. budget[j] \in Nat /\ registration[j].slots \in Nat /\ registration[j].slots > 0
  BY MarketplaceAssumption DEF TypeOK, RegistrationsSound
<1>2. reward \in Nat
  <2>1. \A a, b \in Nat : b > 0 => a \div b \in Nat
    OBVIOUS
  <2> QED BY <1>1, <2>1 DEF Compensation
<1>3. fee \in Nat /\ reward - fee \in Nat
  <2>1. fee \in Nat /\ fee <= reward
    BY <1>2, MulFloor, MarketplaceAssumption
  <2> HIDE DEF fee, reward
  <2> QED BY <1>2, <2>1
<1>4. IsFiniteSet(Acknowledged(j))
  BY MarketplaceAssumption, FS_Subset DEF Acknowledged
<1>5. n \in Nat
  BY <1>4, FS_CardinalityType
<1>6. \A a : share(a) \in Nat
  <2> TAKE a
  <2> DEFINE those == { p \in Acknowledged(j) : manager[p] = a }
  <2>1. those \in SUBSET Acknowledged(j)
    OBVIOUS
  <2>2. IsFiniteSet(those)
    BY <1>4, <2>1, FS_Subset
  <2> QED BY <2>2, FS_CardinalityType
<1>7. Compensated(j) = [a \in Accounts |->
          CASE a = PalletAccount -> balance[a] - n * reward
            [] a = FeeAccount    -> balance[a] + n * fee
            [] OTHER -> balance[a] + share(a) * (reward - fee)]
  BY DEF Compensated
<1> HIDE DEF n, reward, fee, share
<1>8. ASSUME NEW a \in Accounts \ {PalletAccount}
      PROVE  Compensated(j)[a] >= balance[a]
  <2>1. balance[a] \in Nat
    BY DEF TypeOK
  <2>2. CASE a = FeeAccount
    <3>1. n * fee \in Nat
      BY <1>3, <1>5, MulNat
    <3>2. Compensated(j)[a] = balance[a] + n * fee
      BY <1>7, <2>2
    <3> QED BY <2>1, <3>1, <3>2
  <2>3. CASE a # FeeAccount
    <3>1. share(a) * (reward - fee) \in Nat
      BY <1>3, <1>6, MulNat
    <3>2. Compensated(j)[a] = balance[a] + share(a) * (reward - fee)
      BY <1>7, <2>3
    <3> QED BY <2>1, <3>1, <3>2
  <2> QED BY <2>2, <2>3
<1>9. n * reward \in Nat
  BY <1>2, <1>5, MulNat
<1>10. Compensated(j)[PalletAccount] = balance[PalletAccount] - n * reward
  BY <1>7, AccountFacts, OtherAccounts
<1> QED BY <1>8, <1>9, <1>10 DEF n, reward

\* A job that ends: its whole budget leaves the pallet's account, to the
\* payer and, if processors have acknowledged, to their managers.
LEMMA EndMoney ==
  ASSUME TypeOK, RegistrationsSound, NEW j \in JobIds,
         deregister_for(j) \/ finalize_jobs_for(j)
  PROVE  /\ balance'[PalletAccount] = balance[PalletAccount] - budget[j]
         /\ \A a \in Accounts \ {PalletAccount} : balance'[a] >= balance[a]
         /\ budget' = [budget EXCEPT ![j] = 0]
         /\ budget'[j] = 0
         /\ \A k \in JobIds : k # j => budget'[k] = budget[k]
<1>1. balance \in [Accounts -> Nat] /\ budget \in [JobIds -> Nat]
  BY DEF TypeOK
<1>2. Payer(j) # PalletAccount /\ Payer(j) \in Accounts /\ PalletAccount \in Accounts
  BY OtherAccounts, AccountFacts
<1>3. ASSUME NEW bal \in [Accounts -> Nat], NEW rest \in Nat, refund(bal, j, rest)
      PROVE  /\ balance' \in [Accounts -> Int]
             /\ balance'[PalletAccount] = bal[PalletAccount] - rest
             /\ \A a \in Accounts \ {PalletAccount} : balance'[a] >= bal[a]
             /\ budget' = [budget EXCEPT ![j] = 0]
  BY <1>2, <1>3 DEF refund, Transfer
<1>4. CASE refund(balance, j, budget[j])
  BY <1>1, <1>3, <1>4
<1>5. CASE deregister_assigned(j)
  <2> DEFINE rest == budget[j] - Cardinality(Acknowledged(j)) * Compensation(j)
             paid == Cardinality(Acknowledged(j)) * Compensation(j)
             bal == Compensated(j)
  <2>1. registration[j] # None /\ CanCompensate(j) /\ refund(bal, j, rest)
    BY <1>5 DEF deregister_assigned
  <2>2. bal \in [Accounts -> Nat] /\ rest \in Nat
    BY <2>1, CompensatedType
  <2>3. bal[PalletAccount] = balance[PalletAccount] - paid
    BY <2>1, CompensatedMore
  <2>4. \A a \in Accounts \ {PalletAccount} : bal[a] >= balance[a]
    BY <2>1, CompensatedMore
  <2>5. paid \in Nat
    BY <2>1, CompensatedMore
  <2> HIDE DEF bal, rest
  <2>6. /\ balance' \in [Accounts -> Int]
        /\ balance'[PalletAccount] = bal[PalletAccount] - rest
        /\ \A a \in Accounts \ {PalletAccount} : balance'[a] >= bal[a]
        /\ budget' = [budget EXCEPT ![j] = 0]
    BY <1>3, <2>1, <2>2
  <2>7. rest = budget[j] - paid
    BY DEF rest
  <2> HIDE DEF paid
  <2>8. balance'[PalletAccount] = balance[PalletAccount] - budget[j]
    BY <1>1, <1>2, <2>3, <2>5, <2>6, <2>7
  <2>9. \A a \in Accounts \ {PalletAccount} : balance'[a] >= balance[a]
    BY <1>1, <2>2, <2>4, <2>6
  <2> QED BY <1>1, <2>6, <2>8, <2>9
<1> QED BY <1>4, <1>5 DEF deregister_for, deregister_open, deregister_matched, finalize_jobs_for

\* report pays one execution out of the budget of its job.
LEMMA ReportMoney ==
  ASSUME TypeOK, NEW p \in Processors, NEW j \in JobIds, report(p, j)
  PROVE  LET fee == matches[p][j].fee_per_execution
         IN  /\ fee \in Nat /\ fee <= budget[j]
             /\ balance'[PalletAccount] = balance[PalletAccount] - fee
             /\ \A a \in Accounts \ {PalletAccount} : balance'[a] >= balance[a]
             /\ budget' = [budget EXCEPT ![j] = @ - fee]
             /\ budget'[j] = budget[j] - fee
             /\ \A k \in JobIds : k # j => budget'[k] = budget[k]
<1> DEFINE fee == matches[p][j].fee_per_execution
<1>1. balance \in [Accounts -> Nat] /\ budget \in [JobIds -> Nat]
  BY DEF TypeOK
<1>2. fee \in Nat
  BY ReportFacts DEF AssignmentType
<1>3. manager[p] \in Accounts /\ manager[p] # PalletAccount
  BY MarketplaceAssumption, OtherAccounts DEF report, TypeOK
<1>4. /\ fee <= budget[j] /\ budget' = [budget EXCEPT ![j] = @ - fee]
      /\ balance' = Pay(balance, fee, manager[p])
  BY DEF report, pay_reward
<1> HIDE DEF fee
<1>5. /\ balance'[PalletAccount] = balance[PalletAccount] - fee
      /\ \A a \in Accounts \ {PalletAccount} : balance'[a] >= balance[a]
  BY <1>1, <1>2, <1>3, <1>4, PayFacts
<1> QED BY <1>1, <1>2, <1>4, <1>5 DEF fee

\* What a job leaves over when the sources of its plan are paid in full.
Remaining(plan) ==
  [j \in DOMAIN plan |->
     total_reward_amount(registration[j]) - TotalFee(registration[j], DOMAIN plan[j])]

\* The share of it that goes to the matcher.
MatcherFee(plan) ==
  [j \in DOMAIN plan |-> mul_floor(MatcherPercentage, Remaining(plan)[j])]

\* propose_matching pays the matcher out of the budgets of the jobs it matches,
\* never more than what they leave over.
LEMMA ProposeMoney ==
  ASSUME TypeOK, NEW J \in SUBSET JobIds, NEW plan \in [J -> Plans], NEW matcher \in Matchers,
         propose_matching(matcher, plan)
  PROVE  LET fee == MatcherFee(plan)
         IN  /\ \A j \in J : /\ Remaining(plan)[j] \in Nat
                             /\ fee[j] \in Nat /\ fee[j] <= budget[j]
                             /\ fee[j] <= Remaining(plan)[j]
                             /\ budget'[j] = budget[j] - fee[j]
             /\ \A j \in JobIds \ J : budget'[j] = budget[j]
             /\ budget' = [j \in JobIds |-> IF j \in J THEN budget[j] - fee[j] ELSE budget[j]]
             /\ balance'[PalletAccount] = balance[PalletAccount] - Sum(fee, J)
             /\ \A a \in Accounts \ {PalletAccount} : balance'[a] >= balance[a]
<1> DEFINE fee == MatcherFee(plan)
<1>1. balance \in [Accounts -> Nat] /\ budget \in [JobIds -> Nat]
  BY DEF TypeOK
<1>2. DOMAIN plan = J /\ IsFiniteSet(J)
  BY JobsFinite, FS_Subset
<1>3. ASSUME NEW j \in J
      PROVE  Remaining(plan)[j] \in Nat
  <2>1. /\ CanMatch(registration, plan)
        /\ registration \in [JobIds -> RegistrationType \cup {None}]
    BY DEF propose_matching, process_matching, TypeOK
  <2>2. /\ registration[j] \in RegistrationType
        /\ TotalFee(registration[j], DOMAIN plan[j]) \in Nat
        /\ TotalFee(registration[j], DOMAIN plan[j]) <= total_reward_amount(registration[j])
    BY <2>1, MatchedFacts
  <2>3. total_reward_amount(registration[j]) \in Nat
    BY <2>2, RegistrationFacts
  <2>4. Remaining(plan)[j]
          = total_reward_amount(registration[j]) - TotalFee(registration[j], DOMAIN plan[j])
    BY <1>2 DEF Remaining
  <2> QED BY <2>2, <2>3, <2>4
<1>4. \A j \in J : fee[j] \in Nat /\ fee[j] <= Remaining(plan)[j]
  <2>1. MatcherPercentage \in 0 .. 100
    BY MarketplaceAssumption
  <2> QED BY <1>2, <1>3, <2>1, MulFloor DEF MatcherFee
<1>5. pay_matcher_reward(Remaining(plan), matcher)
  BY DEF propose_matching, Remaining
<1>6. DOMAIN Remaining(plan) = J
  BY <1>2 DEF Remaining
<1>7. fee = [j \in J |-> mul_floor(MatcherPercentage, Remaining(plan)[j])]
  BY <1>2 DEF MatcherFee
<1>8. /\ \A j \in J : fee[j] <= budget[j]
      /\ budget' = [j \in JobIds |-> IF j \in J THEN budget[j] - fee[j] ELSE budget[j]]
      /\ balance' = Pay(balance, Sum(fee, J), matcher)
  BY <1>5, <1>6, <1>7 DEF pay_matcher_reward
<1> HIDE DEF fee
<1>9. Sum(fee, J) \in Nat
  BY <1>2, <1>4, SumType
<1>10. matcher \in Accounts /\ matcher # PalletAccount
  BY MarketplaceAssumption, OtherAccounts
<1>11. /\ balance'[PalletAccount] = balance[PalletAccount] - Sum(fee, J)
       /\ \A a \in Accounts \ {PalletAccount} : balance'[a] >= balance[a]
  BY <1>1, <1>8, <1>9, <1>10, PayFacts
<1> QED BY <1>1, <1>3, <1>4, <1>8, <1>11 DEF fee

-----------------------------------------------------------------------------
(***************************************************************************)
(* The marketplace implements the escrow.  The phase of a job follows from *)
(* its status; registering offers a job, propose_matching matches jobs, a  *)
(* report pays out, and deregister_for and finalize_jobs_for end a job.    *)
(***************************************************************************)
Phase == [j \in JobIds |-> IF status[j] = None THEN "none"
                           ELSE IF status[j] = Open THEN "offered" ELSE "matched"]

\* The escrow adds up as the marketplace does.
LEMMA SameSum ==
  ASSUME NEW f, NEW S
  PROVE  Escrows!Sum(f, S) = Sum(f, S)
BY DEF Escrows!Sum, Escrows!Coins, Escrows!Cardinality, Sum, Coins, Cardinality

LEMMA EscrowInit == Init => Escrows!Init
BY DEF Init, Escrows!Init

\* A step that moves no money and moves no job from one phase to another.
LEMMA EscrowStutters ==
  ASSUME Phase' = Phase, UNCHANGED <<budget, balance>>
  PROVE  UNCHANGED Escrows!escrowVars
BY DEF Escrows!escrowVars, Phase

LEMMA EscrowStep ==
  ASSUME Consistent, Consistent', [Next]_vars
  PROVE  [Escrows!Next]_Escrows!escrowVars
<1>0. /\ TypeOK /\ RegistrationsSound /\ JobsConsistent
      /\ balance \in [Accounts -> Nat] /\ budget \in [JobIds -> Nat]
      /\ balance' \in [Accounts -> Nat] /\ budget' \in [JobIds -> Nat]
  BY DEF Consistent, TypeInv, TypeOK
<1> DEFINE Goal == [Escrows!Next]_Escrows!escrowVars
<1>1. ASSUME NEW j \in JobIds, NEW r \in JobRegistrations, register_for(j, r)
      PROVE  Goal
  <2>1. r \in RegistrationType /\ total_reward_amount(r) \in Nat
    BY <1>1, RegisterFacts, RegistrationFacts
  <2>2. /\ balance'[PalletAccount] = balance[PalletAccount] + total_reward_amount(r)
        /\ budget' = [budget EXCEPT ![j] = @ + total_reward_amount(r)]
    BY <1>0, <1>1, <2>1, LockFacts DEF register_for
  <2>3. /\ status[j] \in {None, Open} /\ status'[j] \in {Open, Matched}
        /\ \A k \in JobIds : k # j => status'[k] = status[k]
    BY <1>1, RegisterFacts DEF register_for
  <2>4. Phase[j] \in {"none", "offered"}
    BY <2>3 DEF Phase
  <2>5. \E to \in {"offered", "matched"} : Phase' = [Phase EXCEPT ![j] = to]
    BY <2>3, StatusFacts DEF Phase
  <2>6. /\ balance'[PalletAccount] >= balance[PalletAccount]
        /\ balance'[PalletAccount] - balance[PalletAccount] = total_reward_amount(r)
    BY <1>0, <2>1, <2>2, AccountFacts
  <2>7. Escrows!Offer(j)
    BY <2>2, <2>4, <2>5, <2>6 DEF Escrows!Offer, Phase
  <2> QED BY <2>7 DEF Escrows!Next
<1>2. ASSUME NEW j \in JobIds, deregister_for(j) \/ finalize_jobs_for(j)
      PROVE  Goal
  <2>1. /\ balance'[PalletAccount] = balance[PalletAccount] - budget[j]
        /\ budget' = [budget EXCEPT ![j] = 0]
    BY <1>0, <1>2, EndMoney
  <2>2. /\ status[j] # None /\ status'[j] = None
        /\ \A k \in JobIds : k # j => status'[k] = status[k]
    BY <1>2, EndFacts
  <2>3. Phase[j] # "none"
    BY <2>2 DEF Phase
  <2>4. Phase' = [Phase EXCEPT ![j] = "none"]
    BY <2>2 DEF Phase
  <2>5. Escrows!End(j)
    BY <2>1, <2>3, <2>4 DEF Escrows!End, Phase
  <2> QED BY <2>5 DEF Escrows!Next
<1>3. ASSUME NEW j \in JobIds, NEW allowed \in SourceLists, update_allowed_sources(j, allowed)
      PROVE  Goal
  <2>1. UNCHANGED <<status, budget, balance>>
    BY <1>3 DEF update_allowed_sources, moneyVars
  <2> QED BY <2>1, EscrowStutters DEF Phase
<1>4. ASSUME NEW J \in SUBSET { k \in JobIds : status[k] = Open }, NEW plan \in [J -> Plans],
             NEW matcher \in Matchers, propose_matching(matcher, plan)
      PROVE  Goal
  <2> DEFINE fee == MatcherFee(plan)
  <2>0. J \in SUBSET JobIds
    OBVIOUS
  <2>1. /\ \A j \in J : fee[j] \in Nat /\ fee[j] <= budget[j] /\ budget'[j] = budget[j] - fee[j]
        /\ \A j \in JobIds \ J : budget'[j] = budget[j]
        /\ balance'[PalletAccount] = balance[PalletAccount] - Sum(fee, J)
    <3>1. TypeOK
      BY <1>0
    <3> QED BY <1>4, <2>0, <3>1, ProposeMoney
  <2>2. /\ DOMAIN plan = J /\ J # {}
        /\ \A j \in JobIds : status'[j] = IF j \in J THEN Matched ELSE status[j]
    BY <1>4 DEF propose_matching
  <2> HIDE DEF fee
  <2>3. \A j \in J : Phase[j] = "offered" /\ budget'[j] \in 0 .. budget[j]
    BY <1>0, <2>0, <2>1, StatusFacts DEF Phase
  <2>4. Phase' = [j \in JobIds |-> IF j \in J THEN "matched" ELSE Phase[j]]
    BY <2>2, StatusFacts DEF Phase
  <2>5. budget' = [j \in JobIds |-> IF j \in J THEN budget'[j] ELSE budget[j]]
    BY <1>0, <2>1
  <2> DEFINE taken == [j \in J |-> budget[j] - budget'[j]]
  <2>6. \A j \in J : taken[j] = fee[j]
    BY <1>0, <2>0, <2>1
  <2>7. Sum(taken, J) = Sum(fee, J)
    BY <2>6, SumSame
  <2>8. balance'[PalletAccount] = balance[PalletAccount] - Escrows!Sum(taken, J)
    BY <2>1, <2>7, SameSum
  <2>9. Escrows!Match(J)
    BY <2>2, <2>3, <2>4, <2>5, <2>8 DEF Escrows!Match, Phase
  <2> QED BY <2>0, <2>9 DEF Escrows!Next
<1>5. ASSUME NEW p \in Processors, NEW j \in JobIds, acknowledge_match(p, j)
      PROVE  Goal
  <2>1. UNCHANGED <<budget, balance>>
    BY <1>0, <1>5, AcknowledgeFacts
  <2>2. Phase' = Phase
    <3>1. CASE UNCHANGED status
      BY <3>1 DEF Phase
    <3>2. CASE /\ status[j] \notin {None, Open}
               /\ status' = [status EXCEPT ![j] =
                               IF @ = Matched THEN Assigned(1) ELSE Assigned(@.count + 1)]
      <4>1. status[j].count + 1 \in Nat
        BY <1>0, <3>2 DEF TypeOK, Statuses
      <4>2. status'[j] \notin {None, Open} /\ \A k \in JobIds : k # j => status'[k] = status[k]
        BY <1>0, <3>2, <4>1, StatusFacts DEF TypeOK
      <4> QED BY <3>2, <4>2 DEF Phase
    <3> QED BY <1>5, <3>1, <3>2 DEF acknowledge_match
  <2> QED BY <2>1, <2>2, EscrowStutters
<1>6. ASSUME NEW p \in Processors, NEW j \in JobIds, report(p, j)
      PROVE  Goal
  <2> DEFINE fee == matches[p][j].fee_per_execution
  <2>1. /\ fee \in Nat /\ fee <= budget[j]
        /\ balance'[PalletAccount] = balance[PalletAccount] - fee
        /\ budget' = [budget EXCEPT ![j] = @ - fee]
    BY <1>0, <1>6, ReportMoney
  <2>2. matches[p][j] # None /\ status' = status
    BY <1>6 DEF report
  <2>3. status[j] \notin {None, Open}
    BY <1>0, <2>2 DEF JobsConsistent, MatchedTo
  <2> HIDE DEF fee
  <2>4. balance[PalletAccount] - balance'[PalletAccount] = fee
    BY <1>0, <2>1, AccountFacts
  <2>5. fee \in 0 .. budget[j]
    BY <1>0, <2>1
  <2>6. Phase[j] = "matched" /\ Phase' = Phase
    BY <2>2, <2>3 DEF Phase
  <2>7. Escrows!PayOut(j)
    BY <2>1, <2>4, <2>5, <2>6 DEF Escrows!PayOut, Phase
  <2> QED BY <2>7 DEF Escrows!Next
<1>7. ASSUME NEW p \in Processors, NEW j \in JobIds, finalize_job(p, j)
      PROVE  Goal
  <2>1. UNCHANGED <<status, budget, balance>>
    BY <1>0, <1>7, FinalizeFacts
  <2> QED BY <2>1, EscrowStutters DEF Phase
<1>8. ASSUME NEW p \in Processors,
             delete_advertisement(p) \/ \E a \in Advertisements : advertise(p, a)
      PROVE  Goal
  <2>1. UNCHANGED <<status, budget, balance>>
    BY <1>8 DEF delete_advertisement, advertise, moneyVars
  <2> QED BY <2>1, EscrowStutters DEF Phase
<1>9. CASE Quiet
  <2>1. UNCHANGED <<status, budget, balance>>
    BY <1>9 DEF Quiet
  <2> QED BY <2>1, EscrowStutters DEF Phase
<1>10. TypeOK
  BY <1>0
<1>11. \/ \E j \in JobIds, r \in JobRegistrations : register_for(j, r)
       \/ \E j \in JobIds : deregister_for(j) \/ finalize_jobs_for(j)
       \/ \E j \in JobIds, allowed \in SourceLists : update_allowed_sources(j, allowed)
       \/ \E J \in SUBSET { j \in JobIds : status[j] = Open } :
            \E plan \in [J -> Plans], matcher \in Matchers : propose_matching(matcher, plan)
       \/ \E p \in Processors, j \in JobIds :
            acknowledge_match(p, j) \/ report(p, j) \/ finalize_job(p, j)
       \/ \E p \in Processors :
            delete_advertisement(p) \/ \E a \in Advertisements : advertise(p, a)
       \/ Quiet
  BY <1>10, StepCases
<1>12. (\E j \in JobIds, r \in JobRegistrations : register_for(j, r)) => Goal
  BY <1>1
<1>13. (\E j \in JobIds : deregister_for(j) \/ finalize_jobs_for(j)) => Goal
  BY <1>2
<1>14. (\E j \in JobIds, allowed \in SourceLists : update_allowed_sources(j, allowed)) => Goal
  BY <1>3
<1>15. (\E J \in SUBSET { j \in JobIds : status[j] = Open } :
            \E plan \in [J -> Plans], matcher \in Matchers : propose_matching(matcher, plan)) => Goal
  BY <1>4
<1>16. (\E p \in Processors, j \in JobIds :
            acknowledge_match(p, j) \/ report(p, j) \/ finalize_job(p, j)) => Goal
  BY <1>5, <1>6, <1>7
<1>17. (\E p \in Processors :
            delete_advertisement(p) \/ \E a \in Advertisements : advertise(p, a)) => Goal
  BY <1>8
<1>18. Quiet => Goal
  BY <1>9
<1> HIDE DEF Goal
<1>19. Goal
  BY <1>11, <1>12, <1>13, <1>14, <1>15, <1>16, <1>17, <1>18
<1> QED BY <1>19 DEF Goal

\* Every behaviour of the two pallets is a behaviour of the abstract escrow:
\* the reward of a job is held from its registration to its end, only a matched
\* job pays anybody, a payment never exceeds what is held for that job, and a
\* job that ends leaves nothing behind.
THEOREM MarketplaceIsAnEscrow == Spec => ImplementsEscrow
<1>1. Init => Escrows!Init
  BY EscrowInit
<1>2. Consistent /\ Consistent' /\ [Next]_vars => [Escrows!Next]_Escrows!escrowVars
  BY EscrowStep
<1> QED BY <1>1, <1>2, ConsistentInit, ConsistentStep, PTL
        DEF Spec, ImplementsEscrow, Escrows!Spec

-----------------------------------------------------------------------------
(***************************************************************************)
(* The pallet's account.                                                   *)
(***************************************************************************)
\* Every step of the escrow leaves in the vault what is held and the float.
LEMMA SolventStep ==
  ASSUME Consistent, Consistent', PalletSolvent, [Next]_vars
  PROVE  PalletSolvent'
<1>0. /\ TypeOK /\ RegistrationsSound
      /\ balance \in [Accounts -> Nat] /\ budget \in [JobIds -> Nat]
      /\ balance' \in [Accounts -> Nat] /\ budget' \in [JobIds -> Nat]
      /\ PalletAccount \in Accounts /\ Endowment[PalletAccount] \in Nat
      /\ IsFiniteSet(JobIds)
  BY AccountFacts, MarketplaceAssumption, JobsFinite DEF Consistent, TypeInv, TypeOK
<1>1. /\ Sum(budget, JobIds) \in Nat
      /\ balance[PalletAccount] = Endowment[PalletAccount] + Sum(budget, JobIds)
  BY <1>0, SumType DEF PalletSolvent
<1>2. ASSUME NEW j \in JobIds, NEW d \in Int, balance'[PalletAccount] = balance[PalletAccount] + d,
             budget'[j] = budget[j] + d, \A k \in JobIds : k # j => budget'[k] = budget[k]
      PROVE  PalletSolvent'
  <2>1. Sum(budget', JobIds) = Sum(budget, JobIds) + budget'[j] - budget[j]
    BY <1>0, <1>2, SumUpdate
  <2>2. Sum(budget', JobIds) = Sum(budget, JobIds) + d
    BY <1>0, <1>1, <1>2, <2>1
  <2>3. balance'[PalletAccount] = Endowment[PalletAccount] + Sum(budget', JobIds)
    BY <1>0, <1>1, <1>2, <2>2
  <2> QED BY <2>3 DEF PalletSolvent
<1>3. ASSUME NEW j \in JobIds, NEW r \in JobRegistrations, register_for(j, r)
      PROVE  PalletSolvent'
  <2>1. total_reward_amount(r) \in Nat
    BY <1>3, RegisterFacts, RegistrationFacts
  <2>2. lock_reward(j, total_reward_amount(r))
    BY <1>3 DEF register_for
  <2> QED BY <1>0, <1>2, <2>1, <2>2, LockFacts
<1>4. ASSUME NEW j \in JobIds, deregister_for(j) \/ finalize_jobs_for(j)
      PROVE  PalletSolvent'
  <2>1. /\ balance'[PalletAccount] = balance[PalletAccount] - budget[j]
        /\ budget'[j] = 0 /\ \A k \in JobIds : k # j => budget'[k] = budget[k]
    BY <1>0, <1>4, EndMoney
  <2>2. /\ 0 - budget[j] \in Int
        /\ balance'[PalletAccount] = balance[PalletAccount] + (0 - budget[j])
        /\ budget'[j] = budget[j] + (0 - budget[j])
    BY <1>0, <2>1
  <2> QED BY <1>2, <2>1, <2>2
<1>5. ASSUME NEW p \in Processors, NEW j \in JobIds, report(p, j)
      PROVE  PalletSolvent'
  <2> DEFINE fee == matches[p][j].fee_per_execution
  <2>1. /\ fee \in Nat
        /\ balance'[PalletAccount] = balance[PalletAccount] - fee
        /\ budget'[j] = budget[j] - fee /\ \A k \in JobIds : k # j => budget'[k] = budget[k]
    BY <1>0, <1>5, ReportMoney
  <2> HIDE DEF fee
  <2>2. /\ 0 - fee \in Int
        /\ balance'[PalletAccount] = balance[PalletAccount] + (0 - fee)
        /\ budget'[j] = budget[j] + (0 - fee)
    BY <1>0, <2>1
  <2> QED BY <1>2, <2>1, <2>2
<1>6. ASSUME NEW J \in SUBSET { k \in JobIds : status[k] = Open }, NEW plan \in [J -> Plans],
             NEW matcher \in Matchers, propose_matching(matcher, plan)
      PROVE  PalletSolvent'
  <2> DEFINE fee == MatcherFee(plan)
             all == [j \in JobIds |-> IF j \in J THEN fee[j] ELSE 0]
             Others == JobIds \ J
  <2>0. J \in SUBSET JobIds /\ TypeOK
    BY <1>0
  <2>1. /\ \A j \in J : fee[j] \in Nat /\ fee[j] <= budget[j] /\ budget'[j] = budget[j] - fee[j]
        /\ \A j \in JobIds \ J : budget'[j] = budget[j]
        /\ balance'[PalletAccount] = balance[PalletAccount] - Sum(fee, J)
    BY <1>6, <2>0, ProposeMoney
  <2> HIDE DEF fee
  <2>2. \A j \in JobIds : all[j] \in Nat /\ budget'[j] \in Nat /\ budget[j] = all[j] + budget'[j]
    BY <1>0, <2>1
  <2>3. (\A j \in J : all[j] = fee[j]) /\ \A j \in Others : all[j] = 0
    BY <2>0
  <2> HIDE DEF all
  <2>4. Sum(budget, JobIds) = Sum(all, JobIds) + Sum(budget', JobIds)
    BY <1>0, <2>2, SumPlus
  <2>5. IsFiniteSet(J) /\ IsFiniteSet(Others) /\ J \cap Others = {} /\ JobIds = J \cup Others
    <3>1. IsFiniteSet(J) /\ IsFiniteSet(Others)
      BY <1>0, <2>0, FS_Subset
    <3> QED BY <2>0, <3>1
  <2> HIDE DEF Others
  <2>6. Sum(all, J \cup Others) = Sum(all, J) + Sum(all, Others)
    BY <2>2, <2>5, SumUnion
  <2>7. Sum(all, J) = Sum(fee, J)
    BY <2>3, SumSame
  <2>8. Sum(all, Others) = 0
    <3>1. \A j \in Others : all[j] \in 0 .. 0
      BY <2>3
    <3>2. Sum(all, Others) <= Cardinality(Others) * 0
      BY <2>5, <3>1, SumBound
    <3>3. Sum(all, Others) \in Nat /\ Cardinality(Others) \in Nat
      BY <2>5, <2>2, SumType, FS_CardinalityType
    <3> QED BY <3>2, <3>3
  <2>9. Sum(fee, J) \in Nat /\ Sum(budget', JobIds) \in Nat
    BY <1>0, <2>1, <2>5, SumType
  <2>10. Sum(budget, JobIds) = Sum(fee, J) + Sum(budget', JobIds)
    BY <2>4, <2>5, <2>6, <2>7, <2>8, <2>9
  <2>11. balance'[PalletAccount] = Endowment[PalletAccount] + Sum(budget', JobIds)
    BY <1>0, <1>1, <2>1, <2>9, <2>10
  <2> QED BY <2>11 DEF PalletSolvent
<1>7. CASE UNCHANGED <<budget, balance>>
  BY <1>7 DEF PalletSolvent
<1>8. ASSUME NEW p \in Processors, NEW j \in JobIds, acknowledge_match(p, j) \/ finalize_job(p, j)
      PROVE  PalletSolvent'
  BY <1>7, <1>8 DEF acknowledge_match, finalize_job, moneyVars
<1>9. ASSUME NEW p \in Processors,
             delete_advertisement(p) \/ \E a \in Advertisements : advertise(p, a)
      PROVE  PalletSolvent'
  BY <1>7, <1>9 DEF delete_advertisement, advertise, moneyVars
<1>10. ASSUME NEW j \in JobIds, NEW allowed \in SourceLists, update_allowed_sources(j, allowed)
      PROVE  PalletSolvent'
  BY <1>7, <1>10 DEF update_allowed_sources, moneyVars
<1>11. CASE Quiet
  BY <1>7, <1>11 DEF Quiet
<1>12. TypeOK
  BY <1>0
<1> QED BY <1>12, <1>3, <1>4, <1>5, <1>6, <1>8, <1>9, <1>10, <1>11, StepCases

\* The pallet's account always holds exactly the budgets of the jobs and what it
\* was endowed with: lock_reward, pay_reward, pay_matcher_reward and refund change
\* JobBudgets and the account by the same amount.
THEOREM PalletAlwaysSolvent == Spec => []PalletSolvent
<1>1. Init => PalletSolvent
  <2> SUFFICES ASSUME Init PROVE PalletSolvent
    OBVIOUS
  <2>1. balance = Endowment /\ \A j \in JobIds : budget[j] = 0
    BY DEF Init
  <2>2. \A j \in JobIds : budget[j] \in 0 .. 0 /\ budget[j] \in Nat
    BY <2>1
  <2>3. Sum(budget, JobIds) <= Cardinality(JobIds) * 0
    BY <2>2, JobsFinite, SumBound
  <2>4. Sum(budget, JobIds) \in Nat /\ Cardinality(JobIds) \in Nat
    BY <2>2, JobsFinite, SumType, FS_CardinalityType
  <2>5. Sum(budget, JobIds) = 0
    BY <2>3, <2>4
  <2>6. Endowment[PalletAccount] \in Nat
    BY MarketplaceAssumption, AccountFacts
  <2> QED BY <2>1, <2>5, <2>6 DEF PalletSolvent
<1>2. Consistent /\ Consistent' /\ PalletSolvent /\ [Next]_vars => PalletSolvent'
  BY SolventStep
<1> QED BY <1>1, <1>2, ConsistentInit, ConsistentStep, PTL DEF Spec

-----------------------------------------------------------------------------
(***************************************************************************)
(* The budgets of the jobs.                                                *)
(***************************************************************************)
\* What OpenJobFunded says of one job.
FundedOf(j) ==
  /\ status[j] = Open => budget[j] >= total_reward_amount(registration[j])
  /\ status[j] = None => budget[j] = 0

\* Every step keeps an open job funded.
LEMMA FundedStep ==
  ASSUME Consistent, [Next]_vars, NEW j \in JobIds, FundedOf(j)
  PROVE  FundedOf(j)'
<1>0. TypeOK /\ RegistrationsSound /\ JobsConsistent /\ budget[j] \in Nat
  BY DEF Consistent, TypeInv, TypeOK
<1>1. CASE status'[j] = status[j] /\ registration'[j] = registration[j] /\ budget'[j] = budget[j]
  BY <1>1 DEF FundedOf
<1>2. ASSUME NEW k \in JobIds, NEW r \in JobRegistrations, register_for(k, r)
      PROVE  FundedOf(j)'
  <2>1. /\ r \in RegistrationType /\ registration'[k] = r /\ status'[k] \in {Open, Matched}
        /\ k # j => registration'[j] = registration[j] /\ status'[j] = status[j]
    BY <1>2, RegisterFacts
  <2>2. total_reward_amount(r) \in Nat
    BY <2>1, RegistrationFacts
  <2>3. /\ budget'[k] = budget[k] + total_reward_amount(r)
        /\ k # j => budget'[j] = budget[j]
    BY <1>0, <1>2, <2>2, LockFacts DEF register_for
  <2>4. CASE k = j
    <3>1. budget'[j] >= total_reward_amount(registration'[j])
      BY <1>0, <2>1, <2>2, <2>3, <2>4
    <3> QED BY <2>1, <2>4, <3>1, StatusFacts DEF FundedOf
  <2>5. CASE k # j
    BY <1>1, <2>1, <2>3, <2>5
  <2> QED BY <2>4, <2>5
<1>3. ASSUME NEW k \in JobIds, deregister_for(k) \/ finalize_jobs_for(k)
      PROVE  FundedOf(j)'
  <2>1. /\ budget'[k] = 0 /\ status'[k] = None
        /\ k # j => budget'[j] = budget[j] /\ status'[j] = status[j]
                    /\ registration'[j] = registration[j]
    BY <1>0, <1>3, EndMoney, EndFacts
  <2>2. CASE k = j
    BY <2>1, <2>2, StatusFacts DEF FundedOf
  <2>3. CASE k # j
    BY <1>1, <2>1, <2>3
  <2> QED BY <2>2, <2>3
<1>4. ASSUME NEW k \in JobIds, NEW allowed \in SourceLists, update_allowed_sources(k, allowed)
      PROVE  FundedOf(j)'
  <2>1. /\ budget' = budget /\ status' = status
        /\ registration[k] \in RegistrationType
        /\ registration' = [registration EXCEPT ![k] = [registration[k] EXCEPT !.allowed_sources = allowed]]
    BY <1>0, <1>4 DEF update_allowed_sources, TypeOK, moneyVars
  <2>2. CASE k # j
    <3>1. registration'[j] = registration[j]
      BY <1>0, <2>1, <2>2 DEF TypeOK
    <3> QED BY <1>1, <2>1, <3>1
  <2>3. CASE k = j
    <3> DEFINE r == [registration[j] EXCEPT !.allowed_sources = allowed]
    <3>1. registration'[j] = r
      BY <1>0, <2>1, <2>3 DEF TypeOK
    <3>2. /\ r.reward = registration[j].reward /\ r.slots = registration[j].slots
          /\ r.schedule = registration[j].schedule
      BY <2>1, <2>3 DEF RegistrationType
    <3> HIDE DEF r
    <3>3. total_reward_amount(r) = total_reward_amount(registration[j])
      BY <3>2 DEF total_reward_amount
    <3> QED BY <2>1, <3>1, <3>3 DEF FundedOf
  <2> QED BY <2>2, <2>3
<1>5. ASSUME NEW J \in SUBSET { k \in JobIds : status[k] = Open }, NEW plan \in [J -> Plans],
             NEW matcher \in Matchers, propose_matching(matcher, plan)
      PROVE  FundedOf(j)'
  <2>0. J \in SUBSET JobIds /\ TypeOK
    BY <1>0
  <2>1. /\ registration' = registration
        /\ status'[j] = IF j \in J THEN Matched ELSE status[j]
    BY <1>5 DEF propose_matching, registryVars
  <2>2. j \notin J => budget'[j] = budget[j]
    BY <1>5, <2>0, ProposeMoney
  <2>3. CASE j \in J
    BY <2>1, <2>3, StatusFacts DEF FundedOf
  <2>4. CASE j \notin J
    BY <1>1, <2>1, <2>2, <2>4
  <2> QED BY <2>3, <2>4
<1>6. ASSUME NEW p \in Processors, NEW k \in JobIds, acknowledge_match(p, k)
      PROVE  FundedOf(j)'
  <2>1. UNCHANGED <<registration, budget>>
    BY <1>0, <1>6, AcknowledgeFacts
  <2>2. CASE status'[j] = status[j]
    BY <1>1, <2>1, <2>2
  <2>3. CASE status'[j] # status[j]
    <3>1. /\ status[j] \notin {None, Open}
          /\ status'[j] = IF status[j] = Matched THEN Assigned(1)
                                                 ELSE Assigned(status[j].count + 1)
      BY <1>0, <1>6, <2>3 DEF acknowledge_match, TypeOK
    <3>2. status[j].count + 1 \in Nat
      BY <1>0, <3>1 DEF TypeOK, Statuses
    <3>3. status'[j] \notin {None, Open}
      BY <3>1, <3>2, StatusFacts
    <3> QED BY <3>3 DEF FundedOf
  <2> QED BY <2>2, <2>3
<1>7. ASSUME NEW p \in Processors, NEW k \in JobIds, report(p, k)
      PROVE  FundedOf(j)'
  <2>1. /\ matches[p][k] # None /\ status' = status /\ registration' = registration
    BY <1>7 DEF report, registryVars
  <2>2. k # j => budget'[j] = budget[j]
    BY <1>0, <1>7, ReportMoney
  <2>3. status[k] \notin {None, Open}
    BY <1>0, <2>1 DEF JobsConsistent, MatchedTo
  <2>4. CASE k = j
    BY <2>1, <2>3, <2>4 DEF FundedOf
  <2>5. CASE k # j
    BY <1>1, <2>1, <2>2, <2>5
  <2> QED BY <2>4, <2>5
<1>8. ASSUME NEW p \in Processors, NEW k \in JobIds, finalize_job(p, k)
      PROVE  FundedOf(j)'
  <2>1. UNCHANGED <<status, registration, budget>>
    BY <1>0, <1>8, FinalizeFacts
  <2> QED BY <1>1, <2>1
<1>9. ASSUME NEW p \in Processors,
             delete_advertisement(p) \/ \E a \in Advertisements : advertise(p, a)
      PROVE  FundedOf(j)'
  BY <1>1, <1>9 DEF delete_advertisement, advertise, registryVars, moneyVars
<1>10. CASE Quiet
  BY <1>1, <1>10 DEF Quiet
<1>11. TypeOK
  BY <1>0
<1> QED BY <1>11, <1>2, <1>3, <1>4, <1>5, <1>6, <1>7, <1>8, <1>9, <1>10, StepCases

\* An open job always has its full reward locked, however often it has been
\* registered or its sources have been changed, and a job that is gone has
\* nothing locked.
THEOREM OpenJobAlwaysFunded == Spec => []OpenJobFunded
<1> DEFINE Inv == \A j \in JobIds : FundedOf(j)
<1>1. Init => Inv
  BY StatusFacts DEF Init, FundedOf
<1>2. Consistent /\ Inv /\ [Next]_vars => Inv'
  BY FundedStep
<1>3. Inv => OpenJobFunded
  BY DEF OpenJobFunded, FundedOf
<1> HIDE DEF Inv
<1> QED BY <1>1, <1>2, <1>3, ConsistentInit, ConsistentStep, PTL DEF Spec

-----------------------------------------------------------------------------
(***************************************************************************)
(* Refunds.  The payer of a job kept the existential deposit when the      *)
(* reward was locked, and nothing but locking another reward takes money   *)
(* from it.                                                                *)
(***************************************************************************)
PayerAlive(j) == budget[j] > 0 => balance[Payer(j)] >= ExistentialDeposit

\* Every step keeps the payers of jobs with a budget alive.
LEMMA PayerStep ==
  ASSUME Consistent, Consistent', [Next]_vars, NEW j \in JobIds, PayerAlive(j)
  PROVE  PayerAlive(j)'
<1>0. /\ TypeOK /\ RegistrationsSound
      /\ budget[j] \in Nat /\ budget'[j] \in Nat
      /\ \A a \in Accounts : balance[a] \in Nat /\ balance'[a] \in Nat
      /\ ExistentialDeposit \in Nat
  BY MarketplaceAssumption DEF Consistent, TypeInv, TypeOK
<1>1. Payer(j) \in Accounts \ {PalletAccount}
  BY OtherAccounts
<1>2. CASE budget'[j] <= budget[j] /\ balance'[Payer(j)] >= balance[Payer(j)]
  BY <1>0, <1>1, <1>2 DEF PayerAlive
<1>3. ASSUME NEW k \in JobIds, NEW r \in JobRegistrations, register_for(k, r)
      PROVE  PayerAlive(j)'
  <2> DEFINE reward == total_reward_amount(r)
  <2>1. reward \in Nat
    BY <1>3, RegisterFacts, RegistrationFacts
  <2>2. lock_reward(k, reward)
    BY <1>3 DEF register_for
  <2> HIDE DEF reward
  <2>3. /\ balance'[Payer(k)] = balance[Payer(k)] - reward
        /\ reward > 0 => balance'[Payer(k)] >= ExistentialDeposit
        /\ \A a \in Accounts \ {PalletAccount, Payer(k)} : balance'[a] = balance[a]
        /\ budget'[k] = budget[k] + reward
        /\ k # j => budget'[j] = budget[j]
    BY <1>0, <2>1, <2>2, LockFacts
  <2>4. CASE Payer(j) = Payer(k) /\ reward > 0
    BY <2>3, <2>4 DEF PayerAlive, Payer
  <2>5. CASE Payer(j) = Payer(k) /\ reward = 0
    BY <1>0, <1>1, <1>2, <2>3, <2>5
  <2>6. CASE Payer(j) # Payer(k)
    <3>1. k # j
      BY <2>6
    <3>2. balance'[Payer(j)] = balance[Payer(j)] /\ budget'[j] = budget[j]
      BY <1>1, <2>3, <2>6, <3>1
    <3> QED BY <1>0, <1>1, <1>2, <3>2
  <2> QED BY <2>1, <2>4, <2>5, <2>6
<1>4. ASSUME NEW k \in JobIds, deregister_for(k) \/ finalize_jobs_for(k)
      PROVE  PayerAlive(j)'
  <2>1. /\ budget'[k] = 0 /\ (k # j => budget'[j] = budget[j])
        /\ \A a \in Accounts \ {PalletAccount} : balance'[a] >= balance[a]
    BY <1>0, <1>4, EndMoney
  <2>2. budget'[j] <= budget[j]
    BY <1>0, <2>1
  <2> QED BY <1>1, <1>2, <2>1, <2>2
<1>5. ASSUME NEW p \in Processors, NEW k \in JobIds, report(p, k)
      PROVE  PayerAlive(j)'
  <2> DEFINE fee == matches[p][k].fee_per_execution
  <2>1. /\ fee \in Nat /\ budget'[k] = budget[k] - fee /\ (k # j => budget'[j] = budget[j])
        /\ \A a \in Accounts \ {PalletAccount} : balance'[a] >= balance[a]
    BY <1>0, <1>5, ReportMoney
  <2> HIDE DEF fee
  <2>2. budget'[j] <= budget[j]
    BY <1>0, <2>1
  <2> QED BY <1>1, <1>2, <2>1, <2>2
<1>6. ASSUME NEW J \in SUBSET { k \in JobIds : status[k] = Open }, NEW plan \in [J -> Plans],
             NEW matcher \in Matchers, propose_matching(matcher, plan)
      PROVE  PayerAlive(j)'
  <2> DEFINE fee == MatcherFee(plan)
  <2>0. J \in SUBSET JobIds /\ TypeOK
    BY <1>0
  <2>1. /\ j \in J => fee[j] \in Nat /\ budget'[j] = budget[j] - fee[j]
        /\ j \notin J => budget'[j] = budget[j]
        /\ \A a \in Accounts \ {PalletAccount} : balance'[a] >= balance[a]
    BY <1>6, <2>0, ProposeMoney
  <2> HIDE DEF fee
  <2>2. budget'[j] <= budget[j]
    BY <1>0, <2>1
  <2> QED BY <1>1, <1>2, <2>1, <2>2
<1>7. CASE UNCHANGED <<budget, balance>>
  BY <1>7 DEF PayerAlive, Payer
<1>8. ASSUME NEW p \in Processors, NEW k \in JobIds, acknowledge_match(p, k) \/ finalize_job(p, k)
      PROVE  PayerAlive(j)'
  BY <1>7, <1>8 DEF acknowledge_match, finalize_job, moneyVars
<1>9. ASSUME NEW p \in Processors,
             delete_advertisement(p) \/ \E a \in Advertisements : advertise(p, a)
      PROVE  PayerAlive(j)'
  BY <1>7, <1>9 DEF delete_advertisement, advertise, moneyVars
<1>10. ASSUME NEW k \in JobIds, NEW allowed \in SourceLists, update_allowed_sources(k, allowed)
      PROVE  PayerAlive(j)'
  BY <1>7, <1>10 DEF update_allowed_sources, moneyVars
<1>11. CASE Quiet
  BY <1>7, <1>11 DEF Quiet
<1>12. TypeOK
  BY <1>0
<1> QED BY <1>12, <1>3, <1>4, <1>5, <1>6, <1>8, <1>9, <1>10, <1>11, StepCases

\* Provided the pallet's account was set up with the existential deposit, the
\* transfer in refund can always be made: deregister_for and finalize_jobs_for
\* never fail for want of money, neither on the pallet's side (the account holds
\* all the budgets) nor on the payer's (which must not be left below the deposit).
THEOREM RefundAlwaysPossible ==
  ASSUME Endowment[PalletAccount] >= ExistentialDeposit
  PROVE  Spec => []RefundPossible
<1> DEFINE Inv == \A j \in JobIds : PayerAlive(j)
<1>1. Init => Inv
  BY DEF Init, PayerAlive
<1>2. Consistent /\ Consistent' /\ Inv /\ [Next]_vars => Inv'
  BY PayerStep
<1>3. Consistent /\ PalletSolvent /\ Inv => RefundPossible
  <2> SUFFICES ASSUME Consistent, PalletSolvent, Inv, NEW j \in JobIds, budget[j] > 0
               PROVE  /\ balance[PalletAccount] >= budget[j] + ExistentialDeposit
                      /\ balance[Payer(j)] + budget[j] >= ExistentialDeposit
    BY DEF RefundPossible, CanTransfer
  <2>1. /\ \A k \in JobIds : budget[k] \in Nat
        /\ Endowment[PalletAccount] \in Nat /\ ExistentialDeposit \in Nat
        /\ balance[Payer(j)] \in Nat
    BY MarketplaceAssumption, AccountFacts, PayerType DEF Consistent, TypeInv, TypeOK
  <2>2. budget[j] <= Sum(budget, JobIds) /\ Sum(budget, JobIds) \in Nat
    BY <2>1, JobsFinite, SumTerm, SumType
  <2>3. balance[PalletAccount] = Endowment[PalletAccount] + Sum(budget, JobIds)
    BY DEF PalletSolvent
  <2>4. balance[Payer(j)] >= ExistentialDeposit
    BY DEF PayerAlive
  <2> QED BY <2>1, <2>2, <2>3, <2>4
<1> HIDE DEF Inv
<1> QED BY <1>1, <1>2, <1>3, PalletAlwaysSolvent, ConsistentInit, ConsistentStep, PTL DEF Spec

-----------------------------------------------------------------------------
(***************************************************************************)
(* What is owed.  A match is owed its fee for every execution not yet      *)
(* reported.  The budget covers the sum when the job is matched, because   *)
(* process_matching compares the fees of all executions with the reward    *)
(* and the matcher gets no more than the rest; and it goes down by what a  *)
(* report is paid.                                                         *)
(***************************************************************************)
\* What a match may still be paid.
LeftOf(m) == (m.total - m.met) * m.fee_per_execution

\* No source reports more executions than were agreed, and the budget covers
\* those that are left.
CoveredOf(j) ==
  /\ \A p \in MatchedTo(j) : matches[p][j].met <= matches[p][j].total
  /\ Owed(j) <= budget[j]

\* The sum is over finitely many natural numbers.
LEMMA OwedFacts ==
  ASSUME TypeOK, NEW j \in JobIds, CoveredOf(j)
  PROVE  /\ IsFiniteSet(MatchedTo(j))
         /\ \A p \in MatchedTo(j) : matches[p][j] \in AssignmentType /\ LeftOf(matches[p][j]) \in Nat
         /\ Owed(j) = Sum([p \in MatchedTo(j) |-> LeftOf(matches[p][j])], MatchedTo(j))
         /\ Owed(j) \in Nat
<1> DEFINE S == MatchedTo(j)
           f == [p \in S |-> LeftOf(matches[p][j])]
<1>1. IsFiniteSet(S)
  BY MarketplaceAssumption, FS_Subset DEF MatchedTo
<1>2. ASSUME NEW p \in S
      PROVE  matches[p][j] \in AssignmentType /\ LeftOf(matches[p][j]) \in Nat
  <2>1. matches[p][j] \in AssignmentType
    BY DEF MatchedTo, TypeOK
  <2>2. /\ matches[p][j].total - matches[p][j].met \in Nat
        /\ matches[p][j].fee_per_execution \in Nat
    BY <2>1 DEF AssignmentType, CoveredOf
  <2>3. \A a, b \in Nat : a * b \in Nat
    OBVIOUS
  <2> QED BY <2>1, <2>2, <2>3 DEF LeftOf
<1>3. Owed(j) = Sum(f, S)
  BY DEF Owed, LeftOf
<1>4. \A p \in S : f[p] \in Nat
  BY <1>2
<1> HIDE DEF f
<1>5. Sum(f, S) \in Nat
  BY <1>1, <1>4, SumType
<1> QED BY <1>1, <1>2, <1>3, <1>5 DEF f

\* A step that changes neither the matches of a job, apart from whether they
\* are acknowledged, nor its budget.
LEMMA CoveredKept ==
  ASSUME NEW j \in JobIds, CoveredOf(j), budget'[j] = budget[j], MatchedTo(j)' = MatchedTo(j),
         \A p \in MatchedTo(j) : /\ matches'[p][j].total = matches[p][j].total
                                 /\ matches'[p][j].met = matches[p][j].met
                                 /\ matches'[p][j].fee_per_execution
                                      = matches[p][j].fee_per_execution
  PROVE  CoveredOf(j)'
<1>1. Owed(j)' = Owed(j)
  <2>1. [p \in MatchedTo(j) |-> (matches'[p][j].total - matches'[p][j].met)
                                   * matches'[p][j].fee_per_execution]
          = [p \in MatchedTo(j) |-> (matches[p][j].total - matches[p][j].met)
                                       * matches[p][j].fee_per_execution]
    OBVIOUS
  <2> QED BY <2>1 DEF Owed
<1> QED BY <1>1 DEF CoveredOf

\* A job without matches is owed nothing.
LEMMA NothingOwed ==
  ASSUME NEW j \in JobIds, budget'[j] \in Nat, \A p \in Processors : matches'[p][j] = None
  PROVE  CoveredOf(j)'
<1>1. MatchedTo(j)' = {}
  BY DEF MatchedTo
<1>2. Owed(j)' = 0
  BY <1>1, SumEmpty DEF Owed
<1> QED BY <1>1, <1>2 DEF CoveredOf

\* A job that has just been matched is owed the fees of all executions.
LEMMA OwedNew ==
  ASSUME TypeOK, NEW reg \in [JobIds -> RegistrationType \cup {None}],
         NEW J \in SUBSET JobIds, NEW plan \in [J -> Plans], process_matching(reg, plan),
         NEW j \in J, MatchedTo(j) = {}
  PROVE  /\ \A p \in MatchedTo(j)' : matches'[p][j].met <= matches'[p][j].total
         /\ Owed(j)' = TotalFee(reg[j], DOMAIN plan[j])
         /\ TotalFee(reg[j], DOMAIN plan[j]) \in Nat
         /\ reg[j] \in RegistrationType
         /\ TotalFee(reg[j], DOMAIN plan[j]) <= total_reward_amount(reg[j])
<1> DEFINE S == DOMAIN plan[j]
           r == reg[j]
<1>1. /\ r \in RegistrationType /\ S \subseteq Processors
      /\ \A p \in S : ad[p] \in AdvertisementType
      /\ TotalFee(r, S) \in Nat /\ TotalFee(r, S) <= total_reward_amount(r)
  BY MatchedFacts DEF process_matching
<1>2. execution_count(r.schedule) \in Nat
  BY <1>1, RegistrationFacts
<1>3. ASSUME NEW p \in Processors
      PROVE  /\ p \in S => /\ matches'[p][j] = NewAssignment(r, p, plan[j][p])
                           /\ matches'[p][j] \in AssignmentType
             /\ p \notin S => matches'[p][j] = None
  <2>1. matches[p][j] = None
    BY DEF MatchedTo
  <2>2. j \in JobIds
    OBVIOUS
  <2> QED BY <2>1, <2>2, MatchingFacts
<1>4. MatchedTo(j)' = S
  <2>1. \A p \in S : matches'[p][j] # None
    BY <1>1, <1>3, MarketplaceAssumption
  <2> QED BY <1>1, <1>3, <2>1 DEF MatchedTo
<1>5. \A p \in S : /\ matches'[p][j].met = 0
                   /\ matches'[p][j].total = execution_count(r.schedule)
                   /\ matches'[p][j].fee_per_execution = fee_per_execution(r, ad[p].pricing)
  <2> SUFFICES ASSUME NEW p \in S
               PROVE  /\ matches'[p][j].met = 0
                      /\ matches'[p][j].total = execution_count(r.schedule)
                      /\ matches'[p][j].fee_per_execution = fee_per_execution(r, ad[p].pricing)
    OBVIOUS
  <2>1. matches'[p][j] = NewAssignment(r, p, plan[j][p])
    BY <1>1, <1>3
  <2> HIDE DEF r, S
  <2> QED BY <2>1 DEF NewAssignment
<1>6. \A p \in S : fee_per_execution(r, ad[p].pricing) \in Nat
  BY <1>1, FeeType
<1>7. Owed(j)' = TotalFee(r, S)
  <2>1. \A a, b \in Nat : (a - 0) * b = b * a
    OBVIOUS
  <2>2. [p \in S |-> (matches'[p][j].total - matches'[p][j].met) * matches'[p][j].fee_per_execution]
          = [p \in S |-> fee_per_execution(r, ad[p].pricing) * execution_count(r.schedule)]
    BY <1>2, <1>5, <1>6, <2>1
  <2> QED BY <1>4, <2>2 DEF Owed, TotalFee
<1>8. \A p \in S : matches'[p][j].met <= matches'[p][j].total
  BY <1>2, <1>5
<1> QED BY <1>1, <1>4, <1>7, <1>8

\* Every step keeps what is owed covered.
LEMMA CoveredStep ==
  ASSUME Consistent, Consistent', [Next]_vars, NEW j \in JobIds, FundedOf(j), CoveredOf(j)
  PROVE  CoveredOf(j)'
<1>0. /\ TypeOK /\ RegistrationsSound /\ JobsConsistent
      /\ budget[j] \in Nat /\ budget'[j] \in Nat
  BY DEF Consistent, TypeInv, TypeOK
<1>1. CASE budget'[j] = budget[j] /\ \A p \in Processors : matches'[p][j] = matches[p][j]
  BY <1>1, CoveredKept DEF MatchedTo
<1>2. status[j] \in {None, Open} => MatchedTo(j) = {}
  BY <1>0 DEF JobsConsistent
<1>3. ASSUME NEW k \in JobIds, NEW r \in JobRegistrations, register_for(k, r)
      PROVE  CoveredOf(j)'
  <2>1. /\ registration' \in [JobIds -> RegistrationType \cup {None}]
        /\ r \in RegistrationType /\ registration'[k] = r
        /\ \A p \in Processors : matches[p][k] = None
        /\ \/ UNCHANGED matches
           \/ \E plan \in [{k} -> Plans] : process_matching(registration', plan)
    BY <1>3, RegisterFacts
  <2>2. total_reward_amount(r) \in Nat
    BY <2>1, RegistrationFacts
  <2>3. /\ budget'[k] = budget[k] + total_reward_amount(r)
        /\ k # j => budget'[j] = budget[j]
    BY <1>0, <1>3, <2>2, LockFacts DEF register_for
  <2>4. CASE UNCHANGED matches /\ k = j
    BY <1>0, <2>1, <2>4, NothingOwed
  <2>5. CASE UNCHANGED matches /\ k # j
    BY <1>1, <2>3, <2>5
  <2>6. ASSUME NEW plan \in [{k} -> Plans], process_matching(registration', plan)
        PROVE  CoveredOf(j)'
    <3>1. {k} \in SUBSET JobIds
      OBVIOUS
    <3>2. CASE k # j
      <4>1. \A p \in Processors : matches'[p][j] = matches[p][j]
        BY <1>0, <2>1, <2>6, <3>1, <3>2, MatchingFacts
      <4> QED BY <1>1, <2>3, <3>2, <4>1
    <3>3. CASE k = j
      <4>1. MatchedTo(k) = {} /\ k \in {k}
        BY <2>1 DEF MatchedTo
      <4>2. /\ \A p \in MatchedTo(k)' : matches'[p][k].met <= matches'[p][k].total
            /\ Owed(k)' = TotalFee(registration'[k], DOMAIN plan[k])
            /\ TotalFee(registration'[k], DOMAIN plan[k]) \in Nat
            /\ TotalFee(registration'[k], DOMAIN plan[k]) <= total_reward_amount(r)
        BY <1>0, <2>1, <2>6, <3>1, <4>1, OwedNew
      <4>3. Owed(k)' <= budget'[k]
        BY <1>0, <2>2, <2>3, <3>3, <4>2
      <4> QED BY <3>3, <4>2, <4>3 DEF CoveredOf
    <3> QED BY <3>2, <3>3
  <2> QED BY <2>1, <2>4, <2>5, <2>6
<1>4. ASSUME NEW k \in JobIds, deregister_for(k) \/ finalize_jobs_for(k)
      PROVE  CoveredOf(j)'
  <2>1. /\ \A p \in Processors : matches'[p][k] = None
        /\ k # j => /\ budget'[j] = budget[j]
                    /\ \A p \in Processors : matches'[p][j] = matches[p][j]
    BY <1>0, <1>4, EndFacts, EndMoney
  <2>2. CASE k = j
    BY <1>0, <2>1, <2>2, NothingOwed
  <2>3. CASE k # j
    BY <1>1, <2>1, <2>3
  <2> QED BY <2>2, <2>3
<1>5. ASSUME NEW J \in SUBSET { k \in JobIds : status[k] = Open }, NEW plan \in [J -> Plans],
             NEW matcher \in Matchers, propose_matching(matcher, plan)
      PROVE  CoveredOf(j)'
  <2>0. /\ J \in SUBSET JobIds /\ TypeOK
        /\ registration \in [JobIds -> RegistrationType \cup {None}]
        /\ process_matching(registration, plan)
    BY <1>0, <1>5 DEF TypeOK, propose_matching
  <2>3. j \in J => /\ MatcherFee(plan)[j] \in Nat
                   /\ MatcherFee(plan)[j] <= Remaining(plan)[j]
                   /\ budget'[j] = budget[j] - MatcherFee(plan)[j]
    <3>1. J \in SUBSET JobIds /\ TypeOK
      BY <1>0
    <3> QED BY <1>5, <3>1, ProposeMoney
  <2>1. CASE j \notin J
    <3>1. budget'[j] = budget[j]
      BY <1>5, <2>0, <2>1, ProposeMoney
    <3>2. \A p \in Processors : matches'[p][j] = matches[p][j]
      BY <2>0, <2>1, MatchingFacts
    <3> QED BY <1>1, <3>1, <3>2
  <2>2. CASE j \in J
    <3> DEFINE reward == total_reward_amount(registration[j])
               owed == TotalFee(registration[j], DOMAIN plan[j])
               fee == MatcherFee(plan)
    <3>1. status[j] = Open /\ MatchedTo(j) = {}
      BY <1>2, <2>2
    <3>2. /\ \A p \in MatchedTo(j)' : matches'[p][j].met <= matches'[p][j].total
          /\ Owed(j)' = owed /\ owed \in Nat
          /\ registration[j] \in RegistrationType
      BY <2>0, <2>2, <3>1, OwedNew
    <3>3. reward \in Nat
      BY <3>2, RegistrationFacts
    <3>4. Remaining(plan)[j] = reward - owed
      BY <2>2 DEF Remaining
    <3>5. /\ fee[j] \in Nat /\ fee[j] <= Remaining(plan)[j]
          /\ budget'[j] = budget[j] - fee[j]
      BY <2>2, <2>3
    <3>6. budget[j] >= reward
      BY <3>1 DEF FundedOf
    <3> HIDE DEF reward, owed, fee
    <3>7. Owed(j)' <= budget'[j]
      BY <1>0, <3>2, <3>3, <3>4, <3>5, <3>6
    <3> QED BY <3>2, <3>7 DEF CoveredOf
  <2> QED BY <2>1, <2>2
<1>6. ASSUME NEW p \in Processors, NEW k \in JobIds, acknowledge_match(p, k)
      PROVE  CoveredOf(j)'
  <2>1. /\ matches[p][k] \in AssignmentType /\ matches'[p][k] \in AssignmentType
        /\ matches'[p][k] = [matches[p][k] EXCEPT !.acknowledged = TRUE]
        /\ \A q \in Processors, l \in JobIds : q # p \/ l # k => matches'[q][l] = matches[q][l]
        /\ budget' = budget
    BY <1>0, <1>6, AcknowledgeFacts
  <2>2. /\ matches'[p][k].total = matches[p][k].total
        /\ matches'[p][k].met = matches[p][k].met
        /\ matches'[p][k].fee_per_execution = matches[p][k].fee_per_execution
    BY <2>1 DEF AssignmentType
  <2>3. MatchedTo(j)' = MatchedTo(j)
    BY <2>1, MarketplaceAssumption DEF MatchedTo
  <2>4. \A q \in Processors : /\ matches'[q][j].total = matches[q][j].total
                              /\ matches'[q][j].met = matches[q][j].met
                              /\ matches'[q][j].fee_per_execution = matches[q][j].fee_per_execution
    BY <2>1, <2>2
  <2> QED BY <2>1, <2>3, <2>4, CoveredKept DEF MatchedTo
<1>7. ASSUME NEW p \in Processors, NEW k \in JobIds, report(p, k)
      PROVE  CoveredOf(j)'
  <2>1. /\ matches[p][k] \in AssignmentType /\ matches'[p][k] \in AssignmentType
        /\ matches'[p][k] = [matches[p][k] EXCEPT !.met = @ + 1]
        /\ \A q \in Processors, l \in JobIds : q # p \/ l # k => matches'[q][l] = matches[q][l]
    BY <1>0, <1>7, ReportFacts
  <2>2. CASE k # j
    <3>1. budget'[j] = budget[j]
      BY <1>0, <1>7, <2>2, ReportMoney
    <3> QED BY <1>1, <2>1, <2>2, <3>1
  <2>3. CASE k = j
    <3> DEFINE S == MatchedTo(j)
               f == [q \in S |-> LeftOf(matches[q][j])]
               g == [q \in S |-> LeftOf(matches'[q][j])]
               fee == matches[p][j].fee_per_execution
               left == matches[p][j].total - matches[p][j].met
    <3>1. /\ matches[p][j] # None /\ matches[p][j].met < matches[p][j].total
      BY <1>7, <2>3 DEF report
    <3>2. /\ matches'[p][j].total = matches[p][j].total
          /\ matches'[p][j].met = matches[p][j].met + 1
          /\ matches'[p][j].fee_per_execution = fee
          /\ matches[p][j].total \in Nat /\ matches[p][j].met \in Nat /\ fee \in Nat
      BY <2>1, <2>3 DEF AssignmentType
    <3>3. MatchedTo(j)' = S /\ p \in S
      BY <2>1, <2>3, <3>1, MarketplaceAssumption DEF MatchedTo
    <3>4. /\ IsFiniteSet(S) /\ \A q \in S : f[q] \in Nat
          /\ Owed(j) = Sum(f, S) /\ Sum(f, S) \in Nat
      BY <1>0, OwedFacts
    <3>5. \A q \in S \ {p} : g[q] = f[q]
      BY <2>1, <2>3 DEF MatchedTo
    <3>6. g[p] \in Nat /\ g[p] = f[p] - fee
      <4>1. \A a, b \in Nat : a > 0 => (a - 1) * b \in Nat /\ (a - 1) * b = a * b - b
        OBVIOUS
      <4>2. left \in Nat /\ left > 0
        BY <3>1, <3>2
      <4>3. f[p] = left * fee
        BY <3>3 DEF LeftOf
      <4>4. matches'[p][j].total - matches'[p][j].met = left - 1
        BY <3>2
      <4>5. g[p] = (left - 1) * fee
        BY <3>2, <3>3, <4>4 DEF LeftOf
      <4> HIDE DEF left, fee, f, g
      <4> QED BY <3>2, <4>1, <4>2, <4>3, <4>5
    <3>7. Owed(j)' = Sum(g, S)
      BY <3>3 DEF Owed, LeftOf
    <3>8. budget'[j] = budget[j] - fee
      BY <1>0, <1>7, <2>3, ReportMoney
    <3>9. f[p] \in Nat
      BY <3>3, <3>4
    <3>10. Owed(j) <= budget[j]
      BY DEF CoveredOf
    <3>11. \A q \in S : matches'[q][j].met <= matches'[q][j].total
      <4>1. \A q \in S : matches[q][j].met <= matches[q][j].total
        BY DEF CoveredOf
      <4>2. matches'[p][j].met <= matches'[p][j].total
        BY <3>1, <3>2
      <4>3. \A q \in S : q # p => matches'[q][j] = matches[q][j]
        BY <2>1, <2>3 DEF MatchedTo
      <4> QED BY <4>1, <4>2, <4>3
    <3> HIDE DEF S, f, g, fee, left
    <3>12. Sum(g, S) = Sum(f, S) + g[p] - f[p]
      BY <3>3, <3>4, <3>5, <3>6, SumUpdate
    <3>13. Owed(j)' <= budget'[j]
      BY <1>0, <3>2, <3>4, <3>6, <3>7, <3>8, <3>9, <3>10, <3>12
    <3> QED BY <3>3, <3>11, <3>13 DEF CoveredOf
  <2> QED BY <2>2, <2>3
<1>8. ASSUME NEW p \in Processors, NEW k \in JobIds, finalize_job(p, k)
      PROVE  CoveredOf(j)'
  <2>1. /\ matches'[p][k] = None /\ budget' = budget
        /\ \A q \in Processors, l \in JobIds : q # p \/ l # k => matches'[q][l] = matches[q][l]
    BY <1>0, <1>8, FinalizeFacts
  <2>2. CASE k # j
    BY <1>1, <2>1, <2>2
  <2>3. CASE k = j
    <3> DEFINE S == MatchedTo(j)
               R == S \ {p}
               f == [q \in S |-> LeftOf(matches[q][j])]
               g == [q \in R |-> LeftOf(matches'[q][j])]
    <3>1. /\ IsFiniteSet(S) /\ \A q \in S : f[q] \in Nat
          /\ Owed(j) = Sum(f, S)
      BY <1>0, OwedFacts
    <3>2. MatchedTo(j)' = R /\ \A q \in R : matches'[q][j] = matches[q][j]
      BY <2>1, <2>3 DEF MatchedTo
    <3>3. \A q \in R : g[q] = f[q]
      BY <3>2
    <3>4. Owed(j)' = Sum(g, R)
      BY <3>2 DEF Owed, LeftOf
    <3>5. \A q \in R : matches'[q][j].met <= matches'[q][j].total
      BY <3>2 DEF CoveredOf
    <3>6. Owed(j) <= budget[j]
      BY DEF CoveredOf
    <3>7. R \subseteq S
      OBVIOUS
    <3> HIDE DEF S, R, f, g
    <3>8. IsFiniteSet(R)
      BY <3>1, <3>7, FS_Subset
    <3>9. /\ Sum(g, R) = Sum(f, R) /\ Sum(f, R) <= Sum(f, S)
          /\ Sum(f, R) \in Nat /\ Sum(f, S) \in Nat
      BY <3>1, <3>3, <3>7, <3>8, SumSame, SumPart, SumType
    <3>10. Owed(j)' <= budget'[j]
      BY <1>0, <2>1, <3>1, <3>4, <3>6, <3>9
    <3> QED BY <3>2, <3>5, <3>10 DEF CoveredOf
  <2> QED BY <2>2, <2>3
<1>9. ASSUME NEW p \in Processors,
             delete_advertisement(p) \/ \E a \in Advertisements : advertise(p, a)
      PROVE  CoveredOf(j)'
  BY <1>1, <1>9 DEF delete_advertisement, advertise, moneyVars
<1>10. ASSUME NEW k \in JobIds, NEW allowed \in SourceLists, update_allowed_sources(k, allowed)
      PROVE  CoveredOf(j)'
  BY <1>1, <1>10 DEF update_allowed_sources, moneyVars, matchVars
<1>11. CASE Quiet
  BY <1>1, <1>11 DEF Quiet
<1>12. TypeOK
  BY <1>0
<1> QED BY <1>12, <1>3, <1>4, <1>5, <1>6, <1>7, <1>8, <1>9, <1>10, <1>11, StepCases

\* The budget of a job covers every report that may still be accepted: the
\* reserve that report takes its payment from never runs out, whatever the
\* matcher was paid and whoever reports first.
THEOREM BudgetAlwaysCovers == Spec => []BudgetCovers
<1> DEFINE Inv == \A j \in JobIds : FundedOf(j) /\ CoveredOf(j)
<1>1. Init => Inv
  <2> SUFFICES ASSUME Init, NEW j \in JobIds PROVE FundedOf(j) /\ CoveredOf(j)
    OBVIOUS
  <2>1. MatchedTo(j) = {} /\ budget[j] = 0 /\ status[j] = None
    BY DEF Init, MatchedTo
  <2>2. Owed(j) = 0
    BY <2>1, SumEmpty DEF Owed
  <2> QED BY <2>1, <2>2, StatusFacts DEF FundedOf, CoveredOf
<1>2. Consistent /\ Consistent' /\ Inv /\ [Next]_vars => Inv'
  BY FundedStep, CoveredStep
<1>3. Inv => BudgetCovers
  BY DEF BudgetCovers, CoveredOf
<1> HIDE DEF Inv
<1> QED BY <1>1, <1>2, <1>3, ConsistentInit, ConsistentStep, PTL DEF Spec

=============================================================================
