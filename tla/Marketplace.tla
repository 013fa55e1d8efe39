----------------------------- MODULE Marketplace -----------------------------
(***************************************************************************)
(* The life of a job on the Acurast chain: the job registry of             *)
(* pallets/acurast (registration, allowed sources, environments), the      *)
(* marketplace of pallets/marketplace that hooks into it (advertisements,  *)
(* matching, acknowledgement, reports, finalization) and its reward        *)
(* manager (payments.rs), which moves the money.                           *)
(*                                                                         *)
(* One action is one extrinsic (or one call by Hyperdrive on behalf of a   *)
(* job of another chain).  FRAME rolls an extrinsic back when it returns   *)
(* an error, so a guard collects all the conditions the code ensures, and  *)
(* a call that fails is a stuttering step.  A storage map is a function in *)
(* which None stands for a missing entry.                                  *)
(***************************************************************************)
EXTENDS Schedule, Sums

CONSTANTS
  Users,            \* accounts of people: consumers, managers, matchers
  Consumers,        \* the users that register jobs
  Matchers,         \* the users that propose matches
  Managers,         \* the users that processors may be paired with
  Remote,           \* consumers on other chains; Hyperdrive acts for them
  Processors,       \* the sources that execute jobs
  None,             \* a missing storage entry
  PalletAccount, FeeAccount, HyperdriveAccount,
  JobRegistrations, \* the registrations that may be submitted
  Advertisements,   \* the advertisements that may be submitted
  Delays,           \* the start delays a matcher may propose
  SourceLists,      \* the lists of sources update_allowed_sources and
                    \* set_environments may name
  Scores,           \* reputation scores in parts per million
  FeePercentage, MatcherPercentage,
  ReportTolerance,
  ExistentialDeposit,
  Endowment,        \* initial balances
  FirstManager,     \* initial pairings
  Fickle,           \* bound: processors whose pairing and attestation change
  MaxSlots, MaxAllowedSources, MaxProposedMatches, MaxExecutions,
  MaxJobSeq,        \* bound: job ids per origin
  MaxAssigned,      \* bound: matched jobs over the whole behaviour
  Horizon           \* bound: the last block time

Accounts == Users \cup {PalletAccount, FeeAccount, HyperdriveAccount}

Origins == Consumers \cup Remote

JobIds == Origins \X (1 .. MaxJobSeq)

Windows == [kind : {"End", "Delta"}, time : Time]

Pricings ==
  [fee_per_millisecond : Nat, fee_per_storage_byte : Nat,
   base_fee_per_execution : Nat, scheduling_window : Windows]

\* An optional list of accounts is a set here; {} stands for None, which
\* allows everybody (the code never stores an empty list).
AdvertisementType ==
  [max_memory : Nat, network_request_quota : Nat, storage_capacity : Nat,
   allowed_consumers : SUBSET Origins, available_modules : SUBSET {"DataEncryption"},
   pricing : Pricings]

\* The planned execution of a job: a start delay for each source proposed.
\* A list of pairs with distinct sources; the number of the slot is left out.
Plans == UNION { [S -> Delays] : S \in SUBSET Processors }

RegistrationType ==
  [schedule : ScheduleType, storage : Nat, memory : Nat, network_requests : Nat,
   required_modules : SUBSET {"DataEncryption"},
   allowed_sources : SUBSET Processors, allow_only_verified_sources : BOOLEAN,
   slots : Nat, reward : Nat, min_reputation : Nat \cup {None},
   instant_match : Plans \cup {None}]

\* JobStatus: Assigned counts the processors that have acknowledged.
Open        == [state |-> "Open", count |-> 0]
Matched     == [state |-> "Matched", count |-> 0]
Assigned(n) == [state |-> "Assigned", count |-> n]

Statuses == [state : {"Open", "Matched", "Assigned"}, count : Nat]

\* Assignment with its SLA; the slot and the public keys are left out.
AssignmentType ==
  [start_delay : Time, fee_per_execution : Nat, acknowledged : BOOLEAN,
   total : Nat, met : Nat]

ASSUME MarketplaceAssumption ==
  /\ Consumers \subseteq Users /\ Matchers \subseteq Users /\ Managers \subseteq Users
  /\ Remote \cap Users = {}
  /\ IsFiniteSet(Users) /\ IsFiniteSet(Remote) /\ IsFiniteSet(Processors)
  /\ PalletAccount \notin Users /\ FeeAccount \notin Users /\ HyperdriveAccount \notin Users
  /\ PalletAccount # FeeAccount /\ PalletAccount # HyperdriveAccount
  /\ FeeAccount # HyperdriveAccount
  /\ None \notin RegistrationType /\ None \notin AdvertisementType
  /\ None \notin AssignmentType /\ None \notin Statuses
  /\ None \notin Int /\ None \notin Users /\ None \notin Plans
  /\ JobRegistrations \subseteq RegistrationType
  /\ Advertisements \subseteq AdvertisementType
  /\ Delays \subseteq Time
  /\ SourceLists \subseteq SUBSET Processors
  /\ FirstManager \in [Processors -> Managers \cup {None}]
  /\ Fickle \subseteq Processors
  /\ Scores \subseteq Nat
  /\ FeePercentage \in 0 .. 100 /\ MatcherPercentage \in 0 .. 100
  /\ ReportTolerance \in Nat /\ ExistentialDeposit \in Nat
  /\ Endowment \in [Accounts -> Nat]
  /\ MaxSlots \in Nat /\ MaxAllowedSources \in Nat /\ MaxProposedMatches \in Nat
  /\ MaxExecutions \in Nat /\ MaxJobSeq \in Nat /\ MaxAssigned \in Nat
  /\ Horizon \in Time

VARIABLES
  now,              \* the block's timestamp
  job_id_seq,       \* LocalJobIdSequence
  registration,     \* StoredJobRegistration
  environment,      \* keys of ExecutionEnvironment
  status,           \* StoredJobStatus
  ad,               \* StoredAdvertisementRestriction and -Pricing
  capacity,         \* StoredStorageCapacity
  reputation,       \* StoredReputation, as the normalized score
  total_assigned,   \* StoredTotalAssignedV3
  average_reward,   \* StoredAverageRewardV3
  matches,          \* StoredMatches
  assigned,         \* keys of AssignedProcessors
  budget,           \* JobBudgets
  balance,          \* free balances (pallet_balances)
  manager,          \* ManagerProvider::manager_of
  verified          \* processors for which ensure_source_verified is Ok

registryVars == <<job_id_seq, registration, environment>>
advertVars   == <<ad, reputation>>
matchVars    == <<matches, assigned, capacity>>
statVars     == <<total_assigned, average_reward>>
moneyVars    == <<budget, balance>>
outsideVars  == <<now, manager, verified>>

vars == <<registryVars, status, advertVars, matchVars, statVars, moneyVars, outsideVars>>

TypeOK ==
  /\ now \in Time
  /\ job_id_seq \in 0 .. MaxJobSeq
  /\ registration \in [JobIds -> RegistrationType \cup {None}]
  /\ environment \subseteq JobIds \X Processors
  /\ status \in [JobIds -> Statuses \cup {None}]
  /\ ad \in [Processors -> AdvertisementType \cup {None}]
  /\ capacity \in [Processors -> Int \cup {None}]
  /\ reputation \in [Processors -> Nat \cup {None}]
  /\ total_assigned \in Nat
  /\ average_reward \in Nat
  /\ matches \in [Processors -> [JobIds -> AssignmentType \cup {None}]]
  /\ assigned \subseteq JobIds \X Processors
  /\ budget \in [JobIds -> Nat]
  /\ balance \in [Accounts -> Nat]
  /\ manager \in [Processors -> Managers \cup {None}]
  /\ verified \subseteq Processors

Init ==
  /\ now = 0
  /\ job_id_seq = 0
  /\ registration = [j \in JobIds |-> None]
  /\ environment = {}
  /\ status = [j \in JobIds |-> None]
  /\ ad = [p \in Processors |-> None]
  /\ capacity = [p \in Processors |-> None]
  /\ reputation = [p \in Processors |-> None]
  /\ total_assigned = 0
  /\ average_reward = 0
  /\ matches = [p \in Processors |-> [j \in JobIds |-> None]]
  /\ assigned = {}
  /\ budget = [j \in JobIds |-> 0]
  /\ balance = Endowment
  /\ manager = FirstManager
  /\ verified = Processors

-----------------------------------------------------------------------------
(***************************************************************************)
(* Money: fungible::Mutate::transfer with Preservation::Preserve, and the  *)
(* percentages of the fee manager.                                         *)
(***************************************************************************)
\* The payer keeps the existential deposit and the payee reaches it; a
\* transfer of nothing always succeeds.
CanTransfer(bal, from, to, amount) ==
  amount > 0 => /\ bal[from] >= amount + ExistentialDeposit
                /\ bal[to] + amount >= ExistentialDeposit

Transfer(bal, from, to, amount) ==
  [bal EXCEPT ![from] = @ - amount, ![to] = @ + amount]

mul_floor(percentage, amount) == (percentage * amount) \div 100

\* The account that pays for a job and is refunded.
Payer(j) == IF j[1] \in Remote THEN HyperdriveAccount ELSE j[1]

\* Mutants of lock_reward: the balance is not looked at; a job that is
\* registered again is not charged again.
lock_rewardOnCredit(j, reward) ==
  /\ balance' = Transfer(balance, Payer(j), PalletAccount, reward)
  /\ budget' = [budget EXCEPT ![j] = @ + reward]

lock_rewardOnce(j, reward) ==
  LET due == IF status[j] = None THEN reward ELSE 0
  IN  /\ CanTransfer(balance, Payer(j), PalletAccount, due)
      /\ balance' = Transfer(balance, Payer(j), PalletAccount, due)
      /\ budget' = [budget EXCEPT ![j] = @ + due]

lock_reward(j, reward) ==
  /\ CanTransfer(balance, Payer(j), PalletAccount, reward)
  /\ balance' = Transfer(balance, Payer(j), PalletAccount, reward)
  /\ budget' = [budget EXCEPT ![j] = @ + reward]

\* The pallet pays `amount` to the target, less the fee.
CanPay(bal, amount, target) ==
  LET fee == mul_floor(FeePercentage, amount)
  IN  /\ CanTransfer(bal, PalletAccount, FeeAccount, fee)
      /\ CanTransfer(Transfer(bal, PalletAccount, FeeAccount, fee),
                     PalletAccount, target, amount - fee)

\* Mutant of Pay: the fee comes on top of the reward.
PayOnTop(bal, amount, target) ==
  Transfer(Transfer(bal, PalletAccount, FeeAccount, mul_floor(FeePercentage, amount)),
           PalletAccount, target, amount)

Pay(bal, amount, target) ==
  LET fee == mul_floor(FeePercentage, amount)
  IN  Transfer(Transfer(bal, PalletAccount, FeeAccount, fee),
               PalletAccount, target, amount - fee)

\* Mutant of pay_reward: the payment is not taken out of the budget.
pay_rewardReserved(j, reward, target) ==
  /\ reward <= budget[j]
  /\ CanPay(balance, reward, target)
  /\ balance' = Pay(balance, reward, target)
  /\ UNCHANGED budget

pay_reward(j, reward, target) ==
  /\ reward <= budget[j]
  /\ budget' = [budget EXCEPT ![j] = @ - reward]
  /\ CanPay(balance, reward, target)
  /\ balance' = Pay(balance, reward, target)

\* pay_matcher_reward for the amounts that the jobs of `remaining` leave over.
pay_matcher_reward(remaining, matcher) ==
  LET matcher_fee == [j \in DOMAIN remaining |-> mul_floor(MatcherPercentage, remaining[j])]
      matcher_reward == Sum(matcher_fee, DOMAIN remaining)
  IN  /\ \A j \in DOMAIN remaining : matcher_fee[j] <= budget[j]
      /\ budget' = [j \in JobIds |-> IF j \in DOMAIN remaining
                                       THEN budget[j] - matcher_fee[j] ELSE budget[j]]
      /\ CanPay(balance, matcher_reward, matcher)
      /\ balance' = Pay(balance, matcher_reward, matcher)

\* Mutant of refund: the budget is not cleared.
refundReserved(bal, j, remaining) ==
  /\ CanTransfer(bal, PalletAccount, Payer(j), remaining)
  /\ balance' = Transfer(bal, PalletAccount, Payer(j), remaining)
  /\ UNCHANGED budget

\* refund: the rest of the budget, from the balances `bal`, to the payer.
refund(bal, j, remaining) ==
  /\ CanTransfer(bal, PalletAccount, Payer(j), remaining)
  /\ balance' = Transfer(bal, PalletAccount, Payer(j), remaining)
  /\ budget' = [budget EXCEPT ![j] = 0]

-----------------------------------------------------------------------------
(***************************************************************************)
(* Advertisements.                                                         *)
(***************************************************************************)
HasMatches(p) == \E j \in JobIds : matches[p][j] # None

\* Mutant of advertise: the new capacity replaces what is left of the old one.
advertiseAfresh(p, advertisement) ==
  /\ Cardinality(advertisement.allowed_consumers) <= MaxAllowedSources
  /\ capacity' = [capacity EXCEPT ![p] = advertisement.storage_capacity]
  /\ ad' = [ad EXCEPT ![p] = advertisement]
  /\ reputation' = [reputation EXCEPT ![p] = IF @ = None THEN 0 ELSE @]
  /\ UNCHANGED <<registryVars, status, matches, assigned, statVars, moneyVars, outsideVars>>

\* do_advertise (also called by the processor manager's advertise_for).  A
\* first advertisement sets the capacity; a later one shifts it, possibly
\* below zero.
advertise(p, advertisement) ==
  /\ Cardinality(advertisement.allowed_consumers) <= MaxAllowedSources
  /\ LET old == IF capacity[p] = None THEN 0 ELSE capacity[p]
     IN  capacity' = [capacity EXCEPT ![p] =
                        IF ad[p] = None
                          THEN advertisement.storage_capacity
                          ELSE old + advertisement.storage_capacity
                                   - ad[p].storage_capacity]
  /\ ad' = [ad EXCEPT ![p] = advertisement]
  /\ reputation' = [reputation EXCEPT ![p] = IF @ = None THEN 0 ELSE @]
  /\ UNCHANGED <<registryVars, status, matches, assigned, statVars, moneyVars, outsideVars>>

delete_advertisement(p) ==
  /\ ad[p] # None
  /\ ~HasMatches(p)
  /\ ad' = [ad EXCEPT ![p] = None]
  /\ capacity' = [capacity EXCEPT ![p] = None]
  /\ UNCHANGED <<registryVars, status, reputation, matches, assigned, statVars, moneyVars,
                 outsideVars>>

-----------------------------------------------------------------------------
(***************************************************************************)
(* Matching.  A call of propose_matching is given by `plan`, a function    *)
(* from the jobs it really matches (jobs that are no longer open are       *)
(* skipped by the code) to their planned executions.  The code handles one *)
(* source after the other and fails as a whole; the checks that depend on  *)
(* the sources handled before (capacity, schedule) are stated here for all *)
(* of them together, which does not depend on the order.                   *)
(***************************************************************************)
check_scheduling_window(window, schedule, delay) ==
  /\ schedule.end_time + delay <= MaxTime
  /\ IF window.kind = "End" THEN window.time >= schedule.end_time + delay
     ELSE now + window.time <= MaxTime /\ now + window.time >= schedule.end_time + delay

check_min_reputation(min_reputation, p) ==
  min_reputation # None => reputation[p] # None /\ reputation[p] >= min_reputation

\* fits_schedule for one other job of the same processor (see FitsSchedule).
Compatible(s, d, o, e) ==
  \/ s.start_time >= o.end_time
  \/ s.end_time <= o.start_time
  \/ /\ range(s, d) # <<>> /\ range(o, e) # <<>>
     /\ s.end_time + d <= MaxTime /\ o.end_time + e <= MaxTime
     /\ Disjoint(s, d, o, e)

fee_per_execution(r, pricing) ==
  pricing.fee_per_millisecond * r.schedule.duration
    + pricing.fee_per_storage_byte * r.storage
    + pricing.base_fee_per_execution

total_reward_amount(r) == r.reward * r.slots * execution_count(r.schedule)

\* The checks on one source that look at the job and the processor alone.
SourceSuits(r, j, p, delay) ==
  /\ r.allow_only_verified_sources => p \in verified
  /\ ad[p] # None
  /\ r.required_modules \subseteq ad[p].available_modules
  /\ check_scheduling_window(ad[p].pricing.scheduling_window, r.schedule, delay)
  /\ ad[p].max_memory >= r.memory
  /\ r.schedule.duration * ad[p].network_request_quota >= r.network_requests * 1000
  /\ capacity[p] # None
  /\ r.allowed_sources # {} => p \in r.allowed_sources
  /\ ad[p].allowed_consumers # {} => j[1] \in ad[p].allowed_consumers
  /\ check_min_reputation(r.min_reputation, p)
  /\ fee_per_execution(r, ad[p].pricing) <= r.reward
  /\ matches[p][j] = None

\* The jobs of a plan that a processor is part of.
JobsOf(plan, p) == { j \in DOMAIN plan : p \in DOMAIN plan[j] }

NewStorage(reg, plan, p) == Sum([j \in JobsOf(plan, p) |-> reg[j].storage], JobsOf(plan, p))

\* Mutant of fits_schedule: the other jobs of the same call are not looked at.
fits_scheduleStored(reg, plan, p) ==
  \A j \in JobsOf(plan, p), k \in JobIds : matches[p][k] # None =>
    /\ reg[k] # None
    /\ Compatible(reg[j].schedule, plan[j][p], reg[k].schedule, matches[p][k].start_delay)

fits_schedule(reg, plan, p) ==
  \A j \in JobsOf(plan, p) :
    /\ \A k \in JobIds : matches[p][k] # None =>
         /\ reg[k] # None
         /\ Compatible(reg[j].schedule, plan[j][p], reg[k].schedule, matches[p][k].start_delay)
    /\ \A k \in JobsOf(plan, p) \ {j} :
         Compatible(reg[j].schedule, plan[j][p], reg[k].schedule, plan[k][p])

NewAssignment(r, p, delay) ==
  [start_delay |-> delay,
   fee_per_execution |-> fee_per_execution(r, ad[p].pricing),
   acknowledged |-> FALSE,
   total |-> execution_count(r.schedule), met |-> 0]

\* Mutant of TotalFee: the fee of one execution only.
TotalFeeOnce(r, sources) ==
  Sum([p \in sources |-> fee_per_execution(r, ad[p].pricing)], sources)

\* What the sources of a job will have earned when they report every execution.
TotalFee(r, sources) ==
  Sum([p \in sources |-> fee_per_execution(r, ad[p].pricing) * execution_count(r.schedule)],
      sources)

CanMatch(reg, plan) ==
  /\ \A j \in DOMAIN plan :
       /\ reg[j] # None
       /\ now < reg[j].schedule.start_time
       /\ Cardinality(DOMAIN plan[j]) = reg[j].slots
       /\ \A p \in DOMAIN plan[j] : SourceSuits(reg[j], j, p, plan[j][p])
       /\ TotalFee(reg[j], DOMAIN plan[j]) <= total_reward_amount(reg[j])
  /\ \A p \in Processors :
       /\ JobsOf(plan, p) # {} => capacity[p] >= NewStorage(reg, plan, p)
       /\ fits_schedule(reg, plan, p)

process_matching(reg, plan) ==
  /\ CanMatch(reg, plan)
  /\ matches' = [p \in Processors |-> [j \in JobIds |->
                   IF j \in JobsOf(plan, p) THEN NewAssignment(reg[j], p, plan[j][p])
                                            ELSE matches[p][j]]]
  /\ assigned' = assigned \cup { jp \in JobIds \X Processors :
                                   jp[1] \in JobsOf(plan, jp[2]) }
  /\ capacity' = [p \in Processors |->
                    IF JobsOf(plan, p) = {} THEN capacity[p]
                    ELSE capacity[p] - NewStorage(reg, plan, p)]
  /\ total_assigned' = total_assigned + Cardinality(DOMAIN plan)
  /\ UNCHANGED average_reward

propose_matching(matcher, plan) ==
  /\ DOMAIN plan # {} /\ Cardinality(DOMAIN plan) <= MaxProposedMatches
  /\ total_assigned + Cardinality(DOMAIN plan) <= MaxAssigned
  /\ \A j \in DOMAIN plan : status[j] = Open
  /\ process_matching(registration, plan)
  /\ status' = [j \in JobIds |-> IF j \in DOMAIN plan THEN Matched ELSE status[j]]
  /\ pay_matcher_reward(
       [j \in DOMAIN plan |->
          total_reward_amount(registration[j]) - TotalFee(registration[j], DOMAIN plan[j])],
       matcher)
  /\ UNCHANGED <<registryVars, advertVars, outsideVars>>

-----------------------------------------------------------------------------
(***************************************************************************)
(* The job registry and the hooks through which the marketplace takes part *)
(* in its calls.                                                           *)
(***************************************************************************)
\* The conditions of register_for and register_hook on the registration itself.
Registrable(r) ==
  /\ Cardinality(r.allowed_sources) <= MaxAllowedSources
  /\ WellFormed(r.schedule, MaxExecutions)
  /\ r.schedule.start_time >= now
  /\ r.slots \in 1 .. MaxSlots

\* register_for, register_hook included.  A job that is still open may be
\* registered again; what was locked for it before stays locked.
register_for(j, r) ==
  /\ Registrable(r)
  /\ status[j] \in {None, Open}
  /\ registration' = [registration EXCEPT ![j] = r]
  /\ \/ /\ r.instant_match = None
        /\ status' = [status EXCEPT ![j] = Open]
        /\ UNCHANGED <<matchVars, statVars>>
     \/ /\ r.instant_match # None
        /\ total_assigned < MaxAssigned
        /\ process_matching([registration EXCEPT ![j] = r], [k \in {j} |-> r.instant_match])
        /\ status' = [status EXCEPT ![j] = Matched]
  /\ lock_reward(j, total_reward_amount(r))
  /\ UNCHANGED <<environment, advertVars, outsideVars>>

\* register: a consumer of this chain gets the next id of the sequence.
register(c, r) ==
  /\ job_id_seq < MaxJobSeq
  /\ job_id_seq' = job_id_seq + 1
  /\ register_for(<<c, job_id_seq + 1>>, r)

\* Hyperdrive registers a job under the id the other chain has given it.
register_remote(j, r) ==
  /\ j[1] \in Remote
  /\ register_for(j, r)
  /\ UNCHANGED job_id_seq

\* clear_prefix removes at most `limit` entries; which ones is not specified.
ClearPrefix(keys, j, limit) ==
  LET mine == { e \in keys : e[1] = j }
      kept == IF Cardinality(mine) > limit THEN Cardinality(mine) - limit ELSE 0
  IN  { (keys \ mine) \cup left :
          left \in { x \in SUBSET mine : Cardinality(x) = kept } }

\* Every match of the job is removed and its storage given back.
Release(j) ==
  /\ matches' = [p \in Processors |->
                   IF <<j, p>> \in assigned THEN [matches[p] EXCEPT ![j] = None]
                                            ELSE matches[p]]
  /\ capacity' = [p \in Processors |->
                    IF <<j, p>> \in assigned
                      THEN (IF capacity[p] = None THEN 0 ELSE capacity[p])
                             + registration[j].storage
                      ELSE capacity[p]]
  /\ assigned' \in ClearPrefix(assigned, j, MaxSlots)

\* Mutant of Forget: the status is left behind.
ForgetKeepsStatus(j) ==
  /\ environment' \in ClearPrefix(environment, j, MaxSlots)
  /\ registration' = [registration EXCEPT ![j] = None]
  /\ UNCHANGED status

\* The job leaves all the maps keyed by its id.
Forget(j) ==
  /\ environment' \in ClearPrefix(environment, j, MaxSlots)
  /\ status' = [status EXCEPT ![j] = None]
  /\ registration' = [registration EXCEPT ![j] = None]

Acknowledged(j) == { p \in Processors : <<j, p>> \in assigned /\ matches[p][j].acknowledged }

\* The processors that have acknowledged share the budget, one part per slot.
Compensation(j) == budget[j] \div registration[j].slots

Compensated(j) ==
  LET reward == Compensation(j)
      fee    == mul_floor(FeePercentage, reward)
      paid   == Acknowledged(j)
  IN  [a \in Accounts |->
         CASE a = PalletAccount -> balance[a] - Cardinality(paid) * reward
           [] a = FeeAccount    -> balance[a] + Cardinality(paid) * fee
           [] OTHER -> balance[a]
                + Cardinality({ p \in paid : manager[p] = a }) * (reward - fee)]

CanCompensate(j) ==
  LET reward == Compensation(j)
      fee    == mul_floor(FeePercentage, reward)
      paid   == Acknowledged(j)
  IN  /\ \A p \in paid : manager[p] # None
      /\ Cardinality(paid) * reward <= budget[j]
      /\ paid # {} /\ reward > 0 =>
           balance[PalletAccount] >= Cardinality(paid) * reward + ExistentialDeposit
      /\ paid # {} /\ fee > 0 => balance[FeeAccount] + fee >= ExistentialDeposit
      /\ reward > fee =>
           \A p \in paid : balance[manager[p]] + reward - fee >= ExistentialDeposit

\* deregister_for, deregister_hook included.
deregister_open(j) ==
  /\ status[j] = Open
  /\ refund(balance, j, budget[j])
  /\ UNCHANGED matchVars

deregister_matched(j) ==
  /\ status[j] = Matched
  /\ registration[j] # None
  /\ refund(balance, j, budget[j])
  /\ Release(j)

deregister_assigned(j) ==
  /\ status[j] \notin {None, Open, Matched}
  /\ registration[j] # None
  /\ \A p \in Processors : <<j, p>> \in assigned => matches[p][j] # None
  /\ CanCompensate(j)
  /\ refund(Compensated(j), j,
            budget[j] - Cardinality(Acknowledged(j)) * Compensation(j))
  /\ Release(j)

deregister_for(j) ==
  /\ \/ deregister_open(j)
     \/ deregister_matched(j)
     \/ deregister_assigned(j)
  /\ Forget(j)
  /\ UNCHANGED <<job_id_seq, advertVars, statVars, outsideVars>>

\* Mutant of update_allowed_sources: without the hook's veto.
update_allowed_sourcesAnytime(j, allowed) ==
  /\ j[1] \in Consumers
  /\ registration[j] # None
  /\ Cardinality(allowed) <= MaxAllowedSources
  /\ registration' = [registration EXCEPT ![j].allowed_sources = allowed]
  /\ UNCHANGED <<job_id_seq, environment, status, advertVars, matchVars, statVars, moneyVars,
                 outsideVars>>

\* update_allowed_sources: the additions and removals of one call, in order,
\* amount to a new list; an empty list is None.
update_allowed_sources(j, allowed) ==
  /\ j[1] \in Consumers
  /\ registration[j] # None
  /\ Cardinality(allowed) <= MaxAllowedSources
  /\ status[j] = Open
  /\ registration' = [registration EXCEPT ![j].allowed_sources = allowed]
  /\ UNCHANGED <<job_id_seq, environment, status, advertVars, matchVars, statVars, moneyVars,
                 outsideVars>>

\* set_environment and set_environments, for any accounts as sources.
set_environment(j, sources) ==
  /\ registration[j] # None
  /\ environment' = environment \cup ({j} \X sources)
  /\ UNCHANGED <<job_id_seq, registration, status, advertVars, matchVars, statVars, moneyVars,
                 outsideVars>>

-----------------------------------------------------------------------------
(***************************************************************************)
(* Executing a job.                                                        *)
(***************************************************************************)
\* Mutant of acknowledge_match: a second acknowledgement counts again.
acknowledge_matchAgain(p, j) ==
  /\ matches[p][j] # None
  /\ matches' = [matches EXCEPT ![p][j].acknowledged = TRUE]
  /\ status[j] \notin {None, Open}
  /\ status' = [status EXCEPT ![j] =
                  IF @ = Matched THEN Assigned(1) ELSE Assigned(@.count + 1)]
  /\ UNCHANGED <<registryVars, advertVars, assigned, capacity, statVars, moneyVars, outsideVars>>

acknowledge_match(p, j) ==
  /\ matches[p][j] # None
  /\ matches' = [matches EXCEPT ![p][j].acknowledged = TRUE]
  /\ IF matches[p][j].acknowledged
       THEN UNCHANGED status
       ELSE /\ status[j] \notin {None, Open}
            /\ status' = [status EXCEPT ![j] =
                            IF @ = Matched THEN Assigned(1) ELSE Assigned(@.count + 1)]
  /\ UNCHANGED <<registryVars, advertVars, assigned, capacity, statVars, moneyVars, outsideVars>>

\* The test on time in report: from the first execution to now + tolerance.
ReportInTime(s, delay) ==
  /\ now + ReportTolerance <= MaxTime
  /\ range(s, delay) # <<>>
  /\ overlaps(s, delay, range(s, delay)[1], now + ReportTolerance) = <<TRUE>>

report(p, j) ==
  /\ matches[p][j] # None
  /\ matches[p][j].acknowledged
  /\ matches[p][j].met < matches[p][j].total
  /\ registration[j] # None
  /\ ReportInTime(registration[j].schedule, matches[p][j].start_delay)
  /\ manager[p] # None
  /\ matches' = [matches EXCEPT ![p][j].met = @ + 1]
  /\ pay_reward(j, matches[p][j].fee_per_execution, manager[p])
  /\ UNCHANGED <<registryVars, status, advertVars, assigned, capacity, statVars, outsideVars>>

\* actual_schedule_ended and schedule_ended.
ScheduleEnded(s, delay) ==
  /\ now + ReportTolerance <= MaxTime
  /\ range(s, delay) # <<>>
  /\ range(s, delay)[2] < now + ReportTolerance

\* The statistics of finalize_job: the score a verified processor gets out of
\* BetaReputation::update is left open.  The division is a checked_div: by 0
\* it is an error of the call.
UpdateReputation(p, fee) ==
  IF p \in verified /\ fee > 0
    THEN /\ reputation[p] # None
         /\ \E score \in Scores : reputation' = [reputation EXCEPT ![p] = score]
         /\ total_assigned > 0
         /\ average_reward' =
              (average_reward * (total_assigned - 1) + fee) \div total_assigned
    ELSE UNCHANGED <<reputation, average_reward>>

\* Mutant of finalize_job: the reverse index is forgotten.
finalize_jobOneIndex(p, j) ==
  /\ registration[j] # None
  /\ matches[p][j] # None
  /\ ScheduleEnded(registration[j].schedule, matches[p][j].start_delay)
  /\ UpdateReputation(p, matches[p][j].fee_per_execution)
  /\ matches' = [matches EXCEPT ![p][j] = None]
  /\ capacity' = [capacity EXCEPT ![p] = (IF @ = None THEN 0 ELSE @) + registration[j].storage]
  /\ UNCHANGED <<registryVars, status, ad, assigned, total_assigned, moneyVars, outsideVars>>

finalize_job(p, j) ==
  /\ registration[j] # None
  /\ matches[p][j] # None
  /\ ScheduleEnded(registration[j].schedule, matches[p][j].start_delay)
  /\ UpdateReputation(p, matches[p][j].fee_per_execution)
  /\ matches' = [matches EXCEPT ![p][j] = None]
  /\ assigned' = assigned \ {<<j, p>>}
  /\ capacity' = [capacity EXCEPT ![p] = (IF @ = None THEN 0 ELSE @) + registration[j].storage]
  /\ UNCHANGED <<registryVars, status, ad, total_assigned, moneyVars, outsideVars>>

\* Mutant of Finalizable: an assigned job waits for all of its processors.
FinalizableWhenAllDone(j) ==
  \/ status[j] = Matched /\ now >= registration[j].schedule.start_time
  \/ /\ status[j] \notin {None, Open, Matched}
     /\ ~ \E p \in Processors : <<j, p>> \in assigned

\* finalize_jobs_for one job.  A call with several jobs succeeds for all of
\* them or fails, so it reaches only states that calls with one job reach.
Finalizable(j) ==
  \/ status[j] = Matched /\ now >= registration[j].schedule.start_time
  \/ /\ status[j] \notin {None, Open, Matched}
     /\ \/ ~ \E p \in Processors : <<j, p>> \in assigned
        \/ ScheduleEnded(registration[j].schedule, registration[j].schedule.max_start_delay)

finalize_jobs_for(j) ==
  /\ registration[j] # None
  /\ Finalizable(j)
  /\ Release(j)
  /\ refund(balance, j, budget[j])
  /\ Forget(j)
  /\ UNCHANGED <<job_id_seq, advertVars, statVars, outsideVars>>

-----------------------------------------------------------------------------
(***************************************************************************)
(* What happens around the marketplace: time, pairing of processors with   *)
(* managers, attestations that are submitted, expire or are revoked.       *)
(***************************************************************************)
Tick ==
  /\ now < Horizon
  /\ now' = now + 1
  /\ UNCHANGED <<registryVars, status, advertVars, matchVars, statVars, moneyVars, manager,
                 verified>>

ChangePairing(p, m) ==
  /\ manager' = [manager EXCEPT ![p] = m]
  /\ UNCHANGED <<registryVars, status, advertVars, matchVars, statVars, moneyVars, now, verified>>

ChangeAttestation(p) ==
  /\ verified' = IF p \in verified THEN verified \ {p} ELSE verified \cup {p}
  /\ UNCHANGED <<registryVars, status, advertVars, matchVars, statVars, moneyVars, now, manager>>

ConsumerStep ==
  \/ \E c \in Consumers, r \in JobRegistrations : register(c, r)
  \/ \E j \in JobIds, r \in JobRegistrations : register_remote(j, r)
  \/ \E j \in JobIds : deregister_for(j)
  \/ \E j \in JobIds, allowed \in SourceLists : update_allowed_sources(j, allowed)
  \/ \E j \in JobIds, sources \in SourceLists : set_environment(j, sources)
  \/ \E j \in JobIds : finalize_jobs_for(j)

ProcessorStep ==
  \E p \in Processors :
    \/ \E a \in Advertisements : advertise(p, a)
    \/ delete_advertisement(p)
    \/ \E j \in JobIds : acknowledge_match(p, j)
    \/ \E j \in JobIds : report(p, j)
    \/ \E j \in JobIds : finalize_job(p, j)

MatcherStep ==
  \E matcher \in Matchers, J \in SUBSET { j \in JobIds : status[j] = Open } :
    \E plan \in [J -> Plans] : propose_matching(matcher, plan)

OutsideStep ==
  \/ Tick
  \/ \E p \in Fickle, m \in Managers \cup {None} : ChangePairing(p, m)
  \/ \E p \in Fickle : ChangeAttestation(p)

Next == ConsumerStep \/ ProcessorStep \/ MatcherStep \/ OutsideStep

Spec == Init /\ [][Next]_vars

-----------------------------------------------------------------------------
(***************************************************************************)
(* Properties.                                                             *)
(***************************************************************************)
IsAssigned(j) == status[j] \notin {None, Open, Matched}

MatchedTo(j) == { p \in Processors : matches[p][j] # None }

SameIndex ==
  \A j \in JobIds, p \in Processors : <<j, p>> \in assigned <=> matches[p][j] # None

MatchesCounted == assigned # {} => total_assigned > 0

\* StoredMatches and its reverse index AssignedProcessors hold the same
\* pairs, so that walking one of them cleans up both; and while a processor
\* has a match StoredTotalAssigned is not 0, so that finalize_job, which
\* subtracts 1 from it and divides by it, does not fail on it.
IndexConsistent == SameIndex /\ MatchesCounted

\* The two pallets agree on which jobs exist, and only a job that has left
\* the open state has matches.
JobsConsistent ==
  \A j \in JobIds :
    /\ status[j] = None <=> registration[j] = None
    /\ status[j] \in {None, Open} => MatchedTo(j) = {}

\* The count in JobStatus::Assigned, together with the matches that wait for
\* their acknowledgement, never exceeds the slots paid for; a job of which
\* somebody has acknowledged is Assigned.
SlotsAccounted ==
  \A j \in JobIds :
    /\ status[j] = Matched =>
         /\ Acknowledged(j) = {}
         /\ Cardinality(MatchedTo(j)) <= registration[j].slots
    /\ IsAssigned(j) =>
         /\ status[j].count > 0
         /\ Cardinality(Acknowledged(j)) <= status[j].count
         /\ status[j].count + Cardinality(MatchedTo(j) \ Acknowledged(j))
              <= registration[j].slots

\* What the processors of a job may still earn by reporting.
Owed(j) ==
  Sum([p \in MatchedTo(j) |->
         (matches[p][j].total - matches[p][j].met) * matches[p][j].fee_per_execution],
      MatchedTo(j))

\* The budget of a job covers every report that may still be accepted, so
\* that JobBudget::unreserve ("Severe Error") never fails in report.
BudgetCovers == \A j \in JobIds : Owed(j) <= budget[j]

\* An open job has its full reward locked, however often it was registered;
\* a job that is gone has nothing locked.
OpenJobFunded ==
  \A j \in JobIds :
    /\ status[j] = Open => budget[j] >= total_reward_amount(registration[j])
    /\ status[j] = None => budget[j] = 0

\* The pallet's account holds exactly what JobBudgets says it does.
PalletSolvent ==
  balance[PalletAccount] = Endowment[PalletAccount] + Sum(budget, JobIds)

\* StoredStorageCapacity is what was advertised less the storage of the jobs
\* the processor has, through updates of the advertisement and every way in
\* which a match may end.
CapacityAccounted ==
  \A p \in Processors :
    IF ad[p] = None THEN capacity[p] = None /\ ~HasMatches(p)
    ELSE LET mine == { j \in JobIds : matches[p][j] # None }
         IN  capacity[p] = ad[p].storage_capacity
                             - Sum([j \in mine |-> registration[j].storage], mine)

\* Any two jobs a processor has passed the test of fits_schedule against
\* each other, in the form in which they are registered now.
SchedulesCompatible ==
  \A p \in Processors : \A j, k \in JobIds :
    j # k /\ matches[p][j] # None /\ matches[p][k] # None =>
      Compatible(registration[j].schedule, matches[p][j].start_delay,
                 registration[k].schedule, matches[p][k].start_delay)

\* A consumer that gives up a job gets its money: the transfer in refund
\* cannot fail for lack of funds or for the existential deposit.
RefundPossible ==
  \A j \in JobIds : CanTransfer(balance, PalletAccount, Payer(j), budget[j])

\* What a processor and a consumer have agreed on does not change under them:
\* as long as a match exists, the registration of its job, the fee and the
\* planned delay stay as they are and reports are only added.
AgreementKept ==
  [][\A p \in Processors, j \in JobIds :
       matches[p][j] # None /\ matches'[p][j] # None =>
         /\ registration'[j] = registration[j]
         /\ matches'[p][j].fee_per_execution = matches[p][j].fee_per_execution
         /\ matches'[p][j].start_delay = matches[p][j].start_delay
         /\ matches'[p][j].met \in {matches[p][j].met, matches[p][j].met + 1}
         /\ matches[p][j].acknowledged => matches'[p][j].acknowledged]_vars

-----------------------------------------------------------------------------
(***************************************************************************)
(* Blocks keep being produced, so time goes on; nobody is assumed to call  *)
(* anything.                                                               *)
(***************************************************************************)
FairSpec == Spec /\ WF_vars(Tick)

\* finalize_jobs: from some time on the consumer of a job that was matched can
\* finalize it and get the rest of the reward back.  Nothing a processor, a
\* manager or a matcher does or fails to do keeps the money locked for ever.
MatchedJobsCanEnd ==
  \A j \in JobIds :
    status[j] \notin {None, Open} ~> (status[j] = None \/ ENABLED finalize_jobs_for(j))

\* The marketplace as an escrow: its pallet account is the vault.
Escrows ==
  INSTANCE Escrow WITH
    Jobs  <- JobIds,
    Float <- Endowment[PalletAccount],
    phase <- [j \in JobIds |-> IF status[j] = None THEN "none"
                               ELSE IF status[j] = Open THEN "offered" ELSE "matched"],
    held  <- budget,
    vault <- balance[PalletAccount]

\* Every step of both pallets is a step of the abstract escrow or does not
\* touch it: money moves only in the ways the escrow allows.
ImplementsEscrow == Escrows!Spec

=============================================================================
