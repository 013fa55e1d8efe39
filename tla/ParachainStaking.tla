--------------------------- MODULE ParachainStaking ---------------------------
(***************************************************************************)
(* The bonding half of the parachain-staking pallet                        *)
(* (pallets/parachain-staking/src/lib.rs, delegation_requests.rs and       *)
(* auto_compound.rs): collator candidates and their bonds, delegations,    *)
(* the requests that take effect some rounds after they are scheduled, and *)
(* the totals and locks kept beside them.  StakingRewards adds rounds,     *)
(* the selection of collators and the payouts.                             *)
(*                                                                         *)
(* One action is one extrinsic; a call that fails changes nothing.  A      *)
(* caller gives weight hints that are large enough.  The power by unit of  *)
(* an account's stake does not change while it is bonded: power_decreased  *)
(* and power_increased are left out.                                       *)
(***************************************************************************)
EXTENDS Delegations, FiniteSetsExt, Functions

CONSTANTS
  Collators,             \* the accounts that may become candidates
  Delegators,            \* the accounts that may delegate
  Amounts,               \* the amounts a call may name; not 0, with which
                         \* delegator_bond_more succeeds and changes no stake
  Percents,              \* the auto-compound percentages a call may name
  FreeBalances,          \* Currency::free_balance of the accounts, to begin with
  Factor,                \* StakingHooks::power: power by unit of amount
  MinCandidateStk, MinDelegation, MinDelegatorStk,
  MaxDelegationsPerDelegator,
  LeaveCandidatesDelay, CandidateBondLessDelay, LeaveDelegatorsDelay,
  RevokeDelegationDelay,
  MaxRound               \* bound: the last round

Accounts == Collators \cup Delegators

(***************************************************************************)
(* Types: a stake, a bond, a list of bonds, a book.                        *)
(***************************************************************************)
StakeT == [power : Nat, amount : Nat]

BondT == [owner : Accounts, stake : StakeT]

DelegationsT == [delegations : Seq(BondT), total : StakeT]

CapacityT == {"Full", "Partial", "Empty"}

\* CandidateBondLessRequest.
LessRequestT == [amount : Nat, when : Nat]

BookT ==
  [stake : StakeT, delegation_count : Nat, total_stake_counted : StakeT,
   lowest_top_delegation : StakeT,
   highest_bottom_delegation : StakeT,
   lowest_bottom_delegation : StakeT,
   top_capacity : CapacityT, bottom_capacity : CapacityT,
   request : LessRequestT \cup {None},
   status : {"Active", "Idle", "Leaving"}, when : Nat,
   top : DelegationsT, bottom : DelegationsT]

ASSUME StakingAssumption ==
  /\ IsFiniteSet(Accounts)
  /\ Amounts \subseteq Nat \ {0}
  /\ Percents \subseteq 0 .. 100
  /\ FreeBalances \subseteq [Accounts -> Nat] /\ Factor \in [Accounts -> Nat \ {0}]
  /\ MinDelegation <= MinDelegatorStk
  /\ MaxTopDelegationsPerCandidate \in Nat \ {0}
  /\ MaxBottomDelegationsPerCandidate \in Nat \ {0}
  /\ {LeaveCandidatesDelay, CandidateBondLessDelay, LeaveDelegatorsDelay,
      RevokeDelegationDelay, MaxRound} \subseteq Nat

\* None is the absence of an account, of a request and of a book.
ASSUME NoneAssumption ==
  None \notin Accounts /\ None \notin LessRequestT /\ None \notin BookT

VARIABLES
  round,            \* Round.current
  free,             \* free balances
  CandidateInfo,    \* CandidateInfo with TopDelegations, BottomDelegations
  CandidatePool,    \* the counted stakes of the candidates to select from
  DelegatorState,
  Requests,         \* DelegationScheduledRequests
  AutoCompounding,  \* AutoCompoundingDelegations
  Total,
  collatorLock, delegatorLock   \* the locks by account

bonding == <<free, CandidateInfo, CandidatePool, DelegatorState,
             Requests, AutoCompounding, Total, collatorLock, delegatorLock>>

Empty == [x \in {} |-> x]

is_candidate(a) == a \in DOMAIN CandidateInfo

is_delegator(a) == a \in DOMAIN DelegatorState

Put(f, x, v) == [y \in DOMAIN f \cup {x} |-> IF y = x THEN v ELSE f[y]]

Drop(f, x) == Restrict(f, DOMAIN f \ {x})

\* StakingHooks::power.
power(a, amount) == Stake(amount, Factor[a] * amount)

Init ==
  /\ round = 1
  /\ free \in FreeBalances
  /\ CandidateInfo = Empty
  /\ CandidatePool = Empty
  /\ DelegatorState = Empty
  /\ Requests = [c \in Collators |-> Empty]
  /\ AutoCompounding = [c \in Collators |-> Empty]
  /\ Total = ZeroStake
  /\ collatorLock = [a \in Accounts |-> 0]
  /\ delegatorLock = [a \in Accounts |-> 0]

get_delegator_stakable_free_balance(d) ==
  IF is_delegator(d)
  THEN Minus(power(d, free[d]), DelegatorState[d].total)
  ELSE power(d, free[d])

get_collator_stakable_free_balance(c) ==
  IF is_candidate(c)
  THEN SaturatingSub(free[c], CandidateInfo[c].stake.amount)
  ELSE free[c]

\* update_active, for a candidate that is active.
update_active(c, k) ==
  IF k.status = "Active" THEN Put(CandidatePool, c, k.total_stake_counted)
                         ELSE CandidatePool

\* Mutant: the pool follows an increase only.
PoolAfterIncrease(c, k) ==
  IF Below(CandidateInfo[c].total_stake_counted, k.total_stake_counted)
  THEN update_active(c, k)
  ELSE CandidatePool

\* reset_top_data calls update_active only when the counted total changes.
PoolAfter(c, k) ==
  IF k.total_stake_counted # CandidateInfo[c].total_stake_counted
  THEN update_active(c, k)
  ELSE CandidatePool

(***************************************************************************)
(* Candidates.                                                             *)
(***************************************************************************)
join_candidates(c, bond) ==
  /\ ~is_candidate(c) /\ ~is_delegator(c)
  /\ bond >= MinCandidateStk
  /\ c \notin DOMAIN CandidatePool
  /\ get_collator_stakable_free_balance(c) >= bond
  /\ CandidateInfo' = Put(CandidateInfo, c, NewBook(power(c, bond)))
  /\ CandidatePool' = Put(CandidatePool, c, power(c, bond))
  /\ Total' = Plus(Total, power(c, bond))
  /\ collatorLock' = [collatorLock EXCEPT ![c] = bond]
  /\ UNCHANGED <<round, free, DelegatorState, Requests, AutoCompounding,
                 delegatorLock>>

\* The status Leaving(when) is the status and the round `when`.
is_leaving(k) == k.status = "Leaving"

ChangeStatus(c, status, when) ==
  /\ CandidateInfo' = [CandidateInfo EXCEPT ![c].status = status,
                                            ![c].when = when]
  /\ CandidatePool' =
       IF status = "Active"
       THEN Put(CandidatePool, c, CandidateInfo[c].total_stake_counted)
       ELSE Drop(CandidatePool, c)
  /\ UNCHANGED <<round, free, DelegatorState, Requests, AutoCompounding,
                 Total, collatorLock, delegatorLock>>

schedule_leave_candidates(c) ==
  /\ is_candidate(c) /\ ~is_leaving(CandidateInfo[c])
  /\ ChangeStatus(c, "Leaving", round + LeaveCandidatesDelay)

cancel_leave_candidates(c) ==
  /\ is_candidate(c) /\ is_leaving(CandidateInfo[c])
  /\ c \notin DOMAIN CandidatePool
  /\ ChangeStatus(c, "Active", 0)

go_offline(c) ==
  /\ is_candidate(c) /\ CandidateInfo[c].status = "Active"
  /\ ChangeStatus(c, "Idle", 0)

go_online(c) ==
  /\ is_candidate(c) /\ CandidateInfo[c].status = "Idle"
  /\ c \notin DOMAIN CandidatePool
  /\ ChangeStatus(c, "Active", 0)

candidate_bond_more(c, more) ==
  /\ is_candidate(c)
  /\ get_collator_stakable_free_balance(c) >= more
  /\ LET s == power(c, more)
         k == [CandidateInfo[c] EXCEPT
                 !.stake = Plus(@, s), !.total_stake_counted = Plus(@, s)]
     IN  /\ CandidateInfo' = [CandidateInfo EXCEPT ![c] = k]
         /\ CandidatePool' = update_active(c, k)
         /\ Total' = Plus(Total, s)
         /\ collatorLock' = [collatorLock EXCEPT ![c] = k.stake.amount]
  /\ UNCHANGED <<round, free, DelegatorState, Requests, AutoCompounding,
                 delegatorLock>>

schedule_candidate_bond_less(c, less) ==
  /\ is_candidate(c) /\ CandidateInfo[c].request = None
  /\ CandidateInfo[c].stake.amount > less
  /\ SaturatingSub(CandidateInfo[c].stake.amount, less) >= MinCandidateStk
  /\ CandidateInfo' =
       [CandidateInfo EXCEPT ![c].request =
          [amount |-> less, when |-> round + CandidateBondLessDelay]]
  /\ UNCHANGED <<round, free, CandidatePool, DelegatorState, Requests,
                 AutoCompounding, Total, collatorLock, delegatorLock>>

\* Mutant: the lock stays as it was.
bond_less_locked(c, s, request) ==
  LET k == [CandidateInfo[c] EXCEPT
              !.stake = Minus(@, s), !.total_stake_counted = Minus(@, s),
              !.request = request]
  IN  /\ CandidateInfo' = [CandidateInfo EXCEPT ![c] = k]
      /\ CandidatePool' = update_active(c, k)
      /\ Total' = Minus(Total, s)
      /\ UNCHANGED collatorLock

\* CandidateMetadata::bond_less, up to the request that is left.
bond_less(c, s, request) ==
  LET k == [CandidateInfo[c] EXCEPT
              !.stake = Minus(@, s), !.total_stake_counted = Minus(@, s),
              !.request = request]
  IN  /\ CandidateInfo' = [CandidateInfo EXCEPT ![c] = k]
      /\ CandidatePool' = update_active(c, k)
      /\ Total' = Minus(Total, s)
      /\ collatorLock' = [collatorLock EXCEPT ![c] = k.stake.amount]

execute_candidate_bond_less(c) ==
  /\ is_candidate(c) /\ CandidateInfo[c].request # None
  /\ CandidateInfo[c].request.when <= round
  /\ bond_less(c, power(c, CandidateInfo[c].request.amount), None)
  /\ UNCHANGED <<round, free, DelegatorState, Requests, AutoCompounding,
                 delegatorLock>>

cancel_candidate_bond_less(c) ==
  /\ is_candidate(c) /\ CandidateInfo[c].request # None
  /\ CandidateInfo' = [CandidateInfo EXCEPT ![c].request = None]
  /\ UNCHANGED <<round, free, CandidatePool, DelegatorState, Requests,
                 AutoCompounding, Total, collatorLock, delegatorLock>>

(***************************************************************************)
(* Delegators.  A delegator's record holds the stake by candidate, their   *)
(* total and less_total, the sum of what its requests will take away.      *)
(***************************************************************************)
NewDelegator(c, s) ==
  [delegations |-> [x \in {c} |-> s], total |-> s, less_total |-> ZeroStake]

rm_delegation(s, c) ==
  [s EXCEPT !.delegations = Drop(s.delegations, c),
            !.total = Minus(s.total, s.delegations[c])]

delegation_remove_request_with_state(s, c, d) ==
  IF d \in DOMAIN Requests[c]
  THEN [s EXCEPT !.less_total = Minus(@, Requests[c][d].stake)]
  ELSE s

\* What a delegator that a candidate lets go of is left with.
LetGo(c, d) ==
  delegation_remove_request_with_state(rm_delegation(DelegatorState[d], c),
                                       c, d)

\* The delegators, requests and auto-compound entries once candidate c has
\* lost the delegations of `gone`; `left` are those that leave altogether.
ReleaseAll(c, gone, left) ==
  /\ DelegatorState' =
       [d \in DOMAIN DelegatorState \ left |->
          IF d \in gone THEN LetGo(c, d) ELSE DelegatorState[d]]
  /\ delegatorLock' =
       [d \in Accounts |->
          IF d \in gone THEN LetGo(c, d).total.amount ELSE delegatorLock[d]]

owners(c) ==
  {b.owner : b \in ToSet(CandidateInfo[c].top.delegations)
                   \cup ToSet(CandidateInfo[c].bottom.delegations)}

can_leave(k) == is_leaving(k) /\ round >= k.when

execute_leave_candidates(c) ==
  /\ is_candidate(c) /\ can_leave(CandidateInfo[c])
  /\ ReleaseAll(c, owners(c), {d \in owners(c) : LetGo(c, d).total = ZeroStake})
  /\ CandidateInfo' = Drop(CandidateInfo, c)
  /\ Requests' = [Requests EXCEPT ![c] = Empty]
  /\ AutoCompounding' = [AutoCompounding EXCEPT ![c] = Empty]
  /\ Total' = Minus(Total, Plus(CandidateInfo[c].stake,
                                Plus(CandidateInfo[c].top.total,
                                     CandidateInfo[c].bottom.total)))
  /\ collatorLock' = [collatorLock EXCEPT ![c] = 0]
  /\ UNCHANGED <<round, free, CandidatePool>>

\* delegate is delegate_with_auto_compound with a percentage of 0.
delegate_with_auto_compound(d, c, amount, percent) ==
  LET s      == power(d, amount)
      k      == CandidateInfo[c]
      kicked == KickedBy(k, Bond(d, s))
      state  == IF is_delegator(d)
                THEN [DelegatorState[d] EXCEPT
                        !.delegations = Put(@, c, s), !.total = Plus(@, s)]
                ELSE NewDelegator(c, s)
      rest   == IF kicked = None THEN Empty ELSE LetGo(c, kicked)
      leaves == kicked # None
                /\ Cardinality(DOMAIN DelegatorState[kicked].delegations) = 1
  IN  /\ ~Below(get_delegator_stakable_free_balance(d), s)
      /\ IF is_delegator(d)
         THEN /\ amount >= MinDelegation
              /\ Cardinality(DOMAIN DelegatorState[d].delegations)
                   < MaxDelegationsPerDelegator
              /\ c \notin DOMAIN DelegatorState[d].delegations
         ELSE amount >= MinDelegatorStk /\ ~is_candidate(d)
      /\ is_candidate(c)
      /\ CanAdd(k, Bond(d, s))
      /\ CandidateInfo' = [CandidateInfo EXCEPT
                             ![c] = add_delegation(k, Bond(d, s))]
      /\ CandidatePool' = PoolAfter(c, add_delegation(k, Bond(d, s)))
      /\ DelegatorState' =
           [e \in (DOMAIN DelegatorState \ (IF leaves THEN {kicked} ELSE {}))
                  \cup {d} |->
              CASE e = d      -> state
                [] e = kicked -> rest
                [] OTHER      -> DelegatorState[e]]
      /\ delegatorLock' =
           [e \in Accounts |->
              CASE e = d      -> state.total.amount
                [] e = kicked -> rest.total.amount
                [] OTHER      -> delegatorLock[e]]
      /\ Requests' = [Requests EXCEPT ![c] = Drop(@, kicked)]
      \* With a percentage the list read before the kick is written back.
      /\ AutoCompounding' =
           [AutoCompounding EXCEPT ![c] =
              IF percent = 0 THEN Drop(@, kicked) ELSE Put(@, d, percent)]
      /\ Total' = Plus(Total, Minus(s, less_total_staked(k, Bond(d, s))))
      /\ UNCHANGED <<round, free, collatorLock>>

set_auto_compound(d, c, percent) ==
  /\ is_delegator(d) /\ c \in DOMAIN DelegatorState[d].delegations
  /\ AutoCompounding' =
       [AutoCompounding EXCEPT ![c] =
          IF percent = 0 THEN Drop(@, d) ELSE Put(@, d, percent)]
  /\ UNCHANGED <<round, free, CandidateInfo, CandidatePool, DelegatorState,
                 Requests, Total, collatorLock, delegatorLock>>

RevokePending(c, d) ==
  d \in DOMAIN Requests[c] /\ Requests[c][d].action = "Revoke"

\* The guard of delegation_bond_more_without_event and the calls it makes.
CanBondMore(d, c, more) ==
  /\ ~RevokePending(c, d)
  /\ is_delegator(d) /\ c \in DOMAIN DelegatorState[d].delegations
  /\ ~Below(get_delegator_stakable_free_balance(d), more)
  /\ is_candidate(c)
  /\ increase_delegation(CandidateInfo[c], d,
                         DelegatorState[d].delegations[c], more) # None

\* Delegator::increase_delegation.
delegation_bond_more_without_event(d, c, more) ==
  LET k == increase_delegation(CandidateInfo[c], d,
                               DelegatorState[d].delegations[c], more)
      s == [DelegatorState[d] EXCEPT !.delegations[c] = Plus(@, more),
                                     !.total = Plus(@, more)]
  IN  /\ CandidateInfo' = [CandidateInfo EXCEPT ![c] = k]
      /\ CandidatePool' = PoolAfter(c, k)
      /\ DelegatorState' = [DelegatorState EXCEPT ![d] = s]
      /\ delegatorLock' = [delegatorLock EXCEPT ![d] = s.total.amount]
      /\ Total' = Plus(Total, more)

delegator_bond_more(d, c, more) ==
  /\ CanBondMore(d, c, power(d, more))
  /\ delegation_bond_more_without_event(d, c, power(d, more))
  /\ UNCHANGED <<round, free, Requests, AutoCompounding, collatorLock>>

(***************************************************************************)
(* Scheduled requests (delegation_requests.rs).  A candidate's list holds  *)
(* at most one request by delegator.                                       *)
(***************************************************************************)
Request(action, s, delay) ==
  [action |-> action, stake |-> s, when |-> round + delay]

UnchangedBySchedule ==
  UNCHANGED <<round, free, CandidateInfo, CandidatePool, AutoCompounding,
              Total, collatorLock, delegatorLock>>

schedule_revoke_delegation(d, c) ==
  /\ is_delegator(d) /\ d \notin DOMAIN Requests[c]
  /\ c \in DOMAIN DelegatorState[d].delegations
  /\ LET bonded == DelegatorState[d].delegations[c]
     IN  /\ Requests' = [Requests EXCEPT ![c] =
                  Put(@, d, Request("Revoke", bonded, RevokeDelegationDelay))]
         /\ DelegatorState' = [DelegatorState EXCEPT
                                 ![d].less_total = Plus(@, bonded)]
  /\ UnchangedBySchedule

schedule_delegator_bond_less(d, c, amount) ==
  /\ is_delegator(d) /\ d \notin DOMAIN Requests[c]
  /\ c \in DOMAIN DelegatorState[d].delegations
  /\ LET less   == power(d, amount)
         bonded == DelegatorState[d].delegations[c]
         net    == Minus(DelegatorState[d].total, DelegatorState[d].less_total)
     IN  /\ Below(less, bonded)
         /\ bonded.amount - less.amount >= MinDelegation
         /\ amount <= SaturatingSub(net.amount, MinDelegatorStk)
         /\ Requests' = [Requests EXCEPT ![c] =
                  Put(@, d, Request("Decrease", less, RevokeDelegationDelay))]
         /\ DelegatorState' = [DelegatorState EXCEPT
                                 ![d].less_total = Plus(@, less)]
  /\ UnchangedBySchedule

cancel_delegation_request(d, c) ==
  /\ is_delegator(d) /\ d \in DOMAIN Requests[c]
  /\ Requests' = [Requests EXCEPT ![c] = Drop(@, d)]
  /\ DelegatorState' = [DelegatorState EXCEPT
                          ![d].less_total = Minus(@, Requests[c][d].stake)]
  /\ UnchangedBySchedule

\* The guard of revoke_delegator_stake, for the state s of delegator d.
CanRevoke(s, k, d, stake) ==
  /\ \/ Cardinality(DOMAIN s.delegations) = 1
     \/ SaturatingSub(s.total.amount, MinDelegatorStk) >= stake.amount
  /\ rm_delegation_if_exists(k, d, stake) # None

\* The state of the delegator after it, which is removed if it had no other
\* delegation.
Revoked(s, c, stake) ==
  rm_delegation([s EXCEPT !.less_total = Minus(@, stake)], c)

\* Mutant: what was scheduled stays charged once it is executed.
DecreasedStillCharged(s, c, stake) ==
  [s EXCEPT !.delegations[c] = Minus(@, stake), !.total = Minus(@, stake)]

\* The state of the delegator after decrease_delegator_stake, and its guard
\* once the delegation is found.
Decreased(s, c, stake) ==
  [s EXCEPT !.less_total = Minus(@, stake),
            !.delegations[c] = Minus(@, stake),
            !.total = Minus(@, stake)]

CanDecrease(s, k, c, d, stake) ==
  /\ Below(stake, s.delegations[c])
  /\ Decreased(s, c, stake).total.amount >= MinDelegation
  /\ Decreased(s, c, stake).total.amount >= MinDelegatorStk
  /\ decrease_delegation(k, d, s.delegations[c], stake) # None

\* revoke_delegator_stake with the stake of the request: it is taken off
\* Total as it was when the request was made.
execute_revoke(d, c, stake) ==
  LET s == Revoked(DelegatorState[d], c, stake)
      k == rm_delegation_if_exists(CandidateInfo[c], d, stake)
  IN  /\ CanRevoke(DelegatorState[d], CandidateInfo[c], d, stake)
      /\ DelegatorState' = IF DOMAIN s.delegations = {}
                           THEN Drop(DelegatorState, d)
                           ELSE [DelegatorState EXCEPT ![d] = s]
      /\ delegatorLock' = [delegatorLock EXCEPT ![d] = s.total.amount]
      /\ CandidateInfo' = [CandidateInfo EXCEPT ![c] = k]
      /\ CandidatePool' = PoolAfter(c, k)
      /\ AutoCompounding' = [AutoCompounding EXCEPT ![c] = Drop(@, d)]

execute_decrease(d, c, stake) ==
  LET s == Decreased(DelegatorState[d], c, stake)
      k == decrease_delegation(CandidateInfo[c], d,
                               DelegatorState[d].delegations[c], stake)
  IN  /\ CanDecrease(DelegatorState[d], CandidateInfo[c], c, d, stake)
      /\ DelegatorState' = [DelegatorState EXCEPT ![d] = s]
      /\ delegatorLock' = [delegatorLock EXCEPT ![d] = s.total.amount]
      /\ CandidateInfo' = [CandidateInfo EXCEPT ![c] = k]
      /\ CandidatePool' = PoolAfter(c, k)
      /\ UNCHANGED AutoCompounding

execute_delegation_request(d, c) ==
  /\ d \in DOMAIN Requests[c] /\ Requests[c][d].when <= round
  /\ is_delegator(d) /\ is_candidate(c)
  /\ c \in DOMAIN DelegatorState[d].delegations
  /\ IF Requests[c][d].action = "Revoke"
     THEN execute_revoke(d, c, Requests[c][d].stake)
     ELSE execute_decrease(d, c, Requests[c][d].stake)
  /\ Requests' = [Requests EXCEPT ![c] = Drop(@, d)]
  /\ Total' = Minus(Total, Requests[c][d].stake)
  /\ UNCHANGED <<round, free, collatorLock>>

\* Every delegation gets a Revoke; one that has a Revoke keeps it, but
\* less_total is charged with what is bonded now.
schedule_leave_delegators(d) ==
  /\ is_delegator(d)
  /\ LET ds     == DelegatorState[d].delegations
         had    == {c \in DOMAIN ds : d \in DOMAIN Requests[c]}
         old    == SumOver([c \in had |-> Requests[c][d].stake], had)
     IN  /\ \E c \in DOMAIN ds : ~RevokePending(c, d)
         /\ Requests' =
              [c \in Collators |->
                 IF c \in DOMAIN ds /\ ~RevokePending(c, d)
                 THEN Put(Requests[c], d,
                          Request("Revoke", ds[c], LeaveDelegatorsDelay))
                 ELSE Requests[c]]
         /\ DelegatorState' =
              [DelegatorState EXCEPT ![d].less_total =
                 Plus(Minus(@, old), SumOver(ds, DOMAIN ds))]
  /\ UnchangedBySchedule

AllRevoking(d) ==
  is_delegator(d)
  /\ \A c \in DOMAIN DelegatorState[d].delegations : RevokePending(c, d)

cancel_leave_delegators(d) ==
  /\ AllRevoking(d)
  /\ LET cs == DOMAIN DelegatorState[d].delegations
     IN  /\ Requests' = [c \in Collators |-> IF c \in cs THEN Drop(Requests[c], d)
                                                        ELSE Requests[c]]
         /\ DelegatorState' =
              [DelegatorState EXCEPT ![d].less_total =
                 Minus(@, SumOver([c \in cs |-> Requests[c][d].stake], cs))]
  /\ UnchangedBySchedule

\* A delegation that is not found is only logged.
execute_leave_delegators(d) ==
  /\ AllRevoking(d)
  /\ \A c \in DOMAIN DelegatorState[d].delegations : Requests[c][d].when <= round
  /\ LET ds    == DelegatorState[d].delegations
         k(c)  == rm_delegation_if_exists(CandidateInfo[c], d, ds[c])
         found == {c \in DOMAIN ds : is_candidate(c) /\ k(c) # None}
     IN  /\ CandidateInfo' = [c \in DOMAIN CandidateInfo |->
                                IF c \in found THEN k(c) ELSE CandidateInfo[c]]
         /\ CandidatePool' =
              [c \in DOMAIN CandidatePool |->
                 IF c \in found THEN PoolAfter(c, k(c))[c]
                                ELSE CandidatePool[c]]
         /\ Total' = Minus(Total, SumOver(ds, found))
         /\ Requests' =
              [c \in Collators |-> IF c \in DOMAIN ds THEN Drop(Requests[c], d)
                                                      ELSE Requests[c]]
         /\ AutoCompounding' =
              [c \in Collators |->
                 IF c \in DOMAIN ds THEN Drop(AutoCompounding[c], d)
                                    ELSE AutoCompounding[c]]
  /\ DelegatorState' = Drop(DelegatorState, d)
  /\ delegatorLock' = [delegatorLock EXCEPT ![d] = 0]
  /\ UNCHANGED <<round, free, collatorLock>>

\* Takes away what is empty: it changes nothing that is ever read.
hotfix_remove_delegation_requests_exited_candidates(c) ==
  /\ ~is_candidate(c) /\ Requests[c] = Empty
  /\ Requests' = [Requests EXCEPT ![c] = Empty]
  /\ UNCHANGED <<round, free, CandidateInfo, CandidatePool, DelegatorState,
                 AutoCompounding, Total, collatorLock, delegatorLock>>

(***************************************************************************)
(* Every operation but the passing of rounds.                              *)
(***************************************************************************)
Bonding ==
  \/ \E c \in Collators :
       \/ \E a \in Amounts : \/ join_candidates(c, a)
                             \/ candidate_bond_more(c, a)
                             \/ schedule_candidate_bond_less(c, a)
       \/ schedule_leave_candidates(c)
       \/ cancel_leave_candidates(c)
       \/ execute_leave_candidates(c)
       \/ go_offline(c)
       \/ go_online(c)
       \/ execute_candidate_bond_less(c)
       \/ cancel_candidate_bond_less(c)
       \/ hotfix_remove_delegation_requests_exited_candidates(c)
  \/ \E d \in Delegators, c \in Collators :
       \/ \E a \in Amounts, p \in Percents :
            delegate_with_auto_compound(d, c, a, p)
       \/ \E p \in Percents : set_auto_compound(d, c, p)
       \/ \E a \in Amounts : \/ delegator_bond_more(d, c, a)
                             \/ schedule_delegator_bond_less(d, c, a)
       \/ schedule_revoke_delegation(d, c)
       \/ cancel_delegation_request(d, c)
       \/ execute_delegation_request(d, c)
  \/ \E d \in Delegators : \/ schedule_leave_delegators(d)
                           \/ cancel_leave_delegators(d)
                           \/ execute_leave_delegators(d)

\* The part of on_initialize that starts a round is completed in
\* StakingRewards.
StartRound ==
  /\ round < MaxRound
  /\ round' = round + 1
  /\ UNCHANGED bonding

Next == Bonding \/ StartRound

vars == <<round, bonding>>

Spec == Init /\ [][Next]_vars

(***************************************************************************)
(* Properties.                                                             *)
(***************************************************************************)
Listed(c) ==
  CandidateInfo[c].top.delegations \o CandidateInfo[c].bottom.delegations

\* A delegation is recorded twice, in the lists of the candidate and in the
\* state of the delegator, and execute_leave_candidates and the kick of a
\* delegator trust that the two agree ("Collator state and delegator state
\* are consistent").  They do: a candidate lists exactly the delegations its
\* delegators hold, once each and with the same stake, no account is both,
\* a delegator has at least one delegation and its total is their sum.
BooksAgree ==
  /\ \A d \in DOMAIN DelegatorState :
       /\ ~is_candidate(d)
       /\ DOMAIN DelegatorState[d].delegations # {}
       /\ DelegatorState[d].total =
            SumOver(DelegatorState[d].delegations,
                    DOMAIN DelegatorState[d].delegations)
       /\ \A c \in DOMAIN DelegatorState[d].delegations :
            /\ is_candidate(c)
            /\ Bond(d, DelegatorState[d].delegations[c]) \in ToSet(Listed(c))
  /\ \A c \in DOMAIN CandidateInfo :
       /\ Len(Listed(c)) = Cardinality(owners(c))
       /\ CandidateInfo[c].delegation_count = Len(Listed(c))
       /\ \A d \in owners(c) :
            is_delegator(d) /\ c \in DOMAIN DelegatorState[d].delegations

Descending(ds) ==
  \A i, j \in DOMAIN ds : i < j => ~Below(ds[i].stake, ds[j].stake)

\* Every operation decides from the cached ends of the lists which list to
\* look in.  The guesses are sound because both lists are in order, nothing in
\* the bottom is above anything in the top, the bottom is used only while the
\* top is full, and the cached values are those of the lists.
BooksOrdered ==
  \A c \in DOMAIN CandidateInfo :
    LET k == CandidateInfo[c]
    IN  /\ Descending(Listed(c))
        /\ k.bottom.delegations # <<>> => k.top_capacity = "Full"
        /\ Len(k.top.delegations) <= MaxTopDelegationsPerCandidate
        /\ Len(k.bottom.delegations) <= MaxBottomDelegationsPerCandidate
        /\ k = [reset_bottom_data(reset_top_data(k, k.top), k.bottom)
                EXCEPT !.total_stake_counted = k.total_stake_counted]
        /\ k.top.total = SumStakes(k.top.delegations)

\* The pool from which collators are selected holds exactly the active
\* candidates, each with the stake counted for it, which is its bond and its
\* top delegations.  Both are written from many places and kept apart.
PoolIsCurrent ==
  /\ DOMAIN CandidatePool =
       {c \in DOMAIN CandidateInfo : CandidateInfo[c].status = "Active"}
  /\ \A c \in DOMAIN CandidatePool :
       CandidatePool[c] = CandidateInfo[c].total_stake_counted
  /\ \A c \in DOMAIN CandidateInfo :
       CandidateInfo[c].total_stake_counted =
         Plus(CandidateInfo[c].stake,
              SumStakes(CandidateInfo[c].top.delegations))

\* The locks are what is bonded: nothing stays locked once an account has
\* left, been kicked or lost its candidate, and nothing bonded can be spent.
LocksMatch ==
  \A a \in Accounts :
    /\ collatorLock[a] =
         IF is_candidate(a) THEN CandidateInfo[a].stake.amount ELSE 0
    /\ delegatorLock[a] =
         IF is_delegator(a) THEN DelegatorState[a].total.amount ELSE 0
    /\ collatorLock[a] <= free[a] /\ delegatorLock[a] <= free[a]

\* A request belongs to a delegation that exists and asks for no more than is
\* bonded, and less_total is the sum of what a delegator's requests take: so
\* a decrease is admitted only if the delegator keeps MinDelegatorStk after
\* everything already scheduled.
RequestsMatch ==
  /\ \A c \in Collators, d \in Delegators :
       d \in DOMAIN Requests[c] =>
         /\ is_delegator(d) /\ c \in DOMAIN DelegatorState[d].delegations
         /\ Requests[c][d].stake.amount <=
              DelegatorState[d].delegations[c].amount
  /\ \A d \in DOMAIN DelegatorState :
       LET cs == {c \in Collators : d \in DOMAIN Requests[c]}
       IN  DelegatorState[d].less_total =
             SumOver([c \in cs |-> Requests[c][d].stake], cs)

Locked == Sum(collatorLock, Accounts) + Sum(delegatorLock, Accounts)

Delegates(d, c) == is_delegator(d) /\ c \in DOMAIN DelegatorState[d].delegations

\* A step that finds Total at what is locked leaves it so, but for two cases.
\* A candidate may leave with a bottom total that a decrease of a bottom
\* delegation has left too large.  And lists are ordered by power, so that a
\* delegation may kick one of a greater amount: the difference that is added
\* to Total is then zero, not negative.
TotalFollowsLocks ==
  [][/\ Total.amount = Locked
     /\ \A c \in DOMAIN CandidateInfo \ DOMAIN CandidateInfo' :
          CandidateInfo[c].bottom.total =
            SumStakes(CandidateInfo[c].bottom.delegations)
     /\ \A c \in DOMAIN CandidateInfo', x, d \in Delegators :
          /\ Delegates(x, c) /\ ~Delegates(x, c)'
          /\ ~Delegates(d, c) /\ Delegates(d, c)'
          => DelegatorState[x].delegations[c].amount
               <= DelegatorState'[d].delegations[c].amount
     => Total'.amount = Locked']_vars

=============================================================================
