------------------------ MODULE StakingRewardsProofs ------------------------
(***************************************************************************)
(* StakingRewards, for any genesis, stakes, round lengths, issuances and   *)
(* settings of governance: every collator with points is paid before the   *)
(* payout of its round is dropped (PaidInFull), genesis, rounds and        *)
(* compounded rewards keep the books, the shares of a snapshot add up      *)
(* (SharesAddUp), and what is paid for a round stays within its issuance   *)
(* (PaidWithinIssuance).                                                   *)
(***************************************************************************)
EXTENDS StakingRewards, StakingProofs

-----------------------------------------------------------------------------
(***************************************************************************)
(* The bonding half as the payouts see it: the pool holds collators.       *)
(***************************************************************************)
\* The pool after the counted total of a candidate may have changed.
LEMMA PoolDomain ==
  ASSUME NEW c \in Collators, NEW k, DOMAIN CandidatePool \subseteq Collators
  PROVE  /\ DOMAIN update_active(c, k) \subseteq Collators
         /\ DOMAIN PoolAfter(c, k) \subseteq Collators
BY DEF update_active, PoolAfter, Put

\* The calls of candidates.
LEMMA CandidateCalls ==
  ASSUME NEW c \in Collators, DOMAIN CandidatePool \subseteq Collators,
         \/ \E a \in Amounts : \/ join_candidates(c, a)
                               \/ candidate_bond_more(c, a)
                               \/ schedule_candidate_bond_less(c, a)
         \/ schedule_leave_candidates(c)
         \/ cancel_leave_candidates(c)
         \/ execute_leave_candidates(c)
         \/ go_offline(c)
         \/ go_online(c)
         \/ execute_candidate_bond_less(c)
         \/ cancel_candidate_bond_less(c)
         \/ hotfix_remove_delegation_requests_exited_candidates(c)
  PROVE  round' = round /\ DOMAIN CandidatePool' \subseteq Collators
<1>1. ASSUME NEW status, NEW when, ChangeStatus(c, status, when)
      PROVE  round' = round /\ DOMAIN CandidatePool' \subseteq Collators
  BY <1>1 DEF ChangeStatus, Put, Drop, Restrict
<1>2. CASE \/ schedule_leave_candidates(c) \/ cancel_leave_candidates(c)
           \/ go_offline(c) \/ go_online(c)
  BY <1>1, <1>2 DEF schedule_leave_candidates, cancel_leave_candidates, go_offline, go_online
<1>3. ASSUME NEW a \in Amounts, join_candidates(c, a)
      PROVE  round' = round /\ DOMAIN CandidatePool' \subseteq Collators
  BY <1>3 DEF join_candidates, Put
<1>4. ASSUME NEW a \in Amounts, candidate_bond_more(c, a)
      PROVE  round' = round /\ DOMAIN CandidatePool' \subseteq Collators
  BY <1>4, PoolDomain, Zenon DEF candidate_bond_more
<1>5. CASE execute_candidate_bond_less(c)
  BY <1>5, PoolDomain DEF execute_candidate_bond_less, bond_less
<1>6. CASE \/ \E a \in Amounts : schedule_candidate_bond_less(c, a)
           \/ execute_leave_candidates(c) \/ cancel_candidate_bond_less(c)
           \/ hotfix_remove_delegation_requests_exited_candidates(c)
  BY <1>6 DEF schedule_candidate_bond_less, execute_leave_candidates,
     cancel_candidate_bond_less, hotfix_remove_delegation_requests_exited_candidates
<1> QED BY <1>2, <1>3, <1>4, <1>5, <1>6

\* The calls of delegators about one candidate.
LEMMA DelegationCalls ==
  ASSUME NEW d \in Delegators, NEW c \in Collators, DOMAIN CandidatePool \subseteq Collators,
         \/ \E a \in Amounts, p \in Percents : delegate_with_auto_compound(d, c, a, p)
         \/ \E p \in Percents : set_auto_compound(d, c, p)
         \/ \E a \in Amounts : \/ delegator_bond_more(d, c, a)
                               \/ schedule_delegator_bond_less(d, c, a)
         \/ schedule_revoke_delegation(d, c)
         \/ cancel_delegation_request(d, c)
         \/ execute_delegation_request(d, c)
  PROVE  round' = round /\ DOMAIN CandidatePool' \subseteq Collators
<1>1. ASSUME NEW a \in Amounts, NEW p \in Percents, delegate_with_auto_compound(d, c, a, p)
      PROVE  round' = round /\ DOMAIN CandidatePool' \subseteq Collators
  BY <1>1, PoolDomain, Zenon DEF delegate_with_auto_compound
<1>2. ASSUME NEW a \in Amounts, delegator_bond_more(d, c, a)
      PROVE  round' = round /\ DOMAIN CandidatePool' \subseteq Collators
  BY <1>2, PoolDomain, Zenon DEF delegator_bond_more, delegation_bond_more_without_event
<1>3. CASE execute_delegation_request(d, c)
  BY <1>3, PoolDomain DEF execute_delegation_request, execute_revoke, execute_decrease
<1>4. CASE \/ \E p \in Percents : set_auto_compound(d, c, p)
           \/ \E a \in Amounts : schedule_delegator_bond_less(d, c, a)
           \/ schedule_revoke_delegation(d, c) \/ cancel_delegation_request(d, c)
  BY <1>4 DEF set_auto_compound, schedule_delegator_bond_less, schedule_revoke_delegation,
     cancel_delegation_request, UnchangedBySchedule
<1> QED BY <1>1, <1>2, <1>3, <1>4

\* No call of a user starts a round or puts anybody else into the pool.
LEMMA BondingCalls ==
  ASSUME DOMAIN CandidatePool \subseteq Collators, Bonding
  PROVE  round' = round /\ DOMAIN CandidatePool' \subseteq Collators
<1>1. ASSUME NEW d \in Delegators,
             schedule_leave_delegators(d) \/ cancel_leave_delegators(d)
               \/ execute_leave_delegators(d)
      PROVE  round' = round /\ DOMAIN CandidatePool' \subseteq Collators
  BY <1>1 DEF schedule_leave_delegators, cancel_leave_delegators, execute_leave_delegators,
     UnchangedBySchedule
<1> QED BY <1>1, CandidateCalls, DelegationCalls DEF Bonding

-----------------------------------------------------------------------------
(***************************************************************************)
(* The payouts.                                                            *)
(***************************************************************************)
\* Rounds have room for a payout of every collator that is selected.
RoundsType ==
  /\ round \in Nat \ {0} /\ age \in Nat /\ length \in Nat /\ TotalSelected \in Nat
  /\ TotalSelected < length
  /\ DOMAIN CandidatePool \subseteq Collators
  /\ AtStake = [r \in 1 .. MaxRound |-> AtStake[r]]
  /\ \A r \in 1 .. MaxRound : DOMAIN AtStake[r] \subseteq Collators
  /\ AwardedPts \in [1 .. MaxRound -> [Collators -> Nat]]
  /\ Points \in [1 .. MaxRound -> Nat]
  /\ DOMAIN DelayedPayouts \subseteq 1 .. MaxRound

\* The snapshot of a round that has started is smaller than a round is long.
Sized ==
  \A r \in 1 .. MaxRound : r <= round => Cardinality(DOMAIN AtStake[r]) < length

\* Until its payout is prepared, a round without points has no author.
Counted ==
  \A r \in 1 .. MaxRound :
    r > round - RewardPaymentDelay /\ Points[r] = 0 =>
      \A c \in Collators : AwardedPts[r][c] = 0

\* Nobody is left of the round r.
AllPaid(r) == \A c \in DOMAIN AtStake[r] : AwardedPts[r][c] = 0

\* The round that is paid now has enough blocks left for those who are not
\* paid yet.
EnoughBlocks ==
  \A r \in 1 .. MaxRound : r = round - RewardPaymentDelay =>
    IF r \in DOMAIN DelayedPayouts
    THEN DOMAIN AtStake[r] = {} \/ Cardinality(DOMAIN AtStake[r]) + age < length
    ELSE AllPaid(r)

PaidInv ==
  /\ RoundsType
  /\ Counted
  /\ ~shortened => Sized /\ EnoughBlocks
  /\ PaidInFull

\* A snapshot of collators is finite.
LEMMA FiniteCollators ==
  ASSUME NEW S, S \subseteq Collators
  PROVE  IsFiniteSet(S) /\ Cardinality(S) \in Nat
<1>1. IsFiniteSet(Collators)
  BY StakingAssumption, FS_Subset DEF Accounts
<1> QED BY <1>1, FS_Subset, FS_CardinalityType

\* A selection has no more collators than were asked for.
LEMMA SelectionSize ==
  ASSUME NEW pool, DOMAIN pool \subseteq Collators, NEW n \in Nat, NEW S, IsTop(pool, n, S)
  PROVE  S \subseteq Collators /\ Cardinality(S) <= n
<1>1. Cardinality(DOMAIN pool) \in Nat
  BY FiniteCollators
<1> QED BY <1>1 DEF IsTop

\* One payout takes one collator off the snapshot.
LEMMA PayFacts ==
  ASSUME NEW r, NEW c, PayCollator(r, c)
  PROVE  /\ AtStake' = [AtStake EXCEPT ![r] = Drop(@, c)]
         /\ DOMAIN CandidatePool' = DOMAIN CandidatePool
BY Zenon DEF PayCollator, PoolOf, bonding

\* The genesis.
LEMMA PaidInit == InitRewards => PaidInv
<1> SUFFICES ASSUME InitRewards PROVE PaidInv
  OBVIOUS
<1>1. /\ round = 1 /\ age = 0 /\ length \in Lengths /\ TotalSelected \in Selections
      /\ TotalSelected < length /\ shortened = FALSE
      /\ AwardedPts = [r \in 1 .. MaxRound |-> [c \in Collators |-> 0]]
      /\ Points = [r \in 1 .. MaxRound |-> 0]
      /\ DelayedPayouts = Empty
      /\ DOMAIN CandidatePool = DOMAIN GenesisBonds
  BY DEF InitRewards
<1>2. PICK S \in SUBSET DOMAIN GenesisBonds :
        /\ IsTop(CandidatePool, TotalSelected, S)
        /\ AtStake = [r \in 1 .. MaxRound |->
                        IF r = 1 THEN [c \in S |-> Snapshot(c)] ELSE Empty]
  BY DEF InitRewards
<1>3. /\ DOMAIN CandidatePool \subseteq Collators
      /\ length \in Nat /\ TotalSelected \in Nat /\ MaxRound \in Nat
      /\ RewardPaymentDelay \in Nat \ {0}
  BY <1>1, RewardsAssumption, StakingAssumption
<1>4. S \subseteq Collators /\ Cardinality(S) <= TotalSelected /\ Cardinality(S) \in Nat
  BY <1>2, <1>3, SelectionSize, FiniteCollators
<1>5. \A r \in 1 .. MaxRound : DOMAIN AtStake[r] = IF r = 1 THEN S ELSE {}
  BY <1>2 DEF Empty
<1>6. RoundsType
  <2>1. AtStake = [r \in 1 .. MaxRound |-> AtStake[r]]
    BY <1>2
  <2>2. \A r \in 1 .. MaxRound : DOMAIN AtStake[r] \subseteq Collators
    BY <1>4, <1>5
  <2>3. DOMAIN DelayedPayouts \subseteq 1 .. MaxRound
    BY <1>1 DEF Empty
  <2> QED BY <1>1, <1>3, <2>1, <2>2, <2>3 DEF RoundsType
<1>7. Counted
  BY <1>1 DEF Counted
<1>8. Sized
  <2>1. \A r \in 1 .. MaxRound : r <= round => DOMAIN AtStake[r] = S
    BY <1>1, <1>3, <1>5
  <2> QED BY <2>1, <1>1, <1>3, <1>4 DEF Sized
<1>9. EnoughBlocks /\ PaidInFull
  BY <1>1, <1>3 DEF EnoughBlocks, PaidInFull
<1> QED BY <1>6, <1>7, <1>8, <1>9 DEF PaidInv

\* What the settings of governance do to a round.
LEMMA GovernanceStep ==
  ASSUME PaidInv, Governance, UNCHANGED <<round, bonding, payouts>>
  PROVE  PaidInv'
<1>1. UNCHANGED <<round, CandidatePool, age, AtStake, AwardedPts, Points, DelayedPayouts>>
  BY DEF bonding, payouts
<1>2. RoundsType /\ Counted /\ PaidInFull /\ (~shortened => Sized /\ EnoughBlocks)
  BY DEF PaidInv
<1>3. /\ length' \in Nat /\ TotalSelected' \in Nat /\ TotalSelected' < length'
      /\ \/ length' = length /\ shortened' = shortened
         \/ shortened' = (shortened \/ length' < length)
  <2>1. length \in Nat /\ TotalSelected \in Nat /\ TotalSelected < length
    BY <1>2 DEF RoundsType
  <2>2. ASSUME NEW n \in Selections, set_total_selected(n)
        PROVE  <1>3
    <3>1. n \in Nat /\ TotalSelected' = n /\ n < length /\ length' = length
      BY <2>2, RewardsAssumption DEF set_total_selected
    <3>2. shortened' = shortened
      BY <2>2 DEF set_total_selected
    <3> QED BY <2>1, <3>1, <3>2
  <2>3. ASSUME NEW n \in Lengths, set_blocks_per_round(n)
        PROVE  <1>3
    <3>1. n \in Nat /\ length' = n /\ n > TotalSelected /\ TotalSelected' = TotalSelected
      BY <2>3, RewardsAssumption DEF set_blocks_per_round
    <3>2. shortened' = (shortened \/ n < length)
      BY <2>3 DEF set_blocks_per_round
    <3>3. length' \in Nat /\ TotalSelected' \in Nat /\ TotalSelected' < length'
      BY <2>1, <3>1
    <3> QED BY <3>1, <3>2, <3>3
  <2>4. ASSUME \/ \E q \in Rates : \/ set_collator_commission(q)
                                   \/ set_parachain_bond_reserve_percent(q)
               \/ \E a \in {None, "treasury"} : set_parachain_bond_account(a)
        PROVE  <1>3
    <3>1. UNCHANGED <<length, TotalSelected, shortened>>
      BY <2>4 DEF set_collator_commission, set_parachain_bond_reserve_percent,
         set_parachain_bond_account
    <3> QED BY <2>1, <3>1
  <2> QED BY <2>2, <2>3, <2>4 DEF Governance
<1>4. RoundsType'
  BY <1>1, <1>2, <1>3 DEF RoundsType
<1>5. Counted'
  BY <1>1, <1>2 DEF Counted
<1>6. ~shortened' => ~shortened
  BY <1>3
<1>7. PaidInFull'
  BY <1>1, <1>2, <1>6 DEF PaidInFull
<1>8. ASSUME Sized, EnoughBlocks, ~(length' < length) PROVE Sized' /\ EnoughBlocks'
  <2>1. \A r \in 1 .. MaxRound : Cardinality(DOMAIN AtStake[r]) \in Nat
    BY <1>2, FiniteCollators DEF RoundsType
  <2>2. length \in Nat /\ length' \in Nat /\ age \in Nat
    BY <1>2, <1>3 DEF RoundsType
  <2> QED BY <1>1, <1>8, <2>1, <2>2 DEF Sized, EnoughBlocks, AllPaid
<1>9. length' = length => ~(length' < length)
  BY <1>2 DEF RoundsType
<1>10. ~shortened' => Sized' /\ EnoughBlocks'
  BY <1>2, <1>3, <1>6, <1>8, <1>9
<1> QED BY <1>4, <1>5, <1>7, <1>10 DEF PaidInv

\* What a call of a user does to it.
LEMMA BondingStep ==
  ASSUME PaidInv, Bonding, UNCHANGED <<payouts, config, shortened>>
  PROVE  PaidInv'
<1>1. round' = round /\ DOMAIN CandidatePool' \subseteq Collators
  BY BondingCalls DEF PaidInv, RoundsType
<1>2. UNCHANGED <<age, AtStake, AwardedPts, Points, DelayedPayouts, length, TotalSelected,
                  shortened>>
  BY DEF payouts, config
<1>3. RoundsType'
  BY <1>1, <1>2 DEF PaidInv, RoundsType
<1>4. Counted' /\ PaidInFull'
  BY <1>1, <1>2 DEF PaidInv, Counted, PaidInFull
<1>5. ~shortened' => Sized' /\ EnoughBlocks'
  BY <1>1, <1>2 DEF PaidInv, Sized, EnoughBlocks, AllPaid
<1> QED BY <1>3, <1>4, <1>5 DEF PaidInv

-----------------------------------------------------------------------------
(***************************************************************************)
(* Blocks.                                                                 *)
(***************************************************************************)
\* The points after a block.
Awarded(author) == [AwardedPts EXCEPT ![round][author] = @ + 20]

Pointed == [Points EXCEPT ![round] = @ + 20]

\* Points are only added in the current round, and to its author.
LEMMA PointsFacts ==
  ASSUME PaidInv, round < MaxRound, NEW author \in Collators
  PROVE  /\ round \in 1 .. MaxRound
         /\ Awarded(author) \in [1 .. MaxRound -> [Collators -> Nat]]
         /\ Pointed \in [1 .. MaxRound -> Nat]
         /\ Pointed[round] > 0
         /\ \A r \in 1 .. MaxRound : r # round =>
              Awarded(author)[r] = AwardedPts[r] /\ Pointed[r] = Points[r]
<1>1. /\ round \in 1 .. MaxRound /\ AwardedPts \in [1 .. MaxRound -> [Collators -> Nat]]
      /\ Points \in [1 .. MaxRound -> Nat]
  BY StakingAssumption DEF PaidInv, RoundsType
<1>2. Pointed \in [1 .. MaxRound -> Nat] /\ Pointed[round] > 0
  BY <1>1 DEF Pointed
<1>3. AwardedPts[round] \in [Collators -> Nat] /\ AwardedPts[round][author] + 20 \in Nat
  BY <1>1
<1>4. Awarded(author) \in [1 .. MaxRound -> [Collators -> Nat]]
  BY <1>1, <1>3 DEF Awarded
<1> QED BY <1>1, <1>2, <1>4 DEF Awarded, Pointed

\* The block that starts a round: who is left of the payouts of the last one
\* has no points, and the next payout begins with a full round ahead.
LEMMA RoundStep ==
  ASSUME PaidInv, round < MaxRound, NEW author \in Collators,
         age + 1 >= length, round' = round + 1, age' = 0,
         prepare_staking_payouts(round + 1, Pointed), select_top_candidates(round + 1),
         AwardedPts' = Awarded(author), Points' = Pointed,
         UNCHANGED <<bonding, config, shortened>>
  PROVE  PaidInv'
<1>0. /\ round \in Nat \ {0} /\ age \in Nat /\ length \in Nat /\ TotalSelected \in Nat
      /\ TotalSelected < length /\ MaxRound \in Nat /\ RewardPaymentDelay \in Nat \ {0}
      /\ DOMAIN CandidatePool \subseteq Collators
      /\ AtStake = [r \in 1 .. MaxRound |-> AtStake[r]]
      /\ \A r \in 1 .. MaxRound : DOMAIN AtStake[r] \subseteq Collators
      /\ DOMAIN DelayedPayouts \subseteq 1 .. MaxRound
  BY RewardsAssumption, StakingAssumption DEF PaidInv, RoundsType
<1>1. UNCHANGED <<CandidatePool, length, TotalSelected, shortened>>
  BY DEF bonding, config
<1>2. round + 1 \in 1 .. MaxRound
  BY <1>0
<1>3. /\ AtStake' = [r \in 1 .. MaxRound |-> AtStake'[r]]
      /\ \A r \in 1 .. MaxRound : r # round + 1 => AtStake'[r] = AtStake[r]
      /\ DOMAIN AtStake'[round + 1] \subseteq Collators
      /\ \/ Cardinality(DOMAIN AtStake'[round + 1]) <= TotalSelected
         \/ AtStake'[round + 1] = AtStake[round]
  <2> DEFINE now == round + 1
  <2>1. CASE \E S \in SUBSET DOMAIN CandidatePool :
               /\ IsTop(CandidatePool, TotalSelected, S)
               /\ AtStake' = [AtStake EXCEPT ![now] = [c \in S |-> Snapshot(c)]]
    <3>1. PICK S \in SUBSET DOMAIN CandidatePool :
               /\ IsTop(CandidatePool, TotalSelected, S)
               /\ AtStake' = [AtStake EXCEPT ![now] = [c \in S |-> Snapshot(c)]]
      BY <2>1
    <3>2. S \subseteq Collators /\ Cardinality(S) <= TotalSelected
      BY <1>0, <3>1, SelectionSize
    <3>3. DOMAIN AtStake'[now] = S
      BY <1>0, <1>2, <3>1
    <3>4. /\ AtStake' = [r \in 1 .. MaxRound |-> AtStake'[r]]
          /\ \A r \in 1 .. MaxRound : r # now => AtStake'[r] = AtStake[r]
      BY <1>0, <1>2, <3>1
    <3> QED BY <3>2, <3>3, <3>4
  <2>2. CASE AtStake' = [AtStake EXCEPT ![now] = AtStake[now - 1]]
    <3>1. now - 1 = round /\ round \in 1 .. MaxRound
      BY <1>0, <1>2
    <3>2. AtStake'[now] = AtStake[round]
      BY <1>0, <1>2, <2>2, <3>1
    <3>3. /\ AtStake' = [r \in 1 .. MaxRound |-> AtStake'[r]]
          /\ \A r \in 1 .. MaxRound : r # now => AtStake'[r] = AtStake[r]
      BY <1>0, <1>2, <2>2
    <3> QED BY <1>0, <3>1, <3>2, <3>3
  <2> QED BY <2>1, <2>2 DEF select_top_candidates
<1>4. /\ DOMAIN DelayedPayouts' \subseteq 1 .. MaxRound
      /\ LET p == round + 1 - RewardPaymentDelay
         IN  p \in 1 .. MaxRound /\ p \notin DOMAIN DelayedPayouts' => Pointed[p] = 0
  <2>1. round + 1 - RewardPaymentDelay <= MaxRound
    BY <1>0
  <2>2. CASE DelayedPayouts' = DelayedPayouts
    BY <1>0, <2>1, <2>2 DEF prepare_staking_payouts, Put
  <2>3. CASE round + 1 - RewardPaymentDelay > 0 /\ DelayedPayouts' # DelayedPayouts
    BY <1>0, <2>1, <2>3 DEF prepare_staking_payouts, Put
  <2> QED BY <1>0, <2>2, <2>3 DEF prepare_staking_payouts
<1>5. RoundsType'
  <2>1. /\ AwardedPts' \in [1 .. MaxRound -> [Collators -> Nat]]
        /\ Points' \in [1 .. MaxRound -> Nat]
    BY PointsFacts
  <2>2. \A r \in 1 .. MaxRound : DOMAIN AtStake'[r] \subseteq Collators
    BY <1>0, <1>3
  <2> QED BY <1>0, <1>1, <1>3, <1>4, <2>1, <2>2 DEF RoundsType
<1>6. ASSUME NEW r \in 1 .. MaxRound, r > round - RewardPaymentDelay, Points'[r] = 0,
             NEW c \in Collators
      PROVE  AwardedPts'[r][c] = 0
  <2>1. Counted
    BY DEF PaidInv
  <2>2. r # round
    BY <1>6, PointsFacts
  <2>3. Points[r] = 0 /\ AwardedPts'[r] = AwardedPts[r]
    BY <1>6, <2>2, PointsFacts
  <2> QED BY <1>6, <2>1, <2>3 DEF Counted
<1>7. Counted'
  BY <1>0, <1>6 DEF Counted
<1>8. ASSUME NEW r \in 1 .. MaxRound, r <= round
      PROVE  DOMAIN AtStake'[r] = DOMAIN AtStake[r]
  BY <1>0, <1>3, <1>8
<1>9. ASSUME ~shortened' PROVE Sized'
  <2>1. Sized /\ round \in 1 .. MaxRound
    BY <1>0, <1>1, <1>9 DEF PaidInv
  <2>2. \A r \in 1 .. MaxRound : Cardinality(DOMAIN AtStake'[r]) \in Nat
    BY <1>0, <1>3, FiniteCollators
  <2>3. Cardinality(DOMAIN AtStake'[round + 1]) < length
    BY <1>0, <1>2, <1>3, <2>1, <2>2 DEF Sized
  <2>4. ASSUME NEW r \in 1 .. MaxRound, r <= round
        PROVE  Cardinality(DOMAIN AtStake'[r]) < length
    BY <1>8, <2>1, <2>4 DEF Sized
  <2> QED BY <1>0, <1>1, <2>3, <2>4 DEF Sized
<1>10. ASSUME ~shortened' PROVE EnoughBlocks'
  <2> SUFFICES ASSUME NEW r \in 1 .. MaxRound, r = round' - RewardPaymentDelay
               PROVE  /\ r \in DOMAIN DelayedPayouts' =>
                           Cardinality(DOMAIN AtStake'[r]) + age' < length'
                      /\ r \notin DOMAIN DelayedPayouts' => AllPaid(r)'
    BY Zenon DEF EnoughBlocks
  <2>1. CASE r \in DOMAIN DelayedPayouts'
    <3>1. Cardinality(DOMAIN AtStake'[r]) < length'
      BY <1>0, <1>9, <1>10 DEF Sized
    <3>2. Cardinality(DOMAIN AtStake'[r]) \in Nat
      BY <1>5, FiniteCollators DEF RoundsType
    <3> QED BY <2>1, <3>1, <3>2, <1>0, <1>1
  <2>2. CASE r \notin DOMAIN DelayedPayouts'
    <3>1. Points'[r] = 0 /\ r > round - RewardPaymentDelay
      BY <1>0, <1>4, <2>2
    <3> QED BY <1>5, <1>6, <2>2, <3>1 DEF AllPaid, RoundsType
  <2> QED BY <2>1, <2>2
<1>11. PaidInFull'
  <2>1. ASSUME NEW r \in 1 .. MaxRound, r < round' - RewardPaymentDelay,
               EnoughBlocks,
               r < round - RewardPaymentDelay => \A c \in DOMAIN AtStake[r] : AwardedPts[r][c] = 0,
               NEW c \in DOMAIN AtStake'[r]
        PROVE  AwardedPts'[r][c] = 0
    <3>1. r <= round /\ r # round
      BY <1>0, <2>1
    <3>2. c \in DOMAIN AtStake[r] /\ AwardedPts'[r] = AwardedPts[r]
      BY <1>8, <2>1, <3>1, PointsFacts
    <3>3. CASE r < round - RewardPaymentDelay
      BY <2>1, <3>2, <3>3
    <3>4. CASE r = round - RewardPaymentDelay
      <4>1. Cardinality(DOMAIN AtStake[r]) \in Nat
        BY <1>0, FiniteCollators
      <4>2. /\ r \in DOMAIN DelayedPayouts =>
                 DOMAIN AtStake[r] = {} \/ Cardinality(DOMAIN AtStake[r]) + age < length
            /\ r \notin DOMAIN DelayedPayouts => AllPaid(r)
        BY <2>1, <3>4, Zenon DEF EnoughBlocks
      <4>3. Cardinality(DOMAIN AtStake[r]) + age < length => Cardinality(DOMAIN AtStake[r]) = 0
        BY <1>0, <4>1
      <4>4. Cardinality(DOMAIN AtStake[r]) = 0 => DOMAIN AtStake[r] = {}
        BY <1>0, FiniteCollators, FS_EmptySet
      <4> QED BY <3>2, <4>2, <4>3, <4>4 DEF AllPaid
    <3>5. r < round - RewardPaymentDelay \/ r = round - RewardPaymentDelay
      <4>1. r < round + 1 - RewardPaymentDelay
        BY <1>0, <2>1
      <4>2. r \in Int /\ round \in Int /\ RewardPaymentDelay \in Int
        BY <1>0
      <4> QED BY <4>1, <4>2
    <3> QED BY <3>3, <3>4, <3>5
  <2>2. PaidInFull /\ (~shortened => EnoughBlocks)
    BY DEF PaidInv
  <2> QED BY <1>1, <2>1, <2>2 DEF PaidInFull
<1> QED BY <1>5, <1>7, <1>9, <1>10, <1>11 DEF PaidInv

\* A block within a round: it pays one collator, or finds none left.
LEMMA PayoutStep ==
  ASSUME PaidInv, round < MaxRound, NEW author \in Collators,
         age + 1 < length, age' = age + 1,
         handle_delayed_payouts(Awarded(author), Pointed),
         UNCHANGED <<round, config, shortened>>
  PROVE  PaidInv'
<1> DEFINE p == round - RewardPaymentDelay
<1>0. /\ round \in Nat \ {0} /\ age \in Nat /\ length \in Nat /\ TotalSelected \in Nat
      /\ TotalSelected < length /\ MaxRound \in Nat /\ RewardPaymentDelay \in Nat \ {0}
      /\ DOMAIN CandidatePool \subseteq Collators
      /\ AtStake = [r \in 1 .. MaxRound |-> AtStake[r]]
      /\ \A r \in 1 .. MaxRound : DOMAIN AtStake[r] \subseteq Collators
      /\ DOMAIN DelayedPayouts \subseteq 1 .. MaxRound
  BY RewardsAssumption, StakingAssumption DEF PaidInv, RoundsType
<1>1. UNCHANGED <<length, TotalSelected>>
  BY DEF config
<1>2. /\ p # round
      /\ Awarded(author) \in [1 .. MaxRound -> [Collators -> Nat]]
      /\ Pointed \in [1 .. MaxRound -> Nat] /\ Pointed[round] > 0
      /\ \A r \in 1 .. MaxRound : r # round =>
           Awarded(author)[r] = AwardedPts[r] /\ Pointed[r] = Points[r]
  BY <1>0, PointsFacts
<1>3. \A r \in 1 .. MaxRound : Cardinality(DOMAIN AtStake[r]) \in Nat
  BY <1>0, FiniteCollators
\* What all three cases have in common.
<1> DEFINE Common ==
      /\ DOMAIN CandidatePool' \subseteq Collators
      /\ AtStake' = [r \in 1 .. MaxRound |-> AtStake'[r]]
      /\ \A r \in 1 .. MaxRound : r # p => AtStake'[r] = AtStake[r]
      /\ \A r \in 1 .. MaxRound : DOMAIN AtStake'[r] \subseteq DOMAIN AtStake[r]
      /\ AwardedPts' \in [1 .. MaxRound -> [Collators -> Nat]]
      /\ \A r \in 1 .. MaxRound : r # p => AwardedPts'[r] = Awarded(author)[r]
      /\ Points' \in [1 .. MaxRound -> Nat]
      /\ \A r \in 1 .. MaxRound : r # p => Points'[r] = Pointed[r]
      /\ DOMAIN DelayedPayouts' \subseteq 1 .. MaxRound
<1>4. ASSUME Common, ~shortened => EnoughBlocks' PROVE PaidInv'
  <2>1. \A r \in 1 .. MaxRound : DOMAIN AtStake'[r] \subseteq Collators
    BY <1>0, <1>4
  <2>2. RoundsType'
    BY <1>0, <1>1, <1>4, <2>1 DEF RoundsType
  <2>3. ASSUME NEW r \in 1 .. MaxRound, r > p, Points'[r] = 0, NEW c \in Collators
        PROVE  AwardedPts'[r][c] = 0
    <3>1. r # p /\ Pointed[r] = 0 /\ r # round
      BY <1>0, <1>2, <1>4, <2>3
    <3>2. Points[r] = 0 /\ AwardedPts'[r] = AwardedPts[r]
      BY <1>2, <1>4, <3>1
    <3>3. Counted
      BY DEF PaidInv
    <3> QED BY <2>3, <3>2, <3>3 DEF Counted
  <2>4. Counted'
    BY <1>0, <2>3 DEF Counted
  <2>5. ASSUME ~shortened PROVE Sized'
    <3>1. \A r \in 1 .. MaxRound :
            Cardinality(DOMAIN AtStake'[r]) <= Cardinality(DOMAIN AtStake[r])
      BY <1>0, <1>4, FiniteCollators, FS_Subset
    <3>2. \A r \in 1 .. MaxRound : Cardinality(DOMAIN AtStake'[r]) \in Nat
      BY <2>1, FiniteCollators
    <3> QED BY <1>0, <1>1, <1>3, <2>5, <3>1, <3>2 DEF PaidInv, Sized
  <2>6. PaidInFull'
    <3> SUFFICES ASSUME ~shortened, NEW r \in 1 .. MaxRound, r < p, NEW c \in DOMAIN AtStake'[r]
                 PROVE  AwardedPts'[r][c] = 0
      BY <1>0 DEF PaidInFull
    <3>1. r # p /\ r # round
      BY <1>0
    <3>2. AtStake'[r] = AtStake[r] /\ AwardedPts'[r] = AwardedPts[r]
      BY <1>2, <1>4, <3>1
    <3> QED BY <3>2 DEF PaidInv, PaidInFull
  <2> QED BY <1>4, <2>2, <2>4, <2>5, <2>6 DEF PaidInv
<1> HIDE DEF p
<1>p. p = round - RewardPaymentDelay
  BY DEF p
<1>5. CASE /\ p \notin DOMAIN DelayedPayouts
           /\ AwardedPts' = Awarded(author) /\ Points' = Pointed
           /\ UNCHANGED <<bonding, AtStake, DelayedPayouts, ledger>>
  <2>1. UNCHANGED <<CandidatePool, AtStake, DelayedPayouts>>
    BY <1>5 DEF bonding
  <2>2. Common
    BY <1>0, <1>2, <1>5, <2>1
  <2>3. ~shortened => EnoughBlocks'
    <3> SUFFICES ASSUME ~shortened, NEW r \in 1 .. MaxRound, r = p PROVE AllPaid(r)'
      BY <1>0, <1>5, <1>p, <2>1 DEF EnoughBlocks
    <3>1. AllPaid(r)
      BY <1>5, <1>p DEF PaidInv, EnoughBlocks
    <3>2. AtStake' = AtStake /\ AwardedPts'[r] = AwardedPts[r]
      BY <1>2, <1>5, <2>1
    <3> QED BY <3>1, <3>2 DEF AllPaid
  <2> QED BY <1>4, <2>2, <2>3
<1>6. ASSUME p \in DOMAIN DelayedPayouts, NEW c \in DOMAIN AtStake[p], PayCollator(p, c),
             AwardedPts' = [Awarded(author) EXCEPT ![p][c] = 0], Points' = Pointed,
             DelayedPayouts' = DelayedPayouts
      PROVE  PaidInv'
  <2>1. p \in 1 .. MaxRound /\ c \in Collators
    BY <1>0, <1>6
  <2>2. /\ AtStake' = [AtStake EXCEPT ![p] = Drop(@, c)]
        /\ DOMAIN CandidatePool' = DOMAIN CandidatePool
    BY <1>6, PayFacts
  <2>3. DOMAIN AtStake'[p] = DOMAIN AtStake[p] \ {c}
    BY <1>0, <2>1, <2>2 DEF Drop, Restrict
  <2>4. /\ AtStake' = [r \in 1 .. MaxRound |-> AtStake'[r]]
        /\ \A r \in 1 .. MaxRound : r # p => AtStake'[r] = AtStake[r]
    BY <1>0, <2>1, <2>2
  <2>5. Awarded(author)[p] \in [Collators -> Nat]
    BY <1>2, <2>1
  <2>6. /\ AwardedPts' \in [1 .. MaxRound -> [Collators -> Nat]]
        /\ \A r \in 1 .. MaxRound : r # p => AwardedPts'[r] = Awarded(author)[r]
    BY <1>2, <1>6, <2>1, <2>5
  <2>7. Common
    BY <1>0, <1>2, <1>6, <2>2, <2>3, <2>4, <2>6
  <2>8. Cardinality(DOMAIN AtStake'[p]) = Cardinality(DOMAIN AtStake[p]) - 1
    BY <1>0, <1>6, <2>1, <2>3, FiniteCollators, FS_RemoveElement
  <2>9. ~shortened => EnoughBlocks'
    BY <1>0, <1>1, <1>3, <1>6, <1>p, <2>1, <2>8 DEF PaidInv, EnoughBlocks
  <2> QED BY <1>4, <2>7, <2>9
<1>7. CASE /\ p \in DOMAIN DelayedPayouts /\ DOMAIN AtStake[p] = {}
           /\ DelayedPayouts' = Drop(DelayedPayouts, p)
           /\ Points' = [Pointed EXCEPT ![p] = 0]
           /\ AwardedPts' = Awarded(author)
           /\ UNCHANGED <<bonding, AtStake, ledger>>
  <2>1. CandidatePool' = CandidatePool /\ AtStake' = AtStake
    BY <1>7 DEF bonding
  <2>2. DOMAIN DelayedPayouts' = DOMAIN DelayedPayouts \ {p} /\ p \in 1 .. MaxRound
    BY <1>0, <1>7 DEF Drop, Restrict
  <2>3. Common
    BY <1>0, <1>2, <1>7, <2>1, <2>2
  <2>4. EnoughBlocks'
    BY <1>0, <1>7, <1>p, <2>1, <2>2 DEF EnoughBlocks, AllPaid
  <2> QED BY <1>4, <2>3, <2>4
<1> HIDE DEF Common
<1> QED BY <1>5, <1>6, <1>7, <1>p DEF handle_delayed_payouts

\* Every step keeps the invariant.
LEMMA PaidStep ==
  ASSUME PaidInv, [NextRewards]_rewardVars
  PROVE  PaidInv'
<1>1. ASSUME NEW c \in Collators, Block(c), round < MaxRound PROVE PaidInv'
  <2>1. UNCHANGED <<config, shortened>>
    BY <1>1 DEF Block
  <2>2. CASE /\ age + 1 >= length
             /\ round' = round + 1 /\ age' = 0
             /\ prepare_staking_payouts(round + 1, Pointed)
             /\ select_top_candidates(round + 1)
             /\ AwardedPts' = Awarded(c) /\ Points' = Pointed
             /\ UNCHANGED bonding
    BY <1>1, <2>1, <2>2, RoundStep
  <2>3. CASE /\ age + 1 < length
             /\ age' = age + 1
             /\ handle_delayed_payouts(Awarded(c), Pointed)
             /\ UNCHANGED <<round, SelectedCandidates>>
    BY <1>1, <2>1, <2>3, PayoutStep
  <2> QED BY <1>1, <2>2, <2>3 DEF Block, Awarded, Pointed
<1>2. CASE Governance /\ UNCHANGED payouts /\ UNCHANGED <<round, bonding>>
  BY <1>2, GovernanceStep
<1>3. CASE Bonding /\ UNCHANGED payouts /\ UNCHANGED <<config, shortened>>
  BY <1>3, BondingStep
<1>4. CASE UNCHANGED rewardVars
  <2>1. UNCHANGED <<round, CandidatePool, age, AtStake, AwardedPts, Points, DelayedPayouts,
                    length, TotalSelected, shortened>>
    BY <1>4 DEF rewardVars, payouts, config, bonding
  <2> QED BY <2>1 DEF PaidInv, RoundsType, Counted, Sized, EnoughBlocks, AllPaid, PaidInFull
<1> QED BY <1>1, <1>2, <1>3, <1>4 DEF NextRewards

\* Unless a round has been made shorter, no collator that has points is left
\* when the round of its payout ends, whatever is selected, delegated or set
\* meanwhile: set_total_selected and set_blocks_per_round keep a round longer
\* than the selection, an empty selection repeats a snapshot that is not paid
\* from yet, and a round without a payout has no points.
THEOREM AlwaysPaidInFull == SpecRewards => []PaidInFull
<1>1. PaidInv => PaidInFull
  BY DEF PaidInv
<1> QED BY <1>1, PaidInit, PaidStep, PTL DEF SpecRewards

-----------------------------------------------------------------------------
(***************************************************************************)
(* The payouts keep the books.                                             *)
(***************************************************************************)
IsAcc(acc) == DOMAIN acc = {"free", "lock", "books", "state", "total"}

\* The storage while a snapshot is paid: books, delegators and requests fit,
\* and no candidate comes, goes or changes its status.
Stored(acc) ==
  /\ IsAcc(acc)
  /\ Delegating(acc.state, DOMAIN acc.books) /\ Booked(acc.books, acc.state)
  /\ Requesting(Requests, acc.state)
  /\ DOMAIN acc.books = DOMAIN CandidateInfo
  /\ \A c \in DOMAIN CandidateInfo : acc.books[c].status = CandidateInfo[c].status

Minted(acc, d, due) == [acc EXCEPT !.free[d] = @ + due]

Relocked(acc, d, m) == [acc EXCEPT !.lock[d] = m]

Compounded(acc, c, k, d, s, more) ==
  [acc EXCEPT !.books[c] = k, !.state[d] = s, !.total = Plus(@, more)]

\* What the steps of mint_and_compound write.
LEMMA MintParts ==
  ASSUME NEW acc, IsAcc(acc), NEW d, NEW m
  PROVE  /\ IsAcc(Minted(acc, d, m))
         /\ Minted(acc, d, m).books = acc.books /\ Minted(acc, d, m).state = acc.state
         /\ IsAcc(Relocked(acc, d, m))
         /\ Relocked(acc, d, m).books = acc.books /\ Relocked(acc, d, m).state = acc.state
BY DEF Minted, Relocked, IsAcc

\* A percentage of a reward.
LEMMA CeilType ==
  ASSUME NEW p \in Nat, NEW x \in Nat
  PROVE  mul_ceil(p, x) \in Nat
<1>1. p * x \in Nat
  OBVIOUS
<1> QED BY <1>1 DEF mul_ceil

\* mint_and_compound only mints, or fails after the lock was set, or adds the
\* compounded stake to the delegation.
LEMMA MintCases ==
  ASSUME NEW acc, NEW c, NEW b, NEW due
  PROVE  LET d == b.owner
             m == mint_and_compound(c, acc, b, due)
             more == power(d, mul_ceil(b.auto_compound, due))
             s == acc.state[d]
             k == increase_delegation(acc.books[c], d, s.delegations[c], more)
             locked == Relocked(Minted(acc, d, due), d,
                                s.total.amount + mul_ceil(b.auto_compound, due))
         IN  \/ m = Minted(acc, d, due)
             \/ m = locked
             \/ /\ d \in DOMAIN acc.state /\ c \in DOMAIN s.delegations /\ ~RevokePending(c, d)
                /\ m = Compounded(locked, c, k, d, Raised(s, c, more), more)
BY Zenon DEF mint_and_compound, Minted, Relocked, Compounded, Raised

\* mint_and_compound keeps the books.
LEMMA MintStep ==
  ASSUME NEW acc, Stored(acc), NEW c, NEW b, b.auto_compound \in Nat, NEW due \in Nat
  PROVE  Stored(mint_and_compound(c, acc, b, due))
<1> DEFINE d == b.owner
           amount == mul_ceil(b.auto_compound, due)
           more == power(d, amount)
           s == acc.state[d]
           k == increase_delegation(acc.books[c], d, s.delegations[c], more)
           locked == Relocked(Minted(acc, d, due), d, s.total.amount + amount)
           m == mint_and_compound(c, acc, b, due)
<1>0. IsAcc(acc)
  BY DEF Stored
<1>1. /\ IsAcc(locked) /\ locked.books = acc.books /\ locked.state = acc.state
      /\ IsAcc(Minted(acc, d, due))
      /\ Minted(acc, d, due).books = acc.books /\ Minted(acc, d, due).state = acc.state
  <2> DEFINE y == Minted(acc, d, due)
  <2> HIDE DEF d, amount
  <2>1. IsAcc(y) /\ y.books = acc.books /\ y.state = acc.state
    BY <1>0, MintParts
  <2> HIDE DEF y
  <2>2. \A n : /\ IsAcc(Relocked(y, d, n)) /\ Relocked(y, d, n).books = y.books
               /\ Relocked(y, d, n).state = y.state
    BY <2>1, MintParts
  <2> QED BY <2>1, <2>2 DEF y
<1>2. \/ m = Minted(acc, d, due)
      \/ m = locked
      \/ /\ d \in DOMAIN acc.state /\ c \in DOMAIN s.delegations /\ ~RevokePending(c, d)
         /\ m = Compounded(locked, c, k, d, Raised(s, c, more), more)
  BY MintCases
<1> HIDE DEF m, locked
<1>3. CASE m = Minted(acc, d, due) \/ m = locked
  <2>1. IsAcc(m) /\ m.books = acc.books /\ m.state = acc.state
    BY <1>1, <1>3
  <2> QED BY <2>1 DEF Stored, m
<1>4. ASSUME d \in DOMAIN acc.state, c \in DOMAIN s.delegations, ~RevokePending(c, d),
             m = Compounded(locked, c, k, d, Raised(s, c, more), more)
      PROVE  Stored(m)
  <2>1. /\ IsAcc(m) /\ m.books = [acc.books EXCEPT ![c] = k]
        /\ m.state = [acc.state EXCEPT ![d] = Raised(s, c, more)]
    <3> DEFINE s2 == Raised(s, c, more)
    <3>0. m = Compounded(locked, c, k, d, s2, more)
      BY <1>4
    <3> HIDE DEF k, more, d, s, s2
    <3>1. /\ IsAcc(m) /\ m.books = [locked.books EXCEPT ![c] = k]
          /\ m.state = [locked.state EXCEPT ![d] = s2]
      BY <1>1, <3>0 DEF Compounded, IsAcc
    <3> QED BY <1>1, <3>1 DEF s2
  <2>2. /\ Has(acc.state, d, c) /\ d \in Accounts /\ c \in DOMAIN acc.books
        /\ Delegating(acc.state, DOMAIN acc.books) /\ Booked(acc.books, acc.state)
        /\ Requesting(Requests, acc.state)
    BY <1>4, AccountsAre DEF Stored, Delegating, Has
  <2>3. Own(d, more)
    BY <2>2, CeilType, OwnPower
  <2>4. Written(acc.state, m.state, d, Raised(s, c, more))
    BY <1>4, <2>1 DEF Written
  <2>5. /\ DOMAIN m.books = DOMAIN acc.books /\ m.books[c] = k
        /\ \A e \in DOMAIN acc.books \ {c} : m.books[e] = acc.books[e]
    BY <2>1, <2>2
  <2>6. PICK kk, CI, CI2, DS, DS2, mm : /\ kk = k /\ CI = acc.books /\ CI2 = m.books
                                        /\ DS = acc.state /\ DS2 = m.state /\ mm = more
    OBVIOUS
  <2>10. /\ Delegating(DS, DOMAIN CI) /\ Booked(CI, DS) /\ Requesting(Requests, DS)
         /\ Has(DS, d, c) /\ Own(d, mm) /\ ~RevokePending(c, d)
         /\ kk = increase_delegation(CI[c], d, DS[d].delegations[c], mm)
         /\ DOMAIN CI2 = DOMAIN CI /\ CI2[c] = kk /\ \A e \in DOMAIN CI \ {c} : CI2[e] = CI[e]
         /\ Written(DS, DS2, d, Raised(DS[d], c, mm))
    BY <1>4, <2>2, <2>3, <2>4, <2>5, <2>6, Zenon
  <2> HIDE DEF more, k, s, d
  <2>7. /\ Delegating(DS2, DOMAIN CI2) /\ Booked(CI2, DS2) /\ Requesting(Requests, DS2)
        /\ SameCandidate(CI[c], kk)
    BY <2>10, RaisedAt
  <2>8. \A e \in DOMAIN CandidateInfo : m.books[e].status = CandidateInfo[e].status
    BY <2>2, <2>5, <2>6, <2>7 DEF Stored, SameCandidate
  <2>9. DOMAIN m.books = DOMAIN CandidateInfo
    BY <2>5 DEF Stored
  <2> QED BY <1>0, <2>1, <2>6, <2>7, <2>8, <2>9 DEF Stored
<1> QED BY <1>2, <1>3, <1>4 DEF m

\* The storage before the first delegation is paid, and after each.
LEMMA MintingIs ==
  ASSUME NEW c, NEW ds, NEW due, Len(due) \in Nat, NEW start
  PROVE  /\ Minting(c, ds, due, start)[0] = start
         /\ \A i \in 1 .. Len(due) :
              Minting(c, ds, due, start)[i]
                = IF due[i] = 0 THEN Minting(c, ds, due, start)[i - 1]
                  ELSE mint_and_compound(c, Minting(c, ds, due, start)[i - 1], ds[i], due[i])
<1> DEFINE n == Len(due)
           D(g, m) == g = [i \in 0 .. m |->
                             IF i = 0 THEN start
                             ELSE IF due[i] = 0 THEN g[i - 1]
                             ELSE mint_and_compound(c, g[i - 1], ds[i], due[i])]
           T == { m \in Nat : \E g : D(g, m) }
<1>1. Minting(c, ds, due, start) = CHOOSE g : D(g, n)
  BY Zenon DEF Minting
<1>0. n \in Nat
  OBVIOUS
<1> HIDE DEF n
<1>2. 0 \in T
  <2>1. D([i \in 0 .. 0 |-> start], 0)
    OBVIOUS
  <2> QED BY <2>1
<1>3. ASSUME NEW m \in Nat, m \in T PROVE m + 1 \in T
  <2>1. PICK g : D(g, m)
    BY <1>3
  <2> DEFINE Nth(x, i) == IF due[i] = 0 THEN x ELSE mint_and_compound(c, x, ds[i], due[i])
             h == [i \in 0 .. m + 1 |-> IF i = m + 1 THEN Nth(g[m], m + 1) ELSE g[i]]
  <2>2. ASSUME NEW i \in 0 .. m + 1
        PROVE  h[i] = IF i = 0 THEN start ELSE Nth(h[i - 1], i)
    <3>0. \A j \in 0 .. m : g[j] = IF j = 0 THEN start ELSE Nth(g[j - 1], j)
      BY <2>1
    <3> HIDE DEF Nth
    <3>1. CASE i = m + 1
      BY <3>1
    <3>2. CASE i # m + 1
      <4>1. i \in 0 .. m /\ g[i] = IF i = 0 THEN start ELSE Nth(g[i - 1], i)
        BY <3>0, <3>2
      <4> QED BY <4>1
    <3> QED BY <3>1, <3>2
  <2>3. D(h, m + 1)
    BY <2>2
  <2> HIDE DEF h
  <2> QED BY <2>3
<1>4. \E g : D(g, n)
  <2> HIDE DEF T
  <2>1. n \in T
    BY <1>0, <1>2, <1>3, SetInduction
  <2> QED BY <2>1 DEF T
<1>5. D(CHOOSE g : D(g, n), n)
  BY <1>4, Zenon
<1>6. PICK f : f = Minting(c, ds, due, start) /\ D(f, n)
  BY <1>1, <1>5, Zenon
<1>7. /\ f[0] = start
      /\ \A i \in 1 .. n : f[i] = IF due[i] = 0 THEN f[i - 1]
                                  ELSE mint_and_compound(c, f[i - 1], ds[i], due[i])
  BY <1>0, <1>6
<1> QED BY <1>6, <1>7, Zenon DEF n

\* All delegations of a snapshot are paid: the books are kept.
LEMMA MintingStep ==
  ASSUME NEW c, NEW ds, NEW due, Len(due) \in Nat,
         \A i \in 1 .. Len(due) : due[i] \in Nat /\ ds[i].auto_compound \in Nat,
         NEW start, Stored(start)
  PROVE  Stored(Minting(c, ds, due, start)[Len(due)])
<1> DEFINE n == Len(due)
           after == Minting(c, ds, due, start)
           T == { i \in Nat : i <= n => Stored(after[i]) }
<1>1. /\ after[0] = start
      /\ \A i \in 1 .. n : after[i] = IF due[i] = 0 THEN after[i - 1]
                                      ELSE mint_and_compound(c, after[i - 1], ds[i], due[i])
  BY MintingIs
<1> HIDE DEF after
<1>2. 0 \in T
  BY <1>1
<1>3. ASSUME NEW i \in Nat, i \in T PROVE i + 1 \in T
  <2> SUFFICES ASSUME i + 1 <= n PROVE Stored(after[i + 1])
    BY <1>3
  <2>1. Stored(after[i]) /\ i + 1 \in 1 .. n /\ (i + 1) - 1 = i
    BY <1>3
  <2>2. after[i + 1] = IF due[i + 1] = 0 THEN after[i]
                       ELSE mint_and_compound(c, after[i], ds[i + 1], due[i + 1])
    BY <1>1, <2>1
  <2>3. due[i + 1] \in Nat /\ ds[i + 1].auto_compound \in Nat
    BY <2>1
  <2> QED BY <2>1, <2>2, <2>3, MintStep
<1>4. n \in T
  <2> HIDE DEF T
  <2>1. Nat \subseteq T
    BY <1>2, <1>3, SetInduction
  <2> QED BY <2>1
<1> QED BY <1>4 DEF after

-----------------------------------------------------------------------------
(***************************************************************************)
(* Snapshots.                                                              *)
(***************************************************************************)
RewardedT == [owner : Accounts, stake : StakeT, auto_compound : Nat]

Shared(s) == s.total = Plus(s.stake, SumStakes(s.delegations))

Snapped(s) == s.stake \in StakeT /\ s.delegations \in Seq(RewardedT) /\ Shared(s)

\* Percentages are numbers.
Percentages(AC) ==
  /\ DOMAIN AC = Collators
  /\ \A c \in Collators : \A d \in DOMAIN AC[c] : AC[c][d] \in Nat

Compounding == Percentages(AutoCompounding)

\* The sum of stakes that are sums.
LEMMA SumOverPlus ==
  ASSUME NEW S, IsFiniteSet(S), NEW f, NEW g, NEW h,
         \A x \in S : f[x] \in StakeT /\ g[x] \in StakeT /\ h[x] = Plus(f[x], g[x])
  PROVE  SumOver(h, S) = Plus(SumOver(f, S), SumOver(g, S))
<1> DEFINE fa == [x \in S |-> f[x].amount]
           ga == [x \in S |-> g[x].amount]
           ha == [x \in S |-> h[x].amount]
           fp == [x \in S |-> f[x].power]
           gp == [x \in S |-> g[x].power]
           hp == [x \in S |-> h[x].power]
<1>1. \A x \in S : /\ h[x] \in StakeT
                   /\ fa[x] \in Nat /\ ga[x] \in Nat /\ ha[x] = fa[x] + ga[x]
                   /\ fp[x] \in Nat /\ gp[x] \in Nat /\ hp[x] = fp[x] + gp[x]
  BY StakeParts, PlusParts
<1>2. /\ SumOver(f, S) \in StakeT /\ SumOver(f, S).amount = Sum(fa, S)
      /\ SumOver(f, S).power = Sum(fp, S)
  BY <1>1, SumOverType
<1>3. /\ SumOver(g, S) \in StakeT /\ SumOver(g, S).amount = Sum(ga, S)
      /\ SumOver(g, S).power = Sum(gp, S)
  BY <1>1, SumOverType
<1>4. /\ SumOver(h, S) \in StakeT /\ SumOver(h, S).amount = Sum(ha, S)
      /\ SumOver(h, S).power = Sum(hp, S)
  BY <1>1, SumOverType
<1> HIDE DEF fa, ga, ha, fp, gp, hp
<1>5. Sum(ha, S) = Sum(fa, S) + Sum(ga, S)
  BY <1>1, SumPlus
<1>6. Sum(hp, S) = Sum(fp, S) + Sum(gp, S)
  BY <1>1, SumPlus
<1> QED BY <1>2, <1>3, <1>4, <1>5, <1>6, PlusParts, StakeParts

\* A bond of the top list is rewarded for what it is not leaving with.
LEMMA RewardableIs ==
  ASSUME BookInv, NEW c \in Collators, NEW b \in Held(DelegatorState, c)
  PROVE  /\ Rewardable(c, b) \in StakeT /\ Uncounted(c, b) \in StakeT
         /\ b.stake = Plus(Rewardable(c, b), Uncounted(c, b))
<1> DEFINE d == b.owner
           q == Requests[c][d]
<1>1. /\ Has(DelegatorState, d, c) /\ b = Bond(d, Stk(DelegatorState, d, c))
      /\ b.stake = Stk(DelegatorState, d, c)
  BY HeldIs DEF Bond
<1>2. Own(d, b.stake) /\ b.stake \in StakeT /\ d \in Accounts
  BY <1>1, AccountsAre DEF BookInv, Delegating, Kept, Has, Stk, Own
<1>3. ZeroStake \in StakeT /\ Plus(b.stake, ZeroStake) = b.stake /\ Plus(ZeroStake, b.stake) = b.stake
  <2>1. ZeroStake \in StakeT /\ ZeroStake.amount = 0 /\ ZeroStake.power = 0
    BY StakeParts DEF ZeroStake
  <2>2. b.stake.amount \in Nat /\ b.stake.power \in Nat
    BY <1>2, StakeParts
  <2> QED BY <1>2, <2>1, <2>2, PlusParts, StakeParts
<1>4. CASE d \notin DOMAIN Requests[c]
  <2>1. Rewardable(c, b) = b.stake /\ Uncounted(c, b) = ZeroStake
    BY <1>4 DEF Rewardable, Uncounted, RevokePending
  <2> QED BY <1>2, <1>3, <2>1
<1>5. CASE d \in DOMAIN Requests[c] /\ q.action = "Revoke"
  <2>1. Rewardable(c, b) = ZeroStake /\ Uncounted(c, b) = b.stake
    BY <1>5 DEF Rewardable, Uncounted, RevokePending
  <2> QED BY <1>2, <1>3, <2>1
<1>6. CASE d \in DOMAIN Requests[c] /\ q.action # "Revoke"
  <2>1. Rewardable(c, b) = Minus(b.stake, q.stake) /\ Uncounted(c, b) = q.stake
    BY <1>6 DEF Rewardable, Uncounted, RevokePending
  <2>2. Own(d, q.stake) /\ q.stake.amount <= b.stake.amount /\ q.stake \in StakeT
    BY <1>1, <1>6 DEF BookInv, Requesting, Asked, Own
  <2>3. Within(q.stake, b.stake)
    BY <1>2, <2>2, OwnOrder
  <2> QED BY <1>2, <2>1, <2>2, <2>3, MinusWithin, MinusParts
<1> QED BY <1>4, <1>5, <1>6

\* The shares of the snapshot of a candidate add up.
LEMMA SnapshotIs ==
  ASSUME BookInv, Compounding, NEW c, is_candidate(c)
  PROVE  Snapped(Snapshot(c))
<1> DEFINE k == CandidateInfo[c]
           ds == k.top.delegations
           n == Len(ds)
           f == [i \in 1 .. n |-> Rewardable(c, ds[i])]
           g == [i \in 1 .. n |-> Uncounted(c, ds[i])]
           h == [i \in 1 .. n |-> ds[i].stake]
           percent(d) == IF d \in DOMAIN AutoCompounding[c] THEN AutoCompounding[c][d] ELSE 0
           rs == [i \in 1 .. n |-> [owner |-> ds[i].owner, stake |-> Rewardable(c, ds[i]),
                                    auto_compound |-> percent(ds[i].owner)]]
<1>1. c \in Collators /\ BookOf(k, Held(DelegatorState, c))
  BY AtCandidate
<1>2. PICK T, B : Good(k, T, B) /\ T \cup B = Held(DelegatorState, c)
  BY <1>1 DEF BookOf
<1>3. /\ k.stake \in StakeT /\ Listing(ds, T) /\ k.total_stake_counted = Plus(k.stake, Weight(T))
      /\ SumStakes(ds) = Weight(T)
  BY <1>2, WeightList, BookParts DEF Good, TopHolds, Holds
<1>4. /\ ds \in Seq(BondT) /\ n \in Nat /\ DOMAIN ds = 1 .. n
      /\ \A i \in 1 .. n : ds[i] \in Held(DelegatorState, c) /\ ds[i] \in BondT
  BY <1>2, <1>3 DEF Listing
<1>5. Snapshot(c) = [stake |-> k.stake, delegations |-> rs,
                     total |-> Minus(k.total_stake_counted, SumOver(g, 1 .. n))]
  BY <1>4 DEF Snapshot
<1>6. \A i \in 1 .. n : /\ f[i] \in StakeT /\ g[i] \in StakeT /\ h[i] = Plus(f[i], g[i])
                        /\ ds[i].owner \in Accounts
  BY <1>1, <1>4, RewardableIs, DelegationsParts
<1>7. \A d : percent(d) \in Nat
  BY <1>1 DEF Compounding, Percentages
<1> HIDE DEF percent, ds, n
<1>8. rs \in Seq(RewardedT) /\ DOMAIN rs = 1 .. n /\ \A i \in 1 .. n : rs[i].stake = f[i]
  <2>1. \A i \in 1 .. n : rs[i] \in RewardedT /\ rs[i].stake = f[i]
    BY <1>6, <1>7 DEF RewardedT
  <2>2. rs = [i \in 1 .. n |-> rs[i]]
    OBVIOUS
  <2> HIDE DEF rs, f
  <2>3. rs \in Seq(RewardedT) /\ DOMAIN rs = 1 .. n
    <3>1. rs \in [1 .. n -> RewardedT]
      BY <2>1, <2>2
    <3> QED BY <1>4, <3>1
  <2> QED BY <2>1, <2>3
<1>9. SumStakes(ds) = SumOver(h, 1 .. n)
  BY <1>4 DEF SumStakes
<1>10. SumStakes(rs) = SumOver(f, 1 .. n)
  <2>1. SumStakes(rs) = SumOver([i \in 1 .. n |-> rs[i].stake], 1 .. n)
    BY <1>8 DEF SumStakes
  <2> DEFINE e == [i \in 1 .. n |-> rs[i].stake]
  <2>2. \A i \in 1 .. n : e[i] = f[i]
    BY <1>8
  <2> HIDE DEF e, f, rs
  <2>3. SumOver(e, 1 .. n) = SumOver(f, 1 .. n)
    BY <2>2, SumOverSame
  <2> QED BY <2>1, <2>3 DEF e
<1> HIDE DEF f, g, h, rs
<1>11. IsFiniteSet(1 .. n)
  BY <1>4, FS_Interval
<1>12. /\ SumOver(f, 1 .. n) \in StakeT /\ SumOver(g, 1 .. n) \in StakeT
       /\ SumOver(h, 1 .. n) = Plus(SumOver(f, 1 .. n), SumOver(g, 1 .. n))
  BY <1>6, <1>11, SumOverType, SumOverPlus
<1>13. Minus(k.total_stake_counted, SumOver(g, 1 .. n)) = Plus(k.stake, SumStakes(rs))
  <2>1. PICK a \in StakeT, u \in StakeT, v \in StakeT :
          a = k.stake /\ u = SumOver(f, 1 .. n) /\ v = SumOver(g, 1 .. n)
    BY <1>3, <1>12
  <2>2. k.total_stake_counted = Plus(a, Plus(u, v))
    BY <1>3, <1>9, <1>12, <2>1
  <2>3. Plus(a, Plus(u, v)) = Plus(Plus(a, u), v) /\ Plus(a, u) \in StakeT
    <3>1. /\ a.amount \in Nat /\ a.power \in Nat /\ u.amount \in Nat /\ u.power \in Nat
          /\ v.amount \in Nat /\ v.power \in Nat
      BY StakeParts
    <3>2. Plus(u, v) \in StakeT /\ Plus(u, v).amount = u.amount + v.amount
          /\ Plus(u, v).power = u.power + v.power
      BY PlusParts
    <3>3. Plus(a, u) \in StakeT /\ Plus(a, u).amount = a.amount + u.amount
          /\ Plus(a, u).power = a.power + u.power
      BY PlusParts
    <3>4. /\ Plus(a, Plus(u, v)) \in StakeT
          /\ Plus(a, Plus(u, v)).amount = a.amount + (u.amount + v.amount)
          /\ Plus(a, Plus(u, v)).power = a.power + (u.power + v.power)
      BY <3>2, PlusParts
    <3>5. /\ Plus(Plus(a, u), v) \in StakeT
          /\ Plus(Plus(a, u), v).amount = (a.amount + u.amount) + v.amount
          /\ Plus(Plus(a, u), v).power = (a.power + u.power) + v.power
      BY <3>3, PlusParts
    <3> QED BY <3>1, <3>3, <3>4, <3>5, StakeParts
  <2>4. Minus(Plus(Plus(a, u), v), v) = Plus(a, u)
    BY <2>3, PlusMinus
  <2> QED BY <1>10, <2>1, <2>2, <2>3, <2>4
<1> QED BY <1>3, <1>5, <1>8, <1>13 DEF Snapped, Shared

-----------------------------------------------------------------------------
(***************************************************************************)
(* The genesis.                                                            *)
(***************************************************************************)
GD == GenesisDelegations

GenesisT ==
  [delegator : Delegators \ DOMAIN GenesisBonds, target : DOMAIN GenesisBonds,
   amount : Nat \ {0}, percent : 0 .. 100]

\* The delegations of the genesis.
LEMMA GenesisFacts ==
  /\ GD \in Seq(GenesisT) /\ Len(GD) \in Nat /\ DOMAIN GD = 1 .. Len(GD)
  /\ \A i \in 1 .. Len(GD) :
       /\ GD[i].delegator \in Delegators \ DOMAIN GenesisBonds /\ GD[i].delegator \in Accounts
       /\ GD[i].target \in DOMAIN GenesisBonds /\ GD[i].target \in Collators
       /\ GD[i].amount \in Nat /\ GD[i].amount > 0 /\ GD[i].percent \in Nat
  /\ \A i, j \in 1 .. Len(GD) : GD[i].delegator = GD[j].delegator => i = j
<1>1. GD \in Seq(GenesisT) /\ Len(GD) \in Nat /\ DOMAIN GD = 1 .. Len(GD)
  BY GenesisAssumption DEF GD, GenesisT
<1>2. \A i \in 1 .. Len(GD) : GD[i] \in GenesisT
  BY <1>1
<1>3. \A x \in GenesisT :
        /\ x.delegator \in Delegators \ DOMAIN GenesisBonds
        /\ x.target \in DOMAIN GenesisBonds
        /\ x.amount \in Nat /\ x.amount > 0 /\ x.percent \in Nat
  BY DEF GenesisT
<1>4. DOMAIN GenesisBonds \subseteq Collators
  BY RewardsAssumption
<1>5. \A i, j \in 1 .. Len(GD) : GD[i].delegator = GD[j].delegator => i = j
  BY <1>1, GenesisAssumption DEF GD
<1> QED BY <1>1, <1>2, <1>3, <1>4, <1>5, AccountsAre

\* The bonds of the genesis.
LEMMA GenesisBondIs ==
  ASSUME NEW i \in 1 .. Len(GD)
  PROVE  LET s == power(GD[i].delegator, GD[i].amount)
         IN  /\ GenesisBond(GD[i]) = Bond(GD[i].delegator, s)
             /\ Own(GD[i].delegator, s) /\ s.amount = GD[i].amount
             /\ GenesisBond(GD[i]) \in BondT /\ GenesisBond(GD[i]).owner = GD[i].delegator
             /\ GenesisBond(GD[i]).stake = s
<1> DEFINE d == GD[i].delegator
           s == power(d, GD[i].amount)
<1>1. d \in Accounts /\ GD[i].amount \in Nat
  BY GenesisFacts
<1>2. Own(d, s) /\ s.amount = GD[i].amount /\ s \in StakeT
  BY <1>1, OwnPower DEF Own
<1>3. GenesisBond(GD[i]) = Bond(d, s)
  BY DEF GenesisBond
<1> HIDE DEF s, d
<1>4. Bond(d, s) \in BondT /\ Bond(d, s).owner = d /\ Bond(d, s).stake = s
  BY <1>1, <1>2, BondParts
<1> QED BY <1>2, <1>3, <1>4 DEF s, d

\* The book of a candidate before the first delegation and after each.
LEMMA GenesisBooksIs ==
  ASSUME NEW c
  PROVE  /\ GenesisBooks(c)[0] = NewBook(power(c, GenesisBonds[c]))
         /\ \A i \in 1 .. Len(GD) :
              GenesisBooks(c)[i] = IF GD[i].target # c THEN GenesisBooks(c)[i - 1]
                                   ELSE add_delegation(GenesisBooks(c)[i - 1], GenesisBond(GD[i]))
<1> DEFINE n == Len(GD)
           start == NewBook(power(c, GenesisBonds[c]))
           Nth(x, i) == IF GD[i].target # c THEN x ELSE add_delegation(x, GenesisBond(GD[i]))
           D(g, m) == g = [i \in 0 .. m |-> IF i = 0 THEN start ELSE Nth(g[i - 1], i)]
           T == { m \in Nat : \E g : D(g, m) }
<1>0. n \in Nat
  BY GenesisFacts
<1>1. GenesisBooks(c) = CHOOSE g : D(g, n)
  BY Zenon DEF GenesisBooks, GD
<1> HIDE DEF n, start, Nth
<1>2. 0 \in T
  <2>1. D([i \in 0 .. 0 |-> start], 0)
    OBVIOUS
  <2> QED BY <2>1
<1>3. ASSUME NEW m \in Nat, m \in T PROVE m + 1 \in T
  <2>1. PICK g : D(g, m)
    BY <1>3
  <2> DEFINE h == [i \in 0 .. m + 1 |-> IF i = m + 1 THEN Nth(g[m], m + 1) ELSE g[i]]
  <2>2. ASSUME NEW i \in 0 .. m + 1
        PROVE  h[i] = IF i = 0 THEN start ELSE Nth(h[i - 1], i)
    <3>1. CASE i = m + 1
      BY <3>1
    <3>2. CASE i # m + 1
      <4>1. i \in 0 .. m /\ g[i] = IF i = 0 THEN start ELSE Nth(g[i - 1], i)
        BY <2>1, <3>2
      <4> QED BY <4>1
    <3> QED BY <3>1, <3>2
  <2>3. D(h, m + 1)
    BY <2>2
  <2> HIDE DEF h
  <2> QED BY <2>3
<1>4. \E g : D(g, n)
  <2> HIDE DEF T
  <2>1. n \in T
    BY <1>0, <1>2, <1>3, SetInduction
  <2> QED BY <2>1 DEF T
<1>5. D(CHOOSE g : D(g, n), n)
  BY <1>4, Zenon
<1>6. PICK f : f = GenesisBooks(c) /\ D(f, n)
  BY <1>1, <1>5, Zenon
<1>7. /\ f[0] = start
      /\ \A i \in 1 .. n : f[i] = Nth(f[i - 1], i)
  BY <1>0, <1>6
<1> QED BY <1>6, <1>7, Zenon DEF n, start, Nth

\* A book with room takes a bond and kicks nobody.
LEMMA RoomLeft ==
  ASSUME NEW k, NEW S, BookOf(k, S), NEW b, Cardinality(S) < MaxTop + MaxBottom
  PROVE  CanAdd(k, b) /\ KickedBy(k, b) = None
<1>1. PICK T, B : Good(k, T, B) /\ T \cup B = S
  BY DEF BookOf
<1>2. /\ TopHolds(k, T) /\ BottomHolds(k, B) /\ Split(T, B) /\ Holds(k.top, T) /\ Holds(k.bottom, B)
      /\ k.bottom_capacity = Capacity(k.bottom, MaxBottom)
      /\ Cardinality(B) <= MaxBottom
  BY <1>1 DEF Good, TopHolds, BottomHolds, bottom_capacity, MaxBottom
<1>3. /\ IsFiniteSet(T) /\ IsFiniteSet(B) /\ Cardinality(T) \in Nat /\ Cardinality(B) \in Nat
      /\ Cardinality(B) = Len(k.bottom.delegations) /\ (B = {} <=> Cardinality(B) = 0)
  BY <1>2, HoldsEnds
<1>4. k.bottom_capacity = "Full" <=> Cardinality(B) = MaxBottom
  BY <1>2, MaxFacts, CapacityHolds
<1>5. Cardinality(B) # MaxBottom
  <2> SUFFICES ASSUME Cardinality(B) = MaxBottom PROVE FALSE
    OBVIOUS
  <2>1. Cardinality(T) = MaxTop
    BY <1>2, <1>3, MaxFacts DEF Split
  <2>2. T \cap B = {}
    BY <1>2 DEF Split, Owners
  <2>3. Cardinality(S) = Cardinality(T) + Cardinality(B)
    <3>1. Cardinality(T \cap B) = 0
      BY <2>2, FS_EmptySet
    <3>2. Cardinality(T \cup B) = Cardinality(T) + Cardinality(B) - Cardinality(T \cap B)
      BY <1>3, FS_Union
    <3>3. Cardinality(S) = Cardinality(T \cup B)
      BY <1>1
    <3> DEFINE t == Cardinality(T)
               u == Cardinality(T \cup B)
               v == Cardinality(T \cap B)
               w == Cardinality(B)
    <3>4. t \in Nat /\ w \in Nat /\ u = t + w - v /\ v = 0
      BY <1>3, <3>1, <3>2
    <3> HIDE DEF t, u, v, w
    <3>5. u = t + w
      BY <3>4
    <3> QED BY <3>3, <3>5 DEF t, u, w
  <2> QED BY <2>1, <2>3, MaxFacts
<1>6. ~BottomIsFull(k)
  BY <1>3, <1>5 DEF BottomIsFull, MaxBottom
<1> QED BY <1>4, <1>5, <1>6 DEF CanAdd, KickedBy

\* The delegations to c among the first i, and their bonds.
To(c, i) == {j \in 1 .. Len(GD) : j <= i /\ GD[j].target = c}

BondsTo(c, i) == {GenesisBond(GD[j]) : j \in To(c, i)}

\* One more delegation.
LEMMA ToMore ==
  ASSUME NEW c, NEW i \in Nat, i + 1 \in 1 .. Len(GD)
  PROVE  /\ GD[i + 1].target # c => To(c, i + 1) = To(c, i) /\ BondsTo(c, i + 1) = BondsTo(c, i)
         /\ GD[i + 1].target = c => /\ To(c, i + 1) = To(c, i) \cup {i + 1}
                                    /\ BondsTo(c, i + 1) = BondsTo(c, i) \cup {GenesisBond(GD[i + 1])}
         /\ i + 1 \notin To(c, i) /\ IsFiniteSet(To(c, i))
         /\ GD[i + 1].delegator \notin Owners(BondsTo(c, i))
<1>0. Len(GD) \in Nat
  BY GenesisFacts
<1>1. GD[i + 1].target # c => To(c, i + 1) = To(c, i)
  BY <1>0 DEF To
<1>2. GD[i + 1].target = c => To(c, i + 1) = To(c, i) \cup {i + 1}
  BY <1>0 DEF To
<1>3. i + 1 \notin To(c, i)
  BY DEF To
<1>4. IsFiniteSet(To(c, i))
  <2>1. IsFiniteSet(1 .. Len(GD))
    BY <1>0, FS_Interval
  <2> QED BY <2>1, FS_Subset DEF To
<1>5. GD[i + 1].delegator \notin Owners(BondsTo(c, i))
  <2> SUFFICES ASSUME NEW j \in To(c, i), GenesisBond(GD[j]).owner = GD[i + 1].delegator
               PROVE  FALSE
    BY DEF Owners, BondsTo
  <2>1. j \in 1 .. Len(GD) /\ j <= i
    BY DEF To
  <2>2. GD[j].delegator = GD[i + 1].delegator
    BY <2>1, GenesisBondIs
  <2>3. j = i + 1
    BY <2>1, <2>2, GenesisFacts
  <2> QED BY <1>0, <2>1, <2>3
<1> QED BY <1>1, <1>2, <1>3, <1>4, <1>5 DEF BondsTo

\* The book of a genesis candidate holds the delegations made to it.
LEMMA GenesisBookIs ==
  ASSUME NEW c \in DOMAIN GenesisBonds
  PROVE  /\ BookOf(GenesisBook(c), BondsTo(c, Len(GD))) /\ Backed(c, GenesisBook(c))
         /\ GenesisBook(c).status = "Active"
<1> DEFINE n == Len(GD)
           G == GenesisBooks(c)
           Fine(i) == /\ BookOf(G[i], BondsTo(c, i)) /\ Backed(c, G[i]) /\ G[i].status = "Active"
                      /\ IsFiniteSet(BondsTo(c, i))
                      /\ Cardinality(BondsTo(c, i)) = Cardinality(To(c, i))
           P == { i \in Nat : i <= n => Fine(i) }
<1>0. n \in Nat /\ c \in Collators /\ c \in Accounts /\ GenesisBonds[c] \in Nat
  BY GenesisFacts, RewardsAssumption, GenesisAssumption, AccountsAre
<1>1. /\ G[0] = NewBook(power(c, GenesisBonds[c]))
      /\ \A i \in 1 .. n : G[i] = IF GD[i].target # c THEN G[i - 1]
                                  ELSE add_delegation(G[i - 1], GenesisBond(GD[i]))
  BY GenesisBooksIs
<1> HIDE DEF G
<1>2. 0 \in P
  <2>1. To(c, 0) = {}
    BY <1>0 DEF To
  <2>2. BondsTo(c, 0) = {}
    BY <2>1 DEF BondsTo
  <2>3. BookOf(G[0], {}) /\ Backed(c, G[0])
    BY <1>0, <1>1, OwnPower, BookNew
  <2>4. G[0].status = "Active"
    BY <1>1 DEF NewBook
  <2>5. Fine(0)
    BY <2>1, <2>2, <2>3, <2>4, FS_EmptySet
  <2> QED BY <2>5
<1>3. ASSUME NEW i \in Nat, i \in P PROVE i + 1 \in P
  <2> SUFFICES ASSUME i + 1 <= n PROVE Fine(i + 1)
    BY <1>3
  <2>1. Fine(i) /\ i + 1 \in 1 .. n /\ (i + 1) - 1 = i
    BY <1>0, <1>3
  <2> DEFINE b == GenesisBond(GD[i + 1])
             S == BondsTo(c, i)
  <2>2. G[i + 1] = IF GD[i + 1].target # c THEN G[i] ELSE add_delegation(G[i], b)
    BY <1>1, <2>1
  <2>3. CASE GD[i + 1].target # c
    BY <2>1, <2>2, <2>3, ToMore
  <2>4. CASE GD[i + 1].target = c
    <3>1. /\ To(c, i + 1) = To(c, i) \cup {i + 1} /\ BondsTo(c, i + 1) = S \cup {b}
          /\ i + 1 \notin To(c, i) /\ IsFiniteSet(To(c, i))
          /\ GD[i + 1].delegator \notin Owners(S)
      BY <2>1, <2>4, ToMore
    <3>2. b \in BondT /\ b.owner = GD[i + 1].delegator
      BY <2>1, GenesisBondIs
    <3> HIDE DEF b
    <3>3. b \notin S
      BY <3>1, <3>2 DEF Owners
    <3>4. /\ IsFiniteSet(To(c, i + 1)) /\ Cardinality(To(c, i + 1)) = Cardinality(To(c, i)) + 1
      BY <3>1, FS_AddElement
    <3>5. IsFiniteSet(S \cup {b}) /\ Cardinality(S \cup {b}) = Cardinality(S) + 1
      BY <2>1, <3>3, FS_AddElement
    <3>6. Cardinality(To(c, i + 1)) <= MaxTop + MaxBottom
      <4> DEFINE U == {j \in 1 .. n : GD[j].target = c}
      <4>1. Cardinality(U) <= MaxTop + MaxBottom
        BY GenesisAssumption, GenesisFacts DEF GD, MaxTop, MaxBottom
      <4>2. IsFiniteSet(1 .. n)
        BY <1>0, FS_Interval
      <4>3. IsFiniteSet(U)
        BY <4>2, FS_Subset
      <4>4. Cardinality(To(c, i + 1)) <= Cardinality(U)
        BY <4>3, FS_Subset DEF To
      <4>5. Cardinality(U) \in Nat /\ Cardinality(To(c, i + 1)) \in Nat
        BY <3>4, <4>3, FS_CardinalityType
      <4> HIDE DEF U
      <4> QED BY <4>1, <4>4, <4>5, MaxFacts
    <3>7. Cardinality(S) \in Nat /\ Cardinality(S) < MaxTop + MaxBottom
      <4>1. Cardinality(S) \in Nat
        BY <2>1, FS_CardinalityType
      <4> QED BY <2>1, <3>4, <3>6, <4>1, MaxFacts
    <3>8. CanAdd(G[i], b) /\ KickedBy(G[i], b) = None
      BY <2>1, <3>7, RoomLeft
    <3>9. /\ BookOf(add_delegation(G[i], b), Leave(S, None) \cup {b})
          /\ SameCandidate(G[i], add_delegation(G[i], b))
      BY <2>1, <3>1, <3>2, <3>8, BookAdd
    <3>10. Leave(S, None) = S
      <4>1. \A e \in S : e.owner \in Accounts
        BY <2>1, BookOfFacts, DelegationsParts
      <4> QED BY <4>1, AccountsAre DEF Leave
    <3>11. Backed(c, G[i + 1]) /\ G[i + 1].status = "Active"
      BY <2>1, <2>2, <2>4, <3>9, BackedSame DEF SameCandidate
    <3> QED BY <2>1, <2>2, <2>4, <3>1, <3>4, <3>5, <3>9, <3>10, <3>11
  <2> QED BY <2>3, <2>4
<1>4. n \in P
  <2> HIDE DEF P
  <2>1. Nat \subseteq P
    BY <1>2, <1>3, SetInduction
  <2> QED BY <1>0, <2>1
<1> QED BY <1>4 DEF G, GenesisBook, GD

-----------------------------------------------------------------------------
(***************************************************************************)
(* The percentages.                                                        *)
(***************************************************************************)
\* Percentages that are changed at one candidate.
LEMMA PercentsChange ==
  ASSUME Compounding, NEW c \in Collators, NEW f, \A d \in DOMAIN f : f[d] \in Nat,
         AutoCompounding' = [AutoCompounding EXCEPT ![c] = f]
  PROVE  Compounding'
BY DEF Compounding, Percentages

\* A percentage is set or taken away.
LEMMA PercentsPut ==
  ASSUME Compounding, NEW c \in Collators, NEW d, NEW p \in Nat
  PROVE  /\ \A e \in DOMAIN Put(AutoCompounding[c], d, p) : Put(AutoCompounding[c], d, p)[e] \in Nat
         /\ \A e \in DOMAIN Drop(AutoCompounding[c], d) : Drop(AutoCompounding[c], d)[e] \in Nat
         /\ \A e \in DOMAIN Empty : Empty[e] \in Nat
BY DEF Compounding, Percentages, Put, Drop, Restrict, Empty

\* The calls keep the percentages.
LEMMA CompoundingStep ==
  ASSUME BookInv, Compounding, Bonding
  PROVE  Compounding'
<1>0. ASSUME AutoCompounding' = AutoCompounding PROVE Compounding'
  BY <1>0 DEF Compounding
<1>1. ASSUME NEW c \in Collators,
             \/ \E a \in Amounts : \/ join_candidates(c, a)
                                   \/ candidate_bond_more(c, a)
                                   \/ schedule_candidate_bond_less(c, a)
             \/ schedule_leave_candidates(c)
             \/ cancel_leave_candidates(c)
             \/ go_offline(c)
             \/ go_online(c)
             \/ execute_candidate_bond_less(c)
             \/ cancel_candidate_bond_less(c)
             \/ hotfix_remove_delegation_requests_exited_candidates(c)
      PROVE  AutoCompounding' = AutoCompounding
  BY <1>1, Zenon DEF join_candidates, candidate_bond_more, schedule_candidate_bond_less,
     schedule_leave_candidates, cancel_leave_candidates, go_offline, go_online, ChangeStatus,
     execute_candidate_bond_less, cancel_candidate_bond_less,
     hotfix_remove_delegation_requests_exited_candidates, bond_less
<1>2. ASSUME NEW c \in Collators, execute_leave_candidates(c) PROVE Compounding'
  <2>1. AutoCompounding' = [AutoCompounding EXCEPT ![c] = Empty]
    BY <1>2 DEF execute_leave_candidates
  <2>2. \A e \in DOMAIN Empty : Empty[e] \in Nat
    BY DEF Empty
  <2> QED BY <2>1, <2>2, PercentsChange
<1>3. ASSUME NEW d \in Delegators, NEW c \in Collators, NEW p \in Percents, NEW x, NEW f,
             f = IF p = 0 THEN Drop(AutoCompounding[c], x) ELSE Put(AutoCompounding[c], d, p),
             AutoCompounding' = [AutoCompounding EXCEPT ![c] = f]
      PROVE  Compounding'
  <2>0. p \in Nat
    BY StakingAssumption
  <2>1. \A e \in DOMAIN f : f[e] \in Nat
    BY <1>3, <2>0, PercentsPut
  <2> QED BY <1>3, <2>1, PercentsChange
<1>4. ASSUME NEW d \in Delegators, NEW c \in Collators, NEW a \in Amounts, NEW p \in Percents,
             delegate_with_auto_compound(d, c, a, p)
      PROVE  Compounding'
  <2>1. \E x : AutoCompounding' =
           [AutoCompounding EXCEPT ![c] =
              IF p = 0 THEN Drop(@, x) ELSE Put(@, d, p)]
    BY <1>4 DEF delegate_with_auto_compound
  <2> QED BY <1>3, <2>1
<1>5. ASSUME NEW d \in Delegators, NEW c \in Collators, NEW p \in Percents,
             set_auto_compound(d, c, p)
      PROVE  Compounding'
  BY <1>3, <1>5, Zenon DEF set_auto_compound
<1>6. ASSUME NEW d \in Delegators, NEW c \in Collators,
             \/ \E a \in Amounts : \/ delegator_bond_more(d, c, a)
                                   \/ schedule_delegator_bond_less(d, c, a)
             \/ schedule_revoke_delegation(d, c)
             \/ cancel_delegation_request(d, c)
      PROVE  AutoCompounding' = AutoCompounding
  BY <1>6, Zenon DEF delegator_bond_more, delegation_bond_more_without_event,
     schedule_delegator_bond_less, schedule_revoke_delegation, cancel_delegation_request,
     UnchangedBySchedule
<1>7. ASSUME NEW d \in Delegators, NEW c \in Collators, execute_delegation_request(d, c)
      PROVE  Compounding'
  <2>1. \/ AutoCompounding' = [AutoCompounding EXCEPT ![c] = Drop(@, d)]
        \/ AutoCompounding' = AutoCompounding
    BY <1>7 DEF execute_delegation_request, execute_revoke, execute_decrease
  <2> DEFINE f == Drop(AutoCompounding[c], d)
  <2>2. \A e \in DOMAIN f : f[e] \in Nat
    BY PercentsPut
  <2>3. CASE AutoCompounding' = [AutoCompounding EXCEPT ![c] = f]
    <3> HIDE DEF f
    <3> QED BY <2>2, <2>3, PercentsChange
  <2> QED BY <1>0, <2>1, <2>3
<1>8. ASSUME NEW d \in Delegators, schedule_leave_delegators(d) \/ cancel_leave_delegators(d)
      PROVE  AutoCompounding' = AutoCompounding
  BY <1>8 DEF schedule_leave_delegators, cancel_leave_delegators, UnchangedBySchedule
<1>9. ASSUME NEW d \in Delegators, execute_leave_delegators(d) PROVE Compounding'
  <2>1. AutoCompounding' =
          [c \in Collators |-> IF c \in DOMAIN DelegatorState[d].delegations
                               THEN Drop(AutoCompounding[c], d) ELSE AutoCompounding[c]]
    BY <1>9 DEF execute_leave_delegators
  <2>2. \A c \in Collators : \A e \in DOMAIN Drop(AutoCompounding[c], d) :
           Drop(AutoCompounding[c], d)[e] \in Nat
    BY PercentsPut
  <2> QED BY <2>1, <2>2 DEF Compounding, Percentages
<1> QED BY <1>0, <1>1, <1>2, <1>4, <1>5, <1>6, <1>7, <1>8, <1>9 DEF Bonding

-----------------------------------------------------------------------------
(***************************************************************************)
(* The books of the genesis.                                               *)
(***************************************************************************)
GDelegators == {x.delegator : x \in ToSet(GenesisDelegations)}

\* The delegation of a delegator of the genesis.
LEMMA GenesisOfIs ==
  /\ \A i \in 1 .. Len(GD) : GD[i].delegator \in GDelegators
  /\ \A d \in GDelegators : \E i \in 1 .. Len(GD) : d = GD[i].delegator /\ GenesisOf(d) = GD[i]
<1>1. ToSet(GenesisDelegations) = {GD[i] : i \in 1 .. Len(GD)}
  BY GenesisFacts DEF ToSet, GD
<1>2. ASSUME NEW d \in GDelegators
      PROVE  \E i \in 1 .. Len(GD) : d = GD[i].delegator /\ GenesisOf(d) = GD[i]
  <2>1. \E x \in ToSet(GenesisDelegations) : x.delegator = d
    BY DEF GDelegators
  <2>2. GenesisOf(d) \in ToSet(GenesisDelegations) /\ GenesisOf(d).delegator = d
    BY <2>1, Zenon DEF GenesisOf
  <2> QED BY <1>1, <2>2
<1> QED BY <1>1, <1>2 DEF GDelegators

\* The delegators of the genesis.
GState == [d \in GDelegators |-> NewDelegator(GenesisOf(d).target, power(d, GenesisOf(d).amount))]

\* The books, the pool and the requests at genesis.
LEMMA GenesisState ==
  ASSUME NEW d \in GDelegators
  PROVE  \E i \in 1 .. Len(GD) :
           LET s == power(d, GD[i].amount)
           IN  /\ d = GD[i].delegator /\ GState[d] = NewDelegator(GD[i].target, s)
               /\ Kept(d, GState[d]) /\ DOMAIN GState[d].delegations = {GD[i].target}
               /\ Stk(GState, d, GD[i].target) = s
               /\ GenesisBond(GD[i]) = Bond(d, s)
               /\ d \in Delegators /\ d \notin DOMAIN GenesisBonds
               /\ GD[i].target \in DOMAIN GenesisBonds
<1>1. PICK i \in 1 .. Len(GD) : d = GD[i].delegator /\ GenesisOf(d) = GD[i]
  BY GenesisOfIs
<1> DEFINE s == power(d, GD[i].amount)
           t == GD[i].target
<1>2. /\ d \in Delegators /\ d \notin DOMAIN GenesisBonds /\ d \in Accounts
      /\ t \in DOMAIN GenesisBonds /\ t \in Collators /\ GD[i].amount > 0
  BY <1>1, GenesisFacts
<1>3. GState[d] = NewDelegator(t, s)
  BY <1>1 DEF GState
<1>4. Own(d, s) /\ s.amount > 0 /\ GenesisBond(GD[i]) = Bond(d, s)
  BY <1>1, <1>2, GenesisBondIs
<1> HIDE DEF s, t
<1>5. /\ Kept(d, NewDelegator(t, s)) /\ DOMAIN NewDelegator(t, s).delegations = {t}
      /\ NewDelegator(t, s).delegations[t] = s
  BY <1>2, <1>4, KeptNew
<1>6. /\ d = GD[i].delegator /\ GState[d] = NewDelegator(t, s)
      /\ Kept(d, GState[d]) /\ DOMAIN GState[d].delegations = {t}
      /\ Stk(GState, d, t) = s
      /\ GenesisBond(GD[i]) = Bond(d, s)
      /\ d \in Delegators /\ d \notin DOMAIN GenesisBonds
      /\ t \in DOMAIN GenesisBonds
  BY <1>1, <1>2, <1>3, <1>4, <1>5 DEF Stk
<1> QED BY <1>6 DEF s, t

\* What is held at a candidate are the delegations made to it.
LEMMA GenesisHeld ==
  ASSUME NEW c
  PROVE  Held(GState, c) = BondsTo(c, Len(GD))
<1>0. Len(GD) \in Nat /\ DOMAIN GState = GDelegators
  BY GenesisFacts DEF GState
<1>1. ASSUME NEW b \in Held(GState, c) PROVE b \in BondsTo(c, Len(GD))
  <2>1. PICK d : Has(GState, d, c) /\ b = Bond(d, Stk(GState, d, c))
    BY HeldIs
  <2>2. d \in GDelegators /\ c \in DOMAIN GState[d].delegations
    BY <1>0, <2>1 DEF Has
  <2>3. PICK i \in 1 .. Len(GD) :
          /\ DOMAIN GState[d].delegations = {GD[i].target}
          /\ GenesisBond(GD[i]) = Bond(d, Stk(GState, d, GD[i].target))
    BY <2>2, GenesisState
  <2>4. c = GD[i].target /\ b = GenesisBond(GD[i])
    BY <2>1, <2>2, <2>3
  <2>5. i \in To(c, Len(GD))
    BY <1>0, <2>4 DEF To
  <2> QED BY <2>4, <2>5 DEF BondsTo
<1>2. ASSUME NEW b \in BondsTo(c, Len(GD)) PROVE b \in Held(GState, c)
  <2>1. PICK i \in To(c, Len(GD)) : b = GenesisBond(GD[i])
    BY DEF BondsTo
  <2>2. i \in 1 .. Len(GD) /\ GD[i].target = c
    BY DEF To
  <2> DEFINE d == GD[i].delegator
  <2>3. d \in GDelegators
    BY <2>2, GenesisOfIs
  <2>4. PICK j \in 1 .. Len(GD) :
          /\ d = GD[j].delegator
          /\ DOMAIN GState[d].delegations = {GD[j].target}
          /\ GenesisBond(GD[j]) = Bond(d, Stk(GState, d, GD[j].target))
    BY <2>3, GenesisState
  <2>5. j = i
    BY <2>2, <2>4, GenesisFacts
  <2>6. Has(GState, d, c) /\ b = Bond(d, Stk(GState, d, c))
    BY <1>0, <2>1, <2>2, <2>3, <2>4, <2>5 DEF Has
  <2> QED BY <2>6, HeldIs
<1> QED BY <1>1, <1>2

\* The genesis leaves the books in order.
LEMMA GenesisBookInv ==
  ASSUME InitRewards
  PROVE  BookInv /\ PoolInv /\ Compounding
<1>1. /\ round = 1
      /\ CandidateInfo = [c \in DOMAIN GenesisBonds |-> GenesisBook(c)]
      /\ CandidatePool = [c \in DOMAIN GenesisBonds |-> GenesisBook(c).total_stake_counted]
      /\ DelegatorState = GState
      /\ Requests = [c \in Collators |-> Empty]
  BY DEF InitRewards, GState, GDelegators
<1>2. /\ DOMAIN CandidateInfo = DOMAIN GenesisBonds /\ DOMAIN GenesisBonds \subseteq Collators
      /\ DOMAIN GState = GDelegators
  BY <1>1, RewardsAssumption DEF GState
<1>3. Delegating(DelegatorState, DOMAIN CandidateInfo)
  <2> SUFFICES ASSUME NEW d \in GDelegators
               PROVE  /\ d \in Delegators /\ Kept(d, GState[d]) /\ d \notin DOMAIN GenesisBonds
                      /\ DOMAIN GState[d].delegations # {}
                      /\ DOMAIN GState[d].delegations \subseteq DOMAIN GenesisBonds
    BY <1>1, <1>2 DEF Delegating
  <2>1. PICK i \in 1 .. Len(GD) :
          /\ Kept(d, GState[d]) /\ DOMAIN GState[d].delegations = {GD[i].target}
          /\ d \in Delegators /\ d \notin DOMAIN GenesisBonds
          /\ GD[i].target \in DOMAIN GenesisBonds
    BY GenesisState
  <2> QED BY <2>1
<1>4. Booked(CandidateInfo, DelegatorState)
  <2> SUFFICES ASSUME NEW c \in DOMAIN GenesisBonds
               PROVE  BookOf(GenesisBook(c), Held(GState, c)) /\ Backed(c, GenesisBook(c))
    BY <1>1, <1>2 DEF Booked
  <2> QED BY GenesisBookIs, GenesisHeld
<1>5. Requesting(Requests, DelegatorState)
  BY <1>1 DEF Requesting, Empty
<1>6. PoolInv
  <2>1. \A c \in DOMAIN GenesisBonds : GenesisBook(c).status = "Active"
    BY GenesisBookIs
  <2> QED BY <1>1, <2>1 DEF PoolInv, Pooled
<1>7. Compounding
  <2> DEFINE In(c) == {d \in GDelegators : GenesisOf(d).target = c /\ GenesisOf(d).percent # 0}
  <2>1. AutoCompounding = [c \in Collators |-> [d \in In(c) |-> GenesisOf(d).percent]]
    BY DEF InitRewards, GDelegators
  <2>2. \A d \in GDelegators : GenesisOf(d).percent \in Nat
    BY GenesisOfIs, GenesisFacts
  <2> QED BY <2>1, <2>2 DEF Compounding, Percentages
<1> QED BY <1>1, <1>3, <1>4, <1>5, <1>6, <1>7 DEF BookInv

-----------------------------------------------------------------------------
(***************************************************************************)
(* Shares.                                                                 *)
(***************************************************************************)
\* The quotient, rounded down.
LEMMA Quotient ==
  ASSUME NEW a \in Nat, NEW b \in Nat, b > 0
  PROVE  a \div b \in Nat /\ b * (a \div b) <= a
OBVIOUS

\* Quotients follow their dividends.
LEMMA QuotientMono ==
  ASSUME NEW a \in Nat, NEW c \in Nat, a <= c, NEW b \in Nat, b > 0
  PROVE  a \div b <= c \div b
OBVIOUS

\* The denominator of a Perbill is positive.
LEMMA AccuracyType == Accuracy \in Nat /\ Accuracy > 0
BY RewardsAssumption

\* A product of a per-thing exceeds the true product by half at most.
LEMMA PerbillIs ==
  ASSUME NEW p \in Nat, NEW x \in Nat
  PROVE  /\ Perbill(p, x) \in Nat
         /\ 2 * Accuracy * Perbill(p, x) <= 2 * (p * x) + Accuracy
         /\ p = 0 => Perbill(p, x) = 0
<1> DEFINE a == 2 * p * x + Accuracy - 1
           b == 2 * Accuracy
<1>0. Accuracy \in Nat /\ Accuracy > 0
  BY AccuracyType
<1>1. p * x \in Nat /\ 2 * p * x = 2 * (p * x)
  OBVIOUS
<1>2. a \in Nat /\ b \in Nat /\ b > 0 /\ a <= 2 * (p * x) + Accuracy
  BY <1>0, <1>1
<1>3. Perbill(p, x) = a \div b
  BY DEF Perbill, Times
<1>4. p = 0 => a = Accuracy - 1
  BY <1>0
<1>5. (Accuracy - 1) \div b = 0
  BY <1>0
<1> HIDE DEF a, b
<1>6. a \div b \in Nat /\ b * (a \div b) <= a
  BY <1>2, Quotient
<1>7. b * Perbill(p, x) <= 2 * (p * x) + Accuracy
  <2> DEFINE m == b * (a \div b)
  <2>1. m \in Nat
    BY <1>2, <1>6
  <2>2. m <= a
    BY <1>6
  <2> HIDE DEF m
  <2>3. m <= 2 * (p * x) + Accuracy
    BY <1>0, <1>1, <1>2, <2>1, <2>2
  <2> QED BY <1>3, <2>3 DEF m
<1> QED BY <1>3, <1>4, <1>5, <1>6, <1>7 DEF b

\* A larger amount gives no smaller a product.
LEMMA PerbillMono ==
  ASSUME NEW p \in Nat, NEW x \in Nat, NEW y \in Nat, x <= y
  PROVE  Perbill(p, x) <= Perbill(p, y)
<1> DEFINE a == 2 * p * x + Accuracy - 1
           c == 2 * p * y + Accuracy - 1
           b == 2 * Accuracy
<1>0. Accuracy \in Nat /\ Accuracy > 0
  BY AccuracyType
<1>1. p * x \in Nat /\ p * y \in Nat /\ p * x <= p * y
      /\ 2 * p * x = 2 * (p * x) /\ 2 * p * y = 2 * (p * y)
  BY MulMono
<1>2. a \in Nat /\ c \in Nat /\ b \in Nat /\ b > 0 /\ a <= c
  BY <1>0, <1>1
<1>3. Perbill(p, x) = a \div b /\ Perbill(p, y) = c \div b
  BY DEF Perbill, Times
<1> HIDE DEF a, b, c
<1> QED BY <1>2, <1>3, QuotientMono

\* A proportion is rounded down.
LEMMA RationalIs ==
  ASSUME NEW p \in Nat, NEW q \in Nat
  PROVE  /\ from_rational(p, q) \in Nat
         /\ p <= q => q * from_rational(p, q) <= p * Accuracy
         /\ q = 0 /\ p = 0 => from_rational(p, q) = 0
<1> DEFINE d == IF q = 0 THEN 1 ELSE q
           m == IF p > d THEN d ELSE p
<1>0. Accuracy \in Nat /\ Accuracy > 0
  BY AccuracyType
<1>1. d \in Nat /\ d > 0 /\ m \in Nat /\ (p <= q => m = p)
  OBVIOUS
<1>2. from_rational(p, q) = (m * Accuracy) \div d
  BY DEF from_rational
<1>3. (q # 0 => d = q) /\ (q = 0 /\ p = 0 => m = 0)
  OBVIOUS
<1> HIDE DEF d, m
<1>4. m * Accuracy \in Nat
  BY <1>0, <1>1
<1>5. (m * Accuracy) \div d \in Nat /\ d * ((m * Accuracy) \div d) <= m * Accuracy
  <2> DEFINE a == m * Accuracy
  <2>1. a \in Nat
    BY <1>4
  <2> HIDE DEF a
  <2>2. a \div d \in Nat /\ d * (a \div d) <= a
    BY <1>1, <2>1, Quotient
  <2> QED BY <2>2 DEF a
<1>6. ASSUME q = 0, p = 0 PROVE from_rational(p, q) = 0
  <2>1. m * Accuracy = 0
    BY <1>0, <1>3, <1>6
  <2>2. 0 \div d = 0
    BY <1>1
  <2> QED BY <1>2, <2>1, <2>2
<1>7. ASSUME p <= q PROVE q * from_rational(p, q) <= p * Accuracy
  <2>1. CASE q = 0
    <3>1. p = 0 /\ from_rational(p, q) = 0
      BY <1>6, <1>7, <2>1
    <3> QED BY <1>0, <2>1, <3>1
  <2>2. CASE q # 0
    BY <1>1, <1>2, <1>3, <1>5, <1>7, <2>2
  <2> QED BY <2>1, <2>2
<1> QED BY <1>2, <1>5, <1>6, <1>7

\* A share of p in q exceeds the true one by half at most.
LEMMA ShareIs ==
  ASSUME NEW p \in Nat, NEW q \in Nat, p <= q, NEW x \in Nat
  PROVE  LET s == Perbill(from_rational(p, q), x)
         IN  s \in Nat /\ (2 * q) * s <= (2 * x) * p + q
<1> DEFINE f == from_rational(p, q)
           s == Perbill(f, x)
           A == Accuracy
<1>0. A \in Nat /\ A > 0
  BY AccuracyType
<1>1. f \in Nat /\ q * f <= p * A
  BY RationalIs
<1> HIDE DEF f
<1>2. s \in Nat /\ 2 * A * s <= 2 * (f * x) + A
  BY <1>1, PerbillIs
<1> HIDE DEF s, A
<1>3. q * (2 * A * s) <= q * (2 * (f * x) + A)
  <2> DEFINE u == 2 * A * s
             v == 2 * (f * x) + A
  <2>1. u \in Nat /\ v \in Nat /\ u <= v
    BY <1>0, <1>1, <1>2
  <2> HIDE DEF u, v
  <2>2. q * u <= q * v
    BY <2>1, MulMono
  <2> QED BY <2>2 DEF u, v
<1>4. (q * f) * x <= (p * A) * x
  <2> DEFINE u == q * f
             v == p * A
  <2>1. u \in Nat /\ v \in Nat /\ u <= v
    BY <1>0, <1>1
  <2> HIDE DEF u, v
  <2>2. u * x <= v * x
    BY <2>1, MulMono
  <2> QED BY <2>2 DEF u, v
<1>5. A * ((2 * q) * s) <= A * ((2 * x) * p + q)
  BY <1>0, <1>1, <1>2, <1>3, <1>4
<1>6. (2 * q) * s \in Nat /\ (2 * x) * p + q \in Nat
  BY <1>2
<1>7. (2 * q) * s <= (2 * x) * p + q
  <2> DEFINE u == (2 * q) * s
             v == (2 * x) * p + q
  <2>1. u \in Nat /\ v \in Nat /\ A * u <= A * v
    BY <1>5, <1>6
  <2> HIDE DEF u, v
  <2>2. u <= v
    <3> SUFFICES ASSUME v + 1 <= u PROVE FALSE
      BY <2>1
    <3>1. A * (v + 1) <= A * u
      BY <1>0, <2>1, MulMono
    <3>2. A * (v + 1) = A * v + A /\ A * v \in Nat /\ A * u \in Nat
      BY <1>0, <2>1
    <3> QED BY <1>0, <2>1, <3>1, <3>2
  <2> QED BY <2>2 DEF u, v
<1> QED BY <1>2, <1>7 DEF s, f

-----------------------------------------------------------------------------
(***************************************************************************)
(* What is due for a collator of a round.                                  *)
(***************************************************************************)
PayoutT == [round_issuance : Nat, total_staking_reward : Nat, collator_commission : Nat]

PayoutCommission(p) == Perbill(p.collator_commission, p.round_issuance)

\* The parts of Due.
DuePaid(p, A, P) == Perbill(from_rational(A, P), p.total_staking_reward)

DueCommission(p, A, P) == Perbill(from_rational(A, P), PayoutCommission(p))

DueAmount(p, A, P) == SaturatingSub(DuePaid(p, A, P), DueCommission(p, A, P))

DueShare(s, w, x) == Perbill(from_rational(w.power, s.total.power), x)

\* The parts of what is due to a collator and its delegators.
LEMMA DueParts ==
  ASSUME NEW s, NEW p, NEW A, NEW P
  PROVE  LET x == DueAmount(p, A, P)
         IN  Due(s, p, A, P) = IF s.delegations = <<>>
                               THEN [collator |-> DuePaid(p, A, P), delegators |-> <<>>]
                               ELSE [collator |-> DueShare(s, s.stake, x) + DueCommission(p, A, P),
                                     delegators |-> [i \in DOMAIN s.delegations |->
                                                       DueShare(s, s.delegations[i].stake, x)]]
BY Zenon DEF Due, DuePaid, DueCommission, DueAmount, DueShare, PayoutCommission

\* The amounts these parts are made of.
LEMMA DueTypes ==
  ASSUME NEW p \in PayoutT, NEW A \in Nat, NEW P \in Nat
  PROVE  /\ p.round_issuance \in Nat /\ p.total_staking_reward \in Nat
         /\ p.collator_commission \in Nat
         /\ PayoutCommission(p) \in Nat /\ DuePaid(p, A, P) \in Nat
         /\ DueCommission(p, A, P) \in Nat /\ DueAmount(p, A, P) \in Nat
         /\ PayoutCommission(p) <= p.total_staking_reward =>
              /\ DueCommission(p, A, P) <= DuePaid(p, A, P)
              /\ DueAmount(p, A, P) = DuePaid(p, A, P) - DueCommission(p, A, P)
<1>1. /\ p.round_issuance \in Nat /\ p.total_staking_reward \in Nat
      /\ p.collator_commission \in Nat
  BY DEF PayoutT
<1>2. PayoutCommission(p) \in Nat
  BY <1>1, PerbillIs DEF PayoutCommission
<1>3. from_rational(A, P) \in Nat
  BY RationalIs
<1>4. DuePaid(p, A, P) \in Nat /\ DueCommission(p, A, P) \in Nat
  BY <1>1, <1>2, <1>3, PerbillIs DEF DuePaid, DueCommission
<1>5. DueAmount(p, A, P) \in Nat
  BY <1>4 DEF DueAmount, SaturatingSub
<1>6. ASSUME PayoutCommission(p) <= p.total_staking_reward
      PROVE  DueCommission(p, A, P) <= DuePaid(p, A, P)
  BY <1>1, <1>2, <1>3, <1>6, PerbillMono DEF DuePaid, DueCommission
<1>7. ASSUME PayoutCommission(p) <= p.total_staking_reward
      PROVE  DueAmount(p, A, P) = DuePaid(p, A, P) - DueCommission(p, A, P)
  BY <1>4, <1>6, <1>7 DEF DueAmount, SaturatingSub
<1> QED BY <1>1, <1>2, <1>4, <1>5, <1>6, <1>7

\* The stakes of a snapshot.
LEMMA SnappedParts ==
  ASSUME NEW s, Snapped(s)
  PROVE  /\ Len(s.delegations) \in Nat /\ DOMAIN s.delegations = 1 .. Len(s.delegations)
         /\ s.delegations = <<>> <=> Len(s.delegations) = 0
         /\ \A i \in 1 .. Len(s.delegations) :
              /\ s.delegations[i].stake \in StakeT /\ s.delegations[i].auto_compound \in Nat
              /\ s.delegations[i].stake.power \in Nat
         /\ s.stake.power \in Nat
         /\ s.total.power \in Nat
         /\ s.total.power = s.stake.power
              + Sum([i \in 1 .. Len(s.delegations) |-> s.delegations[i].stake.power],
                    1 .. Len(s.delegations))
         /\ s.stake.power <= s.total.power
         /\ \A i \in 1 .. Len(s.delegations) : s.delegations[i].stake.power <= s.total.power
<1> DEFINE ds == s.delegations
           n == Len(ds)
           f == [i \in 1 .. n |-> ds[i].stake]
           g == [i \in 1 .. n |-> ds[i].stake.power]
<1>1. s.stake \in StakeT /\ ds \in Seq(RewardedT) /\ s.total = Plus(s.stake, SumStakes(ds))
  BY DEF Snapped, Shared
<1>2. n \in Nat /\ DOMAIN ds = 1 .. n /\ (ds = <<>> <=> n = 0) /\ \A i \in 1 .. n : ds[i] \in RewardedT
  BY <1>1
<1>3. \A i \in 1 .. n : ds[i].stake \in StakeT /\ ds[i].auto_compound \in Nat
                        /\ ds[i].stake.power \in Nat
  BY <1>2, StakeParts DEF RewardedT
<1>4. SumStakes(ds) = SumOver(f, 1 .. n)
  BY <1>2 DEF SumStakes
<1> HIDE DEF n
<1>5. IsFiniteSet(1 .. n)
  BY <1>2, FS_Interval
<1>6. \A i \in 1 .. n : f[i] \in StakeT /\ f[i].power = g[i] /\ g[i] \in Nat
  BY <1>3
<1> HIDE DEF f, g
<1>7. /\ SumOver(f, 1 .. n) \in StakeT
      /\ SumOver(f, 1 .. n).power = Sum([x \in 1 .. n |-> f[x].power], 1 .. n)
  BY <1>5, <1>6, SumOverType
<1>8. Sum([x \in 1 .. n |-> f[x].power], 1 .. n) = Sum(g, 1 .. n)
  <2> DEFINE h == [x \in 1 .. n |-> f[x].power]
  <2>1. \A x \in 1 .. n : h[x] = g[x]
    BY <1>6
  <2> HIDE DEF h
  <2>2. Sum(h, 1 .. n) = Sum(g, 1 .. n)
    BY <2>1, SumSame
  <2> QED BY <2>2 DEF h
<1>9. /\ s.stake.power \in Nat /\ s.total.power \in Nat
      /\ s.total.power = s.stake.power + Sum(g, 1 .. n)
  BY <1>1, <1>4, <1>7, <1>8, PlusParts, StakeParts
<1>10. Sum(g, 1 .. n) \in Nat /\ \A i \in 1 .. n : g[i] <= Sum(g, 1 .. n)
  BY <1>5, <1>6, SumType, SumTerm
<1>11. s.stake.power <= s.total.power /\ \A i \in 1 .. n : g[i] <= s.total.power
  BY <1>6, <1>9, <1>10
<1>12. \A i \in 1 .. n : ds[i].stake.power <= s.total.power
  BY <1>11 DEF g
<1> QED BY <1>2, <1>3, <1>9, <1>11, <1>12 DEF n, g

\* Numbers are due, one for each delegation.
LEMMA DueType ==
  ASSUME NEW s, Snapped(s), NEW p \in PayoutT, NEW A \in Nat, NEW P \in Nat
  PROVE  LET due == Due(s, p, A, P)
         IN  /\ due.collator \in Nat
             /\ Len(due.delegators) = Len(s.delegations)
             /\ DOMAIN due.delegators = 1 .. Len(s.delegations)
             /\ \A i \in 1 .. Len(s.delegations) : due.delegators[i] \in Nat
<1> DEFINE x == DueAmount(p, A, P)
           n == Len(s.delegations)
           C == DueCommission(p, A, P)
           T == DuePaid(p, A, P)
           due == Due(s, p, A, P)
<1>1. /\ n \in Nat /\ DOMAIN s.delegations = 1 .. n /\ (s.delegations = <<>> <=> n = 0)
      /\ s.stake.power \in Nat /\ s.total.power \in Nat
      /\ \A i \in 1 .. n : s.delegations[i].stake.power \in Nat
  BY SnappedParts
<1>2. x \in Nat /\ C \in Nat /\ T \in Nat
  BY DueTypes
<1>3. due = IF s.delegations = <<>> THEN [collator |-> T, delegators |-> <<>>]
            ELSE [collator |-> DueShare(s, s.stake, x) + C,
                  delegators |-> [i \in DOMAIN s.delegations |-> DueShare(s, s.delegations[i].stake, x)]]
  BY DueParts
<1> HIDE DEF due, x, C, T, n
<1>4. \A w : w.power \in Nat => DueShare(s, w, x) \in Nat
  BY <1>1, <1>2, RationalIs, PerbillIs DEF DueShare
<1>5. CASE s.delegations = <<>>
  BY <1>1, <1>2, <1>3, <1>5 DEF due, n
<1>6. CASE s.delegations # <<>>
  <2>1. due.collator = DueShare(s, s.stake, x) + C
    BY <1>3, <1>6
  <2>2. due.delegators = [i \in 1 .. n |-> DueShare(s, s.delegations[i].stake, x)]
    BY <1>1, <1>3, <1>6
  <2>3. due.collator \in Nat
    BY <1>1, <1>2, <1>4, <2>1
  <2>4. \A i \in 1 .. n : due.delegators[i] \in Nat
    BY <1>1, <1>4, <2>2
  <2>5. Len(due.delegators) = n /\ DOMAIN due.delegators = 1 .. n
    <3>1. due.delegators \in Seq(Nat)
      <4>1. due.delegators = [i \in 1 .. n |-> due.delegators[i]]
        BY <2>2
      <4> QED BY <1>1, <2>4, <4>1
    <3>2. DOMAIN due.delegators = 1 .. n
      BY <2>2
    <3> QED BY <1>1, <3>1, <3>2
  <2> QED BY <2>3, <2>4, <2>5 DEF due, n
<1> QED BY <1>5, <1>6

\* Equal factors can be taken away.
LEMMA Cancel ==
  ASSUME NEW k \in Nat, k > 0, NEW u \in Nat, NEW v \in Nat, k * u <= k * v
  PROVE  u <= v
<1> SUFFICES ASSUME v + 1 <= u PROVE FALSE
  OBVIOUS
<1>1. k * (v + 1) <= k * u
  BY MulMono
<1>2. k * (v + 1) = k * v + k /\ k * v \in Nat /\ k * u \in Nat
  OBVIOUS
<1> QED BY <1>1, <1>2

\* The bound on the shares of the delegators and the one on that of the collator.
LEMMA SharesSum ==
  ASSUME NEW s \in Nat, NEW t \in Nat, NEW q \in Nat, NEW x \in Nat, NEW n \in Nat, NEW w \in Nat,
         NEW p0 \in Nat, NEW G \in Nat, NEW H \in Nat,
         s * (2 * q) <= G, G <= H + w * (2 * x), H <= n * q, q = p0 + w,
         (2 * q) * t <= (2 * x) * p0 + q
  PROVE  q * (2 * (t + s)) <= q * (2 * x + n + 1)
<1> DEFINE a == s * (2 * q)
           b == (2 * q) * t
           c == w * (2 * x)
           d == n * q
           e == (2 * x) * p0
           f == q * (2 * x)
<1>1. a \in Nat /\ b \in Nat /\ c \in Nat /\ d \in Nat /\ e \in Nat /\ f \in Nat
  BY MulNat
<1>2. e + c = f
  <2>1. \A y \in Nat : y * p0 + w * y = (p0 + w) * y
    OBVIOUS
  <2> QED BY <2>1
<1>3. a + b = q * (2 * (t + s))
  OBVIOUS
<1>4. f + d + q = q * (2 * x + n + 1)
  OBVIOUS
<1>5. a <= G /\ G <= H + c /\ H <= d /\ b <= e + q
  OBVIOUS
<1> HIDE DEF a, b, c, d, e, f
<1>6. a + b <= f + d + q
  BY <1>1, <1>2, <1>5
<1> QED BY <1>3, <1>4, <1>6

\* The shares of a snapshot exceed the amount by half a unit each at most.
LEMMA SharesBound ==
  ASSUME NEW n \in Nat, NEW pw, \A i \in 1 .. n : pw[i] \in Nat, NEW p0 \in Nat,
         NEW q \in Nat, q = p0 + Sum(pw, 1 .. n), NEW x \in Nat, NEW sh,
         \A i \in 1 .. n : sh[i] = Perbill(from_rational(pw[i], q), x)
  PROVE  LET s0 == Perbill(from_rational(p0, q), x)
         IN  /\ s0 \in Nat /\ Sum(sh, 1 .. n) \in Nat
             /\ 2 * (s0 + Sum(sh, 1 .. n)) <= 2 * x + n + 1
<1> DEFINE s0 == Perbill(from_rational(p0, q), x)
           N == 1 .. n
           S == Sum(sh, N)
           W == Sum(pw, N)
<1>1. IsFiniteSet(N) /\ Cardinality(N) = n
  BY FS_Interval
<1> HIDE DEF N
<1>2. W \in Nat /\ \A i \in N : pw[i] \in Nat /\ pw[i] <= W
  BY <1>1, SumType, SumTerm DEF N
<1>3. p0 <= q /\ \A i \in N : pw[i] <= q
  <2>1. q = p0 + W
    BY DEF N
  <2> HIDE DEF W
  <2> QED BY <1>2, <2>1
<1>4. s0 \in Nat /\ (2 * q) * s0 <= (2 * x) * p0 + q
  BY <1>3, ShareIs
<1>5. \A i \in N : sh[i] \in Nat /\ (2 * q) * sh[i] <= (2 * x) * pw[i] + q
  <2> SUFFICES ASSUME NEW i \in N
               PROVE  sh[i] \in Nat /\ (2 * q) * sh[i] <= (2 * x) * pw[i] + q
    OBVIOUS
  <2>1. sh[i] = Perbill(from_rational(pw[i], q), x) /\ pw[i] \in Nat /\ pw[i] <= q
    BY <1>2, <1>3 DEF N
  <2>2. PICK m \in Nat : m = pw[i]
    BY <2>1
  <2>y. PICK y : y = sh[i]
    OBVIOUS
  <2>3. m <= q /\ y = Perbill(from_rational(m, q), x)
    BY <2>1, <2>2, <2>y
  <2>4. y \in Nat /\ (2 * q) * y <= (2 * x) * m + q
    BY <2>3, ShareIs
  <2> QED BY <2>2, <2>y, <2>4
<1>6. S \in Nat
  BY <1>1, <1>5, SumType
<1> DEFINE g == [i \in N |-> (2 * x) * pw[i] + q]
           h == [i \in N |-> q]
<1>7. S * (2 * q) <= Sum(g, N)
  <2>1. \A i \in N : g[i] \in Nat /\ (2 * q) * sh[i] <= g[i]
    BY <1>2, <1>5
  <2> HIDE DEF g
  <2> DEFINE k == 2 * q
  <2>2. k \in Nat /\ \A i \in N : sh[i] \in Nat /\ g[i] \in Nat /\ k * sh[i] <= g[i]
    BY <1>5, <2>1
  <2> HIDE DEF k
  <2>3. S * k <= Sum(g, N)
    BY <1>1, <2>2, SumMultiple
  <2> QED BY <2>3 DEF k
<1>8. Sum(g, N) <= Sum(h, N) + W * (2 * x)
  <2> DEFINE k == 2 * x
  <2>1. k \in Nat /\ \A i \in N : /\ g[i] \in Nat /\ h[i] \in Nat /\ pw[i] \in Nat
                                  /\ g[i] <= h[i] + k * pw[i]
    BY <1>2
  <2> HIDE DEF k, g, h
  <2>2. Sum(g, N) <= Sum(h, N) + Sum(pw, N) * k
    BY <1>1, <2>1, SumLinear
  <2> QED BY <2>2 DEF k
<1>9. Sum(h, N) <= n * q
  <2>1. \A i \in N : h[i] \in 0 .. q
    OBVIOUS
  <2> HIDE DEF h
  <2> QED BY <1>1, <2>1, SumBound
<1>10. Sum(g, N) \in Nat /\ Sum(h, N) \in Nat
  <2>0. \A m \in Nat : (2 * x) * m + q \in Nat
    OBVIOUS
  <2>1. \A i \in N : g[i] \in Nat /\ h[i] \in Nat
    BY <1>2, <2>0
  <2> HIDE DEF g, h
  <2> QED BY <1>1, <2>1, SumType
<1>11. q = p0 + W
  BY DEF N
<1>12. PICK G, H, w, s \in Nat : G = Sum(g, N) /\ H = Sum(h, N) /\ w = W /\ s = S
  BY <1>2, <1>6, <1>10
<1>13. PICK t \in Nat : t = s0
  BY <1>4
<1>14. /\ s * (2 * q) <= G /\ G <= H + w * (2 * x) /\ H <= n * q /\ q = p0 + w
       /\ (2 * q) * t <= (2 * x) * p0 + q
  BY <1>4, <1>7, <1>8, <1>9, <1>11, <1>12, <1>13
<1> HIDE DEF g, h, W, S, s0
<1>15. q * (2 * (t + s)) <= q * (2 * x + n + 1)
  BY <1>14, SharesSum
<1>16. CASE q > 0
  <2> DEFINE u == 2 * (t + s)
             v == 2 * x + n + 1
  <2>1. u \in Nat /\ v \in Nat /\ q * u <= q * v
    BY <1>15
  <2> HIDE DEF u, v
  <2>2. u <= v
    BY <1>16, <2>1, Cancel
  <2> QED BY <1>6, <1>4, <1>12, <1>13, <2>2 DEF u, v, S, s0, N
<1>17. CASE q = 0
  <2>1. p0 = 0 /\ \A i \in N : pw[i] = 0
    BY <1>2, <1>3, <1>17
  <2>2. from_rational(0, 0) = 0
    BY RationalIs
  <2>3. Perbill(0, x) = 0
    BY PerbillIs
  <2>4. t = 0
    BY <1>13, <1>17, <2>1, <2>2, <2>3 DEF s0
  <2>5. \A i \in N : sh[i] \in 0 .. 0
    BY <1>17, <2>1, <2>2, <2>3 DEF N
  <2>6. S <= n * 0
    BY <1>1, <2>5, SumBound DEF S
  <2>7. s = 0
    BY <1>12, <2>6
  <2>8. 2 * (t + s) <= 2 * x + n + 1
    BY <2>4, <2>7
  <2> QED BY <1>6, <1>4, <1>12, <1>13, <2>8 DEF S, s0, N
<1> QED BY <1>16, <1>17

\* What is paid for a collator with A of P points: its part of the reward, but for
\* the rounding.
LEMMA DueBound ==
  ASSUME NEW s, Snapped(s), NEW p \in PayoutT, NEW A \in Nat, NEW P \in Nat, A <= P,
         PayoutCommission(p) <= p.total_staking_reward
  PROVE  LET due == Due(s, p, A, P)
             W == due.collator + Sum(due.delegators, DOMAIN due.delegators)
         IN  /\ W \in Nat
             /\ (2 * P) * W <= (2 * p.total_staking_reward) * A + P * (2 + Len(due.delegators))
<1> DEFINE n == Len(s.delegations)
           N == 1 .. n
           x == DueAmount(p, A, P)
           C == DueCommission(p, A, P)
           T == DuePaid(p, A, P)
           due == Due(s, p, A, P)
           D == Sum(due.delegators, N)
           W == due.collator + D
           R == p.total_staking_reward
           pw == [i \in N |-> s.delegations[i].stake.power]
<1>1. /\ n \in Nat /\ DOMAIN s.delegations = N /\ (s.delegations = <<>> <=> n = 0)
      /\ s.stake.power \in Nat /\ s.total.power \in Nat
      /\ \A i \in N : s.delegations[i].stake.power \in Nat
      /\ s.total.power = s.stake.power + Sum(pw, N)
  BY SnappedParts
<1>2. x \in Nat /\ C \in Nat /\ T \in Nat /\ C <= T /\ x = T - C /\ R \in Nat
  BY DueTypes
<1>3. /\ due.collator \in Nat /\ Len(due.delegators) = n /\ DOMAIN due.delegators = N
      /\ \A i \in N : due.delegators[i] \in Nat
  BY DueType
<1>4. due = IF s.delegations = <<>> THEN [collator |-> T, delegators |-> <<>>]
            ELSE [collator |-> DueShare(s, s.stake, x) + C,
                  delegators |-> [i \in DOMAIN s.delegations |-> DueShare(s, s.delegations[i].stake, x)]]
  BY DueParts
<1>5. (2 * P) * T <= (2 * R) * A + P
  BY <1>2, ShareIs DEF DuePaid
<1> HIDE DEF due, x, C, T, n
<1>6. IsFiniteSet(N)
  <2>1. n \in Nat
    BY <1>1
  <2> QED BY <2>1, FS_Interval
<1>7. D \in Nat /\ W \in Nat
  <2>1. D \in Nat
    BY <1>3, <1>6, SumType
  <2> QED BY <1>3, <2>1
<1>8. 2 * W <= 2 * T + n + 1
  <2>1. CASE s.delegations = <<>>
    <3>1. n = 0 /\ due.collator = T
      BY <1>1, <1>4, <2>1
    <3>2. N = {}
      BY <3>1
    <3>3. D = 0
      BY <3>2, SumEmpty
    <3> QED BY <1>2, <3>1, <3>3
  <2>2. CASE s.delegations # <<>>
    <3>1. /\ due.collator = DueShare(s, s.stake, x) + C
          /\ \A i \in N : due.delegators[i] = DueShare(s, s.delegations[i].stake, x)
      BY <1>1, <1>4, <2>2
    <3> DEFINE s0 == DueShare(s, s.stake, x)
    <3>2. PICK q \in Nat, p0 \in Nat : q = s.total.power /\ p0 = s.stake.power
      BY <1>1
    <3>g. PICK sh, g : sh = due.delegators /\ g = pw
      OBVIOUS
    <3>3. /\ \A i \in 1 .. n : g[i] \in Nat
          /\ q = p0 + Sum(g, 1 .. n)
          /\ \A i \in 1 .. n : sh[i] = Perbill(from_rational(g[i], q), x)
          /\ s0 = Perbill(from_rational(p0, q), x)
      BY <1>1, <3>1, <3>2, <3>g DEF DueShare
    <3> HIDE DEF s0
    <3>4. s0 \in Nat /\ 2 * (s0 + Sum(sh, 1 .. n)) <= 2 * x + n + 1
      <4>1. n \in Nat /\ x \in Nat
        BY <1>1, <1>2
      <4> QED BY <3>3, <4>1, SharesBound
    <3>5. 2 * (s0 + D) <= 2 * x + n + 1
      BY <3>g, <3>4
    <3>6. W = s0 + C + D
      BY <3>1 DEF s0
    <3> HIDE DEF D, W
    <3> QED BY <1>1, <1>2, <1>7, <3>4, <3>5, <3>6
  <2> QED BY <2>1, <2>2
<1> HIDE DEF W, D
<1>9. (2 * P) * W <= (2 * R) * A + P * (2 + n)
  <2>1. P * (2 * W) <= P * (2 * T + n + 1)
    <3> DEFINE u == 2 * W
               v == 2 * T + n + 1
    <3>1. u \in Nat /\ v \in Nat /\ u <= v
      BY <1>1, <1>2, <1>7, <1>8
    <3> HIDE DEF u, v
    <3>2. P * u <= P * v
      BY <3>1, MulMono
    <3> QED BY <3>2 DEF u, v
  <2>2. /\ P * (2 * W) = (2 * P) * W
        /\ P * (2 * T + n + 1) = (2 * P) * T + P * n + P
        /\ P * (2 + n) = P + P + P * n
    BY <1>1, <1>2, <1>7
  <2>3. (2 * P) * W \in Nat /\ (2 * P) * T \in Nat /\ P * n \in Nat /\ (2 * R) * A \in Nat
    BY <1>1, <1>2, <1>7
  <2> QED BY <1>5, <2>1, <2>2, <2>3
<1> QED BY <1>3, <1>7, <1>9 DEF W, D, due, n

-----------------------------------------------------------------------------
(***************************************************************************)
(* The books, the snapshots and the payouts while rewards are paid.        *)
(***************************************************************************)
SnapsInv ==
  \A r \in 1 .. MaxRound : \A c \in DOMAIN AtStake[r] : Snapped(AtStake[r][c])

BondInfoT == [account : {None, "treasury"}, percent : Nat]

Settings == CollatorCommission \in Nat /\ ParachainBondInfo \in BondInfoT

PayoutsType == \A r \in DOMAIN DelayedPayouts : DelayedPayouts[r] \in PayoutT

StakedInv == BookInv /\ PoolInv /\ Compounding /\ SnapsInv /\ Settings /\ PayoutsType

\* The genesis.
LEMMA StakedInit ==
  ASSUME InitRewards
  PROVE  StakedInv
<1>1. BookInv /\ PoolInv /\ Compounding
  BY GenesisBookInv
<1>2. /\ CollatorCommission = GenesisCommission
      /\ ParachainBondInfo = [account |-> None, percent |-> GenesisReservePercent]
      /\ DelayedPayouts = Empty /\ DOMAIN CandidateInfo = DOMAIN GenesisBonds
  BY DEF InitRewards
<1>3. PICK S \in SUBSET DOMAIN GenesisBonds :
        AtStake = [r \in 1 .. MaxRound |-> IF r = 1 THEN [c \in S |-> Snapshot(c)] ELSE Empty]
  BY DEF InitRewards
<1>4. \A c \in S : Snapped(Snapshot(c))
  BY <1>1, <1>2, <1>3, SnapshotIs DEF is_candidate
<1>5. SnapsInv
  <2> SUFFICES ASSUME NEW r \in 1 .. MaxRound, NEW c \in DOMAIN AtStake[r]
               PROVE  Snapped(AtStake[r][c])
    BY DEF SnapsInv
  <2>1. AtStake[r] = IF r = 1 THEN [e \in S |-> Snapshot(e)] ELSE Empty
    BY <1>3
  <2>2. r = 1 /\ c \in S /\ AtStake[r][c] = Snapshot(c)
    BY <2>1 DEF Empty
  <2> QED BY <1>4, <2>2
<1>6. Settings /\ PayoutsType
  BY <1>2, RewardsAssumption DEF Settings, BondInfoT, PayoutsType, Empty
<1> QED BY <1>1, <1>5, <1>6 DEF StakedInv

\* The settings keep their types.
LEMMA SettingsStep ==
  ASSUME Settings, Governance
  PROVE  Settings'
<1>1. ASSUME UNCHANGED <<CollatorCommission, ParachainBondInfo>> PROVE Settings'
  BY <1>1 DEF Settings
<1>2. ASSUME NEW n \in Selections, set_total_selected(n) PROVE Settings'
  BY <1>1, <1>2 DEF set_total_selected
<1>3. ASSUME NEW n \in Lengths, set_blocks_per_round(n) PROVE Settings'
  BY <1>1, <1>3 DEF set_blocks_per_round
<1>4. ASSUME NEW p \in Rates, set_collator_commission(p) PROVE Settings'
  BY <1>4, RewardsAssumption DEF set_collator_commission, Settings
<1>5. ASSUME NEW p \in Rates, set_parachain_bond_reserve_percent(p) PROVE Settings'
  BY <1>5, RewardsAssumption DEF set_parachain_bond_reserve_percent, Settings, BondInfoT
<1>6. ASSUME NEW a \in {None, "treasury"}, set_parachain_bond_account(a) PROVE Settings'
  BY <1>6 DEF set_parachain_bond_account, Settings, BondInfoT
<1> QED BY <1>2, <1>3, <1>4, <1>5, <1>6 DEF Governance

\* What the storage is after the payout of a collator.
LEMMA PayStored ==
  ASSUME StakedInv, NEW r \in 1 .. MaxRound, r \in DOMAIN DelayedPayouts,
         NEW c \in DOMAIN AtStake[r], NEW A \in Nat, NEW P \in Nat, NEW start,
         IsAcc(start), start.books = CandidateInfo, start.state = DelegatorState
  PROVE  LET due == Due(AtStake[r][c], DelayedPayouts[r], A, P)
         IN  Stored(Minting(c, AtStake[r][c].delegations, due.delegators, start)
                      [Len(due.delegators)])
<1> DEFINE s == AtStake[r][c]
           due == Due(s, DelayedPayouts[r], A, P)
           ds == s.delegations
           g == due.delegators
<1>1. Snapped(s) /\ DelayedPayouts[r] \in PayoutT
  BY DEF StakedInv, SnapsInv, PayoutsType
<1> HIDE DEF s
<1>2. /\ Len(g) = Len(ds) /\ \A i \in 1 .. Len(ds) : g[i] \in Nat
  BY <1>1, DueType
<1>3. Len(ds) \in Nat /\ \A i \in 1 .. Len(ds) : ds[i].auto_compound \in Nat
  BY <1>1, SnappedParts
<1>4. Stored(start)
  BY DEF StakedInv, BookInv, Stored
<1> HIDE DEF g, ds
<1>5. Len(g) \in Nat /\ \A i \in 1 .. Len(g) : g[i] \in Nat /\ ds[i].auto_compound \in Nat
  BY <1>2, <1>3
<1>6. Stored(Minting(c, ds, g, start)[Len(g)])
  BY <1>4, <1>5, MintingStep
<1> QED BY <1>6 DEF g, ds, s

\* A payout keeps the books and the pool.
LEMMA PayStep ==
  ASSUME PaidInv, StakedInv, NEW r \in 1 .. MaxRound, r \in DOMAIN DelayedPayouts,
         NEW c \in DOMAIN AtStake[r], PayCollator(r, c), round' = round
  PROVE  BookInv' /\ PoolInv' /\ Compounding' /\ SnapsInv'
<1>0. /\ AtStake = [q \in 1 .. MaxRound |-> AtStake[q]]
      /\ AwardedPts[r][c] \in Nat /\ Points[r] \in Nat
  BY DEF PaidInv, RoundsType
<1>1. SnapsInv'
  <2>1. AtStake' = [AtStake EXCEPT ![r] = Drop(@, c)]
    BY PayFacts
  <2>2. /\ \A q \in 1 .. MaxRound : q # r => AtStake'[q] = AtStake[q]
        /\ AtStake'[r] = Drop(AtStake[r], c)
    BY <1>0, <2>1
  <2>3. \A e \in DOMAIN AtStake'[r] : e \in DOMAIN AtStake[r] /\ AtStake'[r][e] = AtStake[r][e]
    BY <2>2 DEF Drop, Restrict
  <2> QED BY <2>2, <2>3 DEF SnapsInv, StakedInv
<1>2. CASE UNCHANGED bonding
  <2>1. UNCHANGED <<CandidateInfo, CandidatePool, DelegatorState, Requests, AutoCompounding>>
    BY <1>2 DEF bonding
  <2> QED BY <1>1, <2>1 DEF StakedInv, BookInv, PoolInv, Compounding
<1>3. CASE AwardedPts[r][c] # 0
  <2> DEFINE due == Due(AtStake[r][c], DelayedPayouts[r], AwardedPts[r][c], Points[r])
             start == [free |-> [free EXCEPT ![c] = @ + due.collator],
                       lock |-> delegatorLock, books |-> CandidateInfo,
                       state |-> DelegatorState, total |-> Total]
             end == Minting(c, AtStake[r][c].delegations, due.delegators, start)
                      [Len(due.delegators)]
  <2>1. /\ CandidateInfo' = end.books /\ CandidatePool' = PoolOf(end.books)
        /\ DelegatorState' = end.state /\ Requests' = Requests
        /\ AutoCompounding' = AutoCompounding
    BY <1>3, Zenon DEF PayCollator
  <2>2. IsAcc(start) /\ start.books = CandidateInfo /\ start.state = DelegatorState
    BY DEF IsAcc
  <2> HIDE DEF start
  <2>3. Stored(end)
    BY <1>0, <2>2, PayStored
  <2> HIDE DEF end
  <2>4. BookInv'
    BY <2>1, <2>3 DEF Stored, BookInv, StakedInv
  <2>5. PoolInv'
    <3>1. /\ DOMAIN CandidatePool = {e \in DOMAIN CandidateInfo : CandidateInfo[e].status = "Active"}
          /\ \A e \in DOMAIN CandidatePool : CandidatePool[e] = CandidateInfo[e].total_stake_counted
      BY DEF StakedInv, PoolInv, Pooled
    <3>2. /\ DOMAIN CandidateInfo' = DOMAIN CandidateInfo
          /\ \A e \in DOMAIN CandidateInfo : CandidateInfo'[e].status = CandidateInfo[e].status
      BY <2>1, <2>3 DEF Stored
    <3>3. DOMAIN CandidatePool' = {e \in DOMAIN CandidateInfo' : CandidateInfo'[e].status = "Active"}
      BY <2>1, <3>1, <3>2 DEF PoolOf
    <3>4. ASSUME NEW e \in DOMAIN CandidatePool'
          PROVE  CandidatePool'[e] = CandidateInfo'[e].total_stake_counted
      <4> DEFINE k == CandidateInfo'[e]
      <4>1. e \in DOMAIN CandidatePool /\ k.status = "Active" /\ e \in DOMAIN CandidateInfo
        BY <2>1, <3>1, <3>3 DEF PoolOf
      <4>2. CandidatePool'[e] = PoolAfter(e, k)[e]
        BY <2>1, <4>1 DEF PoolOf
      <4> HIDE DEF k
      <4>3. PoolAfter(e, k)[e] = k.total_stake_counted
        BY <3>1, <4>1 DEF PoolAfter, update_active, Put
      <4> QED BY <4>2, <4>3 DEF k
    <3> QED BY <3>3, <3>4 DEF PoolInv, Pooled
  <2>6. Compounding'
    BY <2>1 DEF Compounding, StakedInv
  <2> QED BY <1>1, <2>4, <2>5, <2>6
<1> QED BY <1>2, <1>3 DEF PayCollator, bonding

\* What is fixed as the payout of a round.
LEMMA PreparedIs ==
  ASSUME Settings, NEW now, NEW points, prepare_staking_payouts(now, points)
  PROVE  LET r == now - RewardPaymentDelay
         IN  \/ UNCHANGED <<DelayedPayouts, ledger>>
             \/ /\ r > 0 /\ points[r] # 0
                /\ \E p \in PayoutT :
                     /\ DelayedPayouts' = Put(DelayedPayouts, r, p)
                     /\ ledger' = Put(ledger, r,
                                      [due |-> p.total_staking_reward, paid |-> 0, shares |-> 0,
                                       commission |-> PayoutCommission(p)])
<1> DEFINE r == now - RewardPaymentDelay
<1> SUFFICES ASSUME ~UNCHANGED <<DelayedPayouts, ledger>>
             PROVE  /\ r > 0 /\ points[r] # 0
                    /\ \E p \in PayoutT :
                         /\ DelayedPayouts' = Put(DelayedPayouts, r, p)
                         /\ ledger' = Put(ledger, r,
                                          [due |-> p.total_staking_reward, paid |-> 0, shares |-> 0,
                                           commission |-> PayoutCommission(p)])
  OBVIOUS
<1>1. r > 0 /\ points[r] # 0
  BY DEF prepare_staking_payouts
<1>2. PICK issuance \in Issuances :
        LET reserve == IF ParachainBondInfo.account = None THEN 0
                       ELSE Percent(ParachainBondInfo.percent, issuance)
            left    == SaturatingSub(issuance, reserve)
        IN  /\ DelayedPayouts' =
                 Put(DelayedPayouts, r,
                     [round_issuance |-> issuance,
                      total_staking_reward |-> left,
                      collator_commission |-> CollatorCommission])
            /\ ledger' = Put(ledger, r,
                             [due |-> left, paid |-> 0, shares |-> 0,
                              commission |-> Perbill(CollatorCommission, issuance)])
  BY DEF prepare_staking_payouts
<1> DEFINE reserve == IF ParachainBondInfo.account = None THEN 0
                      ELSE Percent(ParachainBondInfo.percent, issuance)
           left    == SaturatingSub(issuance, reserve)
           p == [round_issuance |-> issuance, total_staking_reward |-> left,
                 collator_commission |-> CollatorCommission]
<1>3. issuance \in Nat /\ CollatorCommission \in Nat /\ ParachainBondInfo.percent \in Nat
  BY RewardsAssumption DEF Settings, BondInfoT
<1>4. Percent(ParachainBondInfo.percent, issuance) \in Nat
  <2> DEFINE a == 2 * ParachainBondInfo.percent * issuance + 100 - 1
  <2>1. a \in Nat
    BY <1>3
  <2>2. Percent(ParachainBondInfo.percent, issuance) = a \div (2 * 100)
    BY DEF Percent, Times
  <2> HIDE DEF a
  <2> QED BY <2>1, <2>2
<1>5. left \in Nat
  <2>1. reserve \in Nat
    BY <1>4
  <2> HIDE DEF reserve
  <2> QED BY <1>3, <2>1 DEF SaturatingSub
<1>6. /\ DelayedPayouts' = Put(DelayedPayouts, r, p)
      /\ ledger' = Put(ledger, r, [due |-> left, paid |-> 0, shares |-> 0,
                                   commission |-> Perbill(CollatorCommission, issuance)])
  BY <1>2
<1> HIDE DEF left
<1>7. /\ p \in PayoutT /\ p.total_staking_reward = left /\ p.collator_commission = CollatorCommission
      /\ p.round_issuance = issuance
  BY <1>3, <1>5 DEF PayoutT
<1> HIDE DEF p
<1>8. ledger' = Put(ledger, r, [due |-> p.total_staking_reward, paid |-> 0, shares |-> 0,
                                commission |-> PayoutCommission(p)])
  BY <1>6, <1>7 DEF PayoutCommission
<1> QED BY <1>1, <1>6, <1>7, <1>8

\* The block that starts a round.
LEMMA StakedRound ==
  ASSUME PaidInv, StakedInv, round < MaxRound, round' = round + 1,
         prepare_staking_payouts(round + 1, Pointed), select_top_candidates(round + 1),
         UNCHANGED <<bonding, config>>
  PROVE  StakedInv'
<1>0. /\ round \in Nat \ {0} /\ MaxRound \in Nat /\ round + 1 \in 1 .. MaxRound
      /\ round \in 1 .. MaxRound
      /\ AtStake = [r \in 1 .. MaxRound |-> AtStake[r]]
  BY StakingAssumption DEF PaidInv, RoundsType
<1>1. UNCHANGED <<CandidateInfo, CandidatePool, DelegatorState, Requests, AutoCompounding,
                  CollatorCommission, ParachainBondInfo>>
  BY DEF bonding, config
<1>2. BookInv' /\ PoolInv' /\ Compounding' /\ Settings'
  BY <1>0, <1>1 DEF StakedInv, BookInv, PoolInv, Compounding, Settings
<1>3. PayoutsType'
  <2> DEFINE r == round + 1 - RewardPaymentDelay
  <2>1. CASE DelayedPayouts' = DelayedPayouts
    BY <2>1 DEF StakedInv, PayoutsType
  <2>2. CASE \E p \in PayoutT : DelayedPayouts' = Put(DelayedPayouts, r, p)
    BY <2>2 DEF StakedInv, PayoutsType, Put
  <2>3. Settings
    BY DEF StakedInv
  <2>4. DelayedPayouts' = DelayedPayouts \/ \E p \in PayoutT : DelayedPayouts' = Put(DelayedPayouts, r, p)
    <3>1. PICK now : now = round + 1
      OBVIOUS
    <3>2. prepare_staking_payouts(now, Pointed)
      BY <3>1
    <3>3. \/ DelayedPayouts' = DelayedPayouts
          \/ \E p \in PayoutT : DelayedPayouts' = Put(DelayedPayouts, now - RewardPaymentDelay, p)
      BY <2>3, <3>2, PreparedIs
    <3>4. now - RewardPaymentDelay = r
      BY <1>0, <3>1, RewardsAssumption
    <3> HIDE DEF r
    <3> QED BY <3>3, <3>4
  <2> QED BY <2>1, <2>2, <2>4
<1>4. SnapsInv'
  <2> DEFINE now == round + 1
  <2>1. CASE \E S \in SUBSET DOMAIN CandidatePool :
               AtStake' = [AtStake EXCEPT ![now] = [c \in S |-> Snapshot(c)]]
    <3>1. PICK S \in SUBSET DOMAIN CandidatePool :
               AtStake' = [AtStake EXCEPT ![now] = [c \in S |-> Snapshot(c)]]
      BY <2>1
    <3>2. \A c \in S : is_candidate(c)
      BY <3>1 DEF StakedInv, PoolInv, Pooled, is_candidate
    <3>3. \A c \in S : Snapped(Snapshot(c))
      BY <3>2, SnapshotIs DEF StakedInv
    <3>4. /\ \A r \in 1 .. MaxRound : r # now => AtStake'[r] = AtStake[r]
          /\ AtStake'[now] = [c \in S |-> Snapshot(c)]
      BY <1>0, <3>1
    <3> QED BY <3>3, <3>4 DEF StakedInv, SnapsInv
  <2>2. CASE AtStake' = [AtStake EXCEPT ![now] = AtStake[now - 1]]
    <3>1. now - 1 = round
      BY <1>0
    <3>2. /\ \A r \in 1 .. MaxRound : r # now => AtStake'[r] = AtStake[r]
          /\ AtStake'[now] = AtStake[round]
      BY <1>0, <2>2, <3>1
    <3> QED BY <1>0, <3>2 DEF StakedInv, SnapsInv
  <2> QED BY <2>1, <2>2 DEF select_top_candidates
<1> QED BY <1>2, <1>3, <1>4 DEF StakedInv

\* A block within a round.
LEMMA StakedBlock ==
  ASSUME PaidInv, StakedInv, NEW awarded, NEW points,
         handle_delayed_payouts(awarded, points), UNCHANGED <<round, config>>
  PROVE  StakedInv'
<1> DEFINE r == round - RewardPaymentDelay
<1>0. DOMAIN DelayedPayouts \subseteq 1 .. MaxRound
  BY DEF PaidInv, RoundsType
<1>1. Settings'
  BY DEF StakedInv, Settings, config
<1>2. ASSUME UNCHANGED <<bonding, AtStake>> PROVE BookInv' /\ PoolInv' /\ Compounding' /\ SnapsInv'
  <2>1. UNCHANGED <<CandidateInfo, CandidatePool, DelegatorState, Requests, AutoCompounding>>
    BY <1>2 DEF bonding
  <2> QED BY <1>2, <2>1 DEF StakedInv, BookInv, PoolInv, Compounding, SnapsInv
<1>3. CASE UNCHANGED <<bonding, AtStake, DelayedPayouts>>
  <2>1. PayoutsType'
    BY <1>3 DEF StakedInv, PayoutsType
  <2> QED BY <1>1, <1>2, <1>3, <2>1 DEF StakedInv
<1>4. CASE /\ r \in DOMAIN DelayedPayouts /\ DelayedPayouts' = DelayedPayouts
           /\ \E c \in DOMAIN AtStake[r] : PayCollator(r, c)
  <2>1. PayoutsType'
    BY <1>4 DEF StakedInv, PayoutsType
  <2>2. r \in 1 .. MaxRound
    BY <1>0, <1>4
  <2> HIDE DEF r
  <2>3. BookInv' /\ PoolInv' /\ Compounding' /\ SnapsInv'
    BY <1>4, <2>2, PayStep
  <2> QED BY <1>1, <2>1, <2>3 DEF StakedInv
<1>5. CASE UNCHANGED <<bonding, AtStake>> /\ DelayedPayouts' = Drop(DelayedPayouts, r)
  <2>1. PayoutsType'
    BY <1>5 DEF StakedInv, PayoutsType, Drop, Restrict
  <2> QED BY <1>1, <1>2, <1>5, <2>1 DEF StakedInv
<1> QED BY <1>3, <1>4, <1>5 DEF handle_delayed_payouts

\* Every step keeps the books, the snapshots and the payouts.
LEMMA StakedStep ==
  ASSUME PaidInv, StakedInv, [NextRewards]_rewardVars
  PROVE  StakedInv'
<1>1. ASSUME NEW c \in Collators, Block(c), round < MaxRound PROVE StakedInv'
  <2>1. UNCHANGED config
    BY <1>1 DEF Block
  <2>2. CASE /\ round' = round + 1
             /\ prepare_staking_payouts(round + 1, Pointed)
             /\ select_top_candidates(round + 1)
             /\ UNCHANGED bonding
    BY <1>1, <2>1, <2>2, StakedRound
  <2>3. CASE /\ handle_delayed_payouts(Awarded(c), Pointed)
             /\ UNCHANGED round
    BY <2>1, <2>3, StakedBlock
  <2> QED BY <1>1, <2>2, <2>3 DEF Block, Awarded, Pointed
<1>2. ASSUME UNCHANGED <<round, bonding, payouts>> PROVE Settings' => StakedInv'
  <2>1. UNCHANGED <<round, CandidateInfo, CandidatePool, DelegatorState, Requests,
                    AutoCompounding, AtStake, DelayedPayouts>>
    BY <1>2 DEF bonding, payouts
  <2> QED BY <2>1 DEF StakedInv, BookInv, PoolInv, Compounding, SnapsInv, PayoutsType
<1>3. CASE Governance /\ UNCHANGED payouts /\ UNCHANGED <<round, bonding>>
  BY <1>2, <1>3, SettingsStep DEF StakedInv
<1>4. CASE Bonding /\ UNCHANGED payouts /\ UNCHANGED <<config, shortened>>
  <2>1. BookInv' /\ Compounding'
    BY <1>4, BookStep, CompoundingStep DEF StakedInv
  <2>2. PoolInv'
    BY <1>4, PoolNext DEF StakedInv, Next
  <2>3. UNCHANGED <<AtStake, DelayedPayouts, CollatorCommission, ParachainBondInfo>>
    BY <1>4 DEF payouts, config
  <2>4. SnapsInv' /\ Settings' /\ PayoutsType'
    BY <2>3 DEF StakedInv, SnapsInv, Settings, PayoutsType
  <2> QED BY <2>1, <2>2, <2>4 DEF StakedInv
<1>5. CASE UNCHANGED rewardVars
  <2>1. UNCHANGED <<round, bonding, payouts>> /\ Settings'
    BY <1>5 DEF rewardVars, config, StakedInv, Settings
  <2> QED BY <1>2, <2>1
<1> QED BY <1>1, <1>3, <1>4, <1>5 DEF NextRewards

\* The books, the pool and the snapshots while rewards are paid.
LEMMA StakedAlways == SpecRewards => [](PaidInv /\ StakedInv)
<1>1. InitRewards => PaidInv /\ StakedInv
  BY PaidInit, StakedInit
<1>2. PaidInv /\ StakedInv /\ [NextRewards]_rewardVars => PaidInv' /\ StakedInv'
  BY PaidStep, StakedStep
<1> QED BY <1>1, <1>2, PTL DEF SpecRewards

\* In every snapshot that is still to be paid from (AtStake), the bond of the
\* collator and its rewardable delegations add up to the total that the shares are
\* computed against, whatever has been scheduled to leave when it was taken, and
\* although the payouts themselves go on compounding into the books.
THEOREM SharesAlwaysAddUp == SpecRewards => []SharesAddUp
<1>1. PaidInv /\ StakedInv => SharesAddUp
  BY DEF StakedInv, SnapsInv, Snapped, Shared, SharesAddUp
<1> QED BY <1>1, StakedAlways, PTL

\* The two records of a delegation still agree, the lists stay ordered and the pool is
\* current when a genesis has delegated, blocks are authored and rewards are compounded.
THEOREM PayoutsKeepBooks == SpecRewards => [](BooksAgree /\ BooksOrdered /\ PoolIsCurrent)
<1>1. StakedInv => BooksAgree /\ BooksOrdered
  BY BookInvAgree, BookInvOrdered DEF StakedInv
<1>2. StakedInv => PoolIsCurrent
  BY PoolCurrent DEF StakedInv
<1> QED BY <1>1, <1>2, StakedAlways, PTL

-----------------------------------------------------------------------------
(***************************************************************************)
(* What is paid for a round.                                               *)
(***************************************************************************)
LedgerT == [due : Nat, paid : Nat, shares : Nat, commission : Nat]

\* The entry l of a round whose payout p is not finished: S of its P points are
\* still to be paid for.
Fair(l, p, S, P) ==
  /\ P > 0 /\ S <= P
  /\ p.total_staking_reward = l.due /\ PayoutCommission(p) = l.commission
  /\ l.commission <= l.due => (2 * P) * l.paid + (2 * l.due) * S <= (2 * l.due) * P + P * l.shares

Bounded(l) == l.commission <= l.due => 2 * l.paid <= 2 * l.due + l.shares

\* An entry of the ledger consists of numbers.
LEMMA LedgerParts ==
  ASSUME NEW l \in LedgerT
  PROVE  l.due \in Nat /\ l.paid \in Nat /\ l.shares \in Nat /\ l.commission \in Nat
BY DEF LedgerT

\* What is paid for a round stays within its issuance, whatever is still to be paid.
LEMMA FairBound ==
  ASSUME NEW l \in LedgerT, NEW p, NEW S \in Nat, NEW P \in Nat, Fair(l, p, S, P)
  PROVE  Bounded(l)
<1> SUFFICES ASSUME l.commission <= l.due
             PROVE  2 * l.paid <= 2 * l.due + l.shares
  BY DEF Bounded
<1>1. PICK d \in Nat, w \in Nat, n \in Nat : d = l.due /\ w = l.paid /\ n = l.shares
  BY LedgerParts
<1>2. P > 0 /\ (2 * P) * w + (2 * d) * S <= (2 * d) * P + P * n
  BY <1>1 DEF Fair
<1>3. P * (2 * w) <= P * (2 * d + n)
  <2>1. (2 * P) * w \in Nat /\ (2 * d) * S \in Nat /\ (2 * d) * P + P * n \in Nat
    BY MulNat
  <2>2. (2 * P) * w <= (2 * d) * P + P * n
    BY <1>2, <2>1
  <2>3. (2 * P) * w = P * (2 * w) /\ (2 * d) * P + P * n = P * (2 * d + n)
    OBVIOUS
  <2> QED BY <2>2, <2>3
<1>4. 2 * w <= 2 * d + n
  <2> DEFINE u == 2 * w
             v == 2 * d + n
  <2>1. u \in Nat /\ v \in Nat /\ P * u <= P * v
    BY <1>3
  <2> HIDE DEF u, v
  <2>2. u <= v
    BY <1>2, <2>1, Cancel
  <2> QED BY <2>2 DEF u, v
<1> QED BY <1>1, <1>4

\* The payout of a round is prepared.
LEMMA FairNew ==
  ASSUME NEW p \in PayoutT, NEW S \in Nat, NEW P \in Nat, S <= P, P # 0,
         NEW l, l = [due |-> p.total_staking_reward, paid |-> 0, shares |-> 0,
                     commission |-> PayoutCommission(p)]
  PROVE  l \in LedgerT /\ Fair(l, p, S, P)
<1>1. p.total_staking_reward \in Nat /\ PayoutCommission(p) \in Nat
  BY DueTypes
<1>2. /\ l \in LedgerT /\ l.due = p.total_staking_reward /\ l.paid = 0 /\ l.shares = 0
      /\ l.commission = PayoutCommission(p)
  BY <1>1 DEF LedgerT
<1>3. PICK d \in Nat : d = l.due
  BY <1>1, <1>2
<1>4. (2 * P) * 0 + (2 * d) * S <= (2 * d) * P + P * 0
  <2>1. (2 * d) * S <= (2 * d) * P
    <3> DEFINE k == 2 * d
    <3>1. k \in Nat
      OBVIOUS
    <3> HIDE DEF k
    <3>2. k * S <= k * P
      BY <3>1, MulMono
    <3> QED BY <3>2 DEF k
  <2>2. (2 * P) * 0 = 0 /\ P * 0 = 0 /\ (2 * d) * S \in Nat /\ (2 * d) * P \in Nat
    BY MulNat
  <2> QED BY <2>1, <2>2
<1> QED BY <1>2, <1>3, <1>4 DEF Fair

\* A collator with A points is paid.
LEMMA FairPaid ==
  ASSUME NEW l \in LedgerT, NEW p \in PayoutT, NEW S \in Nat, NEW P \in Nat, Fair(l, p, S, P),
         NEW A \in Nat, A <= S, NEW s, Snapped(s), NEW due, due = Due(s, p, A, P), NEW l2,
         l2 \in LedgerT, l2.due = l.due, l2.commission = l.commission,
         l2.paid = l.paid + (due.collator + Sum(due.delegators, DOMAIN due.delegators)),
         l2.shares = l.shares + (2 + Len(due.delegators))
  PROVE  Fair(l2, p, S - A, P)
<1>0. /\ P > 0 /\ S <= P /\ A <= P
      /\ p.total_staking_reward = l.due /\ PayoutCommission(p) = l.commission
  BY DEF Fair
<1>1. S - A <= P
  BY <1>0
<1>2. ASSUME l.commission <= l.due
      PROVE  (2 * P) * l2.paid + (2 * l.due) * (S - A) <= (2 * l.due) * P + P * l2.shares
  <2> DEFINE W0 == due.collator + Sum(due.delegators, DOMAIN due.delegators)
             n0 == 2 + Len(due.delegators)
  <2>1. /\ W0 \in Nat
        /\ (2 * P) * W0 <= (2 * p.total_staking_reward) * A + P * n0
    BY <1>0, <1>2, DueBound
  <2>2. n0 \in Nat
    BY DueType, SnappedParts
  <2>3. PICK d \in Nat, w \in Nat, n \in Nat : d = l.due /\ w = l.paid /\ n = l.shares
    BY LedgerParts
  <2>4. PICK W \in Nat, m \in Nat : W = W0 /\ m = n0
    BY <2>1, <2>2
  <2>5. /\ (2 * P) * W <= (2 * d) * A + P * m
        /\ (2 * P) * w + (2 * d) * S <= (2 * d) * P + P * n
        /\ l2.paid = w + W /\ l2.shares = n + m
    BY <1>0, <1>2, <2>1, <2>3, <2>4 DEF Fair
  <2>6. (2 * P) * (w + W) + (2 * d) * (S - A) <= (2 * d) * P + P * (n + m)
    <3> DEFINE a == (2 * P) * W
               b == (2 * d) * A
               c == P * m
               e == (2 * P) * w
               f == (2 * d) * S
               g == (2 * d) * P
               h == P * n
    <3>1. a \in Nat /\ b \in Nat /\ c \in Nat /\ e \in Nat /\ f \in Nat /\ g \in Nat /\ h \in Nat
      BY MulNat
    <3>2. a <= b + c /\ e + f <= g + h
      BY <2>5
    <3>3. /\ (2 * P) * (w + W) = e + a /\ (2 * d) * (S - A) = f - b /\ P * (n + m) = h + c
      OBVIOUS
    <3> HIDE DEF a, b, c, e, f, h
    <3>4. (e + a) + (f - b) <= g + (h + c)
      <4> HIDE DEF g
      <4> QED BY <3>1, <3>2
    <3> QED BY <3>3, <3>4
  <2> QED BY <2>3, <2>5, <2>6
<1> QED BY <1>0, <1>1, <1>2 DEF Fair

\* The points of the collators of round r that are not paid for yet.
Unpaid(r) == Sum(AwardedPts[r], Collators)

\* No more points are awarded than are counted, until the payout is finished.
Awards ==
  \A r \in 1 .. MaxRound :
    r > round - RewardPaymentDelay \/ r \in DOMAIN DelayedPayouts => Unpaid(r) <= Points[r]

\* The payouts are those of rounds that are over, and are accounted for.
Accounted ==
  \A r \in DOMAIN DelayedPayouts :
    r < round /\ r \in DOMAIN ledger /\ Fair(ledger[r], DelayedPayouts[r], Unpaid(r), Points[r])

Booking == \A r \in DOMAIN ledger : ledger[r] \in LedgerT /\ Bounded(ledger[r])

LedgerInv == Awards /\ Accounted /\ Booking

\* The points of a round.
LEMMA UnpaidType ==
  ASSUME NEW f \in [Collators -> Nat]
  PROVE  /\ IsFiniteSet(Collators) /\ Sum(f, Collators) \in Nat
         /\ \A c \in Collators : f[c] <= Sum(f, Collators)
BY AccountsAre, SumType, SumTerm

\* A block adds to the points of its author and to those of the round alike.
LEMMA AwardedSum ==
  ASSUME PaidInv, round < MaxRound, NEW author \in Collators
  PROVE  /\ \A r \in 1 .. MaxRound : r # round =>
              Awarded(author)[r] = AwardedPts[r] /\ Pointed[r] = Points[r]
         /\ \A r \in 1 .. MaxRound :
              Unpaid(r) <= Points[r] => Sum(Awarded(author)[r], Collators) <= Pointed[r]
<1>1. /\ round \in 1 .. MaxRound /\ AwardedPts \in [1 .. MaxRound -> [Collators -> Nat]]
      /\ Points \in [1 .. MaxRound -> Nat]
  BY StakingAssumption DEF PaidInv, RoundsType
<1>2. \A r \in 1 .. MaxRound : r # round =>
              Awarded(author)[r] = AwardedPts[r] /\ Pointed[r] = Points[r]
  BY PointsFacts
<1>3. ASSUME Unpaid(round) <= Points[round]
      PROVE  Sum(Awarded(author)[round], Collators) <= Pointed[round]
  <2> DEFINE f == AwardedPts[round]
             g == Awarded(author)[round]
  <2>1. f \in [Collators -> Nat] /\ Pointed[round] = Points[round] + 20 /\ Points[round] \in Nat
    BY <1>1 DEF Pointed
  <2>2. g[author] = f[author] + 20 /\ \A c \in Collators \ {author} : g[c] = f[c]
    BY <1>1 DEF Awarded
  <2>3. Sum(f, Collators) <= Points[round]
    BY <1>3 DEF Unpaid
  <2> HIDE DEF f, g
  <2>4. IsFiniteSet(Collators) /\ Sum(f, Collators) \in Nat /\ f[author] \in Nat
    BY <2>1, UnpaidType
  <2>5. Sum(g, Collators) = Sum(f, Collators) + g[author] - f[author]
    <3>1. g[author] \in Nat /\ \A c \in Collators : f[c] \in Nat
      BY <2>1, <2>2
    <3> QED BY <2>2, <2>4, <3>1, SumUpdate
  <2>6. Sum(g, Collators) = Sum(f, Collators) + 20
    BY <2>2, <2>4, <2>5
  <2> QED BY <2>1, <2>3, <2>4, <2>6 DEF g
<1> QED BY <1>2, <1>3 DEF Unpaid

\* Nothing about the payouts changes.
LEMMA LedgerSame ==
  ASSUME LedgerInv, UNCHANGED <<round, AwardedPts, Points, DelayedPayouts, ledger>>
  PROVE  LedgerInv'
BY DEF LedgerInv, Awards, Accounted, Booking, Unpaid

\* The block that starts a round.
LEMMA LedgerRound ==
  ASSUME PaidInv, StakedInv, LedgerInv, round < MaxRound, NEW author \in Collators,
         round' = round + 1, prepare_staking_payouts(round + 1, Pointed),
         AwardedPts' = Awarded(author), Points' = Pointed
  PROVE  LedgerInv'
<1>0. /\ round \in Nat \ {0} /\ MaxRound \in Nat /\ RewardPaymentDelay \in Nat \ {0}
      /\ AwardedPts \in [1 .. MaxRound -> [Collators -> Nat]]
      /\ Points \in [1 .. MaxRound -> Nat]
      /\ DOMAIN DelayedPayouts \subseteq 1 .. MaxRound
      /\ Settings
  BY StakingAssumption, RewardsAssumption DEF PaidInv, RoundsType, StakedInv
<1>1. PICK now, q : now = round + 1 /\ q = now - RewardPaymentDelay
  OBVIOUS
<1>2. q \in Int /\ q = round + 1 - RewardPaymentDelay /\ q < round' /\ q > round - RewardPaymentDelay
      /\ q <= MaxRound
  BY <1>0, <1>1
<1>3. \/ UNCHANGED <<DelayedPayouts, ledger>>
      \/ /\ q > 0 /\ Pointed[q] # 0
         /\ \E p \in PayoutT :
              /\ DelayedPayouts' = Put(DelayedPayouts, q, p)
              /\ ledger' = Put(ledger, q,
                               [due |-> p.total_staking_reward, paid |-> 0, shares |-> 0,
                                commission |-> PayoutCommission(p)])
  <2>1. prepare_staking_payouts(now, Pointed)
    BY <1>1
  <2>2. \/ UNCHANGED <<DelayedPayouts, ledger>>
        \/ /\ now - RewardPaymentDelay > 0 /\ Pointed[now - RewardPaymentDelay] # 0
           /\ \E p \in PayoutT :
                /\ DelayedPayouts' = Put(DelayedPayouts, now - RewardPaymentDelay, p)
                /\ ledger' = Put(ledger, now - RewardPaymentDelay,
                                 [due |-> p.total_staking_reward, paid |-> 0, shares |-> 0,
                                  commission |-> PayoutCommission(p)])
    BY <1>0, <2>1, PreparedIs
  <2> QED BY <1>1, <2>2
<1>4. /\ \A r \in 1 .. MaxRound : r # round =>
              AwardedPts'[r] = AwardedPts[r] /\ Points'[r] = Points[r]
      /\ \A r \in 1 .. MaxRound : Unpaid(r) <= Points[r] => Unpaid(r)' <= Points'[r]
  BY AwardedSum DEF Unpaid
<1>5. DOMAIN DelayedPayouts' \subseteq DOMAIN DelayedPayouts \cup {q}
  BY <1>3 DEF Put
<1>6. Awards'
  <2> SUFFICES ASSUME NEW r \in 1 .. MaxRound,
                      r > round' - RewardPaymentDelay \/ r \in DOMAIN DelayedPayouts'
               PROVE  Unpaid(r)' <= Points'[r]
    BY DEF Awards
  <2>1. r > round - RewardPaymentDelay \/ r \in DOMAIN DelayedPayouts
    BY <1>0, <1>2, <1>5
  <2>2. Unpaid(r) <= Points[r]
    BY <2>1 DEF LedgerInv, Awards
  <2> QED BY <1>4, <2>2
<1>7. ASSUME NEW r \in DOMAIN DelayedPayouts, DelayedPayouts'[r] = DelayedPayouts[r],
             r \in DOMAIN ledger', ledger'[r] = ledger[r]
      PROVE  /\ r < round'
             /\ Fair(ledger'[r], DelayedPayouts'[r], Unpaid(r)', Points'[r])
  <2>1. r \in 1 .. MaxRound /\ r < round
        /\ Fair(ledger[r], DelayedPayouts[r], Unpaid(r), Points[r])
    BY <1>0 DEF LedgerInv, Accounted
  <2>2. r # round /\ r < round'
    BY <1>0, <2>1
  <2>3. Unpaid(r)' = Unpaid(r) /\ Points'[r] = Points[r]
    BY <1>4, <2>1, <2>2 DEF Unpaid
  <2> QED BY <1>7, <2>1, <2>2, <2>3
<1>8. CASE UNCHANGED <<DelayedPayouts, ledger>>
  <2>1. Accounted'
    <3> SUFFICES ASSUME NEW r \in DOMAIN DelayedPayouts
                 PROVE  /\ r < round' /\ r \in DOMAIN ledger'
                        /\ Fair(ledger'[r], DelayedPayouts'[r], Unpaid(r)', Points'[r])
      BY <1>8 DEF Accounted
    <3>1. r \in DOMAIN ledger
      BY DEF LedgerInv, Accounted
    <3> QED BY <1>7, <1>8, <3>1
  <2>2. Booking'
    BY <1>8 DEF LedgerInv, Booking
  <2> QED BY <1>6, <2>1, <2>2 DEF LedgerInv
<1>9. ASSUME q > 0, Pointed[q] # 0, NEW p \in PayoutT, NEW l,
             l = [due |-> p.total_staking_reward, paid |-> 0, shares |-> 0,
                  commission |-> PayoutCommission(p)],
             DelayedPayouts' = Put(DelayedPayouts, q, p), ledger' = Put(ledger, q, l)
      PROVE  LedgerInv'
  <2>1. /\ DOMAIN DelayedPayouts' = DOMAIN DelayedPayouts \cup {q} /\ DelayedPayouts'[q] = p
        /\ DOMAIN ledger' = DOMAIN ledger \cup {q} /\ ledger'[q] = l
        /\ \A r \in DOMAIN DelayedPayouts : r # q => DelayedPayouts'[r] = DelayedPayouts[r]
        /\ \A r \in DOMAIN ledger : r # q => ledger'[r] = ledger[r]
    BY <1>9 DEF Put
  <2>2. q \in 1 .. MaxRound
    BY <1>2, <1>9
  <2>3. /\ Points'[q] \in Nat /\ AwardedPts'[q] \in [Collators -> Nat]
    BY <2>2, PointsFacts
  <2>4. Unpaid(q)' \in Nat /\ Unpaid(q)' <= Points'[q] /\ Points'[q] # 0
    <3>1. Unpaid(q)' <= Points'[q]
      BY <2>1, <2>2, <1>6 DEF Awards
    <3>2. Unpaid(q)' \in Nat
      BY <2>3, UnpaidType DEF Unpaid
    <3> QED BY <1>9, <3>1, <3>2
  <2>5. PICK S \in Nat, P \in Nat : S = Unpaid(q)' /\ P = Points'[q]
    BY <2>3, <2>4
  <2>6. l \in LedgerT /\ Fair(l, p, S, P)
    BY <1>9, <2>4, <2>5, FairNew
  <2>7. Bounded(l)
    BY <2>6, FairBound
  <2>8. Accounted'
    <3> SUFFICES ASSUME NEW r \in DOMAIN DelayedPayouts'
                 PROVE  /\ r < round' /\ r \in DOMAIN ledger'
                        /\ Fair(ledger'[r], DelayedPayouts'[r], Unpaid(r)', Points'[r])
      BY DEF Accounted
    <3>1. CASE r = q
      BY <1>2, <2>1, <2>5, <2>6, <3>1
    <3>2. CASE r # q
      <4>1. r \in DOMAIN DelayedPayouts /\ r \in DOMAIN ledger
        BY <2>1, <3>2 DEF LedgerInv, Accounted
      <4>2. r \in DOMAIN ledger' /\ ledger'[r] = ledger[r] /\ DelayedPayouts'[r] = DelayedPayouts[r]
        BY <2>1, <3>2, <4>1
      <4> QED BY <1>7, <4>1, <4>2
    <3> QED BY <3>1, <3>2
  <2>9. Booking'
    BY <2>1, <2>6, <2>7 DEF LedgerInv, Booking
  <2> QED BY <1>6, <2>8, <2>9 DEF LedgerInv
<1> QED BY <1>3, <1>8, <1>9

\* What a payout enters: v paid until now, in m shares.
Entered(l, v, m) == [l EXCEPT !.paid = v, !.shares = m]

\* The rest of the entry stays.
LEMMA EnteredParts ==
  ASSUME NEW l \in LedgerT, NEW v \in Nat, NEW m \in Nat
  PROVE  /\ Entered(l, v, m) \in LedgerT /\ Entered(l, v, m).due = l.due
         /\ Entered(l, v, m).commission = l.commission
         /\ Entered(l, v, m).paid = v /\ Entered(l, v, m).shares = m
BY DEF Entered, LedgerT

\* The entry of the round that is paid, after a collator has been paid.
LEMMA PaidEntry ==
  ASSUME PaidInv, StakedInv, LedgerInv, NEW q \in DOMAIN DelayedPayouts,
         NEW c \in DOMAIN AtStake[q], PayCollator(q, c)
  PROVE  /\ q \in 1 .. MaxRound /\ c \in Collators /\ AwardedPts[q][c] \in Nat
         /\ DOMAIN ledger' = DOMAIN ledger /\ q \in DOMAIN ledger
         /\ \A r \in DOMAIN ledger : r # q => ledger'[r] = ledger[r]
         /\ ledger'[q] \in LedgerT
         /\ Fair(ledger'[q], DelayedPayouts[q], Unpaid(q) - AwardedPts[q][c], Points[q])
         /\ Unpaid(q) \in Nat /\ AwardedPts[q][c] <= Unpaid(q)
<1>1. /\ q \in 1 .. MaxRound /\ c \in Collators /\ AwardedPts[q] \in [Collators -> Nat]
      /\ Points[q] \in Nat
  BY DEF PaidInv, RoundsType
<1>2. /\ AwardedPts[q][c] \in Nat /\ Unpaid(q) \in Nat /\ AwardedPts[q][c] <= Unpaid(q)
  BY <1>1, UnpaidType DEF Unpaid
<1>3. /\ q \in DOMAIN ledger /\ ledger[q] \in LedgerT
      /\ Fair(ledger[q], DelayedPayouts[q], Unpaid(q), Points[q])
  BY DEF LedgerInv, Accounted, Booking
<1>4. Snapped(AtStake[q][c]) /\ DelayedPayouts[q] \in PayoutT
  BY <1>1 DEF StakedInv, SnapsInv, PayoutsType
<1>5. CASE AwardedPts[q][c] = 0
  <2>1. ledger' = ledger
    BY <1>5 DEF PayCollator
  <2>2. Unpaid(q) - AwardedPts[q][c] = Unpaid(q)
    BY <1>2, <1>5
  <2> QED BY <1>1, <1>2, <1>3, <2>1, <2>2
<1>6. CASE AwardedPts[q][c] # 0
  <2> DEFINE A == AwardedPts[q][c]
             P == Points[q]
             S == Unpaid(q)
             s == AtStake[q][c]
             p == DelayedPayouts[q]
             due == Due(s, p, A, P)
             D == Sum(due.delegators, DOMAIN due.delegators)
             n == Len(due.delegators)
             l == ledger[q]
  <2>1. ledger' = [ledger EXCEPT ![q].paid = @ + due.collator + D, ![q].shares = @ + 2 + n]
    BY <1>6, Zenon DEF PayCollator
  <2>2. /\ A \in Nat /\ P \in Nat /\ S \in Nat /\ A <= S /\ l \in LedgerT /\ p \in PayoutT
        /\ Snapped(s) /\ Fair(l, p, S, P)
    BY <1>1, <1>2, <1>3, <1>4
  <2> HIDE DEF A, P, S, s, p, l
  <2>3. /\ due.collator \in Nat /\ n \in Nat /\ DOMAIN due.delegators = 1 .. n
        /\ \A i \in 1 .. n : due.delegators[i] \in Nat
    <3>1. PICK k : k = Len(s.delegations)
      OBVIOUS
    <3>2. k \in Nat
      BY <2>2, <3>1, SnappedParts
    <3>3. /\ due.collator \in Nat /\ Len(due.delegators) = k /\ DOMAIN due.delegators = 1 .. k
          /\ \A i \in 1 .. k : due.delegators[i] \in Nat
      BY <2>2, <3>1, DueType
    <3> HIDE DEF due
    <3> QED BY <3>2, <3>3
  <2>4. D \in Nat
    <3> HIDE DEF n, due
    <3>1. IsFiniteSet(1 .. n)
      BY <2>3, FS_Interval
    <3> QED BY <2>3, <3>1, SumType
  <2>5. l.paid \in Nat /\ l.shares \in Nat
    BY <2>2, LedgerParts
  <2> HIDE DEF due, D, n
  <2>6. PICK W \in Nat, m \in Nat : W = due.collator + D /\ m = 2 + n
    BY <2>3, <2>4
  <2>7. l.paid + due.collator + D = l.paid + W /\ l.shares + 2 + n = l.shares + m
    <3>1. \A a \in Nat, b \in Nat, e \in Nat : a + b + e = a + (b + e)
      OBVIOUS
    <3>2. l.shares + 2 + n = l.shares + (2 + n)
      BY <2>3, <2>5
    <3> QED BY <2>3, <2>4, <2>5, <2>6, <3>1, <3>2
  <2>8. /\ DOMAIN ledger' = DOMAIN ledger
        /\ \A r \in DOMAIN ledger : r # q => ledger'[r] = ledger[r]
        /\ ledger'[q] = [l EXCEPT !.paid = l.paid + due.collator + D, !.shares = l.shares + 2 + n]
    BY <1>3, <2>1 DEF l
  <2>9. PICK v \in Nat, u \in Nat : v = l.paid + W /\ u = l.shares + m
    BY <2>5, <2>6
  <2>10. PICK l2 : l2 = ledger'[q]
    OBVIOUS
  <2>11. /\ l2 \in LedgerT /\ l2.due = l.due /\ l2.commission = l.commission
         /\ l2.paid = l.paid + W /\ l2.shares = l.shares + m
    <3>1. l2 = Entered(l, v, u)
      BY <2>7, <2>8, <2>9, <2>10 DEF Entered
    <3>2. l \in LedgerT /\ v \in Nat /\ u \in Nat
      BY <2>2, <2>9
    <3>3. /\ l2 \in LedgerT /\ l2.due = l.due /\ l2.commission = l.commission
          /\ l2.paid = v /\ l2.shares = u
      BY <3>1, <3>2, EnteredParts
    <3> QED BY <2>9, <3>3
  <2>12. Fair(l2, p, S - A, P)
    <3>1. PICK g : g = Due(s, p, A, P)
      OBVIOUS
    <3>2. /\ l2.paid = l.paid + (g.collator + Sum(g.delegators, DOMAIN g.delegators))
          /\ l2.shares = l.shares + (2 + Len(g.delegators))
      BY <2>6, <2>11, <3>1 DEF due, D, n
    <3> QED BY <2>2, <2>11, <3>1, <3>2, FairPaid
  <2> QED BY <1>1, <1>2, <1>3, <2>8, <2>10, <2>11, <2>12 DEF A, P, S, p
<1> QED BY <1>5, <1>6

\* A block within a round.
LEMMA LedgerBlock ==
  ASSUME PaidInv, StakedInv, LedgerInv, round < MaxRound, NEW author \in Collators,
         handle_delayed_payouts(Awarded(author), Pointed), round' = round
  PROVE  LedgerInv'
<1>0. /\ round \in Nat \ {0} /\ MaxRound \in Nat /\ RewardPaymentDelay \in Nat \ {0}
      /\ AwardedPts \in [1 .. MaxRound -> [Collators -> Nat]]
      /\ Points \in [1 .. MaxRound -> Nat]
      /\ DOMAIN DelayedPayouts \subseteq 1 .. MaxRound
  BY StakingAssumption, RewardsAssumption DEF PaidInv, RoundsType
<1>q. PICK q : q = round - RewardPaymentDelay
  OBVIOUS
<1>1. /\ \A r \in 1 .. MaxRound : r # round =>
              Awarded(author)[r] = AwardedPts[r] /\ Pointed[r] = Points[r]
      /\ \A r \in 1 .. MaxRound :
              Unpaid(r) <= Points[r] => Sum(Awarded(author)[r], Collators) <= Pointed[r]
      /\ Awarded(author) \in [1 .. MaxRound -> [Collators -> Nat]]
      /\ Pointed \in [1 .. MaxRound -> Nat]
  BY AwardedSum, PointsFacts
<1>2. q \in Int /\ q < round
  BY <1>0, <1>q
\* The rounds that are not paid now.
<1>3. ASSUME NEW r \in 1 .. MaxRound, r # q, AwardedPts'[r] = Awarded(author)[r],
             Points'[r] = Pointed[r]
      PROVE  /\ r > q \/ r \in DOMAIN DelayedPayouts => Unpaid(r)' <= Points'[r]
             /\ r \in DOMAIN DelayedPayouts =>
                  /\ r < round /\ r \in DOMAIN ledger
                  /\ Fair(ledger[r], DelayedPayouts[r], Unpaid(r)', Points'[r])
  <2>1. ASSUME r > q \/ r \in DOMAIN DelayedPayouts PROVE Unpaid(r)' <= Points'[r]
    <3>1. Unpaid(r) <= Points[r]
      BY <1>q, <2>1 DEF LedgerInv, Awards
    <3> QED BY <1>1, <1>3, <3>1 DEF Unpaid
  <2>2. ASSUME r \in DOMAIN DelayedPayouts
        PROVE  /\ r < round /\ r \in DOMAIN ledger
               /\ Fair(ledger[r], DelayedPayouts[r], Unpaid(r)', Points'[r])
    <3>1. /\ r < round /\ r \in DOMAIN ledger
          /\ Fair(ledger[r], DelayedPayouts[r], Unpaid(r), Points[r])
      BY <2>2 DEF LedgerInv, Accounted
    <3>2. r # round
      BY <1>0, <3>1
    <3>3. Unpaid(r)' = Unpaid(r) /\ Points'[r] = Points[r]
      BY <1>1, <1>3, <3>2 DEF Unpaid
    <3> QED BY <3>1, <3>3
  <2> QED BY <2>1, <2>2
<1>4. CASE /\ q \notin DOMAIN DelayedPayouts
           /\ AwardedPts' = Awarded(author) /\ Points' = Pointed
           /\ UNCHANGED <<DelayedPayouts, ledger>>
  <2>1. Awards'
    <3> SUFFICES ASSUME NEW r \in 1 .. MaxRound, r > q \/ r \in DOMAIN DelayedPayouts
                 PROVE  Unpaid(r)' <= Points'[r]
      BY <1>q, <1>4 DEF Awards
    <3>1. r # q
      BY <1>2, <1>4
    <3> QED BY <1>3, <1>4, <3>1
  <2>2. Accounted'
    <3> SUFFICES ASSUME NEW r \in DOMAIN DelayedPayouts
                 PROVE  /\ r < round /\ r \in DOMAIN ledger
                        /\ Fair(ledger[r], DelayedPayouts[r], Unpaid(r)', Points'[r])
      BY <1>4 DEF Accounted
    <3>1. r # q /\ r \in 1 .. MaxRound
      BY <1>0, <1>4
    <3> QED BY <1>3, <1>4, <3>1
  <2>3. Booking'
    BY <1>4 DEF LedgerInv, Booking
  <2> QED BY <2>1, <2>2, <2>3 DEF LedgerInv
<1>5. ASSUME q \in DOMAIN DelayedPayouts, NEW c \in DOMAIN AtStake[q], PayCollator(q, c),
             AwardedPts' = [Awarded(author) EXCEPT ![q][c] = 0], Points' = Pointed,
             DelayedPayouts' = DelayedPayouts
      PROVE  LedgerInv'
  <2>1. /\ q \in 1 .. MaxRound /\ c \in Collators /\ AwardedPts[q][c] \in Nat
        /\ DOMAIN ledger' = DOMAIN ledger /\ q \in DOMAIN ledger
        /\ \A r \in DOMAIN ledger : r # q => ledger'[r] = ledger[r]
        /\ ledger'[q] \in LedgerT
        /\ Fair(ledger'[q], DelayedPayouts[q], Unpaid(q) - AwardedPts[q][c], Points[q])
        /\ Unpaid(q) \in Nat /\ AwardedPts[q][c] <= Unpaid(q)
    BY <1>5, PaidEntry
  <2>2. /\ \A r \in 1 .. MaxRound : r # q => AwardedPts'[r] = Awarded(author)[r]
        /\ AwardedPts'[q] = [AwardedPts[q] EXCEPT ![c] = 0]
        /\ Points'[q] = Points[q] /\ Points[q] \in Nat
    <3>1. q # round /\ q \in 1 .. MaxRound
      BY <1>0, <1>2, <2>1
    <3>2. Awarded(author)[q] = AwardedPts[q] /\ Pointed[q] = Points[q]
      BY <1>1, <3>1
    <3>3. Points'[q] = Points[q] /\ Points[q] \in Nat
      BY <1>0, <1>5, <3>1, <3>2
    <3>4. PICK h : h = Awarded(author)
      OBVIOUS
    <3>5. /\ h \in [1 .. MaxRound -> [Collators -> Nat]] /\ AwardedPts' = [h EXCEPT ![q][c] = 0]
          /\ h[q] = AwardedPts[q]
      BY <1>1, <1>5, <3>2, <3>4
    <3>6. /\ \A r \in 1 .. MaxRound : r # q => AwardedPts'[r] = h[r]
          /\ AwardedPts'[q] = [h[q] EXCEPT ![c] = 0]
      BY <3>1, <3>5
    <3> QED BY <3>3, <3>4, <3>5, <3>6
  <2>3. Unpaid(q)' = Unpaid(q) - AwardedPts[q][c]
    <3> DEFINE f == AwardedPts[q]
               g == AwardedPts'[q]
    <3>1. f \in [Collators -> Nat] /\ g[c] = 0 /\ \A e \in Collators \ {c} : g[e] = f[e]
      BY <1>0, <2>1, <2>2
    <3> HIDE DEF f, g
    <3>2. IsFiniteSet(Collators) /\ Sum(f, Collators) \in Nat /\ \A e \in Collators : f[e] \in Nat
      BY <3>1, UnpaidType
    <3>3. Sum(g, Collators) = Sum(f, Collators) + g[c] - f[c]
      <4>1. g[c] \in Nat
        BY <3>1
      <4> QED BY <2>1, <3>1, <3>2, <4>1, SumUpdate
    <3>4. Sum(g, Collators) = Sum(f, Collators) - f[c]
      BY <2>1, <3>1, <3>2, <3>3
    <3>5. Unpaid(q) = Sum(f, Collators) /\ Unpaid(q)' = Sum(g, Collators)
      BY DEF f, g, Unpaid
    <3>6. f[c] = AwardedPts[q][c]
      BY DEF f
    <3> QED BY <3>4, <3>5, <3>6
  <2>4. PICK S \in Nat, P \in Nat : S = Unpaid(q)' /\ P = Points'[q]
    BY <2>1, <2>2, <2>3
  <2>l. PICK l : l = ledger'[q]
    OBVIOUS
  <2>5. l \in LedgerT /\ Fair(l, DelayedPayouts[q], S, P)
    BY <2>1, <2>2, <2>3, <2>4, <2>l
  <2>6. Bounded(l) /\ S <= P
    BY <2>5, FairBound DEF Fair
  <2>7. Awards'
    <3> SUFFICES ASSUME NEW r \in 1 .. MaxRound, r > q \/ r \in DOMAIN DelayedPayouts
                 PROVE  Unpaid(r)' <= Points'[r]
      BY <1>q, <1>5 DEF Awards
    <3>1. CASE r = q
      BY <2>4, <2>6, <3>1
    <3>2. CASE r # q
      BY <1>3, <1>5, <2>2, <3>2
    <3> QED BY <3>1, <3>2
  <2>8. Accounted'
    <3> SUFFICES ASSUME NEW r \in DOMAIN DelayedPayouts
                 PROVE  /\ r < round /\ r \in DOMAIN ledger'
                        /\ Fair(ledger'[r], DelayedPayouts[r], Unpaid(r)', Points'[r])
      BY <1>5 DEF Accounted
    <3>1. CASE r = q
      BY <1>2, <2>1, <2>4, <2>5, <2>l, <3>1
    <3>2. CASE r # q
      <4>1. r \in 1 .. MaxRound /\ AwardedPts'[r] = Awarded(author)[r] /\ Points'[r] = Pointed[r]
        BY <1>0, <1>5, <2>2, <3>2
      <4>2. /\ r < round /\ r \in DOMAIN ledger
            /\ Fair(ledger[r], DelayedPayouts[r], Unpaid(r)', Points'[r])
        BY <1>3, <3>2, <4>1
      <4> QED BY <2>1, <3>2, <4>2
    <3> QED BY <3>1, <3>2
  <2>9. Booking'
    BY <2>1, <2>5, <2>6, <2>l DEF LedgerInv, Booking
  <2> QED BY <2>7, <2>8, <2>9 DEF LedgerInv
<1>6. CASE /\ q \in DOMAIN DelayedPayouts
           /\ DelayedPayouts' = Drop(DelayedPayouts, q)
           /\ Points' = [Pointed EXCEPT ![q] = 0]
           /\ AwardedPts' = Awarded(author)
           /\ ledger' = ledger
  <2>1. /\ DOMAIN DelayedPayouts' = DOMAIN DelayedPayouts \ {q}
        /\ \A r \in DOMAIN DelayedPayouts' : DelayedPayouts'[r] = DelayedPayouts[r]
    BY <1>6 DEF Drop, Restrict
  <2>2. \A r \in 1 .. MaxRound : r # q => Points'[r] = Pointed[r]
    BY <1>1, <1>6
  <2>3. Awards'
    <3> SUFFICES ASSUME NEW r \in 1 .. MaxRound, r > q \/ r \in DOMAIN DelayedPayouts'
                 PROVE  Unpaid(r)' <= Points'[r]
      BY <1>q DEF Awards
    <3>1. r # q /\ (r > q \/ r \in DOMAIN DelayedPayouts)
      BY <1>2, <2>1
    <3> QED BY <1>3, <1>6, <2>2, <3>1
  <2>4. Accounted'
    <3> SUFFICES ASSUME NEW r \in DOMAIN DelayedPayouts'
                 PROVE  /\ r < round /\ r \in DOMAIN ledger
                        /\ Fair(ledger[r], DelayedPayouts'[r], Unpaid(r)', Points'[r])
      BY <1>6 DEF Accounted
    <3>1. r \in DOMAIN DelayedPayouts /\ r # q /\ r \in 1 .. MaxRound
      BY <1>0, <2>1
    <3> QED BY <1>3, <1>6, <2>1, <2>2, <3>1
  <2>5. Booking'
    BY <1>6 DEF LedgerInv, Booking
  <2> QED BY <2>3, <2>4, <2>5 DEF LedgerInv
<1> QED BY <1>q, <1>4, <1>5, <1>6 DEF handle_delayed_payouts

\* The genesis has nothing to pay.
LEMMA LedgerInit ==
  ASSUME InitRewards
  PROVE  LedgerInv
<1>1. /\ AwardedPts = [r \in 1 .. MaxRound |-> [c \in Collators |-> 0]]
      /\ Points = [r \in 1 .. MaxRound |-> 0] /\ DelayedPayouts = Empty /\ ledger = Empty
  BY DEF InitRewards
<1>2. ASSUME NEW r \in 1 .. MaxRound PROVE Unpaid(r) <= Points[r]
  <2> DEFINE f == [c \in Collators |-> 0]
  <2>1. Unpaid(r) = Sum(f, Collators) /\ Points[r] = 0
    BY <1>1 DEF Unpaid
  <2>2. \A c \in Collators : f[c] \in 0 .. 0
    OBVIOUS
  <2> HIDE DEF f
  <2>3. IsFiniteSet(Collators)
    BY AccountsAre
  <2>4. Sum(f, Collators) <= Cardinality(Collators) * 0 /\ Cardinality(Collators) \in Nat
    BY <2>2, <2>3, SumBound, FS_CardinalityType
  <2> QED BY <2>1, <2>4
<1> QED BY <1>1, <1>2 DEF LedgerInv, Awards, Accounted, Booking, Empty

\* Every step keeps what is paid for the rounds within their issuance.
LEMMA LedgerStep ==
  ASSUME PaidInv, StakedInv, LedgerInv, [NextRewards]_rewardVars
  PROVE  LedgerInv'
<1>1. ASSUME NEW c \in Collators, Block(c), round < MaxRound PROVE LedgerInv'
  <2>1. CASE /\ round' = round + 1
             /\ prepare_staking_payouts(round + 1, Pointed)
             /\ AwardedPts' = Awarded(c) /\ Points' = Pointed
    BY <1>1, <2>1, LedgerRound
  <2>2. CASE handle_delayed_payouts(Awarded(c), Pointed) /\ UNCHANGED round
    BY <1>1, <2>2, LedgerBlock
  <2> QED BY <1>1, <2>1, <2>2 DEF Block, Awarded, Pointed
<1>2. CASE UNCHANGED payouts /\ UNCHANGED round
  <2>1. UNCHANGED <<round, AwardedPts, Points, DelayedPayouts, ledger>>
    BY <1>2 DEF payouts
  <2> QED BY <2>1, LedgerSame
<1>3. CASE Bonding /\ UNCHANGED payouts
  <2>1. round' = round
    BY <1>3, BondingCalls DEF PaidInv, RoundsType
  <2> QED BY <1>2, <1>3, <2>1
<1>4. CASE UNCHANGED rewardVars
  BY <1>2, <1>4 DEF rewardVars
<1> QED BY <1>1, <1>2, <1>3, <1>4 DEF NextRewards

\* If the commission is not more than what is left of the issuance, the payouts of a
\* round mint no more than that, but for half a unit for each product rounded:
\* pay_one_collator_reward takes the points of a collator as it pays for them, so that
\* no part is paid twice, and the shares of a snapshot add up.
THEOREM PaidAlwaysWithinIssuance == SpecRewards => []PaidWithinIssuance
<1>1. InitRewards => PaidInv /\ StakedInv /\ LedgerInv
  BY PaidInit, StakedInit, LedgerInit
<1>2. PaidInv /\ StakedInv /\ LedgerInv /\ [NextRewards]_rewardVars
        => PaidInv' /\ StakedInv' /\ LedgerInv'
  BY PaidStep, StakedStep, LedgerStep
<1>3. LedgerInv => PaidWithinIssuance
  BY DEF LedgerInv, Booking, Bounded, PaidWithinIssuance
<1> QED BY <1>1, <1>2, <1>3, PTL DEF SpecRewards

=============================================================================
