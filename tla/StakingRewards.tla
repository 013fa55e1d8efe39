---------------------------- MODULE StakingRewards ----------------------------
(***************************************************************************)
(* Rounds, the selection of collators and the payout of rewards            *)
(* (pallets/parachain-staking/src/lib.rs), on top of the bonding half.     *)
(*                                                                         *)
(* A round starts with a snapshot of the selected candidates and their     *)
(* rewardable delegations.  The authors of its blocks collect points.      *)
(* RewardPaymentDelay rounds later the issuance of the round is fixed, and *)
(* each further block pays one collator of it, for as long as the current  *)
(* round lasts.                                                            *)
(*                                                                         *)
(* Block is the end of a block (on_finalize) and the start of the next     *)
(* one (on_initialize); extrinsics come between.  What inflation.rs        *)
(* computes is a choice from Issuances: nothing here depends on Staked and *)
(* the inflation parameters otherwise.                                     *)
(***************************************************************************)
EXTENDS ParachainStaking

CONSTANTS
  GenesisBonds,         \* the bonds of the candidates of the genesis
  GenesisDelegations,   \* a sequence of [delegator, target, amount, percent]
  Lengths,              \* the round lengths a call may name, in blocks
  Selections,           \* the numbers of collators a call may name
  Rates,                \* the percentages governance may name
  GenesisCommission, GenesisReservePercent,
  Issuances,            \* the outcomes of compute_issuance
  RewardPaymentDelay,
  MinBlocksPerRound, MinSelectedCandidates,
  Accuracy,             \* the parts of a Perbill
  MaxCalls              \* bound: extrinsics in a behaviour

ASSUME RewardsAssumption ==
  /\ DOMAIN GenesisBonds \subseteq Collators /\ DOMAIN GenesisBonds # {}
  /\ Lengths \subseteq Nat \ {0} /\ Selections \subseteq Nat
  /\ Rates \subseteq 0 .. 100 /\ Issuances \subseteq Nat
  /\ RewardPaymentDelay \in Nat \ {0} /\ Accuracy \in Nat \ {0}
  /\ GenesisCommission \in Nat /\ GenesisReservePercent \in Nat

\* The genesis delegates once for each delegator and kicks nobody.
ASSUME GenesisAssumption ==
  /\ GenesisBonds \in [DOMAIN GenesisBonds -> Nat]
  /\ GenesisDelegations \in
       Seq([delegator : Delegators \ DOMAIN GenesisBonds,
            target : DOMAIN GenesisBonds, amount : Nat \ {0}, percent : 0 .. 100])
  /\ \A i, j \in DOMAIN GenesisDelegations :
       GenesisDelegations[i].delegator = GenesisDelegations[j].delegator => i = j
  /\ \A c \in DOMAIN GenesisBonds :
       Cardinality({i \in DOMAIN GenesisDelegations : GenesisDelegations[i].target = c})
         <= MaxTopDelegationsPerCandidate + MaxBottomDelegationsPerCandidate

VARIABLES
  age,                  \* blocks since the round started (Round.first)
  length,               \* Round.length
  TotalSelected, SelectedCandidates,
  CollatorCommission,
  ParachainBondInfo,    \* account (None is the zero account) and percent
  AtStake,              \* the snapshots by round
  AwardedPts, Points,
  DelayedPayouts,
  calls,                \* the extrinsics so far
  shortened,            \* history: a round has been made shorter
  ledger                \* history: by round, what was due and what was paid

config == <<length, TotalSelected, CollatorCommission, ParachainBondInfo>>

payouts == <<age, SelectedCandidates, AtStake, AwardedPts, Points,
             DelayedPayouts, ledger>>

rewardVars == <<round, bonding, config, payouts, calls, shortened>>

(***************************************************************************)
(* Per-things: from_rational rounds down and stops at one, the product     *)
(* rounds to the nearest and down on a tie.                                *)
(***************************************************************************)
from_rational(p, q) ==
  LET d == IF q = 0 THEN 1 ELSE q
  IN  ((IF p > d THEN d ELSE p) * Accuracy) \div d

Times(parts, accuracy, x) == (2 * parts * x + accuracy - 1) \div (2 * accuracy)

Perbill(parts, x) == Times(parts, Accuracy, x)

Percent(percent, x) == Times(percent, 100, x)

mul_ceil(percent, x) == (percent * x + 99) \div 100

(***************************************************************************)
(* Selection.                                                              *)
(***************************************************************************)
\* The TotalSelected candidates with the most power, then amount, then by
\* account: here the latter order is any one.
IsTop(pool, n, S) ==
  /\ S \subseteq DOMAIN pool
  /\ Cardinality(S) = IF Cardinality(DOMAIN pool) > n
                      THEN n ELSE Cardinality(DOMAIN pool)
  /\ \A c \in S, e \in DOMAIN pool \ S : ~Below(pool[c], pool[e])

\* A delegator about to leave or to bond less is rewarded for what is left.
Rewardable(c, b) ==
  LET d == b.owner
  IN  CASE d \notin DOMAIN Requests[c]           -> b.stake
        [] RevokePending(c, d)                   -> ZeroStake
        [] OTHER -> Minus(b.stake, Requests[c][d].stake)

\* Mutant: a scheduled decrease stays counted.
UncountedRevokesOnly(c, b) ==
  IF RevokePending(c, b.owner) THEN b.stake ELSE ZeroStake

Uncounted(c, b) ==
  LET d == b.owner
  IN  CASE d \notin DOMAIN Requests[c]           -> ZeroStake
        [] RevokePending(c, d)                   -> b.stake
        [] OTHER                                 -> Requests[c][d].stake

Snapshot(c) ==
  LET k  == CandidateInfo[c]
      ds == k.top.delegations
      percent(d) == IF d \in DOMAIN AutoCompounding[c]
                    THEN AutoCompounding[c][d] ELSE 0
  IN  [stake |-> k.stake,
       delegations |-> [i \in DOMAIN ds |->
                          [owner |-> ds[i].owner,
                           stake |-> Rewardable(c, ds[i]),
                           auto_compound |-> percent(ds[i].owner)]],
       total |-> Minus(k.total_stake_counted,
                       SumOver([i \in DOMAIN ds |-> Uncounted(c, ds[i])],
                               DOMAIN ds))]

\* An empty selection keeps the collators and the snapshots of the last round.
select_top_candidates(now) ==
  \/ /\ DOMAIN CandidatePool # {} /\ TotalSelected > 0
     /\ \E S \in SUBSET DOMAIN CandidatePool :
          /\ IsTop(CandidatePool, TotalSelected, S)
          /\ SelectedCandidates' = S
          /\ AtStake' = [AtStake EXCEPT ![now] = [c \in S |-> Snapshot(c)]]
  \/ /\ DOMAIN CandidatePool = {} \/ TotalSelected = 0
     /\ AtStake' = [AtStake EXCEPT ![now] = AtStake[now - 1]]
     /\ UNCHANGED SelectedCandidates

(***************************************************************************)
(* Genesis: the candidates join, the delegations are made, and the first   *)
(* round is selected.  MaxCalls counts what comes after it.                *)
(***************************************************************************)
GenesisBond(x) == Bond(x.delegator, power(x.delegator, x.amount))

\* The book of candidate c before the first delegation and after each.
GenesisBooks(c) ==
  LET after[i \in 0 .. Len(GenesisDelegations)] ==
        IF i = 0 THEN NewBook(power(c, GenesisBonds[c]))
        ELSE IF GenesisDelegations[i].target # c THEN after[i - 1]
        ELSE add_delegation(after[i - 1], GenesisBond(GenesisDelegations[i]))
  IN  after

GenesisBook(c) == GenesisBooks(c)[Len(GenesisDelegations)]

GenesisOf(d) == CHOOSE x \in ToSet(GenesisDelegations) : x.delegator = d

InitRewards ==
  LET ds == {x.delegator : x \in ToSet(GenesisDelegations)}
      cs == DOMAIN GenesisBonds
      stake(d) == power(d, GenesisOf(d).amount)
      compounding(c) == {d \in ds : GenesisOf(d).target = c /\ GenesisOf(d).percent # 0}
  IN  /\ round = 1 /\ free \in FreeBalances
      /\ CandidateInfo = [c \in cs |-> GenesisBook(c)]
      /\ CandidatePool = [c \in cs |-> GenesisBook(c).total_stake_counted]
      /\ DelegatorState = [d \in ds |-> NewDelegator(GenesisOf(d).target, stake(d))]
      /\ Requests = [c \in Collators |-> Empty]
      /\ AutoCompounding = [c \in Collators |->
                              [d \in compounding(c) |-> GenesisOf(d).percent]]
      /\ Total = Plus(SumOver([c \in cs |-> GenesisBook(c).stake], cs),
                      SumOver([d \in ds |-> stake(d)], ds))
      /\ collatorLock = [a \in Accounts |-> IF a \in cs THEN GenesisBonds[a]
                                                        ELSE 0]
      /\ delegatorLock = [a \in Accounts |-> IF a \in ds THEN stake(a).amount
                                                         ELSE 0]
      /\ age = 0 /\ length \in Lengths
      /\ TotalSelected \in Selections
      /\ TotalSelected >= MinSelectedCandidates
      /\ TotalSelected < length   \* asked of every later change, not of the genesis
      /\ CollatorCommission = GenesisCommission
      /\ ParachainBondInfo = [account |-> None, percent |-> GenesisReservePercent]
      /\ \E S \in SUBSET cs :
           /\ IsTop(CandidatePool, TotalSelected, S)
           /\ SelectedCandidates = S
           /\ AtStake = [r \in 1 .. MaxRound |->
                           IF r = 1 THEN [c \in S |-> Snapshot(c)] ELSE Empty]
      /\ AwardedPts = [r \in 1 .. MaxRound |-> [c \in Collators |-> 0]]
      /\ Points = [r \in 1 .. MaxRound |-> 0]
      /\ DelayedPayouts = Empty
      /\ calls = 0 /\ shortened = FALSE /\ ledger = Empty

(***************************************************************************)
(* Payouts.                                                                *)
(***************************************************************************)
\* The issuance of the round is fixed and the reserve is minted, if its
\* account exists; the ledger keeps what the stakers may be paid at most.
prepare_staking_payouts(now, points) ==
  LET r == now - RewardPaymentDelay
  IN  \/ /\ r <= 0 \/ points[r] = 0
         /\ UNCHANGED <<DelayedPayouts, ledger>>
      \/ /\ r > 0 /\ points[r] # 0
         /\ \E issuance \in Issuances :
              LET reserve == IF ParachainBondInfo.account = None THEN 0
                             ELSE Percent(ParachainBondInfo.percent, issuance)
                  left    == SaturatingSub(issuance, reserve)
              IN  /\ DelayedPayouts' =
                       Put(DelayedPayouts, r,
                           [round_issuance |-> issuance,
                            total_staking_reward |-> left,
                            collator_commission |-> CollatorCommission])
                  /\ ledger' = Put(ledger, r,
                                   [due |-> left, paid |-> 0, shares |-> 0,
                                    commission |-> Perbill(CollatorCommission,
                                                           issuance)])

\* mint_and_compound for one delegation b of the snapshot of candidate c: the
\* reward is minted and its auto-compounded part is added to the delegation.
\* An error leaves the rest of the payout alone, and what was written before
\* it in place: on_initialize is not rolled back.
mint_and_compound(c, acc, b, due) ==
  LET d      == b.owner
      minted == [acc EXCEPT !.free[d] = @ + due]
      amount == mul_ceil(b.auto_compound, due)
      more   == power(d, amount)
      s      == acc.state[d]
      k      == increase_delegation(acc.books[c], d, s.delegations[c], more)
      locked == [minted EXCEPT !.lock[d] = s.total.amount + amount]
  IN  IF \/ amount = 0 \/ RevokePending(c, d)
         \/ d \notin DOMAIN acc.state \/ c \notin DOMAIN s.delegations
         \/ Below(Minus(power(d, minted.free[d]), s.total), more)
      THEN minted
      ELSE IF ~is_candidate(c) \/ k = None THEN locked
      ELSE [locked EXCEPT !.books[c] = k,
                          !.state[d] = [s EXCEPT !.delegations[c] = Plus(@, more),
                                                 !.total = Plus(@, more)],
                          !.total = Plus(@, more)]

\* Mutant: the commission is paid on top of the shares.
DueWithCommissionOnTop(snapshot, payout, pts, points) ==
  LET pct        == from_rational(pts, points)
      total_paid == Perbill(pct, payout.total_staking_reward)
      commission == Perbill(pct, Perbill(payout.collator_commission,
                                         payout.round_issuance))
      share(s)   == Perbill(from_rational(s.power, snapshot.total.power),
                            total_paid)
  IN  IF snapshot.delegations = <<>>
      THEN [collator |-> total_paid, delegators |-> <<>>]
      ELSE [collator   |-> share(snapshot.stake) + commission,
            delegators |-> [i \in DOMAIN snapshot.delegations |->
                              share(snapshot.delegations[i].stake)]]

\* What collator c and its delegators get for a round, and their shares of it.
Due(snapshot, payout, pts, points) ==
  LET pct        == from_rational(pts, points)
      total_paid == Perbill(pct, payout.total_staking_reward)
      commission == Perbill(pct, Perbill(payout.collator_commission,
                                         payout.round_issuance))
      amt_due    == SaturatingSub(total_paid, commission)
      share(s)   == Perbill(from_rational(s.power, snapshot.total.power), amt_due)
  IN  IF snapshot.delegations = <<>>
      THEN [collator |-> total_paid, delegators |-> <<>>]
      ELSE [collator   |-> share(snapshot.stake) + commission,
            delegators |-> [i \in DOMAIN snapshot.delegations |->
                              share(snapshot.delegations[i].stake)]]

PoolOf(books) ==
  [c \in DOMAIN CandidatePool |-> PoolAfter(c, books[c])[c]]

\* The storage before the first delegation of a snapshot is paid, and after each.
Minting(c, delegations, due, start) ==
  LET after[i \in 0 .. Len(due)] ==
        IF i = 0 THEN start
        ELSE IF due[i] = 0 THEN after[i - 1]
        ELSE mint_and_compound(c, after[i - 1], delegations[i], due[i])
  IN  after

\* One snapshot of the round is drained; its collator is paid unless it has
\* no points.
PayCollator(r, c) ==
  LET snapshot == AtStake[r][c]
      due      == Due(snapshot, DelayedPayouts[r], AwardedPts[r][c], Points[r])
      start    == [free |-> [free EXCEPT ![c] = @ + due.collator],
                   lock |-> delegatorLock, books |-> CandidateInfo,
                   state |-> DelegatorState, total |-> Total]
      end      == Minting(c, snapshot.delegations, due.delegators, start)
                    [Len(due.delegators)]
  IN  /\ AtStake' = [AtStake EXCEPT ![r] = Drop(@, c)]
      /\ IF AwardedPts[r][c] = 0
         THEN UNCHANGED <<ledger, bonding>>
         ELSE /\ free' = end.free /\ delegatorLock' = end.lock
              /\ CandidateInfo' = end.books
              /\ CandidatePool' = PoolOf(end.books)
              /\ DelegatorState' = end.state
              /\ Total' = end.total
              /\ ledger' =
                   [ledger EXCEPT
                      ![r].paid = @ + due.collator
                                    + Sum(due.delegators, DOMAIN due.delegators),
                      ![r].shares = @ + 2 + Len(due.delegators)]
              /\ UNCHANGED <<Requests, AutoCompounding, collatorLock>>

\* handle_delayed_payouts: once the snapshots are drained the payout is
\* removed.
handle_delayed_payouts(awarded, points) ==
  LET r == round - RewardPaymentDelay
  IN  \/ /\ r \notin DOMAIN DelayedPayouts
         /\ AwardedPts' = awarded /\ Points' = points
         /\ UNCHANGED <<bonding, AtStake, DelayedPayouts, ledger>>
      \/ /\ r \in DOMAIN DelayedPayouts
         /\ \E c \in DOMAIN AtStake[r] :
              /\ PayCollator(r, c)
              /\ AwardedPts' = [awarded EXCEPT ![r][c] = 0]
         /\ Points' = points
         /\ UNCHANGED DelayedPayouts
      \/ /\ r \in DOMAIN DelayedPayouts /\ DOMAIN AtStake[r] = {}
         /\ DelayedPayouts' = Drop(DelayedPayouts, r)
         /\ Points' = [points EXCEPT ![r] = 0]
         /\ AwardedPts' = awarded
         /\ UNCHANGED <<bonding, AtStake, ledger>>

\* award_points_to_block_author in on_finalize, then on_initialize of the next
\* block.  can_author asks for a selected candidate.
Block(author) ==
  LET awarded == [AwardedPts EXCEPT ![round][author] = @ + 20]
      points  == [Points EXCEPT ![round] = @ + 20]
  IN  /\ author \in SelectedCandidates
      /\ \/ /\ age + 1 >= length
            /\ round' = round + 1 /\ age' = 0
            /\ prepare_staking_payouts(round + 1, points)
            /\ select_top_candidates(round + 1)
            /\ AwardedPts' = awarded /\ Points' = points
            /\ UNCHANGED bonding
         \/ /\ age + 1 < length
            /\ age' = age + 1
            /\ handle_delayed_payouts(awarded, points)
            /\ UNCHANGED <<round, SelectedCandidates>>
      /\ UNCHANGED <<config, calls, shortened>>

(***************************************************************************)
(* Governance.                                                             *)
(***************************************************************************)
\* Mutant: as many collators may be selected as a round has blocks.
set_total_selected_unbounded(new) ==
  /\ new >= MinSelectedCandidates /\ new # TotalSelected /\ new <= length
  /\ TotalSelected' = new
  /\ UNCHANGED <<length, CollatorCommission, ParachainBondInfo, shortened>>

set_total_selected(new) ==
  /\ new >= MinSelectedCandidates /\ new # TotalSelected /\ new < length
  /\ TotalSelected' = new
  /\ UNCHANGED <<length, CollatorCommission, ParachainBondInfo, shortened>>

set_blocks_per_round(new) ==
  /\ new >= MinBlocksPerRound /\ new # length /\ new > TotalSelected
  /\ length' = new
  /\ shortened' = (shortened \/ new < length)
  /\ UNCHANGED <<TotalSelected, CollatorCommission, ParachainBondInfo>>

set_collator_commission(new) ==
  /\ new # CollatorCommission
  /\ CollatorCommission' = new
  /\ UNCHANGED <<length, TotalSelected, ParachainBondInfo, shortened>>

set_parachain_bond_account(new) ==
  /\ new # ParachainBondInfo.account
  /\ ParachainBondInfo' = [ParachainBondInfo EXCEPT !.account = new]
  /\ UNCHANGED <<length, TotalSelected, CollatorCommission, shortened>>

set_parachain_bond_reserve_percent(new) ==
  /\ new # ParachainBondInfo.percent
  /\ ParachainBondInfo' = [ParachainBondInfo EXCEPT !.percent = new]
  /\ UNCHANGED <<length, TotalSelected, CollatorCommission, shortened>>

Governance ==
  \/ \E n \in Selections : set_total_selected(n)
  \/ \E n \in Lengths : set_blocks_per_round(n)
  \/ \E p \in Rates : \/ set_collator_commission(p)
                      \/ set_parachain_bond_reserve_percent(p)
  \/ \E a \in {None, "treasury"} : set_parachain_bond_account(a)

\* A behaviour ends as round MaxRound begins.
NextRewards ==
  /\ round < MaxRound
  /\ \/ \E c \in Collators : Block(c)
     \/ /\ calls < MaxCalls
        /\ calls' = calls + 1
        /\ UNCHANGED payouts
        /\ \/ Governance /\ UNCHANGED <<round, bonding>>
           \/ Bonding /\ UNCHANGED <<config, shortened>>

SpecRewards == InitRewards /\ [][NextRewards]_rewardVars

(***************************************************************************)
(* Properties.                                                             *)
(***************************************************************************)
\* "pay all stakers for T::RewardPaymentDelay rounds ago" (on_initialize): a
\* block pays one collator, and the round that follows the payout's does not
\* come back to it.  Unless a round has been made shorter, no collator that
\* has points is left when the round of its payout ends.
PaidInFull ==
  ~shortened =>
    \A r \in 1 .. MaxRound : r < round - RewardPaymentDelay =>
      \A c \in DOMAIN AtStake[r] : AwardedPts[r][c] = 0

\* The bond of a collator and its rewardable delegations add up to the total
\* against which their shares are computed, whatever has been scheduled.
SharesAddUp ==
  \A r \in 1 .. MaxRound, c \in Collators : c \in DOMAIN AtStake[r] =>
    AtStake[r][c].total =
      Plus(AtStake[r][c].stake, SumStakes(AtStake[r][c].delegations))

\* The payouts of a round mint no more than was left of its issuance, but for
\* the rounding of each product, if the commission is not more than that.
PaidWithinIssuance ==
  \A r \in DOMAIN ledger :
    ledger[r].commission <= ledger[r].due =>
      2 * ledger[r].paid <= 2 * ledger[r].due + ledger[r].shares

=============================================================================
