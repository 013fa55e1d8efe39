# A TLA+ verification project for acurast-core

Acurast is a parachain on which *consumers* register jobs (a script, a schedule and
a reward), *processors* (phones) advertise their capacity and price, anybody may
*match* jobs to processors, and processors acknowledge, report on and finalize what
they were given, against rewards locked when the job was registered.  Jobs may also
come from other chains through *Hyperdrive*.  The repository holds the FRAME pallets
of that chain, the off-chain worker that builds Merkle-mountain-range proofs, and the
ink! contracts of the Aleph Zero side.

Everything on the chain is a state machine driven by extrinsics: an extrinsic runs to
its end before the next one starts and is rolled back as a whole when it returns an
error.  So one action of a module is one extrinsic (or one hook of a block), a guard
is a conjunction of all the conditions under which it does not return an error, and
"nothing happened" stands for every failing call.  The rollback itself is FRAME's and taken as given: no property
here could show it missing.

## Inventory

| Component | State | Operations | Hard parts |
|---|---|---|---|
| Job registry (`pallets/acurast`) | `LocalJobIdSequence`, `StoredJobRegistration`, `ExecutionEnvironment` | register, deregister, update_allowed_sources, set_environment(s) | hooks into the marketplace that may veto the call; environments cleared with a limit |
| Attestations (`pallets/acurast`) | `StoredAttestation`, `StoredRevokedCertificate` | submit_attestation, update_certificate_revocation_list | validity that ends by time or revocation while a processor is matched |
| Schedules (`pallets/acurast/common`) | none | execution_count, iter, range, overlaps | modular arithmetic, u64 overflow |
| Marketplace (`pallets/marketplace`) | job status, advertisements, capacity, matches and their reverse index, budgets | advertise, delete_advertisement, propose_matching, acknowledge_match, report, finalize_job(s), the job hooks | three parties and time interleave; two indexes, a capacity and a budget must stay in step |
| Payments (`pallets/marketplace/payments.rs`) | balances of the pallet, fee and hyperdrive accounts, `JobBudgets` | lock_reward, pay_reward, pay_matcher_reward, refund | rounding, existential deposit, a budget must cover every reward still owed |
| Reputation (`pallets/marketplace/reputation`) | `StoredReputation` | update, normalize | fixed-point arithmetic |
| Processor manager | manager ids, processor to manager index, counters, heartbeats | update_processor_pairings, pair_with_manager, recover_funds, heartbeat | replay, two indexes |
| Hyperdrive (incoming) | transmitters, snapshot roots, current snapshot, message sequence | submit_state_merkle_root, submit_message | quorum, equivocation, ordering of messages |
| Hyperdrive (outgoing, `pallets/hyperdrive-outgoing`) | the peaks of a Merkle mountain range, where each leaf came from, snapshots; all nodes in the off-chain database | send_message, on_finalize, generate_proof | forks write the same positions; a proof is made for an older range than the present one |
| MMR gadget (`pallets/hyperdrive-outgoing/src/mmr_gadget`) | the last block canonicalized, in memory and in the aux store | start, finality notifications, catch-up | missed notifications, crashes between two writes, forks |
| Parachain staking (`pallets/parachain-staking`) | candidates, two lists of delegations each, delegators, requests, the pool, locks, `Total`; rounds, snapshots of the stakes, points, payouts | join, bond, delegate, revoke, leave, each scheduled and executed; block and round | six records of one delegation; the list of a delegation is guessed; payouts go on while everything changes |
| ink! contracts (`ink/`) | proxy: jobs, actions sent, messages processed; state: the range and the snapshots; validator: roots | send_actions, receive_actions, fulfill, insert, snapshot, configure | snapshots end with a block; messages come twice, late or out of order |
| Vesting | vesters, pool | vest, revest, cooldown, divest, kick_out, distribute, compound | shares of a pool in integer arithmetic |
| Fee manager, rewards treasury, assets manager, collator selection, fulfillment receiver | one each | see `PROJECT.json` | |

How they interact: the registry calls hooks of the marketplace, which calls the reward manager; Hyperdrive calls the
registry for jobs of other chains and the outgoing pallet is called for what those chains must learn.  The gadget shares
the off-chain database with the outgoing pallet and learns of finality from the client.  On Aleph Zero the proxy
calls the state aggregator for every action it sends and the validator for every message it receives.  Staking
calls nothing but the balances' locks and hooks of the runtime.

## What makes the components correct

* **Schedules.** `overlaps` and the merge in `fits_schedule` agree with what they are about: which executions
  run at the same time (`FitsIsSound`, `OverlapIsReal`, `OverlapsExact`).
* **Registry and marketplace.** The same jobs exist in both pallets; a match is in `StoredMatches` exactly if it
  is in `AssignedProcessors`; no job is acknowledged more often than it has slots; a processor's capacity is
  what it advertised less what its jobs need; jobs of one processor do not collide; what was agreed on at the
  match stays (`JobsConsistent`, `IndexConsistent`, `SlotsAccounted`, `CapacityAccounted`,
  `SchedulesCompatible`, `AgreementKept`).
* **Payments.** The pallet's account holds the sum of the budgets, an open job is fully funded, a budget covers
  every report that may still come, a refund cannot fail, and money moves only in the ways of an escrow
  (`PalletSolvent`, `OpenJobFunded`, `BudgetCovers`, `RefundPossible`, `ImplementsEscrow`).  A consumer's
  money is not locked for ever (`MatchedJobsCanEnd`).
* **Hyperdrive, incoming.** Only messages that a contract on the target chain has stored are taken, in order and
  once, and from Tezos and Ethereum only those of the owner (`Authentic`); a snapshot gets one root (`OneRootPerSnapshot`) and snapshots go on (`SnapshotsAdvance`).
* **Vesting.** All vesters together never get more than was distributed (`RewardsCovered`), a stake is locked exactly
  as long as it is vested (`StakeLocked`), and after a cooldown a vester either divests or can be kicked out, with
  no block in between (`OneWayOut`).
* **Hyperdrive, outgoing, and the gadget.** Every node that a block which is or may become final can ask for is in
  the off-chain database, and is that chain's node, whatever was forked, moved, missed or interrupted
  (`NodesReadable`); a message is in a snapshot in time (`SnapshotTimely`) and provable against it (`ProofsVerify`);
  the gadget catches up after a stop (`CaughtUp`).
* **Staking.** The records of a delegation agree (`BooksAgree`), the lists are in an order that makes the guesses sound
  (`BooksOrdered`), the pool is current, the locks are what is bonded, requests are covered and `Total` follows
  (`PoolIsCurrent`, `LocksMatch`, `RequestsMatch`, `TotalFollowsLocks`).  Everybody with points is paid
  (`PaidInFull`), the shares of a payout add up (`SharesAddUp`), and no more than the issuance is minted
  (`PaidWithinIssuance`).
* **ink! contracts.** An action is provable in the snapshot recorded with it (`SentProvable`); a message takes effect once
  (`AssignedOnce`).
* **Components that are not modelled yet.** Attestations: a certificate chain is accepted only if no
  certificate in it was revoked when it was submitted, and a revoked one is never trusted again.  Processor
  manager: a processor has at most one manager, and a signed pairing cannot be replayed.  Collator selection: a bond is
  held exactly for the candidates.

## How the modules correspond to the code

**`Schedule`** has the pure functions of `Schedule` in `acurast/common/src/types.rs` over times `0 .. MaxTime`;
`MaxTime` stands for `u64::MAX`, and a function whose Rust form returns `None` on overflow returns `<<>>`.
`Executions` and `MeetsExecution` are the reference they are compared with.

**`FitsSchedule`** is the loop of `fits_schedule`: the two heads of `itertools::merge`, the accumulator
`prev_end` of the `try_fold`, one iteration per step.  Its result is what `Marketplace` uses in one step as
`Compatible`.

**`Marketplace`** is the registry, the marketplace and the reward manager, because every extrinsic of one of
them runs through the others in one transaction.  Each storage map is a function with `None` for a missing
entry; each extrinsic is the action of the same name.

| Code | Module |
|---|---|
| `register`, `register_for` with `register_hook`, `lock_reward` and an instant match | `register`, `register_remote` |
| `deregister` with the three branches of `deregister_hook` | `deregister_for` = `deregister_open`, `deregister_matched`, `deregister_assigned` |
| `update_allowed_sources`, `set_environment(s)` | same names |
| `advertise`, `delete_advertisement` | same names |
| `propose_matching`, `process_matching`, `pay_matcher_reward` | `propose_matching(matcher, plan)`; `plan` maps the jobs of the call to their sources and delays |
| `acknowledge_match`, `report`, `finalize_job` | same names |
| `finalize_jobs_for` (called by `finalize_jobs` and by Hyperdrive) | `finalize_jobs_for` |
| the timestamp; `ManagerProvider`; `ensure_source_verified` | `Tick`, `ChangePairing`, `ChangeAttestation` |

Left out: the script and the extra data of a registration, public keys, slot numbers, the wording of events,
`filter_matching_sources` (it only reads), the fixed-point arithmetic of reputations (`UpdateReputation`
takes any score of the set `Scores`), and errors of `MarketplaceHooks` (`lib.rs:487`, 771, 776, 836, 1480): a runtime may
supply hooks that veto a call, but the only implementation in the repository is the one of `()`, which always succeeds.
`MatchedJobsCanEnd` holds for such hooks only.

**`Escrow`** is the abstract specification of the money: escrows in three phases and a vault.  `Marketplace` maps
`StoredJobStatus` to the phase, `JobBudgets` to what is held and the balance of the pallet's account to the vault.

**`Hyperdrive`** is the incoming pallet for one target chain, `chain`, which decides of what type the proofs are.  A root
is what can be proved against it: the message, if any, for every contract and number.  `CalculatesRoot` says which
proofs lead to a root: on Tezos and Ethereum those about the contract that is the owner now (`TezosProof`,
`EthereumProof`), on Aleph Zero those about any contract (`SubstrateProof`), because `calculate_root` of
`chain/substrate.rs` does not read `CurrentTargetChainOwner`.  Hashes, tries and mountain ranges are abstracted to that.
(A root of Aleph Zero has the leaves of its own snapshot alone, the model's also those before: more can be
proved against it than in the code, never something else.)  The target chain, its contracts and the transmitters are the
environment; an honest transmitter submits the state it sees, another one also a forgery, or both.
`StateMerkleRootCount` is the set `submitted` of triples.  A number is consumed whether the action succeeds or
not (`process_action` is transactional on its own), so the result of the action is left out; the actions
themselves are `register_remote`, `deregister_for`, `finalize_jobs_for` and `set_environment` of `Marketplace`.
`reopened` is a history variable: the snapshots that root has gone back to, or before.

**`Vesting`** is the vesting pallet, one action per extrinsic and for `distribute_reward` and `compound`, which other
pallets call.  `VestingBalance` is implemented by the runtime; `locked` is what it has locked, `paid` what it was
told to pay.  The pair `s` of the pool and its divisions are as in the code.  `revest_for` and `cooldown` compute a new
`total_power` and drop it, and so do the actions; `raised` is a history variable: the powers have exceeded
`total_power` at some time.  The overflow of 128-bit numbers, an error of the call, is left out.

**`Delegations`** is the book of one candidate: its metadata and its top and bottom lists, which exist together.  The
methods of `CandidateMetadata` are functions from a book to a book; the error `DelegationDNE` is `None`.  A stake
is an amount and a power, ordered by power first, and its sums saturate component by component as in the code.  Sums over a list
are sums over its positions (`Sums`), without recursion, so that they can be reasoned about.

**`ParachainStaking`** is the pallet between two rounds, one action per extrinsic.

| Code | Module |
|---|---|
| `join_candidates`, `go_offline`, `go_online`, `candidate_bond_more` | same names |
| `schedule_`, `execute_`, `cancel_leave_candidates` and `_candidate_bond_less` | same names |
| `delegate`, `delegate_with_auto_compound`, `delegator_bond_more`, `set_auto_compound` | same names; `delegate` is a percentage of 0 |
| `schedule_revoke_delegation`, `schedule_delegator_bond_less`, `execute_` and `cancel_delegation_request` | same names; the execution is `execute_revoke` or `execute_decrease` |
| `schedule_`, `execute_`, `cancel_leave_delegators` | same names |
| `hotfix_remove_delegation_requests_exited_candidates` | same name |
| `StakingHooks::power` | `power`: `Factor` by unit of amount, constant for an account |

The counts that callers pass as weight hints, and the bound on the number of requests, only make calls fail and are left out.

**`StakingRewards`** extends it with the rounds: `Block(author)` is a block (`on_initialize`, with
`handle_delayed_payouts` paying one collator, and at the end of a round `prepare_staking_payouts` and
`select_top_candidates`; then the points of the author), and the settings of governance are actions.  The issuance of
a round is a choice out of `Issuances`.  `Perbill` and `Percent` round as the library does; `Accuracy` stands for the
billion parts of `Perbill`.  `shortened` and `ledger` are history variables: a round has been made shorter, and what the
payouts of a round have minted.

**`Mmr`** has the arithmetic of positions of a Merkle mountain range, from `utils.rs` and `mmr.rs`, and what `mmr_lib`
contributes.  A node is the sequence of the leaves under it, so that equal hashes are equal contents.

**`HyperdriveOutgoing`** is the pallet, the off-chain database and the gadget.  `blocks` is the tree of imported
blocks, each with the storage of the pallet after it.  `Import` executes a block (`send_message` for every message of
its batch, then `on_finalize`) and puts its nodes under fork-aware keys; `Finalize` notifies a gadget that is up.
`Notified` turns a notification into a list of writes (`todo`), and `Work` does the next one, so that `Crash` falls between
any two.  `aux` and the two sets of nodes survive a crash, the rest does not.  The pallet is in the runtime from genesis on,
so that the early return of `canonicalize_branch` for a block before the first with a range (`offchain_mmr.rs:222`) and the
`Ok(None)` of `try_build` (`mod.rs:134`) do not arise.  The node runs one gadget; see "Met on the way" for several.

**`StateAggregator`** and **`Proxy`** are the contracts of that name; a contract's storage is a record, a call that returns
an error or panics changes nothing.  The root of a finished snapshot is that of the state at the end of its block,
which `stateAt` keeps.  Of the validator there is its list `roots`, to which `submit_root` adds: each covers the first so many messages of `Inbox`, and how
submissions are counted is left out.  An action whose encoding is too big (`OutgoingActionTooBig`) is an error of the call and not among `Requests`.
`Wrap` stands for 2^128: the contracts are built without overflow checks, so that a difference wraps.

**`Sums`** defines the sum of a function over a finite set, for budgets, capacities and shares.

Operators whose name extends that of the definition after them (`refundReserved`, `HasQuorumStrict`, ...) are
deliberate slips.  Each is the mutant of a property: put in the place of the definition it makes the property fail.

## The runs

| Run | What it shows | States |
|---|---|---|
| `fits` | every pair of well-formed schedules up to the bounds, with delays and overflow: the merge accepts exactly the pairs that do not collide when the pre-check lets it decide, and `overlaps` is exact on the queries made of it | 470 000 |
| `slots` | one job with two slots, or an instant match, two processors, one of which loses its manager or its attestation at any time: indexes, acknowledgements, budget, agreement | 98 000 |
| `pair` | two jobs, one of another chain and registered again while open, compete for one processor: money, capacity, time; refinement of `Escrow`; under weak fairness of time, a matched job can be finalized by its consumer | 185 000 |
| `hyperdrive` | three transmitters, one or two of them dishonest, two contracts, two blocks of the target chain, for each of the three chains: safety and progress | 680 000 |
| `vesting` | two vesters, stakes and periods with even and odd powers, rewards that do not divide evenly: rewards, locks, ways out | 1 370 000 |
| `staking` | one candidate and three delegators with room for one delegation in each list, or two candidates that share them; one delegator has half the power of the others for the same amount; two rounds | 123 000 |
| `rewards` | two candidates and a delegator from a genesis on, three rounds of two or three blocks up to the start of a fourth, two calls of users or governance in between | 181 000 |
| `outgoing` | every tree of up to four blocks that send up to two messages each, at most four in all, with forks that send the same or other messages, every order of finality, one crash | 539 000 |
| `ink` | two users, two processors, batches of one or two actions, four messages back, durations of 0 and 1 block | 350 000 |
| `fits_conflict`, `vesting_rewards`, `outgoing_proof` | counterexamples; see "Where code and documentation disagree" | |

**Bounds.**  Times go up to 10 or 12 because a schedule with two or three executions, its delay and the tolerance
fit below that and `MaxTime` is near enough to overflow.  Rewards are 3 to 5 units so that both percentages
round to something that is not exact, and balances allow one or two jobs so that a payer can run out of money.
Two slots and two processors are the least for which acknowledging, reporting and finalizing interleave; two
jobs are the least that compete; `MaxJobSeq` = 1 lets a remote job be registered again under its id.
For Hyperdrive three transmitters with a quorum of two are the least in which a dishonest one can split or
repeat votes while a quorum forms, and two dishonest ones can have a quorum of their own; windows end at
block 1, so all transmitters may expire.  Ethereum and Aleph Zero are taken with one dishonest transmitter, Tezos, whose
proofs can do what those of Ethereum can, with two, a quorum: there `Authentic` promises nothing, and `OneRootPerSnapshot` still does.
For Vesting two vesters share a reward, a third would only repeat the second; powers are 1, 2 and 3, the reward of
5 and the `BalanceUnit` of 10 leave remainders in both divisions, and three blocks hold a cooldown of one or two blocks, the
tolerance and the first block of a kick-out.
For staking, lists of one are the least in which a delegation is pushed from the top to the bottom and another out of it;
amounts of 1 and 2 make ties and strict orders, and a delegator of less power is outranked by a smaller amount; two rounds with delays of one let every request become due while
others are scheduled.  Two candidates matter for a delegator that leaves one and keeps the other; the two shapes are the two
kinds of initial balances of `MCParachainStaking`.  Auto-compounding, which no property of that run depends on, is turned on in the rewards'.  For the rewards, two collators and rounds of two blocks leave no block to
spare for the payouts, and an `Issuance` of 7 with 40 and 60 percent rounds up and down; a collator selected in the second
round is paid in the third, and what was left over shows as the fourth begins.  For the outgoing pallet, up to four leaves give one peak, two peaks and a full tree
of height 2, two batches of the same block and forks give equal positions with equal and with other contents, and
`MaximumBlocksBeforeSnapshot` = 1 lets a snapshot end with every block but the first; a second crash would start from what the
first one left.  For the contracts, two messages for one job, a third that finalizes it and one that means nothing can come in any
batches; four blocks hold two snapshots, and three actions two peaks.
`Fickle`, `Managed`, `Initial`, `Settings`, `Sends`, `RootSnapshots` limit which of the inputs change; every
one is a constant of the module, and the theorems hold for all values.

**Deadlock** is not checked for the marketplace (`Horizon` ends time) nor for `FitsSchedule` (the function
returns), nor for Vesting (`MaxBlock` and `MaxDistributed` end it), staking (`MaxRound`),
the outgoing pallet (`MaxBlocks`, `MaxLeaves`) and the contracts (`MaxBlock`): in each a named bound ends time.  It is checked for Hyperdrive.

**Fairness.**  `Marketplace!FairSpec` has weak fairness of `Tick` alone: blocks are produced and carry increasing
timestamps.  No user is assumed to do anything; the property therefore speaks of what the consumer *can* do.
`Hyperdrive!FairSpec` has weak fairness of the submissions of honest transmitters, whose job it is to submit;
the property is conditional on a quorum of them being active from some time on, because root decides that.

## The proofs

All are checked by TLAPS for every value of the constants that satisfies the `ASSUME` of the module.  None of the
properties is inductive as it stands; what has to be added says why the code is right.
Most of the assumptions are what the runtime's configuration and types guarantee (positive delays and list sizes, powers that are not 0,
`None` different from every value).  `StakingAssumption` also leaves out calls with an amount of 0, which the types allow and
`delegator_bond_more` accepts; such a call adds nothing to any stake, list, lock or total.  `GenesisAssumption` of `StakingRewards` is about the genesis configuration, which lists a
delegator once and, for a candidate, no more delegations than its lists hold.

* **`MarketplaceProofs`**, on the invariant `Consistent`.  `TypeInv` adds to `TypeOK` that what is stored was checked by
  `register_hook` (`RegistrationsSound`), so that counts of executions and slots are defined and no subtraction
  underflows.  `SlotsFit`: a job has at most as many matches as slots and its slots are at most `MaxSlots`; without it
  `clear_prefix`, which is given that limit, might leave entries of the index behind.  There is one lemma per action, and
  `StepCases` sorts the actions by what they may change.  On top of it:
  * `IndexConsistent`: besides, no match is made without being counted in `StoredTotalAssigned` (`CountedStep`), from which
    `finalize_job` subtracts 1 and by which it divides.
  * `AgreementKept` (an action property), `SlotsAccounted` and `CapacityAccounted` are stated for one match, one job and
    one processor (`Kept`, `SlotsOf`, `CapacityOf`) and proved action by action.  A match made in the same call as
    others sees the capacity that these have left (`SumPart`).
  * `SchedulesCompatible`: the test is made when the later of two jobs is matched and from then on neither
    registration nor delay changes; the test is symmetric (`CompatibleSymmetric`), so that the order of matching does not matter.
  * `ImplementsEscrow`, the refinement of `Escrow`: one step of the pallets is one step of the escrow, a plan of several
    jobs included.  `PalletSolvent`: every way of moving money changes `JobBudgets` and the pallet's account by the same amount.
  * `OpenJobFunded` and `BudgetCovers` need that no source has reported more often than agreed (`CoveredOf`); the fees of
    the sources and the matcher's share of what is left over are together at most the reward.
  * `RefundPossible` needs, besides solvency, that a payer with a budget keeps the existential deposit (`PayerAlive`), and that
    the pallet's account was endowed with it, which the theorem assumes: the code checks this nowhere.
* **`FitsScheduleProofs`**: `TypeOK`, `FitsIsSound`, `OverlapIsReal`, `OverlapsExact`.  The invariant `Merging` of the loop
  says that the executions already taken from both iterators are apart, that both heads are
  executions not yet taken, and that `prev_end` is the end of the last one taken, or 0.  `OverlapsExact` is folding
  modulo the interval: a period meets an execution iff its remainder meets the first one or the next.
* **`HyperdriveProofs`**, incoming: `TypeOK`, `Authentic`, `OneRootPerSnapshot`.  For `Authentic` the invariant says
  that blocks of the target chain are made in order and agree with what the contracts have stored, and that what
  honest transmitters submitted is such a block; a quorum, being larger than the set of dishonest
  transmitters, has an honest member (`QuorumHasHonest`), so that a valid root is the state of the chain at its
  snapshot (`ValidRootIsTaken`); what each of the three proofs shows against a root is `StoredMessages`.  For
  `OneRootPerSnapshot` it says that a root with a quorum belongs to a snapshot before the current one, or to
  one that was reopened (`DecidedBehind`), and that a snapshot which was not has at most one such root (`DecidedOnce`): the step
  that completes a quorum leaves the snapshot behind, and no root of it gets another vote.  For a reopened snapshot
  two roots with a quorum are both the state of the chain, if fewer than a quorum are dishonest.
* **`HyperdriveProofs`**, outgoing (`SpecOutgoing`): `SnapshotTimely`.  For a block and each of its ancestors the invariant `SoundPair` adds that what the
  ancestor had sent is included if the last snapshot of the block is not older than the ancestor: so when the limit is reached, either
  that snapshot or the one taken now has it.  `SoundBlock` bounds the cached numbers.  A parent is imported before its children, so
  that the recursion along the parents has one solution, and an import leaves the ancestors of other blocks alone.
* **`VestingProofs`**: `TypeOK`, `StakeLocked`, `RewardsCovered`, `OneWayOut`.  For `RewardsCovered` rewards are counted in units of
  1 / `BalanceUnit`, in which a vester's share (what is accrued, plus its power times the growth of `s` since) is exact.
  The invariant says that what was paid and all shares are at most what was distributed, that the powers are at most
  `total_power`, and that the lower bound of `s` is not above the upper one: that makes the share of
  whoever was just paid exactly what was accrued.  A call of a vester changes one share and loses at most what a
  division drops; a reward raises each share by its power times the growth of `s`, together no more than the reward.
* **`StakingProofs`**: `BooksAgree`, `BooksOrdered`, `PoolIsCurrent`, `LocksMatch`,
  `RequestsMatch`, `TotalFollowsLocks`.
  * The invariant is `BookInv` (`BooksHold`): what the delegators have recorded is well formed and names candidates
    (`Delegating`), the lists of every candidate hold exactly those delegations, sorted, the bottom only below a full top, with
    the cached ends, counts and capacities of their contents (`Booked`), and every request has its delegation and asks for no more
    than it (`Requesting`).  All three are needed at once: a call guesses the list of a delegation from
    a cached end and the recorded stake, so it takes the right one only if the records agree *and* the lists are in
    order; and the saturating subtractions of a revoke or a decrease are exact only if the request fits.
  * The argument goes up from lists: a sorted list without repeated owners is determined by the set it lists, so that
    inserting, removing, pushing down and kicking are operations on two sets; from there to the book of one candidate,
    one lemma per method of `CandidateMetadata`; from there to all books, one lemma per extrinsic.
  * `PoolInv` says that the pool has the total each active candidate counts, although `reset_top_data` updates it only when it sees the total
    change; `CLockInv` and `DLockInv` give the locks for every account, `LessInv` that `less_total` is the sum of
    the requests, which is a sum over candidates of which a kick or an exit takes one term.
  * `TotalFollowsLocks` is an action property: a step that finds `Total` equal to the locked amounts leaves it
    so.  Looking for its proof showed that it is false as it stood (see "Met on the way", staking): it excludes now
    the kick of a greater amount by a greater power.
* **`StakingRewardsProofs`**: `PaidInFull`, `SharesAddUp`, `PaidWithinIssuance`, and that genesis, rounds and
  compounding keep the books and the pool (`PayoutsKeepBooks`).
  * `PaidInFull`: the snapshot of a round is smaller than a round is long (`Sized`: both settings of
    governance keep it so, unless they shorten the round); the round that is paid now has a block left
    for everybody who is still to be paid (`EnoughBlocks`); and a round without points has no author who could be owed
    anything (`Counted`).  An empty selection repeats the snapshot of the last round, from which nothing is paid yet.
  * `StakedInv` joins `BookInv`, `PoolInv` and what a snapshot is: the stakes in it add up (`SnapsInv`).  Compounding pays into the books
    of the *present*, from a snapshot of the past: the delegation may be gone, and then nothing is compounded.
  * `LedgerInv`: no more points are awarded to collators than are counted for the round (`Awards`), and for a payout that is
    not finished, with `P` points of which `S` are not paid for yet, 2 · `P` · paid + 2 · due · `S` ≤ 2 · due · `P` + `P` · shares (`Fair`).
    So what is still owed is reserved; when a collator is paid, its points and its share leave together.  `SharesBound` adds the shares up:
    a `Perbill` of a sum of parts exceeds the whole by at most half a unit per part.
* **`ProxyProofs`**: `AssignedOnce`, `SentProvable`.  Numbers not yet given belong to no job and processed assignments only to known jobs,
  so that a new job starts with none (`Books`).  When a snapshot is due nothing has been inserted in this block yet,
  so that its root, that of the end of the last block, covers every leaf it counts, unless the duration has just been
  shortened (`Aggregated`).
* **`SumsProofs`** has the facts about sums: empty set, one element more or less, one value changed, monotony, parts, and
  what happens when every term grows by a multiple of another (`SumLinear`) or is a multiple (`SumMultiple`); and
  `SetInduction`, induction for a set of numbers, with which recursive functions can be unfolded.  For that reason the loops
  over a batch are operators of their own: `Sending` and `Receiving` of `Proxy`, `Executing` of `HyperdriveOutgoing`.

**Only model-checked:**

* liveness (`MatchedJobsCanEnd`, `SnapshotsAdvance`): fairness and `ENABLED` are out of the prover's reach;
* `NodesReadable`, `ProofsVerify` and `CaughtUp` of `HyperdriveOutgoing`: they compare nodes with the leaves below them, which needs
  what `size`, `trailing_ones` and `get_peaks` compute for every number of leaves (powers of two and the bits of a number) and
  what `FlattenSeq` makes of the peaks: inductions over heights and over sequences.

## Where code and documentation disagree

Each has a run that finds the shortest behaviour.

* `fits_conflict`: the pre-check of `fits_schedule` compares whole periods without the start delays, so that two
  jobs whose delayed executions collide are both accepted.
* `vesting_rewards`: `revest_for` and `cooldown` drop the new `total_power` they compute.  After a revest the shares of a
  reward add up to more than the reward.  (For the same reason `cooldown` fails once half of a vester's power exceeds the
  stale `total_power`, and the vester cannot leave.)

* `outgoing_proof`: with `maximum_messages`, `generate_proof` takes the limited last message as the number of leaves, so that the
  proof is one for an earlier range and its root is not the snapshot's.  The target chain refuses it.

Met on the way, without a run of their own:

* *Marketplace.*  A report is accepted at any time from the first execution on, also between executions and after the
  last (`marketplace/src/lib.rs:549`; the documentation at 500 says it is checked against the schedule).  A start delay
  above `max_start_delay` is accepted (1056), and `schedule_ended` relies on the maximum.  A job may be finalized up to
  the tolerance before its last execution ends (1376).  Environments beyond `MaxSlots` survive their job
  (`acurast/src/lib.rs:593`).  The creator who deregisters an assigned job gets the shares of the slots that nobody
  acknowledged, not only the remainder (808).  `do_advertise` (`functions.rs:55`) replaces the pricing of
  a processor whether or not it has matches, which the documentation of `advertise` prohibits.
* *Schedules.*  `overlaps` treats a query that starts before the schedule as one that starts at `start % interval`,
  not at the first execution as its comment says; `report` never makes such a query.
* *Hyperdrive, incoming.*  The documentation of `TransmissionQuorum` (`hyperdrive/src/lib.rs:118-120`) says that the quorum
  "must be larger than `ceil(number of transmitters / 2)`, otherwise multiple root hashes could become valid".  The code does
  not need that: the first root with a quorum closes its snapshot, and votes are taken for the current snapshot only.  The run has 2
  of 3, and `AtMostOneRoot` holds for every quorum above 0.  Nor is it enough once root sets the snapshot back
  (`update_current_snapshot`): the old votes stay, the same transmitters may vote for another root as well, and then a quorum
  of dishonest ones, of whatever size, makes a second root valid.  (A passing run and a theorem refute the first half; there is no
  counterexample to show.)  After `update_target_chain_owner` messages of the former owner, or of any other contract that puts
  leaves into the same range, are still accepted from Aleph Zero, whose proof does not read the owner (`chain/substrate.rs:90`).
* *Hyperdrive parsers.*  The Aleph Zero parser (`hyperdrive/src/chain/substrate.rs:187`) always passes a list of allowed
  sources, also an empty one, which `register_for` refuses, after the number of the message is consumed.
* *Staking.*  `decrease_bottom_delegation` (`types.rs:1166`) leaves the total of the bottom list as it was; when the
  candidate leaves, that total is taken off `Total`, which then is below what is locked (`TotalFollowsLocks` excludes
  just this case).  `delegate_with_auto_compound` reads the auto-compound list before a delegator may be kicked and writes
  it back afterwards, so that the entry of the kicked delegator stays.  Lists are ordered by power, `Total` counts amounts: when
  a delegation of more power kicks one of a greater amount, the net increase of `Total` saturates to 0
  (`auto_compound.rs:199`) while the locks become less, and `Total` exceeds them from then on (`TotalFollowsLocks` excludes
  just this case, too).  Shortening the rounds leaves payouts
  of the running one unmade (`PaidInFull` excludes it), and the genesis does not ask for fewer collators than
  blocks in a round, as every later change must.  A commission and a reserve of more than 100 percent
  together mint more than the issuance (`PaidWithinIssuance` excludes it).  `power_increased` changes a copy of the
  candidate that is never stored and adds the whole new power; the fallback of `power_decreased` revokes with
  a part of the stake.
* *Outgoing pallet.*  The gadget moves only the nodes of the last leaf of a block; those of the leaves before it stay
  under their fork-aware keys, which `get_elem` still finds, and nothing prunes those of stale forks.
  `FirstMmrBlockNumber` is set in the first `on_finalize`, not with the first node.  The gadget's key in the aux store
  (`mmr_gadget/aux_schema.rs:30`) does not name the pallet's instance, so that gadgets of two instances in one node overwrite each
  other's progress; `CaughtUp` speaks of a node with one gadget.
* *ink! contracts.*  `send_actions` stores a job under the number after the one it sends, so that the caller of later
  actions and the messages from Acurast name different jobs.  Every register of a batch is compared with the whole value
  sent.  An assignment that arrives after the finalization makes the job assigned again; a finalization refunds
  `remaining_fee` without setting it to 0.  `exchange_price` adds one whenever the price is not 0, also when it is exact.
  `end_time / 1000` (seconds) is compared with a timestamp in milliseconds.  Shortening the snapshot duration in the block of an
  insert may leave that leaf out of its snapshot (`SentProvable` excludes it).  The validator keeps the submissions of
  earlier snapshots and stores the caller's root rather than the one that was counted (`validator/lib.rs:201`).

## Plan

Done, in this order: `Schedule`, `FitsSchedule`, `Sums`, `Escrow`, `Marketplace`, `Hyperdrive`, `Vesting`, `Delegations`,
`ParachainStaking`, `StakingRewards`, `Mmr`, `HyperdriveOutgoing`, `StateAggregator`, `Proxy`: the marketplace is the core of
the chain, Hyperdrive is how it meets other chains, staking is how its blocks are made.  Next:

1. Proofs about `Mmr`: that leaf `i` brings the positions from `size(i)` to `size(i + 1) - 1`, and with it `NodesReadable` and `CaughtUp`.
2. `ProcessorManager` and `Attestation`: pairings with their counters, managers' ids, heartbeats; certificate
   chains and revocation.  They replace the free variables `manager` and `verified` of `Marketplace`.
3. The validator contract, and its composition with `Proxy` and `HyperdriveOutgoing` as the two ends of a channel.
4. `CollatorSelection`, `RewardsTreasury`, `FeeManager`, `AssetsManager`: one small module each.
5. `Reputation`: the fixed-point update against its real-valued definition, over bounded inputs.

## Not modelled

Decoders (Michelson, RLP, SCALE), cryptography (`p256-crypto`, `p384`), RPC and runtime APIs, weights, benchmarks and
migrations: they keep no protocol state.  `fulfillment-receiver` passes a call on to a handler outside the repository.  Of
staking, the inflation schedule (`set_inflation`, `compute_issuance`) is replaced by a choice, and
`power_decreased` and `power_increased`, which the runtime calls when vesting changes a power, are left out.  More than
half of the repository's Rust is the vendored `p384` with its field arithmetic.
