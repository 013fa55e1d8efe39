----------------------------- MODULE Hyperdrive -----------------------------
(***************************************************************************)
(* The receiving end of Hyperdrive (pallets/hyperdrive/src/lib.rs), for    *)
(* one target chain.  Transmitters submit the merkle root of the target    *)
(* chain's state at one snapshot (block) after the other; a root that a    *)
(* quorum has submitted is valid from then on.  Anybody may then submit a  *)
(* message together with a proof that a contract has stored it; messages   *)
(* are taken in the order of their numbers and their actions executed.     *)
(* Which contract a proof may be about depends on the type of the proof,   *)
(* that is, on the chain: the owner, or any of them.                       *)
(*                                                                         *)
(* A root stands for all that can be proved against it: for every contract *)
(* and message number, the payload stored there or None.  (Two different   *)
(* states do not hash to the same root.)  The target chain is the          *)
(* environment: contracts store messages, blocks are made.  A transmitter  *)
(* outside `honest` may submit any of the roots in Forgeries as well, and  *)
(* several of them for the same snapshot.                                  *)
(***************************************************************************)
EXTENDS Integers, FiniteSets

CONSTANTS
  Transmitters,      \* accounts that may become transmitters
  Windows,           \* the activity windows that may be given to them
  Initial,           \* the windows that root has set before
  Managed,           \* bound: the transmitters that root adds, updates or removes
  Settings,          \* the target chain with the transmitters that are honest
  Owners,            \* contracts on the target chain
  FirstOwner,
  Payloads,          \* messages
  Sends,             \* the messages that the contracts may store, by owner and number
  None,
  Forgeries,         \* roots of states the target chain is never in
  Quorum,            \* TransmissionQuorum
  MaxTransmittersPerSnapshot,
  TransmissionRate,
  MaxBlock,          \* bound: blocks of this chain
  MaxSnapshot,       \* bound: blocks of the target chain
  MaxMessages,       \* bound: messages per contract
  RootSnapshots      \* the snapshots root may move to

\* The instances of the pallet (instances.rs) by the type of their proofs.
Chains == {"Tezos", "Ethereum", "AlephZero"}

Numbers == 1 .. MaxMessages
Snapshots == 1 .. MaxSnapshot
Roots == [Owners -> [Numbers -> Payloads \cup {None}]]
WindowType == [start_block : Nat, end_block : Nat]

NoWindow == [start_block |-> 0, end_block |-> 0]

\* A message that was taken: the contract that it was proved to have stored it,
\* the owner at that time, and its payload.
Messages == [contract : Owners, owner : Owners, payload : Payloads]

ASSUME HyperdriveAssumption ==
  /\ IsFiniteSet(Transmitters)
  /\ Windows \subseteq WindowType
  /\ Initial \in [Transmitters -> WindowType]
  /\ Managed \subseteq Transmitters
  /\ Settings \subseteq [chain : Chains, honest : SUBSET Transmitters]
  /\ FirstOwner \in Owners
  /\ Sends \subseteq Owners \X Numbers \X Payloads
  /\ None \notin Payloads /\ None \notin Roots /\ None \notin Messages
  /\ Forgeries \subseteq Roots
  /\ Quorum \in Nat \ {0}
  /\ MaxTransmittersPerSnapshot \in Nat
  /\ TransmissionRate \in Nat \ {0}
  /\ MaxBlock \in Nat /\ MaxSnapshot \in Nat /\ MaxMessages \in Nat
  /\ RootSnapshots \subseteq Nat

VARIABLES
  chain,            \* the target chain, which gives T::Proof its type
  block,            \* System::block_number
  transmitter,      \* StateTransmitter
  current_snapshot, \* CurrentSnapshot
  submitted,        \* StateMerkleRootCount, as snapshot, root, transmitter
  message_seq,      \* MessageSequenceId
  owner,            \* CurrentTargetChainOwner
  processed,        \* the message taken for each number
  target,           \* the contracts' messages on the target chain
  height,           \* the target chain's blocks
  taken,            \* the target chain's state at each of its blocks
  honest,           \* the transmitters that submit only what they see
  reopened          \* the snapshots that root has gone back to, or before

vars == <<chain, block, transmitter, current_snapshot, submitted, message_seq, owner, processed,
          target, height, taken, honest, reopened>>

targetVars == <<target, height, taken>>
fixedVars  == <<chain, honest>>

TypeOK ==
  /\ chain \in Chains
  /\ block \in Nat
  /\ transmitter \in [Transmitters -> WindowType]
  /\ current_snapshot \in Nat
  /\ submitted \subseteq Snapshots \X Roots \X Transmitters
  /\ message_seq \in 0 .. MaxMessages
  /\ owner \in Owners
  /\ processed \in [Numbers -> Messages \cup {None}]
  /\ target \in Roots
  /\ height \in 0 .. MaxSnapshot
  /\ taken \in [Snapshots -> Roots \cup {None}]
  /\ honest \subseteq Transmitters
  /\ reopened \subseteq Nat

NoMessages == [o \in Owners |-> [i \in Numbers |-> None]]

Init ==
  /\ \E setting \in Settings : chain = setting.chain /\ honest = setting.honest
  /\ block = 0
  /\ transmitter = Initial
  /\ current_snapshot = 1
  /\ submitted = {}
  /\ message_seq = 0
  /\ owner = FirstOwner
  /\ processed = [i \in Numbers |-> None]
  /\ target = NoMessages
  /\ height = 0
  /\ taken = [s \in Snapshots |-> None]
  /\ reopened = {}

-----------------------------------------------------------------------------
\* update_state_transmitters with one update; a call with several is the same
\* as several calls.  Removing a transmitter leaves the default window.
SetTransmitter(t, window) ==
  /\ transmitter' = [transmitter EXCEPT ![t] = window]
  /\ UNCHANGED <<block, current_snapshot, submitted, message_seq, owner, processed,
                 targetVars, fixedVars, reopened>>

update_state_transmitters(t) ==
  \/ \E window \in Windows : SetTransmitter(t, window)
  \/ SetTransmitter(t, NoWindow)

Active(t) ==
  transmitter[t].start_block <= block /\ block < transmitter[t].end_block

Voters(subs, s, r) == { t \in Transmitters : <<s, r, t>> \in subs }

\* A transmitter is added to the bounded set of the root, if there is room.
WithVote(s, r, t) ==
  IF t \notin Voters(submitted, s, r)
       /\ Cardinality(Voters(submitted, s, r)) < MaxTransmittersPerSnapshot
    THEN submitted \cup {<<s, r, t>>}
    ELSE submitted

\* Mutant of HasQuorum: one transmitter too many is asked for.
HasQuorumStrict(subs, s, r) == Cardinality(Voters(subs, s, r)) > Quorum

\* validate_state_merkle_root, on the submissions `subs`.
HasQuorum(subs, s, r) == Cardinality(Voters(subs, s, r)) >= Quorum

\* Mutant of submit_state_merkle_root: the snapshot does not advance when a
\* root is accepted.
submit_state_merkle_rootStays(t, s, r) ==
  /\ s = current_snapshot
  /\ Active(t)
  /\ submitted' = WithVote(s, r, t)
  /\ UNCHANGED <<block, transmitter, current_snapshot, message_seq, owner, processed,
                 targetVars, fixedVars, reopened>>

submit_state_merkle_root(t, s, r) ==
  /\ s = current_snapshot
  /\ Active(t)
  /\ submitted' = WithVote(s, r, t)
  /\ current_snapshot' = IF HasQuorum(submitted', s, r)
                           THEN current_snapshot + TransmissionRate
                           ELSE current_snapshot
  /\ UNCHANGED <<block, transmitter, message_seq, owner, processed, targetVars, fixedVars, reopened>>

\* What a transmitter may submit: the state it sees or, unless it is honest,
\* a forgery.
Submission(t, s, r) ==
  /\ \/ taken[s] # None /\ r = taken[s]
     \/ t \notin honest /\ r \in Forgeries
  /\ submit_state_merkle_root(t, s, r)

-----------------------------------------------------------------------------
\* Proof::calculate_root leads to r, for the proof that contract o has stored
\* a message under i.  On Tezos the owner is hashed with the number and the
\* message into the leaf.
TezosProof(r, o, i) ==
  o = owner /\ r[o][i] # None

\* On Ethereum the owner is the account, and the number the key, that the
\* proof of its storage is validated for.
EthereumProof(r, o, i) ==
  o = owner /\ r[o][i] # None

\* On Aleph Zero a leaf is a message with its number; the owner is not asked.
SubstrateProof(r, o, i) ==
  r[o][i] # None

\* Mutant of CalculatesRoot: a proof that nothing is stored under i is taken
\* for a message.
CalculatesRootAbsent(r, o, i) == chain = "AlephZero" \/ o = owner

CalculatesRoot(r, o, i) ==
  CASE chain = "Tezos"     -> TezosProof(r, o, i)
    [] chain = "Ethereum"  -> EthereumProof(r, o, i)
    [] chain = "AlephZero" -> SubstrateProof(r, o, i)

\* process_message_id and process_action for the payload stored under i.  The
\* number is consumed whether the payload can be parsed and its action
\* executed or not; an action that fails is rolled back on its own.
Process(i, o, payload) ==
  /\ i = message_seq + 1
  /\ message_seq' = i
  /\ processed' = [processed EXCEPT ![i] =
                      [contract |-> o, owner |-> owner, payload |-> payload]]

\* Mutant of submit_message: one submission of the root is enough.
submit_messageEarly(s, r, o, i) ==
  /\ CalculatesRoot(r, o, i)
  /\ Voters(submitted, s, r) # {}
  /\ Process(i, o, r[o][i])
  /\ UNCHANGED <<block, transmitter, current_snapshot, submitted, owner, targetVars, fixedVars,
                 reopened>>

submit_message(s, r, o, i) ==
  /\ CalculatesRoot(r, o, i)
  /\ HasQuorum(submitted, s, r)
  /\ Process(i, o, r[o][i])
  /\ UNCHANGED <<block, transmitter, current_snapshot, submitted, owner, targetVars, fixedVars, reopened>>

update_target_chain_owner(o) ==
  /\ owner' = o
  /\ UNCHANGED <<block, transmitter, current_snapshot, submitted, message_seq, processed,
                 targetVars, fixedVars, reopened>>

update_current_snapshot(s) ==
  /\ current_snapshot' = s
  /\ reopened' = reopened \cup (s .. current_snapshot - 1)
  /\ UNCHANGED <<block, transmitter, submitted, message_seq, owner, processed, targetVars, fixedVars>>

-----------------------------------------------------------------------------
(***************************************************************************)
(* The two chains.                                                         *)
(***************************************************************************)
NextBlock ==
  /\ block < MaxBlock
  /\ block' = block + 1
  /\ UNCHANGED <<transmitter, current_snapshot, submitted, message_seq, owner, processed,
                 targetVars, fixedVars, reopened>>

\* A contract stores a message, once and for all.
TargetSend(o, i, payload) ==
  /\ target[o][i] = None
  /\ target' = [target EXCEPT ![o][i] = payload]
  /\ UNCHANGED <<block, transmitter, current_snapshot, submitted, message_seq, owner, processed,
                 height, taken, fixedVars, reopened>>

TargetBlock ==
  /\ height < MaxSnapshot
  /\ height' = height + 1
  /\ taken' = [taken EXCEPT ![height + 1] = target]
  /\ UNCHANGED <<block, transmitter, current_snapshot, submitted, message_seq, owner, processed,
                 target, fixedVars, reopened>>

TransmitterStep ==
  \E t \in Transmitters, s \in Snapshots, r \in Forgeries \cup { taken[k] : k \in Snapshots } :
    Submission(t, s, r)

MessageStep ==
  \E v \in submitted, o \in Owners, i \in Numbers : submit_message(v[1], v[2], o, i)

RootStep ==
  \/ \E t \in Managed : update_state_transmitters(t)
  \/ \E o \in Owners : update_target_chain_owner(o)
  \/ \E s \in RootSnapshots : update_current_snapshot(s)

ChainStep ==
  \/ NextBlock
  \/ \E m \in Sends : TargetSend(m[1], m[2], m[3])
  \/ TargetBlock

Next == TransmitterStep \/ MessageStep \/ RootStep \/ ChainStep

Spec == Init /\ [][Next]_vars

-----------------------------------------------------------------------------
(***************************************************************************)
(* Properties.                                                             *)
(***************************************************************************)
HonestQuorum == Cardinality(Transmitters \ honest) < Quorum

\* submit_message: as long as fewer transmitters than the quorum are
\* dishonest, every message number up to MessageSequenceId was consumed
\* exactly once, with the payload that a contract has stored under that number
\* on the target chain: on Tezos and Ethereum the contract that was the owner
\* then, on Aleph Zero any.  Votes of transmitters that were removed, moved
\* snapshots, changes of the owner and forged roots do not change that.
Authentic ==
  HonestQuorum =>
    \A i \in Numbers :
      IF i <= message_seq
        THEN /\ processed[i] # None
             /\ processed[i].payload = target[processed[i].contract][i]
             /\ chain \in {"Tezos", "Ethereum"} => processed[i].contract = processed[i].owner
        ELSE processed[i] = None

\* submit_state_merkle_root: at most one root of a snapshot becomes valid.  For
\* a snapshot that root never goes back to this holds whoever the
\* transmitters are, however many roots each of them submits and however small
\* the quorum is; for the others as long as fewer transmitters than the quorum
\* are dishonest.
OneRootPerSnapshot ==
  \A v, w \in submitted :
    /\ v[1] = w[1]
    /\ HasQuorum(submitted, v[1], v[2]) /\ HasQuorum(submitted, w[1], w[2])
    /\ HonestQuorum \/ v[1] \notin reopened
    => v[2] = w[2]

\* Transmitters do their work: an honest one submits what it sees for the
\* snapshot that is asked for.
HonestSubmission(t) ==
  t \in honest /\ \E s \in Snapshots : taken[s] # None /\ Submission(t, s, taken[s])

FairSpec == Spec /\ \A t \in Transmitters : WF_vars(HonestSubmission(t))

EnoughActive == Cardinality({ t \in honest : Active(t) }) >= Quorum

\* If from some time on a quorum of honest transmitters is active, the
\* snapshot asked for moves on once the target chain has reached it: votes
\* for other roots, or of transmitters that are gone, block nothing.
SnapshotsAdvance ==
  <>[]EnoughActive =>
    \A s \in Snapshots :
      (current_snapshot = s /\ taken[s] # None) ~> (current_snapshot # s)

=============================================================================
