-------------------------- MODULE HyperdriveProofs --------------------------
(***************************************************************************)
(* Both directions of Hyperdrive.                                          *)
(*                                                                         *)
(* Incoming: type correctness, Authentic and OneRootPerSnapshot of         *)
(* Hyperdrive, for any transmitters, windows, quorum and number of         *)
(* messages, for each of the three types of proofs, and whatever the       *)
(* dishonest transmitters submit.                                          *)
(*                                                                         *)
(* Outgoing: SnapshotTimely of HyperdriveOutgoing, for any trees of        *)
(* blocks, batches of messages and limits.                                 *)
(***************************************************************************)
EXTENDS Hyperdrive, HyperdriveOutgoing, SumsProofs, TLAPS

-----------------------------------------------------------------------------
(***************************************************************************)
(* Types.                                                                  *)
(***************************************************************************)
\* A submission that submit_state_merkle_root accepts adds at most one
\* element to what StateMerkleRootCount holds, and that element is
\* well-typed: honest transmitters read the target chain's blocks.
LEMMA SubmissionType ==
  ASSUME TypeOK, NEW t \in Transmitters, NEW s \in Snapshots, NEW r, Submission(t, s, r)
  PROVE  /\ r \in Roots
         /\ submitted' \in {submitted, submitted \cup {<<s, r, t>>}}
         /\ current_snapshot' \in Nat
<1>1. r \in Roots
  BY HyperdriveAssumption DEF TypeOK, Submission
<1>2. submitted' \in {submitted, submitted \cup {<<s, r, t>>}}
  BY DEF Submission, submit_state_merkle_root, WithVote
<1>3. current_snapshot' \in Nat
  BY HyperdriveAssumption DEF TypeOK, Submission, submit_state_merkle_root
<1> QED BY <1>1, <1>2, <1>3

\* One entry of a table of messages may be replaced by another message.
LEMMA RootUpdate ==
  ASSUME NEW r \in Roots, NEW o \in Owners, NEW i \in Numbers, NEW p \in Payloads
  PROVE  [r EXCEPT ![o][i] = p] \in Roots
BY DEF Roots

\* On every chain calculate_root succeeds only for a message that is stored
\* under the root, and on Tezos and Ethereum only for one of the owner.
LEMMA StoredMessages ==
  ASSUME TypeOK, NEW r, NEW o, NEW i, CalculatesRoot(r, o, i)
  PROVE  /\ r[o][i] # None
         /\ chain \in {"Tezos", "Ethereum"} => o = owner
BY DEF TypeOK, Chains, CalculatesRoot, TezosProof, EthereumProof, SubstrateProof

\* Every step of the transmitters, of those who submit messages, of root and
\* of the two chains keeps the types of the storage items.
LEMMA TypeStep ==
  TypeOK /\ [Next]_vars => TypeOK'
<1> SUFFICES ASSUME TypeOK, [Next]_vars PROVE TypeOK'
  OBVIOUS
<1>1. CASE TransmitterStep
  <2>1. PICK t \in Transmitters, s \in Snapshots, r \in Forgeries \cup { taken[k] : k \in Snapshots } :
               Submission(t, s, r)
    BY <1>1 DEF TransmitterStep
  <2>2. /\ submitted' \subseteq Snapshots \X Roots \X Transmitters
        /\ current_snapshot' \in Nat
    BY <2>1, SubmissionType DEF TypeOK
  <2> QED BY <2>1, <2>2 DEF Submission, submit_state_merkle_root, targetVars, fixedVars, TypeOK
<1>2. CASE MessageStep
  <2>1. PICK v \in submitted, o \in Owners, i \in Numbers : submit_message(v[1], v[2], o, i)
    BY <1>2 DEF MessageStep
  <2>2. v[2] \in Roots
    BY DEF TypeOK
  <2>3. v[2][o][i] \in Payloads
    <3>1. v[2][o][i] # None
      BY <2>1, StoredMessages DEF submit_message
    <3> QED BY <2>2, <3>1 DEF Roots
  <2>4. /\ message_seq' \in 0 .. MaxMessages
        /\ processed' \in [Numbers -> Messages \cup {None}]
    BY <2>1, <2>3, HyperdriveAssumption DEF TypeOK, submit_message, Process, Numbers, Messages
  <2> QED BY <2>1, <2>4 DEF submit_message, targetVars, fixedVars, TypeOK
<1>3. CASE RootStep
  <2>1. ASSUME NEW t \in Transmitters, update_state_transmitters(t)
        PROVE  TypeOK'
    <3>1. NoWindow \in WindowType
      BY DEF NoWindow, WindowType
    <3> QED BY <2>1, <3>1, HyperdriveAssumption
            DEF update_state_transmitters, SetTransmitter, targetVars, fixedVars, TypeOK
  <2>2. ASSUME NEW o \in Owners, update_target_chain_owner(o)
        PROVE  TypeOK'
    BY <2>2 DEF update_target_chain_owner, targetVars, fixedVars, TypeOK
  <2>3. ASSUME NEW s \in RootSnapshots, update_current_snapshot(s)
        PROVE  TypeOK'
    <3>1. s .. current_snapshot - 1 \subseteq Nat
      BY HyperdriveAssumption DEF TypeOK
    <3> QED BY <2>3, <3>1, HyperdriveAssumption
            DEF update_current_snapshot, targetVars, fixedVars, TypeOK
  <2> QED BY <1>3, <2>1, <2>2, <2>3, HyperdriveAssumption DEF RootStep
<1>4. CASE ChainStep
  <2>1. CASE NextBlock
    BY <2>1 DEF NextBlock, targetVars, fixedVars, TypeOK
  <2>2. ASSUME NEW m \in Sends, TargetSend(m[1], m[2], m[3])
        PROVE  TypeOK'
    <3>1. target' \in Roots
      BY <2>2, RootUpdate, HyperdriveAssumption DEF TargetSend, TypeOK
    <3> QED BY <2>2, <3>1 DEF TargetSend, fixedVars, TypeOK
  <2>3. CASE TargetBlock
    <3>1. height + 1 \in 1 .. MaxSnapshot /\ height' \in 0 .. MaxSnapshot
      BY <2>3, HyperdriveAssumption DEF TargetBlock, TypeOK
    <3> QED BY <2>3, <3>1 DEF TargetBlock, fixedVars, TypeOK, Snapshots
  <2> QED BY <1>4, <2>1, <2>2, <2>3 DEF ChainStep
<1>5. CASE UNCHANGED vars
  BY <1>5 DEF vars, TypeOK
<1> QED BY <1>1, <1>2, <1>3, <1>4, <1>5 DEF Next

\* The chain's storage starts well-typed.
LEMMA TypeInit ==
  Init => TypeOK
<1> SUFFICES ASSUME Init PROVE TypeOK
  OBVIOUS
<1>1. target \in Roots
  BY DEF Init, NoMessages, Roots
<1>2. /\ message_seq \in 0 .. MaxMessages
      /\ height \in 0 .. MaxSnapshot
      /\ block \in Nat /\ current_snapshot \in Nat
  BY HyperdriveAssumption DEF Init
<1>3. /\ transmitter \in [Transmitters -> WindowType]
      /\ owner \in Owners
      /\ chain \in Chains /\ honest \subseteq Transmitters
  BY HyperdriveAssumption DEF Init
<1>4. /\ processed \in [Numbers -> Messages \cup {None}]
      /\ taken \in [Snapshots -> Roots \cup {None}]
      /\ submitted \subseteq Snapshots \X Roots \X Transmitters
      /\ reopened \subseteq Nat
  BY DEF Init
<1> QED BY <1>1, <1>2, <1>3, <1>4 DEF TypeOK

\* Every storage item keeps its type: in particular only messages that are
\* really stored under their number are ever processed.
THEOREM TypeCorrect ==
  Spec => []TypeOK
BY TypeInit, TypeStep, PTL DEF Spec

-----------------------------------------------------------------------------
(***************************************************************************)
(* Authentic.  What an honest transmitter submits is the target chain's    *)
(* state at that snapshot, a block once made is never changed and a        *)
(* message once stored stays; a quorum holds an honest transmitter.        *)
(***************************************************************************)
BlocksInOrder ==
  \A s \in Snapshots : s > height => taken[s] = None

BlocksAgree ==
  \A s \in Snapshots :
    taken[s] # None =>
      \A o \in Owners, i \in Numbers : taken[s][o][i] # None => taken[s][o][i] = target[o][i]

HonestVotes ==
  \A v \in submitted : v[3] \in honest => taken[v[1]] # None /\ v[2] = taken[v[1]]

AuthenticInv ==
  TypeOK /\ BlocksInOrder /\ BlocksAgree /\ HonestVotes /\ Authentic

\* Among the transmitters that make a root valid one is honest, if the
\* dishonest ones are fewer than TransmissionQuorum.
LEMMA QuorumHasHonest ==
  ASSUME TypeOK, HonestQuorum, NEW s, NEW r, HasQuorum(submitted, s, r)
  PROVE  \E t \in honest : <<s, r, t>> \in submitted
<1> DEFINE V == Voters(submitted, s, r)
<1> DEFINE D == Transmitters \ honest
<1>1. IsFiniteSet(Transmitters)
  BY HyperdriveAssumption
<1>2. IsFiniteSet(D)
  BY <1>1, FS_Subset
<1>3. CASE V \subseteq D
  <2>1. IsFiniteSet(V) /\ Cardinality(V) <= Cardinality(D)
    BY <1>2, <1>3, FS_Subset
  <2>2. Cardinality(V) \in Nat /\ Cardinality(D) \in Nat
    BY <1>2, <2>1, FS_CardinalityType
  <2> QED BY <2>1, <2>2, HyperdriveAssumption DEF HasQuorum, HonestQuorum
<1>4. CASE ~(V \subseteq D)
  BY <1>4 DEF Voters
<1> QED BY <1>3, <1>4

\* A valid root is the target chain's state at its snapshot.
LEMMA ValidRootIsTaken ==
  ASSUME AuthenticInv, HonestQuorum, NEW v \in submitted, HasQuorum(submitted, v[1], v[2])
  PROVE  taken[v[1]] # None /\ v[2] = taken[v[1]]
<1>1. PICK t \in honest : <<v[1], v[2], t>> \in submitted
  BY QuorumHasHonest DEF AuthenticInv
<1> QED BY <1>1 DEF AuthenticInv, HonestVotes

\* A valid root proves only what the contracts have stored.
LEMMA ValidRootIsReal ==
  ASSUME AuthenticInv, HonestQuorum, NEW v \in submitted, HasQuorum(submitted, v[1], v[2]),
         NEW o \in Owners, NEW i \in Numbers, v[2][o][i] # None
  PROVE  v[2][o][i] = target[o][i]
<1>1. v[1] \in Snapshots
  BY DEF AuthenticInv, TypeOK
<1>2. taken[v[1]] # None /\ v[2] = taken[v[1]]
  BY ValidRootIsTaken
<1> QED BY <1>1, <1>2 DEF AuthenticInv, BlocksAgree

\* Every step keeps the strengthened invariant, whoever takes it.
LEMMA AuthenticStep ==
  AuthenticInv /\ [Next]_vars => AuthenticInv'
<1> SUFFICES ASSUME AuthenticInv, [Next]_vars PROVE AuthenticInv'
  OBVIOUS
<1> USE DEF AuthenticInv
<1>0. TypeOK'
  BY TypeStep
<1>1. CASE TransmitterStep
  <2>1. PICK t \in Transmitters, s \in Snapshots, r \in Forgeries \cup { taken[k] : k \in Snapshots } :
               Submission(t, s, r)
    BY <1>1 DEF TransmitterStep
  <2>2. submitted' \in {submitted, submitted \cup {<<s, r, t>>}}
    BY <2>1, SubmissionType
  <2>3. UNCHANGED <<chain, honest, taken, target, height, message_seq, processed>>
    BY <2>1 DEF Submission, submit_state_merkle_root, targetVars, fixedVars
  <2>4. t \in honest => taken[s] # None /\ r = taken[s]
    BY <2>1 DEF Submission
  <2>5. HonestVotes'
    BY <2>2, <2>3, <2>4 DEF HonestVotes
  <2> QED BY <1>0, <2>3, <2>5 DEF BlocksInOrder, BlocksAgree, Authentic, HonestQuorum
<1>2. CASE MessageStep
  <2>1. PICK v \in submitted, o \in Owners, i \in Numbers : submit_message(v[1], v[2], o, i)
    BY <1>2 DEF MessageStep
  <2>2. UNCHANGED <<chain, honest, taken, target, height, submitted, owner>>
    BY <2>1 DEF submit_message, targetVars, fixedVars
  <2>3. ASSUME HonestQuorum PROVE Authentic'
    <3> DEFINE message == [contract |-> o, owner |-> owner, payload |-> target[o][i]]
    <3>1. /\ v[2][o][i] # None
          /\ chain \in {"Tezos", "Ethereum"} => o = owner
      BY <2>1, StoredMessages DEF submit_message
    <3>2. v[2][o][i] = target[o][i]
      BY <2>1, <2>3, <3>1, ValidRootIsReal DEF submit_message
    <3>3. /\ i = message_seq + 1
          /\ message_seq' = i
          /\ processed' = [processed EXCEPT ![i] = message]
      BY <2>1, <3>2 DEF submit_message, Process
    <3>4. message # None
      <4>1. target[o][i] \in Payloads /\ owner \in Owners
        BY <3>1, <3>2 DEF TypeOK, Roots
      <4> QED BY <4>1, HyperdriveAssumption DEF Messages
    <3>5. message_seq \in Nat /\ Numbers \subseteq Nat
      BY DEF TypeOK, Numbers
    <3>6. /\ message.contract = o /\ message.owner = owner
          /\ message.payload = target[o][i]
      OBVIOUS
    <3> HIDE DEF message
    <3> QED BY <2>2, <2>3, <3>1, <3>3, <3>4, <3>5, <3>6 DEF Authentic, TypeOK
  <2>4. HonestQuorum' => HonestQuorum
    BY <2>2 DEF HonestQuorum
  <2>5. Authentic'
    BY <2>3, <2>4 DEF Authentic
  <2> QED BY <1>0, <2>2, <2>5 DEF BlocksInOrder, BlocksAgree, HonestVotes
<1>3. CASE RootStep
  <2>1. UNCHANGED <<chain, honest, taken, target, height, submitted, message_seq, processed>>
    BY <1>3 DEF RootStep, update_state_transmitters, SetTransmitter, update_target_chain_owner,
                update_current_snapshot, targetVars, fixedVars
  <2> QED BY <1>0, <2>1 DEF BlocksInOrder, BlocksAgree, HonestVotes, Authentic, HonestQuorum
<1>4. CASE NextBlock
  <2>1. UNCHANGED <<chain, honest, taken, target, height, submitted, message_seq, processed>>
    BY <1>4 DEF NextBlock, targetVars, fixedVars
  <2> QED BY <1>0, <2>1 DEF BlocksInOrder, BlocksAgree, HonestVotes, Authentic, HonestQuorum
<1>5. ASSUME NEW m \in Sends, TargetSend(m[1], m[2], m[3])
      PROVE  AuthenticInv'
  <2>1. UNCHANGED <<chain, honest, taken, height, submitted, message_seq, processed>>
    BY <1>5 DEF TargetSend, fixedVars
  <2>2. \A o \in Owners, i \in Numbers : target[o][i] # None => target'[o][i] = target[o][i]
    BY <1>5, HyperdriveAssumption DEF TargetSend, TypeOK, Roots
  <2>3. BlocksAgree'
    BY <2>1, <2>2 DEF BlocksAgree
  <2>4. ASSUME HonestQuorum, NEW i \in Numbers, i <= message_seq
        PROVE  processed[i].payload = target'[processed[i].contract][i]
    <3>1. processed[i] # None /\ processed[i].payload = target[processed[i].contract][i]
      BY <2>4 DEF Authentic
    <3>2. processed[i] \in Messages
      BY <3>1 DEF TypeOK
    <3>3. processed[i].contract \in Owners /\ processed[i].payload \in Payloads
      BY <3>2 DEF Messages
    <3> QED BY <3>1, <3>3, <2>2, HyperdriveAssumption
  <2>5. Authentic'
    BY <2>1, <2>4 DEF Authentic, HonestQuorum
  <2> QED BY <1>0, <2>1, <2>3, <2>5 DEF BlocksInOrder, HonestVotes
<1>6. CASE TargetBlock
  <2>1. UNCHANGED <<chain, honest, target, submitted, message_seq, processed>>
    BY <1>6 DEF TargetBlock, fixedVars
  <2>2. height \in Nat /\ height + 1 \in Snapshots /\ Snapshots \subseteq Nat
    BY <1>6, HyperdriveAssumption DEF TargetBlock, TypeOK, Snapshots
  <2>3. taken[height + 1] = None
    BY <2>2 DEF BlocksInOrder
  <2>4. taken' = [taken EXCEPT ![height + 1] = target] /\ height' = height + 1
    BY <1>6 DEF TargetBlock
  <2>5. BlocksInOrder'
    BY <2>2, <2>4 DEF BlocksInOrder, TypeOK
  <2>6. BlocksAgree'
    BY <2>1, <2>2, <2>4 DEF BlocksAgree, TypeOK
  <2>7. HonestVotes'
    BY <2>1, <2>2, <2>3, <2>4 DEF HonestVotes, TypeOK
  <2> QED BY <1>0, <2>1, <2>5, <2>6, <2>7 DEF Authentic, HonestQuorum
<1>7. CASE UNCHANGED vars
  BY <1>0, <1>7 DEF vars, BlocksInOrder, BlocksAgree, HonestVotes, Authentic, HonestQuorum
<1> QED BY <1>1, <1>2, <1>3, <1>4, <1>5, <1>6, <1>7 DEF Next, ChainStep

\* The storage starts without messages and submissions.
LEMMA AuthenticInit ==
  Init => AuthenticInv
<1> SUFFICES ASSUME Init PROVE AuthenticInv
  OBVIOUS
<1>1. TypeOK
  BY TypeInit
<1>2. BlocksInOrder /\ BlocksAgree /\ HonestVotes
  BY DEF Init, BlocksInOrder, BlocksAgree, HonestVotes
<1>3. Authentic
  BY DEF Init, Authentic, Numbers
<1> QED BY <1>1, <1>2, <1>3 DEF AuthenticInv

\* submit_message: while fewer transmitters than the quorum are dishonest,
\* the messages that are processed are those that a contract has stored on the
\* target chain, each number once and in order; on Tezos and Ethereum that
\* contract was the owner at that time.
THEOREM OnlyAuthenticMessages ==
  Spec => []Authentic
<1>1. AuthenticInv => Authentic
  BY DEF AuthenticInv
<1> QED BY <1>1, AuthenticInit, AuthenticStep, PTL DEF Spec

-----------------------------------------------------------------------------
(***************************************************************************)
(* OneRootPerSnapshot.  Only the current snapshot takes submissions, so    *)
(* that the submission that makes a root valid closes its snapshot, until  *)
(* root opens it again.  After that the honest transmitters are needed:    *)
(* what they submit again is the same root.                                *)
(***************************************************************************)
DecidedBehind ==
  \A v \in submitted :
    HasQuorum(submitted, v[1], v[2]) => v[1] < current_snapshot \/ v[1] \in reopened

DecidedOnce ==
  \A v, w \in submitted :
    /\ v[1] = w[1] /\ v[1] \notin reopened
    /\ HasQuorum(submitted, v[1], v[2]) /\ HasQuorum(submitted, w[1], w[2])
    => v[2] = w[2]

OneRootInv == AuthenticInv /\ DecidedBehind /\ DecidedOnce

\* A vote counts for its own snapshot and root only.
LEMMA VoteIsLocal ==
  ASSUME NEW subs, NEW s, NEW r, NEW t, NEW s2, NEW r2, s2 # s \/ r2 # r
  PROVE  HasQuorum(subs \cup {<<s, r, t>>}, s2, r2) <=> HasQuorum(subs, s2, r2)
<1>1. Voters(subs \cup {<<s, r, t>>}, s2, r2) = Voters(subs, s2, r2)
  BY DEF Voters
<1> QED BY <1>1 DEF HasQuorum

\* Every step keeps the strengthened invariant.
LEMMA OneRootStep ==
  OneRootInv /\ [Next]_vars => OneRootInv'
<1> SUFFICES ASSUME OneRootInv, [Next]_vars PROVE OneRootInv'
  OBVIOUS
<1> USE DEF OneRootInv
<1>0. TypeOK /\ AuthenticInv'
  BY AuthenticStep DEF AuthenticInv
<1>1. CASE TransmitterStep
  <2>1. PICK t \in Transmitters, s \in Snapshots, r \in Forgeries \cup { taken[k] : k \in Snapshots } :
               Submission(t, s, r)
    BY <1>1 DEF TransmitterStep
  <2>2. /\ submitted' \in {submitted, submitted \cup {<<s, r, t>>}}
        /\ s = current_snapshot
        /\ reopened' = reopened
        /\ current_snapshot' = IF HasQuorum(submitted', s, r)
                                 THEN current_snapshot + TransmissionRate ELSE current_snapshot
    BY <1>0, <2>1, SubmissionType DEF Submission, submit_state_merkle_root
  <2>3. current_snapshot \in Nat /\ TransmissionRate \in Nat \ {0}
    BY <1>0, HyperdriveAssumption DEF TypeOK
  <2>4. \A v \in submitted : v[1] \in Nat
    BY <1>0 DEF TypeOK, Snapshots
  <2>5. \A s2, r2 : s2 # s \/ r2 # r =>
          HasQuorum(submitted', s2, r2) <=> HasQuorum(submitted, s2, r2)
    <3> SUFFICES ASSUME NEW s2, NEW r2, s2 # s \/ r2 # r
                 PROVE  HasQuorum(submitted', s2, r2) <=> HasQuorum(submitted, s2, r2)
      OBVIOUS
    <3>1. HasQuorum(submitted \cup {<<s, r, t>>}, s2, r2) <=> HasQuorum(submitted, s2, r2)
      BY VoteIsLocal
    <3>2. submitted' = submitted \/ submitted' = submitted \cup {<<s, r, t>>}
      BY <2>2
    <3> QED BY <3>1, <3>2, Zenon
  <2>6. \A v \in submitted' : v \in submitted \/ (v[1] = s /\ v[2] = r)
    BY <2>2
  <2>7. \A v \in submitted' : v[1] = s /\ v[2] # r /\ HasQuorum(submitted', v[1], v[2]) =>
          s \in reopened
    <3> SUFFICES ASSUME NEW v \in submitted', v[1] = s, v[2] # r,
                        HasQuorum(submitted', v[1], v[2])
                 PROVE  s \in reopened
      OBVIOUS
    <3>1. v \in submitted /\ HasQuorum(submitted, v[1], v[2])
      BY <2>5, <2>6
    <3> QED BY <2>2, <2>3, <3>1 DEF DecidedBehind
  <2>8. DecidedBehind'
    <3> SUFFICES ASSUME NEW v \in submitted', HasQuorum(submitted', v[1], v[2])
                 PROVE  v[1] < current_snapshot' \/ v[1] \in reopened'
      BY DEF DecidedBehind, HasQuorum, Voters
    <3>1. CASE v[1] = s /\ v[2] = r
      BY <2>2, <2>3, <3>1
    <3>2. CASE v[1] = s /\ v[2] # r
      BY <2>2, <2>7, <3>2
    <3>3. CASE v[1] # s
      <4>1. v \in submitted /\ HasQuorum(submitted, v[1], v[2])
        BY <2>5, <2>6, <3>3
      <4>2. v[1] < current_snapshot \/ v[1] \in reopened
        BY <4>1 DEF DecidedBehind
      <4> QED BY <2>2, <2>3, <2>4, <4>1, <4>2
    <3> QED BY <3>1, <3>2, <3>3
  <2>9. DecidedOnce'
    <3> SUFFICES ASSUME NEW v \in submitted', NEW w \in submitted',
                        v[1] = w[1], v[1] \notin reopened',
                        HasQuorum(submitted', v[1], v[2]), HasQuorum(submitted', w[1], w[2])
                 PROVE  v[2] = w[2]
      BY DEF DecidedOnce, HasQuorum, Voters
    <3>1. CASE v[1] = s
      <4>1. v[2] = r
        BY <2>2, <2>7, <3>1, Zenon
      <4>2. w[2] = r
        BY <2>2, <2>7, <3>1, Zenon
      <4> QED BY <4>1, <4>2
    <3>2. CASE v[1] # s
      <4>1. /\ v \in submitted /\ HasQuorum(submitted, v[1], v[2])
            /\ w \in submitted /\ HasQuorum(submitted, w[1], w[2])
        BY <2>5, <2>6, <3>2
      <4> QED BY <2>2, <4>1 DEF DecidedOnce
    <3> QED BY <3>1, <3>2
  <2> QED BY <1>0, <2>8, <2>9
<1>2. ASSUME NEW s \in RootSnapshots, update_current_snapshot(s)
      PROVE  OneRootInv'
  <2>1. /\ current_snapshot' = s
        /\ submitted' = submitted
        /\ reopened' = reopened \cup (s .. current_snapshot - 1)
    BY <1>2 DEF update_current_snapshot
  <2>2. s \in Nat /\ current_snapshot \in Nat /\ \A v \in submitted : v[1] \in Nat
    BY <1>0, HyperdriveAssumption DEF TypeOK, Snapshots
  <2>3. DecidedBehind'
    <3> SUFFICES ASSUME NEW v \in submitted, HasQuorum(submitted, v[1], v[2])
                 PROVE  v[1] < s \/ v[1] \in reopened \cup (s .. current_snapshot - 1)
      BY <2>1 DEF DecidedBehind, HasQuorum, Voters
    <3> QED BY <2>2 DEF DecidedBehind
  <2>4. DecidedOnce'
    BY <2>1 DEF DecidedOnce, HasQuorum, Voters
  <2> QED BY <1>0, <2>3, <2>4
<1>3. ASSUME UNCHANGED <<submitted, current_snapshot, reopened>>
      PROVE  OneRootInv'
  BY <1>0, <1>3 DEF DecidedBehind, DecidedOnce, HasQuorum, Voters
<1>4. CASE MessageStep
  BY <1>3, <1>4 DEF MessageStep, submit_message
<1>5. CASE RootStep
  BY <1>2, <1>3, <1>5 DEF RootStep, update_state_transmitters, SetTransmitter,
                          update_target_chain_owner
<1>6. CASE ChainStep
  BY <1>3, <1>6 DEF ChainStep, NextBlock, TargetSend, TargetBlock
<1>7. CASE UNCHANGED vars
  BY <1>3, <1>7 DEF vars
<1> QED BY <1>1, <1>4, <1>5, <1>6, <1>7 DEF Next

\* submit_state_merkle_root: no snapshot gets a second valid root, however
\* many transmitters equivocate and whatever the quorum is, unless root goes back to
\* it; and not even then while fewer transmitters than the quorum are dishonest.
THEOREM AtMostOneRoot ==
  Spec => []OneRootPerSnapshot
<1>1. Init => OneRootInv
  <2> SUFFICES ASSUME Init PROVE OneRootInv
    OBVIOUS
  <2>1. AuthenticInv
    BY AuthenticInit
  <2>2. DecidedBehind /\ DecidedOnce
    BY DEF Init, DecidedBehind, DecidedOnce
  <2> QED BY <2>1, <2>2 DEF OneRootInv
<1>2. OneRootInv => OneRootPerSnapshot
  <2> SUFFICES ASSUME OneRootInv, NEW v \in submitted, NEW w \in submitted, v[1] = w[1],
                      HasQuorum(submitted, v[1], v[2]), HasQuorum(submitted, w[1], w[2]),
                      HonestQuorum \/ v[1] \notin reopened
               PROVE  v[2] = w[2]
    BY DEF OneRootPerSnapshot
  <2>1. CASE HonestQuorum
    <3>1. v[2] = taken[v[1]]
      BY <2>1, ValidRootIsTaken DEF OneRootInv
    <3>2. w[2] = taken[w[1]]
      BY <2>1, ValidRootIsTaken DEF OneRootInv
    <3> QED BY <3>1, <3>2
  <2>2. CASE v[1] \notin reopened
    BY <2>2 DEF OneRootInv, DecidedOnce
  <2> QED BY <2>1, <2>2
<1> QED BY <1>1, <1>2, OneRootStep, PTL DEF Spec

-----------------------------------------------------------------------------
(***************************************************************************)
(* Ancestors.  A parent is imported before its children, so the recursion  *)
(* along the parents has one solution, and a new block does not change the *)
(* ancestors of the others.                                                *)
(***************************************************************************)
Tree(bl) ==
  /\ Len(bl) \in Nat /\ DOMAIN bl = 1 .. Len(bl)
  /\ \A k \in 2 .. Len(bl) : bl[k].parent \in 1 .. k - 1

Lines(g, m, bl) ==
  g = [k \in 1 .. m |-> {k} \cup IF k = Genesis THEN {} ELSE g[bl[k].parent]]

\* There are lines up to every block.
LEMMA LinesExist ==
  ASSUME NEW bl, Tree(bl), NEW n \in 0 .. Len(bl)
  PROVE  \E g : Lines(g, n, bl)
<1> DEFINE T == { m \in Nat : m <= Len(bl) => \E g : Lines(g, m, bl) }
<1>1. 0 \in T
  <2>1. Lines([k \in 1 .. 0 |-> {}], 0, bl)
    BY DEF Lines
  <2> QED BY <2>1
<1>2. ASSUME NEW m \in Nat, m \in T PROVE m + 1 \in T
  <2> SUFFICES ASSUME m + 1 <= Len(bl) PROVE \E g : Lines(g, m + 1, bl)
    OBVIOUS
  <2>0. Len(bl) \in Nat
    BY DEF Tree
  <2>1. PICK g : Lines(g, m, bl)
    BY <1>2, <2>0
  <2> DEFINE h == [k \in 1 .. m + 1 |->
                     IF k = m + 1 THEN {k} \cup IF k = Genesis THEN {} ELSE g[bl[k].parent]
                     ELSE g[k]]
  <2>2. ASSUME NEW k \in 1 .. m + 1
        PROVE  h[k] = {k} \cup IF k = Genesis THEN {} ELSE h[bl[k].parent]
    <3>1. k # Genesis => bl[k].parent \in 1 .. k - 1
      BY <2>0 DEF Tree, Genesis
    <3>2. k # Genesis => h[bl[k].parent] = g[bl[k].parent]
      BY <3>1
    <3>3. CASE k = m + 1
      BY <3>2, <3>3
    <3>4. CASE k # m + 1
      <4>1. k \in 1 .. m /\ h[k] = g[k]
        BY <3>4
      <4>2. g[k] = {k} \cup IF k = Genesis THEN {} ELSE g[bl[k].parent]
        BY <2>1, <4>1 DEF Lines
      <4> HIDE DEF h
      <4> QED BY <3>2, <4>1, <4>2
    <3> QED BY <3>3, <3>4
  <2>3. Lines(h, m + 1, bl)
    BY <2>2 DEF Lines
  <2> HIDE DEF h
  <2> QED BY <2>3
<1> HIDE DEF T
<1>3. n \in T
  BY <1>1, <1>2, SetInduction
<1> QED BY <1>3 DEF T, Tree

\* Two of them agree where both are defined.
LEMMA LinesAgree ==
  ASSUME NEW bl, Tree(bl), NEW m \in 0 .. Len(bl), NEW n \in 0 .. Len(bl),
         NEW g, Lines(g, m, bl), NEW h, Lines(h, n, bl),
         NEW b \in 1 .. m, b <= n
  PROVE  g[b] = h[b]
<1> DEFINE T == { i \in Nat : \A k \in 1 .. i : k <= m /\ k <= n => g[k] = h[k] }
<1>0. Len(bl) \in Nat
  BY DEF Tree
<1>1. 0 \in T
  OBVIOUS
<1>2. ASSUME NEW i \in Nat, i \in T PROVE i + 1 \in T
  <2> SUFFICES ASSUME NEW k \in 1 .. i + 1, k <= m, k <= n PROVE g[k] = h[k]
    OBVIOUS
  <2>1. CASE k \in 1 .. i
    BY <1>2, <2>1
  <2>2. CASE k = i + 1
    <3>1. k # Genesis => bl[k].parent \in 1 .. k - 1
      BY <1>0 DEF Tree, Genesis
    <3>2. k # Genesis => g[bl[k].parent] = h[bl[k].parent]
      BY <1>2, <2>2, <3>1
    <3>3. k \in 1 .. m /\ k \in 1 .. n
      OBVIOUS
    <3>4. /\ g[k] = {k} \cup IF k = Genesis THEN {} ELSE g[bl[k].parent]
          /\ h[k] = {k} \cup IF k = Genesis THEN {} ELSE h[bl[k].parent]
      BY <3>3 DEF Lines
    <3> QED BY <3>2, <3>4
  <2> QED BY <2>1, <2>2
<1> HIDE DEF T
<1>3. b \in T
  BY <1>1, <1>2, SetInduction
<1> QED BY <1>3 DEF T

LineOf(bl, b) == (CHOOSE g : Lines(g, b, bl))[b]

\* Any solution gives the ancestors.
LEMMA LineIsAny ==
  ASSUME NEW bl, Tree(bl), NEW b \in DOMAIN bl, NEW m \in 0 .. Len(bl), b <= m,
         NEW g, Lines(g, m, bl)
  PROVE  LineOf(bl, b) = g[b]
<1>1. b \in 0 .. Len(bl) /\ b \in 1 .. b /\ b \in 1 .. m
  BY DEF Tree
<1>2. \E h : Lines(h, b, bl)
  BY <1>1, LinesExist
<1>3. PICK h : h = (CHOOSE f : Lines(f, b, bl)) /\ Lines(h, b, bl)
  BY <1>2, Zenon
<1>4. h[b] = g[b]
  BY <1>1, <1>3, LinesAgree
<1> QED BY <1>3, <1>4 DEF LineOf

\* The ancestors of a block are itself and those of its parent.
LEMMA LineIs ==
  ASSUME NEW bl, Tree(bl), NEW b \in DOMAIN bl
  PROVE  LineOf(bl, b) = {b} \cup IF b = Genesis THEN {} ELSE LineOf(bl, bl[b].parent)
<1>1. b \in 0 .. Len(bl) /\ b \in 1 .. b /\ b <= b /\ b \in Nat
  BY DEF Tree
<1>2. PICK g : Lines(g, b, bl)
  BY <1>1, LinesExist
<1>3. LineOf(bl, b) = g[b]
  BY <1>1, <1>2, LineIsAny
<1>4. g[b] = {b} \cup IF b = Genesis THEN {} ELSE g[bl[b].parent]
  BY <1>1, <1>2 DEF Lines
<1>5. b # Genesis => bl[b].parent \in DOMAIN bl /\ bl[b].parent <= b
  BY <1>1 DEF Tree, Genesis
<1>6. b # Genesis => LineOf(bl, bl[b].parent) = g[bl[b].parent]
  BY <1>1, <1>2, <1>5, LineIsAny
<1> QED BY <1>3, <1>4, <1>6

\* A later block changes nothing for the earlier ones.
LEMMA LineSame ==
  ASSUME NEW bl, Tree(bl), NEW bl2, Tree(bl2), Len(bl) <= Len(bl2),
         \A k \in DOMAIN bl : bl2[k] = bl[k], NEW b \in DOMAIN bl
  PROVE  LineOf(bl2, b) = LineOf(bl, b)
<1>1. b \in 0 .. Len(bl) /\ b <= b /\ b \in 0 .. Len(bl2) /\ b \in DOMAIN bl2
  BY DEF Tree
<1>2. PICK g : Lines(g, b, bl)
  BY <1>1, LinesExist
<1>3. \A k \in 1 .. b : bl2[k] = bl[k]
  BY DEF Tree
<1>4. Lines(g, b, bl2)
  BY <1>2, <1>3 DEF Lines
<1> QED BY <1>1, <1>2, <1>4, LineIsAny

\* The ancestors in the present tree.
LEMMA AncestorsAre == \A b : Ancestors(b) = LineOf(blocks, b)
BY Zenon DEF Ancestors, LineOf, Lines

-----------------------------------------------------------------------------
(***************************************************************************)
(* The execution of a block.                                               *)
(***************************************************************************)
\* A state of the pallet is a record of these fields, and its snapshots are a
\* sequence.
IsState(s) ==
  /\ s = [parent |-> s.parent, number |-> s.number, included |-> s.included, next |-> s.next,
          first |-> s.first, leafMeta |-> s.leafMeta, last_message_excl |-> s.last_message_excl,
          snapshots |-> s.snapshots, root |-> s.root, nodes |-> s.nodes]
  /\ s.number \in Nat /\ s.included \in Nat /\ s.next \in Nat /\ s.first \in Nat
  /\ \E S : s.snapshots \in Seq(S)

\* What send_message leaves alone, and the next message number.
SentFrom(s, t, n) ==
  /\ IsState(t)
  /\ t.number = s.number /\ t.included = s.included /\ t.first = s.first
  /\ t.snapshots = s.snapshots /\ t.next = s.next + n

\* send_message uses one number.
LEMMA SendOne ==
  ASSUME NEW s, IsState(s), NEW parent, NEW action
  PROVE  SentFrom(s, send_message(s, parent, action), 1)
<1> DEFINE t == send_message(s, parent, action)
<1>1. \E nodes, root, meta :
        t = [s EXCEPT !.nodes = nodes, !.root = root, !.next = @ + 1, !.leafMeta = meta]
  BY DEF send_message, IsState
<1>2. PICK nodes, root, meta :
        t = [s EXCEPT !.nodes = nodes, !.root = root, !.next = @ + 1, !.leafMeta = meta]
  BY <1>1
<1> HIDE DEF t
<1>3. t = [parent |-> s.parent, number |-> s.number, included |-> s.included, next |-> s.next + 1,
           first |-> s.first, leafMeta |-> meta, last_message_excl |-> s.last_message_excl,
           snapshots |-> s.snapshots, root |-> root, nodes |-> nodes]
  BY <1>2 DEF IsState
<1>4. SentFrom(s, t, 1)
  BY <1>3 DEF SentFrom, IsState
<1> QED BY <1>4 DEF t

\* The states of a batch exist: the one before the first message, and after each.
LEMMA ExecutingIs ==
  ASSUME NEW parent, NEW batch, Len(batch) \in Nat
  PROVE  /\ Executing(parent, batch)[0] = blocks[parent]
         /\ \A k \in 1 .. Len(batch) :
              Executing(parent, batch)[k]
                = send_message(Executing(parent, batch)[k - 1], parent, batch[k])
<1> DEFINE n == Len(batch)
           x == blocks[parent]
           D(g, m) == g = [k \in 0 .. m |->
                             IF k = 0 THEN x ELSE send_message(g[k - 1], parent, batch[k])]
           T == { m \in Nat : \E g : D(g, m) }
<1>1. Executing(parent, batch) = CHOOSE g : D(g, n)
  BY Zenon DEF Executing
<1> HIDE DEF n, x
<1>2. 0 \in T
  <2>1. D([k \in 0 .. 0 |-> x], 0)
    OBVIOUS
  <2> QED BY <2>1
<1>3. ASSUME NEW m \in Nat, m \in T PROVE m + 1 \in T
  <2>1. PICK g : D(g, m)
    BY <1>3
  <2> DEFINE h == [k \in 0 .. m + 1 |->
                     IF k = m + 1 THEN send_message(g[m], parent, batch[m + 1]) ELSE g[k]]
  <2>2. ASSUME NEW k \in 0 .. m + 1
        PROVE  h[k] = IF k = 0 THEN x ELSE send_message(h[k - 1], parent, batch[k])
    <3>1. CASE k = m + 1
      BY <3>1
    <3>2. CASE k # m + 1
      <4>1. /\ k \in 0 .. m
            /\ g[k] = IF k = 0 THEN x ELSE send_message(g[k - 1], parent, batch[k])
        BY <2>1, <3>2
      <4> QED BY <4>1
    <3> QED BY <3>1, <3>2
  <2>3. D(h, m + 1)
    BY <2>2
  <2> HIDE DEF h
  <2> QED BY <2>3
<1>4. \E g : D(g, n)
  <2> HIDE DEF T
  <2>1. n \in T
    BY <1>2, <1>3, SetInduction DEF n
  <2> QED BY <2>1 DEF T
<1>5. D(CHOOSE g : D(g, n), n)
  BY <1>4, Zenon
<1>6. PICK f : f = Executing(parent, batch) /\ D(f, n)
  BY <1>1, <1>5, Zenon
<1>7. f[0] = x /\ \A k \in 1 .. n : f[k] = send_message(f[k - 1], parent, batch[k])
  <2>1. n \in Nat
    BY DEF n
  <2> QED BY <1>6, <2>1
<1> QED BY <1>6, <1>7, Zenon DEF n, x

\* A batch uses as many numbers as it has messages and changes nothing else that
\* on_finalize reads.
LEMMA ExecutedBatch ==
  ASSUME NEW parent, NEW batch, Len(batch) \in Nat, IsState(blocks[parent])
  PROVE  SentFrom(blocks[parent], Executing(parent, batch)[Len(batch)], Len(batch))
<1> DEFINE after == Executing(parent, batch)
           s == blocks[parent]
           T == { m \in Nat : m <= Len(batch) => SentFrom(s, after[m], m) }
<1>1. /\ after[0] = s
      /\ \A k \in 1 .. Len(batch) : after[k] = send_message(after[k - 1], parent, batch[k])
  BY ExecutingIs
<1>2. IsState(s)
  OBVIOUS
<1> HIDE DEF after, s
<1>3. 0 \in T
  BY <1>1, <1>2 DEF SentFrom, IsState
<1>4. ASSUME NEW m \in Nat, m \in T PROVE m + 1 \in T
  <2> SUFFICES ASSUME m + 1 <= Len(batch) PROVE SentFrom(s, after[m + 1], m + 1)
    OBVIOUS
  <2>1. SentFrom(s, after[m], m)
    BY <1>4
  <2>2. after[m + 1] = send_message(after[m], parent, batch[m + 1])
    <3>1. m + 1 \in 1 .. Len(batch) /\ (m + 1) - 1 = m
      OBVIOUS
    <3> QED BY <1>1, <3>1
  <2>3. SentFrom(after[m], after[m + 1], 1)
    BY <2>1, <2>2, SendOne DEF SentFrom
  <2>4. s.next \in Nat
    BY <1>2 DEF IsState
  <2> QED BY <2>1, <2>3, <2>4 DEF SentFrom
<1> HIDE DEF T
<1>5. Len(batch) \in T
  BY <1>3, <1>4, SetInduction
<1>6. SentFrom(s, after[Len(batch)], Len(batch))
  BY <1>5 DEF T
<1> QED BY <1>6 DEF s, after

\* The block that the last snapshot was taken in.
LastBlock(s) == s.snapshots[Len(s.snapshots)].last_block

\* Whether on_finalize takes a snapshot.
Taken(s, n) == s.included < s.next /\ maximum_blocks_before_snapshot_reached(s, n)

\* The block on parent with number n that ends in state s.
EndOf(s, n, parent) == [on_finalize(s, n) EXCEPT !.parent = parent, !.number = n]

\* on_finalize takes a snapshot of all messages so far, or none.
LEMMA Finalized ==
  ASSUME NEW s, IsState(s), NEW n \in Nat, NEW parent
  PROVE  LET t == EndOf(s, n, parent) IN
         /\ IsState(t) /\ t.next = s.next /\ t.parent = parent /\ t.number = n
         /\ t.first = IF s.first = 0 THEN n ELSE s.first
         /\ Taken(s, n) => t.included = s.next /\ t.snapshots # <<>> /\ LastBlock(t) = n
         /\ ~ Taken(s, n) => t.included = s.included /\ t.snapshots = s.snapshots
<1> DEFINE t == EndOf(s, n, parent)
           meta == [root |-> s.root, last_block |-> n, last_message_excl |-> s.next]
           isDue == Taken(s, n)
           snaps == IF isDue THEN Append(s.snapshots, meta) ELSE s.snapshots
           incl == IF isDue THEN s.next ELSE s.included
           first == IF s.first = 0 THEN n ELSE s.first
<1>1. on_finalize(s, n) = [s EXCEPT !.snapshots = IF isDue THEN Append(@, meta) ELSE @,
                                    !.included = IF isDue THEN s.next ELSE @,
                                    !.last_message_excl = s.next,
                                    !.first = IF @ = 0 THEN n ELSE @]
  BY DEF on_finalize, Taken
<1> HIDE DEF isDue
<1>2. t = [parent |-> parent, number |-> n, included |-> incl, next |-> s.next,
           first |-> first, leafMeta |-> s.leafMeta, last_message_excl |-> s.next,
           snapshots |-> snaps, root |-> s.root, nodes |-> s.nodes]
  <2> DEFINE f == on_finalize(s, n)
  <2>1. f = [s EXCEPT !.snapshots = snaps, !.included = incl,
                      !.last_message_excl = s.next, !.first = first]
    <3> HIDE DEF meta
    <3> QED BY <1>1 DEF IsState
  <2> HIDE DEF f, snaps, incl, first
  <2>2. f = [parent |-> s.parent, number |-> s.number, included |-> incl, next |-> s.next,
             first |-> first, leafMeta |-> s.leafMeta, last_message_excl |-> s.next,
             snapshots |-> snaps, root |-> s.root, nodes |-> s.nodes]
    BY <2>1 DEF IsState
  <2>3. t = [f EXCEPT !.parent = parent, !.number = n]
    BY DEF f, EndOf
  <2> HIDE DEF t
  <2> QED BY <2>2, <2>3
<1>3. PICK S : s.snapshots \in Seq(S)
  BY DEF IsState
<1> DEFINE U == S \cup {meta}
<1>4. s.snapshots \in Seq(U)
  BY <1>3
<1> HIDE DEF t, meta
<1>5. /\ snaps \in Seq(U)
      /\ isDue => snaps # <<>> /\ snaps[Len(snaps)] = meta
  <2> DEFINE new == Append(s.snapshots, meta)
  <2>1. /\ Len(s.snapshots) \in Nat /\ new \in Seq(U) /\ Len(new) = Len(s.snapshots) + 1
        /\ new[Len(s.snapshots) + 1] = meta
    BY <1>4
  <2>2. new # <<>> /\ new[Len(new)] = meta
    <3> HIDE DEF new
    <3>1. Len(new) # 0
      BY <2>1
    <3> QED BY <2>1, <3>1
  <2> HIDE DEF U
  <2> QED BY <1>4, <2>1, <2>2
<1>6. incl \in Nat /\ first \in Nat /\ s.next \in Nat
  BY DEF IsState
<1> HIDE DEF snaps, incl, first, U
<1>7. IsState(t)
  BY <1>2, <1>5, <1>6 DEF IsState
<1>8. t.next = s.next /\ t.parent = parent /\ t.number = n /\ t.first = first
      /\ t.included = incl /\ t.snapshots = snaps
  BY <1>2
<1>9. isDue => t.included = s.next /\ t.snapshots # <<>> /\ LastBlock(t) = n
  BY <1>5, <1>8 DEF LastBlock, incl, meta
<1>10. ~ isDue => t.included = s.included /\ t.snapshots = s.snapshots
  BY <1>8 DEF incl, snaps
<1> QED BY <1>7, <1>8, <1>9, <1>10 DEF t, first, isDue

-----------------------------------------------------------------------------
(***************************************************************************)
(* The invariant.  SnapshotTimely compares a block with one some blocks    *)
(* before it; what a new block inherits from its parent is that the last   *)
(* snapshot included what was sent up to its block.                        *)
(***************************************************************************)
\* FirstMmrBlockNumber is 1 after the genesis block, which sends nothing.
SoundBlock(s) ==
  /\ IsState(s)
  /\ s.included <= s.next
  /\ s.number = 0 => s.next = 0 /\ s.first = 0 /\ s.snapshots = <<>>
  /\ s.number > 0 => s.first = 1
  /\ s.snapshots # <<>> => LastBlock(s) \in Nat /\ LastBlock(s) <= s.number

\* Block s and a block t before it, or the same.
SoundPair(t, s) ==
  /\ t.next <= s.next /\ t.number <= s.number
  /\ s.snapshots # <<>> /\ t.number <= LastBlock(s) => t.next <= s.included
  /\ s.number >= t.number + MaximumBlocksBeforeSnapshot => t.next <= s.included

Forks(bl) ==
  /\ Tree(bl) /\ \E S : bl \in Seq(S)
  /\ \A b \in DOMAIN bl : SoundBlock(bl[b])
  /\ \A b \in DOMAIN bl : LineOf(bl, b) \subseteq DOMAIN bl
  /\ \A b \in DOMAIN bl : \A a \in LineOf(bl, b) : SoundPair(bl[a], bl[b])

\* A new block is sound, and so are the pairs it makes with its ancestors.
LEMMA NewBlock ==
  ASSUME NEW p, SoundBlock(p), NEW x, NEW n \in Nat, SentFrom(p, x, n), NEW parent
  PROVE  LET s == EndOf(x, p.number + 1, parent) IN
         /\ SoundBlock(s) /\ SoundPair(s, s) /\ s.parent = parent
         /\ \A t : SoundBlock(t) /\ SoundPair(t, p) => SoundPair(t, s)
<1> DEFINE m == p.number + 1
           s == EndOf(x, m, parent)
           M == MaximumBlocksBeforeSnapshot
<1>0. /\ p.number \in Nat /\ p.next \in Nat /\ p.included \in Nat /\ p.first \in Nat
      /\ m \in Nat /\ m > 0 /\ M \in Nat \ {0} /\ m = p.number + 1
  BY OutgoingAssumption DEF SoundBlock, IsState
<1>1. /\ IsState(x) /\ x.number = p.number /\ x.included = p.included /\ x.first = p.first
      /\ x.snapshots = p.snapshots /\ x.next = p.next + n
  BY DEF SentFrom
<1> HIDE DEF m, M
<1>2. /\ IsState(s) /\ s.next = x.next /\ s.parent = parent /\ s.number = m
      /\ s.first = IF x.first = 0 THEN m ELSE x.first
      /\ Taken(x, m) => s.included = x.next /\ s.snapshots # <<>> /\ LastBlock(s) = m
      /\ ~ Taken(x, m) => s.included = x.included /\ s.snapshots = x.snapshots
  BY <1>0, <1>1, Finalized
<1> HIDE DEF s
<1>3. SoundBlock(s)
  <2>1. s.first = 1
    BY <1>0, <1>1, <1>2 DEF SoundBlock
  <2>2. CASE Taken(x, m)
    BY <1>0, <1>1, <1>2, <2>1, <2>2 DEF SoundBlock
  <2>3. CASE ~ Taken(x, m)
    <3>1. s.snapshots # <<>> => LastBlock(s) \in Nat /\ LastBlock(s) <= s.number
      BY <1>0, <1>1, <1>2, <2>3 DEF SoundBlock, LastBlock
    <3>2. s.included <= s.next
      BY <1>0, <1>1, <1>2, <2>3 DEF SoundBlock
    <3> QED BY <1>0, <1>2, <2>1, <3>1, <3>2 DEF SoundBlock
  <2> QED BY <2>2, <2>3
<1>4. SoundPair(s, s)
  <2>1. s.next \in Nat /\ s.included \in Nat
    BY <1>2 DEF IsState
  <2>2. s.snapshots # <<>> /\ s.number <= LastBlock(s) => s.next <= s.included
    <3>1. CASE Taken(x, m)
      BY <1>2, <2>1, <3>1
    <3>2. CASE ~ Taken(x, m)
      <4>1. s.snapshots # <<>> => LastBlock(s) \in Nat /\ LastBlock(s) <= p.number
        BY <1>1, <1>2, <3>2 DEF SoundBlock, LastBlock
      <4> QED BY <1>0, <1>2, <4>1
    <3> QED BY <3>1, <3>2
  <2>3. ~ s.number >= s.number + M
    BY <1>0, <1>2
  <2> QED BY <1>0, <1>2, <2>1, <2>2, <2>3 DEF SoundPair, M
<1>5. ASSUME NEW t, SoundBlock(t), SoundPair(t, p) PROVE SoundPair(t, s)
  <2>0. t.number \in Nat /\ t.next \in Nat
    BY <1>5 DEF SoundBlock, IsState
  <2>1. /\ t.next <= p.next /\ t.number <= p.number
        /\ p.snapshots # <<>> /\ t.number <= LastBlock(p) => t.next <= p.included
        /\ p.number >= t.number + M => t.next <= p.included
    BY <1>5 DEF SoundPair, M
  <2>2. t.next <= s.next /\ t.number <= s.number
    BY <1>0, <1>1, <1>2, <2>0, <2>1
  <2>3. CASE Taken(x, m)
    BY <1>2, <2>2, <2>3 DEF SoundPair
  <2>4. CASE ~ Taken(x, m)
    <3>1. s.snapshots = p.snapshots /\ s.included = p.included /\ LastBlock(s) = LastBlock(p)
      BY <1>1, <1>2, <2>4 DEF LastBlock
    <3>2. s.snapshots # <<>> /\ t.number <= LastBlock(s) => t.next <= s.included
      BY <2>1, <3>1
    <3>3. ASSUME s.number >= t.number + M PROVE t.next <= s.included
      <4>1. CASE ~ x.included < x.next
        BY <1>0, <1>1, <2>0, <2>1, <3>1, <4>1
      <4>2. CASE x.first = 0
        <5>1. t.number = 0
          BY <1>0, <1>1, <2>0, <2>1, <4>2 DEF SoundBlock
        <5>2. t.next = 0
          BY <1>5, <5>1 DEF SoundBlock
        <5> QED BY <1>0, <3>1, <5>2
      <4>3. CASE x.included < x.next /\ x.first # 0
        <5> DEFINE last == IF x.snapshots = <<>> THEN x.first ELSE LastBlock(p)
        <5>1. ~ m - last >= M
          <6>1. last = IF x.snapshots = <<>> THEN x.first
                       ELSE x.snapshots[Len(x.snapshots)].last_block
            BY <1>1 DEF LastBlock
          <6>2. ~ maximum_blocks_before_snapshot_reached(x, m)
            BY <2>4, <4>3 DEF Taken
          <6> HIDE DEF last
          <6> QED BY <4>3, <6>1, <6>2 DEF maximum_blocks_before_snapshot_reached, M
        <5>2. last \in Nat
          BY <1>0, <1>1 DEF SoundBlock
        <5>3. t.number < last
          <6> HIDE DEF last
          <6> QED BY <1>0, <1>2, <2>0, <3>3, <5>1, <5>2
        <5>4. CASE x.snapshots = <<>>
          <6>1. x.first = 1
            BY <1>0, <1>1, <4>3 DEF SoundBlock
          <6>2. t.number = 0
            BY <2>0, <5>3, <5>4, <6>1
          <6>3. t.next = 0
            BY <1>5, <6>2 DEF SoundBlock
          <6> QED BY <1>0, <3>1, <6>3
        <5>5. CASE x.snapshots # <<>>
          <6>1. last = LastBlock(p)
            BY <5>5
          <6>2. t.number <= LastBlock(p)
            BY <2>0, <5>2, <5>3, <6>1
          <6> QED BY <1>1, <2>1, <3>1, <5>5, <6>2
        <5> QED BY <5>4, <5>5
      <4> QED BY <4>1, <4>2, <4>3
    <3> QED BY <2>2, <3>2, <3>3 DEF SoundPair, M
  <2> QED BY <2>3, <2>4
<1> QED BY <1>2, <1>3, <1>4, <1>5 DEF s, m

\* Import: the tree with one block more.
LEMMA ImportKeeps ==
  ASSUME Forks(blocks), NEW parent \in DOMAIN blocks, NEW batch \in Batches, Import(parent, batch)
  PROVE  Forks(blocks')
<1> DEFINE bl == blocks
           bl2 == blocks'
           p == blocks[parent]
           x == Executing(parent, batch)[Len(batch)]
           s == EndOf(x, p.number + 1, parent)
           n == Len(blocks) + 1
<1>1. Len(batch) \in Nat
  BY OutgoingAssumption
<1>2. SoundBlock(p)
  BY DEF Forks
<1>3. SentFrom(p, x, Len(batch))
  BY <1>1, <1>2, ExecutedBatch DEF SoundBlock
<1>4. bl2 = Append(bl, s)
  BY DEF Import, EndOf
<1> HIDE DEF p, x
<1>5. /\ SoundBlock(s) /\ SoundPair(s, s) /\ s.parent = parent
      /\ \A t : SoundBlock(t) /\ SoundPair(t, p) => SoundPair(t, s)
  BY <1>1, <1>2, <1>3, NewBlock
<1> HIDE DEF s
<1>6. PICK S : bl \in Seq(S)
  BY DEF Forks
<1>7. /\ bl2 \in Seq(S \cup {s}) /\ Len(bl) \in Nat /\ Len(bl2) = n
      /\ DOMAIN bl = 1 .. Len(bl) /\ DOMAIN bl2 = 1 .. n /\ n \in DOMAIN bl2 /\ n > 1
      /\ bl2[n] = s /\ \A k \in DOMAIN bl : bl2[k] = bl[k]
      /\ \A k \in DOMAIN bl2 : k = n \/ k \in DOMAIN bl
      /\ DOMAIN bl \subseteq DOMAIN bl2 /\ parent \in 1 .. n - 1
  <2> HIDE DEF bl2
  <2>1. bl \in Seq(S \cup {s}) /\ Len(bl) \in Nat
    BY <1>6
  <2> QED BY <1>4, <2>1
<1>8. Tree(bl)
  BY DEF Forks
<1> HIDE DEF bl, bl2, n
<1>9. Tree(bl2)
  <2>1. ASSUME NEW k \in 2 .. Len(bl2) PROVE bl2[k].parent \in 1 .. k - 1
    <3>1. CASE k = n
      BY <1>5, <1>7, <3>1
    <3>2. CASE k # n
      <4>1. k \in 2 .. Len(bl) /\ bl2[k] = bl[k]
        BY <1>7, <3>2 DEF n
      <4> QED BY <1>8, <4>1 DEF Tree
    <3> QED BY <3>1, <3>2
  <2> QED BY <1>7, <2>1 DEF Tree, n
<1>10. \A b \in DOMAIN bl : LineOf(bl2, b) = LineOf(bl, b)
  <2>1. Len(bl) <= Len(bl2)
    BY <1>7 DEF n
  <2> QED BY <1>7, <1>8, <1>9, <2>1, LineSame
<1>11. parent \in DOMAIN bl /\ p = bl[parent]
  BY DEF bl, p
<1>12. LineOf(bl2, n) = {n} \cup LineOf(bl, parent)
  <2>1. n # Genesis /\ bl2[n].parent = parent
    BY <1>5, <1>7 DEF Genesis
  <2> QED BY <1>7, <1>9, <1>10, <1>11, <2>1, LineIs
<1>13. /\ \A b \in DOMAIN bl : SoundBlock(bl[b])
       /\ \A b \in DOMAIN bl : LineOf(bl, b) \subseteq DOMAIN bl
       /\ \A b \in DOMAIN bl : \A a \in LineOf(bl, b) : SoundPair(bl[a], bl[b])
  BY DEF Forks, bl
<1>14. ASSUME NEW b \in DOMAIN bl2
       PROVE  /\ SoundBlock(bl2[b]) /\ LineOf(bl2, b) \subseteq DOMAIN bl2
              /\ \A a \in LineOf(bl2, b) : SoundPair(bl2[a], bl2[b])
  <2>1. CASE b = n
    <3>1. LineOf(bl2, b) \subseteq DOMAIN bl2
      BY <1>7, <1>11, <1>12, <1>13, <2>1
    <3>2. ASSUME NEW a \in LineOf(bl2, b) PROVE SoundPair(bl2[a], bl2[b])
      <4>1. CASE a = n
        BY <1>5, <1>7, <2>1, <4>1
      <4>2. CASE a # n
        <5>1. a \in LineOf(bl, parent) /\ a \in DOMAIN bl /\ bl2[a] = bl[a]
          BY <1>7, <1>11, <1>12, <1>13, <2>1, <3>2, <4>2
        <5>2. SoundBlock(bl[a]) /\ SoundPair(bl[a], p)
          BY <1>11, <1>13, <5>1
        <5> QED BY <1>5, <1>7, <2>1, <5>1, <5>2
      <4> QED BY <4>1, <4>2
    <3> QED BY <1>5, <1>7, <2>1, <3>1, <3>2
  <2>2. CASE b # n
    <3>1. b \in DOMAIN bl /\ bl2[b] = bl[b] /\ LineOf(bl2, b) = LineOf(bl, b)
      BY <1>7, <1>10, <2>2
    <3>2. LineOf(bl2, b) \subseteq DOMAIN bl
      BY <1>13, <3>1
    <3>3. \A a \in LineOf(bl2, b) : bl2[a] = bl[a]
      BY <1>7, <3>2
    <3> QED BY <1>7, <1>13, <3>1, <3>2, <3>3
  <2> QED BY <2>1, <2>2
<1>15. \E R : bl2 \in Seq(R)
  BY <1>7
<1>16. Forks(bl2)
  BY <1>9, <1>14, <1>15 DEF Forks
<1> QED BY <1>16 DEF bl2

\* The invariant of the tree of blocks.
LEMMA ForksHold == SpecOutgoing => []Forks(blocks)
<1>1. InitOutgoing => Forks(blocks)
  <2> SUFFICES ASSUME InitOutgoing PROVE Forks(blocks)
    OBVIOUS
  <2>1. blocks = <<GenesisBlock>>
    BY DEF InitOutgoing
  <2>2. /\ Len(blocks) = 1 /\ DOMAIN blocks = {1} /\ DOMAIN blocks = 1 .. 1
        /\ blocks[1] = GenesisBlock /\ blocks \in Seq({GenesisBlock})
    <3>1. << GenesisBlock >> \in Seq({GenesisBlock})
      OBVIOUS
    <3> QED BY <2>1, <3>1
  <2>3. Tree(blocks) /\ \E S : blocks \in Seq(S)
    BY <2>2 DEF Tree
  <2>4. LineOf(blocks, 1) = {1}
    BY <2>2, <2>3, LineIs DEF Genesis
  <2>5. /\ GenesisBlock.number = 0 /\ GenesisBlock.next = 0 /\ GenesisBlock.included = 0
        /\ GenesisBlock.first = 0 /\ GenesisBlock.snapshots = <<>>
    BY DEF GenesisBlock
  <2>6. IsState(GenesisBlock)
    <3>1. <<>> \in Seq({})
      OBVIOUS
    <3>2. \E S : GenesisBlock.snapshots \in Seq(S)
      BY <2>5, <3>1
    <3> QED BY <2>5, <3>2 DEF IsState, GenesisBlock
  <2>7. SoundBlock(GenesisBlock)
    BY <2>5, <2>6 DEF SoundBlock
  <2>8. SoundPair(GenesisBlock, GenesisBlock)
    BY <2>5, OutgoingAssumption DEF SoundPair
  <2> QED BY <2>2, <2>3, <2>4, <2>7, <2>8 DEF Forks
<1>2. Forks(blocks) /\ [NextOutgoing]_outgoingVars => Forks(blocks)'
  <2> SUFFICES ASSUME Forks(blocks), [NextOutgoing]_outgoingVars PROVE Forks(blocks')
    OBVIOUS
  <2>1. ASSUME NEW parent \in DOMAIN blocks, NEW batch \in Batches, Import(parent, batch)
        PROVE  Forks(blocks')
    BY <2>1, ImportKeeps
  <2>2. CASE UNCHANGED blocks
    BY <2>2
  <2>3. ASSUME NEW b \in DOMAIN blocks, Finalize(b) PROVE UNCHANGED blocks
    BY <2>3 DEF Finalize
  <2>4. Start \/ Notified \/ Work \/ Crash \/ UNCHANGED outgoingVars => UNCHANGED blocks
    BY DEF Start, Notified, Work, Crash, outgoingVars
  <2> QED BY <2>1, <2>2, <2>3, <2>4 DEF NextOutgoing
<1> QED BY <1>1, <1>2, PTL DEF SpecOutgoing

\* on_finalize keeps the promise at MaximumBlocksBeforeSnapshot: on every fork, and
\* for every limit, a message is in a snapshot that many blocks after it was sent.
THEOREM SnapshotsAlwaysTimely == SpecOutgoing => []SnapshotTimely
<1>1. Forks(blocks) => SnapshotTimely
  BY AncestorsAre DEF Forks, SoundPair, SnapshotTimely
<1> QED BY <1>1, ForksHold, PTL

=============================================================================
