------------------------- MODULE HyperdriveOutgoing -------------------------
(***************************************************************************)
(* pallets/hyperdrive-outgoing: messages to other chains are the leaves of *)
(* a Merkle mountain range.  The chain keeps the peaks, the roots of the   *)
(* snapshots and where each leaf came from; the nodes go to the off-chain  *)
(* database of the node, under a key of the fork that made them, and the   *)
(* gadget (mmr_gadget/) moves those of finalized blocks to a key of their  *)
(* position alone.  Proofs are read from that database.                    *)
(*                                                                         *)
(* A block is its index in "blocks" (its hash), 1 being the genesis block, *)
(* and carries the state of the pallet after it.  The gadget is a process  *)
(* of its own: it is told of finality while it runs, misses what happens   *)
(* while it does not, and can crash between any two writes.  It is the     *)
(* only one of its node: its key in the aux store does not name the        *)
(* pallet's instance, so that gadgets of two instances would share it.     *)
(* The pallet is in the runtime from the genesis block on: canonicalize    *)
(* meets no block before the first with a range, and try_build finds one.  *)
(***************************************************************************)
EXTENDS Mmr

CONSTANTS Batches,                       \* what a block sends: sequences of actions
          MaximumBlocksBeforeSnapshot,
          MaxBlocks,                     \* bound: blocks after the genesis block
          MaxCrashes                     \* bound

Actions == UNION {Range(batch) : batch \in Batches}

ASSUME OutgoingAssumption ==
  /\ MaximumBlocksBeforeSnapshot \in Nat \ {0}
  /\ Batches \subseteq Seq(Actions)

VARIABLES
  blocks,      \* the imported blocks, with the storage of the pallet after each
  finalized,   \* the finalized block
  temp,        \* off-chain: nodes under fork-aware keys, a set of [key, node]
  canon,       \* off-chain: nodes under canonical keys, a set of [key, node]
  aux,         \* the gadget's persisted best_canonicalized, -1 before the first start
  phase,       \* the gadget: "down", "building" (try_build) or "running"
  queue,       \* the finality notifications it has not taken yet
  todo,        \* what is left to do for the one it has taken
  best,        \* best_canonicalized
  crashes

db           == <<temp, canon>>
gadget       == <<phase, queue, todo, best>>
outgoingVars == <<blocks, finalized, temp, canon, aux, gadget, crashes>>

Genesis == 1
Leaves  == [id : 0 .. MaxLeaves, action : Actions]

(***************************************************************************)
(* Off-chain storage: keys and reads.                                      *)
(***************************************************************************)
\* Mutant: the parent alone tells the forks apart.
key_without_root(pos, parent, root) == [pos |-> pos, parent |-> parent, root |-> <<>>]

node_temp_offchain_key(pos, parent, root) ==
  [pos |-> pos, parent |-> parent, root |-> root]

\* offchain_index::set and local_storage_set, _clear, _get: {} or one node.
Put(store, key, node) == {e \in store : e.key # key} \cup {[key |-> key, node |-> node]}
Clear(store, key)     == {e \in store : e.key # key}
Get(store, key)       == {e.node : e \in {f \in store : f.key = key}}

\* size and leaf_index_that_added_node, tabulated (f @@ <<>> is f, as a table).
SizeOf  == [n \in 0 .. MaxLeaves |-> size(n)] @@ <<>>
AddedBy == [pos \in 0 .. size(MaxLeaves) - 1 |-> leaf_index_that_added_node(pos)] @@ <<>>

\* Storage<OffchainStorage>::get_elem in the state of block b.
get_elem(b, pos) ==
  LET meta == blocks[b].leafMeta[AddedBy[pos]]
      kept == Get(canon, pos)
  IN  IF kept # {} THEN kept
      ELSE Get(temp, node_temp_offchain_key(pos, meta.parent, meta.root))

(***************************************************************************)
(* The pallet.  A state of it is a record; "none" in leafMeta is the       *)
(* parent 0, first = 0 stands for no FirstMmrBlockNumber.                  *)
(***************************************************************************)
NoMeta == [parent |-> 0, root |-> <<>>]

GenesisBlock ==
  [parent |-> 0, number |-> 0, included |-> 0, next |-> 0, first |-> 0,
   leafMeta |-> [i \in 0 .. MaxLeaves |-> NoMeta],
   last_message_excl |-> 0, snapshots |-> <<>>, root |-> <<>>,
   nodes |-> [pos \in 0 .. size(MaxLeaves) |-> <<>>]]

\* Mmr::push: the leaf and the nodes it completes, each from the peak to its
\* left and the node before it.
elems(s, leaf) ==
  LET top == trailing_ones(s.next)
      elem[h \in 0 .. top] ==
        IF h = 0 THEN <<leaf>>
        ELSE s.nodes[size(s.next) + h - 2^h] \o elem[h - 1]
  IN  elem

\* send_message in the block on parent: push, append (which keeps the new peaks
\* and prunes the old, and notes the leaf's origin with each node it stores: an
\* inner node under the index after the leaf) and the new root.
send_message(s, parent, action) ==
  LET leaf   == [id |-> s.next, action |-> action]
      elem   == elems(s, leaf)
      top    == trailing_ones(s.next)
      pos    == size(s.next)
      peaks  == get_peaks(s.next + 1)
      pruned == Range(get_peaks(s.next)) \ Range(peaks)
      stored == [p \in DOMAIN s.nodes |->
                   IF p \in pruned THEN <<>>
                   ELSE IF p \in Range(peaks) /\ p >= pos THEN elem[p - pos]
                   ELSE s.nodes[p]]
      root   == FlattenSeq([k \in DOMAIN peaks |-> stored[peaks[k]]])
      meta   == [parent |-> parent, root |-> root]
  IN  [s EXCEPT !.nodes = stored, !.root = root, !.next = @ + 1,
                !.leafMeta = [i \in DOMAIN @ |->
                   IF i = s.next \/ (i = s.next + 1 /\ top > 0)
                   THEN meta ELSE @[i]]]

\* store_to_offchain for the nodes of one message.
StoredBy(s, parent, action) ==
  LET elem == elems(s, [id |-> s.next, action |-> action])
      root == send_message(s, parent, action).root
  IN  {[key  |-> node_temp_offchain_key(size(s.next) + h, parent, root),
        node |-> elem[h]] : h \in DOMAIN elem}

\* Mutant: the limit is passed before it counts.
maximum_blocks_passed(s, current_block) ==
  LET last_block == IF s.snapshots = <<>> THEN s.first
                    ELSE s.snapshots[Len(s.snapshots)].last_block
  IN  s.first # 0 /\ current_block - last_block > MaximumBlocksBeforeSnapshot

\* No snapshot yet: the blocks are counted from the first one.
maximum_blocks_before_snapshot_reached(s, current_block) ==
  LET last_block == IF s.snapshots = <<>> THEN s.first
                    ELSE s.snapshots[Len(s.snapshots)].last_block
  IN  s.first # 0 /\ current_block - last_block >= MaximumBlocksBeforeSnapshot

\* Mutant: a snapshot ends where the one before it did.
on_finalize_included(s, current_block) ==
  LET taken == /\ s.included < s.next
               /\ maximum_blocks_before_snapshot_reached(s, current_block)
      meta  == [root |-> s.root, last_block |-> current_block,
                last_message_excl |-> s.included]
  IN  [s EXCEPT !.snapshots = IF taken THEN Append(@, meta) ELSE @,
                !.included = IF taken THEN s.next ELSE @,
                !.last_message_excl = s.next,
                !.first = IF @ = 0 THEN current_block ELSE @]

\* snapshots[k] is snapshot number k - 1.
on_finalize(s, current_block) ==
  LET taken == /\ s.included < s.next
               /\ maximum_blocks_before_snapshot_reached(s, current_block)
      meta  == [root |-> s.root, last_block |-> current_block,
                last_message_excl |-> s.next]
  IN  [s EXCEPT !.snapshots = IF taken THEN Append(@, meta) ELSE @,
                !.included = IF taken THEN s.next ELSE @,
                !.last_message_excl = s.next,
                !.first = IF @ = 0 THEN current_block ELSE @]

(***************************************************************************)
(* The chain.                                                              *)
(***************************************************************************)
Ancestors(b) ==
  LET line[k \in 1 .. b] ==
        {k} \cup IF k = Genesis THEN {} ELSE line[blocks[k].parent]
  IN  line[b]

\* A parent is imported before its children.
OldestFirst(bs) == SetToSortSeq(bs, LAMBDA x, y : x < y)

\* The pallet's state after each message of a batch, in a block on parent.
Executing(parent, batch) ==
  LET after[k \in 0 .. Len(batch)] ==
        IF k = 0 THEN blocks[parent]
        ELSE send_message(after[k - 1], parent, batch[k])
  IN  after

\* A block on parent executes its messages and is imported with what the
\* indexing API collected.
Import(parent, batch) ==
  LET after   == Executing(parent, batch)
      number  == blocks[parent].number + 1
      state   == on_finalize(after[Len(batch)], number)
      entries == UNION {StoredBy(after[k - 1], parent, batch[k]) : k \in DOMAIN batch}
  IN  /\ Len(blocks) <= MaxBlocks /\ blocks[parent].next + Len(batch) <= MaxLeaves
      /\ finalized \in Ancestors(parent)
      /\ blocks' = Append(blocks, [state EXCEPT !.parent = parent, !.number = number])
      /\ temp' = entries \cup {e \in temp : \A f \in entries : f.key # e.key}
      /\ UNCHANGED <<finalized, canon, aux, gadget, crashes>>

\* A block is finalized, with those before it: a running gadget is notified.
Finalize(b) ==
  LET route == OldestFirst(Ancestors(b) \ Ancestors(finalized)) IN
  /\ b # finalized /\ finalized \in Ancestors(b)
  /\ finalized' = b
  /\ queue' = IF phase = "down" THEN queue ELSE Append(queue, route)
  /\ UNCHANGED <<blocks, db, aux, phase, todo, best, crashes>>

(***************************************************************************)
(* Proofs, for the state of block b.                                       *)
(***************************************************************************)
\* The leaves below a node.
Below == [pos \in DOMAIN AddedBy |->
            AddedBy[pos] - 2^pos_height_in_tree(pos) + 1 .. AddedBy[pos]] @@ <<>>

\* gen_proof for the leaves from one on in the range over n leaves: besides those
\* leaves, the largest nodes that hold none of them, from left to right.
gen_proof == [n \in 0 .. MaxLeaves |-> [from \in 0 .. n |->
  LET disjoint == {pos \in 0 .. size(n) - 1 : Below[pos] \cap (from .. n - 1) = {}}
      largest  == {pos \in disjoint :
                     \A q \in disjoint \ {pos} : ~ Below[pos] \subseteq Below[q]}
  IN  SetToSortSeq(largest, <)
        \o [k \in 1 .. n - from |-> leaf_index_to_pos(from + k - 1)]]
  @@ <<>>] @@ <<>>

\* node_pos_to_k_index of leaf i in the range over n leaves, tabulated.
k_indices ==
  [n \in 0 .. MaxLeaves |->
     [i \in 0 .. n - 1 |-> k_index(leaf_index_to_pos(i), n)] @@ <<>>] @@ <<>>

\* generate_target_chain_proof for an existing snapshot and a message it includes;
\* no limit on the messages is a limit of MaxLeaves.
generate_target_chain_proof(b, next_message_number, maximum_messages, snapshot) ==
  LET last_message_excl == Min({snapshot.last_message_excl,
                                next_message_number + maximum_messages})
  IN  [leaf_count |-> last_message_excl,
       k_index    |-> [i \in next_message_number .. last_message_excl - 1 |->
                         k_indices[last_message_excl][i]],
       nodes      |-> LET positions == gen_proof[last_message_excl][next_message_number]
                      IN  [k \in DOMAIN positions |-> get_elem(b, positions[k])]]

\* The root a proof leads to, the nodes merged from left to right; <<>> when a
\* node could not be read (LeafNotFound, GenerateProof).
RootOf(proof) ==
  IF {} \in Range(proof.nodes) THEN <<>>
  ELSE FlattenSeq([k \in DOMAIN proof.nodes |-> CHOOSE node \in proof.nodes[k] : TRUE])

(***************************************************************************)
(* The gadget.                                                             *)
(***************************************************************************)
Start ==
  /\ phase = "down"
  /\ phase' = "building"
  /\ UNCHANGED <<blocks, finalized, db, aux, queue, todo, best, crashes>>

Branch(b) == [op |-> "branch", block |-> b]
Save      == <<[op |-> "save"]>>

\* Mutant: the first block counts as done.
load_or_init_first(first) == IF aux = -1 THEN first ELSE aux

\* load_or_init_best_canonicalized: in the aux store at once when there is none.
load_or_init_best_canonicalized(first) == IF aux = -1 THEN first - 1 ELSE aux

\* canonicalize_catch_up: the blocks below the notification above the best.
canonicalize_catch_up(route, from) ==
  LET missed == {b \in Ancestors(blocks[route[1]].parent) : blocks[b].number > from}
      order  == OldestFirst(missed)
  IN  [k \in DOMAIN order |-> Branch(order[k])] \o Save

canonicalize_and_prune(route) == [k \in DOMAIN route |-> Branch(route[k])] \o Save

\* A notification is taken: the first one builds the off-chain range.
Notified ==
  /\ phase # "down" /\ todo = <<>> /\ queue # <<>>
  /\ LET route == Head(queue)
         from  == load_or_init_best_canonicalized(blocks[Last(route)].first)
     IN  IF phase = "building"
         THEN /\ phase' = "running"
              /\ aux' = from /\ best' = from
              /\ todo' = canonicalize_catch_up(route, from)
                           \o canonicalize_and_prune(route)
         ELSE /\ todo' = canonicalize_and_prune(route)
              /\ UNCHANGED <<phase, aux, best>>
  /\ queue' = Tail(queue)
  /\ UNCHANGED <<blocks, finalized, db, crashes>>

\* canonicalize_branch reads which leaf the block ended with and lists the nodes
\* that leaf brought: each one found under its fork-aware key is written under
\* the canonical key, then cleared.
MoveOf(key) == <<[op |-> "set", key |-> key], [op |-> "clear", key |-> key]>>

canonicalize_branch(b) ==
  LET leaf_index == blocks[b].last_message_excl - 1
      meta  == blocks[b].leafMeta[leaf_index]
      nodes == right_branch_ending_in_leaf(leaf_index)
  IN  IF blocks[b].last_message_excl = 0 THEN <<>>
      ELSE FlattenSeq([k \in DOMAIN nodes |->
             MoveOf(node_temp_offchain_key(nodes[k], blocks[b].parent, meta.root))])

\* The next step of canonicalization.  first_mmr_block is the first block of
\* every fork, so none before it is canonicalized.
Work ==
  /\ todo # <<>>
  /\ LET item == Head(todo)
         node == Get(temp, item.key)
     IN  \/ /\ item.op = "branch"
            /\ todo' = canonicalize_branch(item.block) \o Tail(todo)
            /\ best' = blocks[item.block].number
            /\ UNCHANGED <<db, aux>>
         \/ /\ item.op = "set" /\ node = {}
            /\ todo' = Tail(Tail(todo))
            /\ UNCHANGED <<db, aux, best>>
         \/ /\ item.op = "set" /\ node # {}
            /\ canon' = Put(canon, item.key.pos, CHOOSE n \in node : TRUE)
            /\ todo' = Tail(todo)
            /\ UNCHANGED <<temp, aux, best>>
         \/ /\ item.op = "clear"
            /\ temp' = Clear(temp, item.key)
            /\ todo' = Tail(todo)
            /\ UNCHANGED <<canon, aux, best>>
         \/ /\ item.op = "save"
            /\ aux' = best
            /\ todo' = Tail(todo)
            /\ UNCHANGED <<db, best>>
  /\ UNCHANGED <<blocks, finalized, phase, queue, crashes>>

\* The node stops: what is not in a database is gone.
Crash ==
  /\ phase # "down" /\ crashes < MaxCrashes
  /\ crashes' = crashes + 1
  /\ phase' = "down" /\ queue' = <<>> /\ todo' = <<>> /\ best' = 0
  /\ UNCHANGED <<blocks, finalized, db, aux>>

InitOutgoing ==
  /\ blocks = <<GenesisBlock>> /\ finalized = Genesis
  /\ temp = {} /\ canon = {} /\ aux = -1
  /\ phase = "down" /\ queue = <<>> /\ todo = <<>> /\ best = 0
  /\ crashes = 0

NextOutgoing ==
  \/ \E parent \in DOMAIN blocks, batch \in Batches : Import(parent, batch)
  \/ \E b \in DOMAIN blocks : Finalize(b)
  \/ Start \/ Notified \/ Work \/ Crash

SpecOutgoing == InitOutgoing /\ [][NextOutgoing]_outgoingVars

(***************************************************************************)
(* Properties.                                                             *)
(***************************************************************************)
\* The blocks whose state a client asks for proofs: the finalized ones and those
\* that may still become final.
Live == {b \in DOMAIN blocks : b \in Ancestors(finalized) \/ finalized \in Ancestors(b)}

\* The node at a position, from the messages of the chain (a root is all of them).
NodeOf(b, pos) == SubSeq(blocks[b].root, Min(Below[pos]) + 1, Max(Below[pos]) + 1)

\* Whatever forks were imported, in which order the gadget moved, cleared, missed
\* or crashed: in the state of every block that is or can become final, every
\* node of the range is read from the off-chain database, and it is the node of
\* that chain (store_to_offchain, get_elem, canonicalize_branch).
NodesReadable ==
  \A b \in Live : \A pos \in 0 .. SizeOf[blocks[b].next] - 1 :
    get_elem(b, pos) = {NodeOf(b, pos)}

\* A message sent in block n is in a snapshot by the end of block n +
\* MaximumBlocksBeforeSnapshot, on every fork (the promise at
\* MaximumBlocksBeforeSnapshot; on_finalize).
SnapshotTimely ==
  \A b \in DOMAIN blocks : \A a \in Ancestors(b) :
    blocks[b].number >= blocks[a].number + MaximumBlocksBeforeSnapshot
      => blocks[a].next <= blocks[b].included

\* The first leaf under the peak that leaf i is under, over n leaves.
FirstUnderPeak ==
  [n \in 0 .. MaxLeaves |-> [i \in 0 .. n - 1 |->
     Min(Below[CHOOSE pos \in Range(get_peaks(n)) : i \in Below[pos]])] @@ <<>>] @@ <<>>

\* A proof for a snapshot, from any message on and without a limit, leads to the
\* root of that snapshot, also when later messages changed the peaks and however
\* far canonicalization is; and a leaf's k_index leads down to that leaf
\* (generate_proof, generate_target_chain_proof).
ProofsVerify ==
  \A b \in Live : \A k \in DOMAIN blocks[b].snapshots :
    LET snapshot == blocks[b].snapshots[k] IN
    \A from \in 0 .. snapshot.last_message_excl - 1 :
      LET proof == generate_target_chain_proof(b, from, MaxLeaves, snapshot) IN
      /\ RootOf(proof) = snapshot.root
      /\ \A i \in DOMAIN proof.k_index :
           i = proof.k_index[i] + FirstUnderPeak[proof.leaf_count][i]

\* Once it is told of finality again and done, the gadget has moved the branch of
\* every finalized block, those finalized while it was down or lost in a crash
\* included, and has noted so (canonicalize_catch_up, canonicalize_and_prune).
CaughtUp ==
  phase = "running" /\ todo = <<>> /\ queue = <<>> =>
    /\ aux = blocks[finalized].number
    /\ \A b \in Ancestors(finalized) \ {Genesis} :
         blocks[b].next > blocks[blocks[b].parent].next =>
           \A pos \in Range(right_branch_ending_in_leaf(blocks[b].next - 1)) :
             Get(canon, pos) = {NodeOf(b, pos)}

\* The documentation of generate_proof: "The proof is generated for the root at
\* the end of the block that also produced the snapshot"; so also when the
\* number of messages is limited.
LimitedProofsVerify ==
  \A b \in Live : \A k \in DOMAIN blocks[b].snapshots :
    LET snapshot == blocks[b].snapshots[k] IN
    \A from \in 0 .. snapshot.last_message_excl - 1, maximum \in 1 .. 2 :
      RootOf(generate_target_chain_proof(b, from, maximum, snapshot)) = snapshot.root

=============================================================================
