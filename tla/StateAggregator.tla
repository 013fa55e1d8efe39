--------------------------- MODULE StateAggregator ---------------------------
(***************************************************************************)
(* ink/state/lib.rs: the contract that collects the hashes of outgoing     *)
(* actions into a Merkle mountain range, one range per snapshot.  A        *)
(* finished snapshot is only a block number: its root is read from the     *)
(* state the contract had at the end of that block.                        *)
(*                                                                         *)
(* The contract's storage is a record; a hash is the action itself, and    *)
(* the range is the sequence of its leaves.                                *)
(***************************************************************************)
EXTENDS Mmr

\* mmr_size and tree are the leaves; snapshot_level[k] is that of snapshot k.
NewAggregator(snapshot_duration) ==
  [duration |-> snapshot_duration, start |-> 0, counter |-> 1, leaves |-> <<>>,
   snapshot_level |-> <<>>]

\* Mutant: the last block of a snapshot counts as the first of the next.
DueEarly(agg, block) == agg.start + agg.duration <= block

Due(agg, block) == agg.start + agg.duration < block

\* finalize_snapshot: the first call only notes the block.
finalize_snapshot(agg, block) ==
  LET started == IF agg.start = 0 THEN [agg EXCEPT !.start = block, !.leaves = <<>>] ELSE agg
  IN  IF Due(started, block)
      THEN [started EXCEPT !.snapshot_level = Append(@, block - 1), !.start = block,
                           !.leaves = <<>>, !.counter = @ + 1]
      ELSE started

\* snapshot is an error (CannotSnapshot) when nothing is due.
CanSnapshot(agg, block) == finalize_snapshot(agg, block).counter > agg.counter

\* insert: the new leaf's position and snapshot, and the storage after it.
insert(agg, block, hash) ==
  LET ready == finalize_snapshot(agg, block)
  IN  [leaf_index |-> leaf_index_to_pos(Len(ready.leaves)),
       snapshot   |-> ready.counter,
       agg        |-> [ready EXCEPT !.leaves = Append(@, hash)]]

=============================================================================
