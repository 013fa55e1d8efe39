--------------------------------- MODULE Mmr ---------------------------------
(***************************************************************************)
(* Merkle mountain ranges: node positions (mmr_lib, as                     *)
(* pallets/hyperdrive-outgoing/src/utils.rs and mmr/ use it), and the      *)
(* translation between leaves and nodes.                                   *)
(*                                                                         *)
(* A hash is injective, so a node is the sequence of the leaves below it,  *)
(* merging is concatenation, and the root is the sequence of all leaves.   *)
(***************************************************************************)
EXTENDS Integers, Sequences, FiniteSets, SequencesExt

CONSTANT MaxLeaves       \* bound: the leaves of a range

\* The heights of the peaks over n leaves: the bits of n.
Ones(n) == {h \in 0 .. MaxLeaves : (n \div 2^h) % 2 = 1}

\* count_ones and trailing_ones.
count_ones(n) == Cardinality(Ones(n))

trailing_ones(n) == CHOOSE h \in 0 .. MaxLeaves :
                      /\ h \notin Ones(n)
                      /\ \A j \in 0 .. h - 1 : j \in Ones(n)

\* NodesUtils::size: the nodes over n leaves.
size(n) == 2 * n - count_ones(n)

leaf_index_to_pos(i) == size(i)

\* The positions of the peaks over n leaves, from left to right.
get_peaks(n) ==
  LET heights == SetToSortSeq(Ones(n), LAMBDA g, h : g > h)
      width(k) == IF k = 0 THEN 0 ELSE 2^heights[k]
      nodes[k \in 0 .. Len(heights)] ==
        IF k = 0 THEN 0 ELSE nodes[k - 1] + 2 * width(k) - 1
  IN  [k \in DOMAIN heights |-> nodes[k] - 1]

\* The height of a node: leaf i brings the nodes of heights 0 to
\* trailing_ones(i), one after the other.
pos_height_in_tree(pos) ==
  CHOOSE h \in 0 .. MaxLeaves : \E i \in 0 .. MaxLeaves :
    h <= trailing_ones(i) /\ pos = size(i) + h

\* NodesUtils: the leaf that brought a node is the one below it to the right;
\* its index follows from its position and the peaks before it.
leaf_index_that_added_node(pos) ==
  LET leaf  == pos - pos_height_in_tree(pos)
      peaks == CHOOSE k \in 0 .. MaxLeaves :
                 \E n \in 0 .. MaxLeaves : leaf = size(n) /\ k = count_ones(n)
  IN  (leaf + peaks) \div 2

right_branch_ending_in_leaf(i) == [k \in 1 .. trailing_ones(i) + 1 |-> size(i) + k - 1]

\* node_pos_to_k_index of the leaf at pos in the range over n leaves: from its
\* peak down, the turns to the right.
k_index(pos, n) ==
  LET peaks  == get_peaks(n)
      peak   == peaks[CHOOSE k \in DOMAIN peaks :
                        /\ pos <= peaks[k]
                        /\ \A j \in 1 .. k - 1 : peaks[j] < pos]
      height == pos_height_in_tree(peak)
      down[h \in 0 .. height] ==   \* the node of height h above pos
        IF h = height THEN [pos |-> peak, index |-> 0]
        ELSE LET up   == down[h + 1]
                 left == up.pos - 2^(h + 1)
             IN  IF left >= pos
                 THEN [pos |-> left, index |-> 2 * up.index]
                 ELSE [pos |-> up.pos - 1, index |-> 2 * up.index + 1]
  IN  down[0].index

=============================================================================
