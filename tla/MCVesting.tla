------------------------------ MODULE MCVesting ------------------------------
(***************************************************************************)
(* An instance of Vesting for TLC: two vesters, stakes and periods whose   *)
(* powers are odd and even, rewards that do not divide evenly.             *)
(***************************************************************************)
EXTENDS Vesting, TLC

CONSTANTS v1, v2

Symmetry == Permutations(Vesters)

=============================================================================
