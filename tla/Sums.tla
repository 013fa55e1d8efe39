-------------------------------- MODULE Sums --------------------------------
(***************************************************************************)
(* The sum of natural numbers over a finite set, as a cardinality: f[x] is *)
(* a purse of f[x] distinct coins and Sum(f, S) counts the coins of S.     *)
(* Unlike a fold this definition needs no recursion, so that what happens  *)
(* to a sum when one term changes can be proved from the theorems about    *)
(* finite sets.                                                            *)
(***************************************************************************)
EXTENDS Naturals, FiniteSets

Coins(f, S) == { c \in S \X UNION { 1 .. f[x] : x \in S } : c[2] <= f[c[1]] }

Sum(f, S) == Cardinality(Coins(f, S))

=============================================================================
