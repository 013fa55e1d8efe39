-------------------------- MODULE MCParachainStaking --------------------------
(* The instance of ParachainStaking that TLC explores: one candidate with    *)
(* delegators rich enough to pass each other by bonding more, or two         *)
(* candidates that share delegators who can do so by delegating.  A unit of  *)
(* d3 has half the power of one of the others, so that a delegation may rank *)
(* above a greater one.                                                      *)
EXTENDS ParachainStaking, TLC

CONSTANTS c1, c2, d1, d2, d3

OneCandidate  == [a \in Accounts |-> CASE a = c1 -> 2 [] a = c2 -> 0 [] OTHER -> 3]
TwoCandidates == [a \in Accounts |-> IF a \in {d1, d2} THEN 2 ELSE 1]

MCFree == {OneCandidate, TwoCandidates}

MCFactor == [a \in Accounts |-> IF a = d3 THEN 1 ELSE 2]

Symmetry == Permutations({d1, d2})

=============================================================================
