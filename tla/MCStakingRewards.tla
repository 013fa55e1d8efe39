--------------------------- MODULE MCStakingRewards ---------------------------
EXTENDS StakingRewards, TLC

CONSTANTS c1, c2, d1, d2

MCFree == {[a \in Accounts |-> IF a \in {c1, c2} THEN 2 ELSE 3]}

MCFactor == [a \in Accounts |-> 1]

MCGenesisBonds == [c \in {c1, c2} |-> 1]

MCGenesisDelegations ==
  <<[delegator |-> d1, target |-> c1, amount |-> 1, percent |-> 100]>>

=============================================================================
