---------------------------- MODULE MCHyperdrive ----------------------------
(***************************************************************************)
(* An instance of Hyperdrive for TLC: three transmitters, two of which may *)
(* be dishonest, a quorum of two, one forged message, on each of the three *)
(* chains.                                                                 *)
(***************************************************************************)
EXTENDS Hyperdrive

CONSTANTS t1, t2, t3, o1, o2, job, junk

MCWindows == { [start_block |-> 0, end_block |-> 1] }

MCInitial == [t \in Transmitters |-> IF t = t3 THEN NoWindow ELSE [start_block |-> 0, end_block |-> 1]]

\* One dishonest transmitter, or two of them, enough for a quorum of their own.
MCSettings ==
  { [chain |-> "Ethereum",  honest |-> {t1, t3}],
    [chain |-> "AlephZero", honest |-> {t1, t3}],
    [chain |-> "Tezos",     honest |-> {t1}] }

\* The second contract takes over after the first message.
MCSends == { <<o1, 1, job>>, <<o2, 2, job>> }

MCForgeries == { [NoMessages EXCEPT ![o1][1] = junk] }

=============================================================================
