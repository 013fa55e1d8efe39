-------------------------------- MODULE Escrow --------------------------------
(***************************************************************************)
(* What the marketplace promises about money, whoever acts in which order: *)
(* the reward of a job is held in escrow from its registration to its end, *)
(* money is only added while the job is on offer, only a job that has been *)
(* matched pays anybody, a payment never exceeds what is held for that     *)
(* very job, and a job that ends leaves nothing behind.                    *)
(***************************************************************************)
EXTENDS Integers, Sums

CONSTANTS Jobs,      \* the identifiers of jobs
          Float      \* what the vault holds apart from the escrows

VARIABLES phase,     \* "none", "offered" or "matched" for each job
          held,      \* the escrow of each job
          vault      \* what the vault really holds

escrowVars == <<phase, held, vault>>

Init ==
  /\ phase = [j \in Jobs |-> "none"]
  /\ held = [j \in Jobs |-> 0]
  /\ vault = Float

\* A job is offered, or offered anew, with more money; it may be matched at once.
Offer(j) ==
  /\ phase[j] \in {"none", "offered"}
  /\ \E to \in {"offered", "matched"} : phase' = [phase EXCEPT ![j] = to]
  /\ vault' >= vault
  /\ held' = [held EXCEPT ![j] = @ + (vault' - vault)]

\* Offered jobs are matched; the matcher takes a share out of each escrow.
Match(J) ==
  /\ J # {} /\ \A j \in J : phase[j] = "offered" /\ held'[j] \in 0 .. held[j]
  /\ phase' = [j \in Jobs |-> IF j \in J THEN "matched" ELSE phase[j]]
  /\ held' = [j \in Jobs |-> IF j \in J THEN held'[j] ELSE held[j]]
  /\ vault' = vault - Sum([j \in J |-> held[j] - held'[j]], J)

\* A matched job pays out of its own escrow.
PayOut(j) ==
  /\ phase[j] = "matched"
  /\ vault - vault' \in 0 .. held[j]
  /\ held' = [held EXCEPT ![j] = @ - (vault - vault')]
  /\ UNCHANGED phase

\* A job ends; everything still held for it leaves the vault.
End(j) ==
  /\ phase[j] # "none"
  /\ phase' = [phase EXCEPT ![j] = "none"]
  /\ held' = [held EXCEPT ![j] = 0]
  /\ vault' = vault - held[j]

Next ==
  \/ \E j \in Jobs : Offer(j) \/ PayOut(j) \/ End(j)
  \/ \E J \in SUBSET Jobs : Match(J)

Spec == Init /\ [][Next]_escrowVars

=============================================================================
