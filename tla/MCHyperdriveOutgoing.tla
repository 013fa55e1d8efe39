------------------------ MODULE MCHyperdriveOutgoing ------------------------
(* The instance of HyperdriveOutgoing that TLC explores.                   *)
EXTENDS HyperdriveOutgoing

CONSTANTS a, b

MCBatches == {<<>>, <<a>>, <<b, a>>}

=============================================================================
