------------------------ MODULE MCIssuanceCheckpoint ------------------------
(* The instance of IssuanceCheckpoint that TLC checks. *)
EXTENDS IssuanceCheckpoint
=============================================================================
