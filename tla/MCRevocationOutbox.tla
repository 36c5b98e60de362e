------------------------- MODULE MCRevocationOutbox -------------------------
(* The instance of RevocationOutbox that TLC checks. *)
EXTENDS RevocationOutbox
=============================================================================
