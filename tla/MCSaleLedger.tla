---------------------------- MODULE MCSaleLedger ----------------------------
(* The instance of SaleLedger that TLC checks. *)
EXTENDS SaleLedger
=============================================================================
