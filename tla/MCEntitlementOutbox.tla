------------------------ MODULE MCEntitlementOutbox ------------------------
(* Model checking of EntitlementOutbox. *)
EXTENDS EntitlementOutbox
=============================================================================
