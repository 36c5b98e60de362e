--------------------------- MODULE MCProjectSeats ---------------------------
(* Model checking of ProjectSeats. *)
EXTENDS ProjectSeats
=============================================================================
