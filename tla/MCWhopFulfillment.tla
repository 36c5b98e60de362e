------------------------- MODULE MCWhopFulfillment -------------------------
(***************************************************************************)
(* The instance of WhopFulfillment that TLC checks: a purchase, its        *)
(* reversal or a second webhook of the same payment, and a third webhook   *)
(* that competes for the early place, reverses again or is not understood. *)
(***************************************************************************)
EXTENDS WhopFulfillment, TLC

CONSTANTS e1, e2, e3, p1, p2

\* The workers are interchangeable: no property names one.
Symmetry == Permutations(Workers)

Says(kind, payment, tier, user) ==
  [kind |-> kind, payment |-> payment, tier |-> tier, user |-> user]

MCContents ==
  [w \in {e1, e2, e3} |->
     CASE w = e1 -> {Says("payment", p1, "early", "one")}
       [] w = e2 -> {Says("refund", p1, "early", "other"), Says("payment", p1, "early", "one"),
                     Says("payment", p1, "early", "other")}
       [] w = e3 -> {Says("payment", p2, "early", "one"), Says("payment", p2, "standard", "one"),
                     Says("dispute", p1, "early", "one"), Says("dispute", p1, "standard", "one"),
                     Says("other", p2, "early", "one"), Says("invalid", p2, "early", "one")}]
=============================================================================
