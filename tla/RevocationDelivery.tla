------------------------- MODULE RevocationDelivery -------------------------
(***************************************************************************)
(* What the revocation outbox of the payment ledger promises               *)
(* (migrations/009_authority_revocation_outbox.sql): a revocation that was *)
(* asked for takes effect at the Authority at most once, is reported       *)
(* delivered only after it took effect, and once delivered, or handed to   *)
(* an operator, it stays so.  It does not promise that a request is ever   *)
(* settled: that is up to whoever calls deliver_revocation.                *)
(***************************************************************************)
CONSTANT Orders

VARIABLES request,  \* what the ledger knows of the revocation of each order
          revoked   \* the orders whose licence the Authority has revoked

rvars == <<request, revoked>>

Init ==
  /\ request = [o \in Orders |-> "none"]
  /\ revoked = {}

Ask(o) ==
  /\ request[o] = "none"
  /\ request' = [request EXCEPT ![o] = "queued"]
  /\ UNCHANGED revoked

\* The Authority may act on a call long after the ledger gave up on it.
Revoke(o) ==
  /\ request[o] # "none"
  /\ o \notin revoked
  /\ revoked' = revoked \cup {o}
  /\ UNCHANGED request

Settle(o) ==
  /\ request[o] = "queued"
  /\ \E outcome \in {"abandoned"} \cup {s \in {"delivered"} : o \in revoked} :
       request' = [request EXCEPT ![o] = outcome]
  /\ UNCHANGED revoked

Next == \E o \in Orders : Ask(o) \/ Revoke(o) \/ Settle(o)

Spec == Init /\ [][Next]_rvars
=============================================================================
