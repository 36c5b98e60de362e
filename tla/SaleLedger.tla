----------------------------- MODULE SaleLedger -----------------------------
(***************************************************************************)
(* The sale of a licence in the payment ledger                             *)
(* (services/payments/growthmap_payments/service.py, api.py): orders and   *)
(* their quotes, the x402 purchase with its settlement intent, finality    *)
(* and reconciliation, PayPal claims, the operator's transitions, the Whop *)
(* inbox, and the recovery after a crash.  Every action is one BEGIN       *)
(* IMMEDIATE transaction, or one call of an outside service; a crash falls *)
(* between any two of them.  What happens to the entitlement row of a paid *)
(* order is the subject of module EntitlementOutbox: here Deliver stands   *)
(* for its success.                                                        *)
(***************************************************************************)
EXTENDS Naturals, FiniteSets

CONSTANTS Orders,      \* order ids
          PayPalTx,    \* PayPal transaction ids that buyers submit
          Events,      \* Whop webhook event ids
          NoTx,        \* orders.payer_ref IS NULL
          NoOrder,     \* the order of an event that was not received yet
          EarlyLimit,  \* EARLY_LIMIT, the places at the early price
          MaxAttempts, \* max_attempts of receive_whop_event
          MaxCrashes   \* bound on the crashes of the service

ASSUME SaleConstants ==
  /\ NoTx \notin PayPalTx
  /\ NoOrder \notin Orders
  /\ EarlyLimit \in Nat /\ MaxAttempts \in Nat \ {0} /\ MaxCrashes \in Nat

VARIABLES order,    \* the rows of orders
          intent,   \* settlement_intents, at most one per order
          chain,    \* what became of the intent's payment authorization
          buyer,    \* how far the purchase request of the order has come
          claims,   \* PayPal transaction ids in external_events
          inbox,    \* whop_webhook_inbox
          calls,    \* orders whose finalize_x402_intent is still to return
          service,  \* the service process
          crashes   \* how often it crashed

ledger == <<order, intent, claims, inbox>>
vars == <<order, intent, chain, buyer, claims, inbox, calls, service, crashes>>

-----------------------------------------------------------------------------
Confirmed == {"payment_confirmed", "license_issued"}
Reversed == {"refunded", "revoked"}

OrderState == {"none", "pending_payment", "manual_review", "rejected", "expired"}
                \cup Confirmed \cup Reversed
IntentState == {"none", "prepared", "ambiguous", "settled", "finalized_paid",
                "cancelled_unpaid"}

\* A PREPARED, SETTLED or AMBIGUOUS intent reserves its ordinal; only the
\* first and the last may still be settled or cancelled.
Reserving == {"prepared", "settled", "ambiguous"}
Reconcilable == {"prepared", "ambiguous"}

Tier == {"early", "regular"}

\* ordinal is sale_ordinal, 0 for NULL.  Time is not kept: whoever looks at a
\* quote or at a lease may find that it has expired.
Order == [state : OrderState, rail : {"x402", "paypal"}, quote : Tier,
          ordinal : Nat, ref : PayPalTx \cup {NoTx}]

\* candidate: settlement_candidates has a row of the intent.
Intent == [state : IntentState, ordinal : Nat, candidate : BOOLEAN]

\* The kinds parse_verified_event lets through.
EventKind == {"paid", "refund", "dispute", "chargeback"}

Event == [state : {"none", "received", "applied", "quarantined"}, kind : EventKind,
          order : Orders \cup {NoOrder}, attempts : 0..MaxAttempts]

Init ==
  /\ order = [o \in Orders |-> [state |-> "none", rail |-> "x402", quote |-> "regular",
                                ordinal |-> 0, ref |-> NoTx]]
  /\ intent = [o \in Orders |-> [state |-> "none", ordinal |-> 0,
                                 candidate |-> FALSE]]
  /\ chain = [o \in Orders |-> "unsent"]
  /\ buyer = [o \in Orders |-> "idle"]
  /\ claims = {}
  /\ inbox = [e \in Events |-> [state |-> "none", kind |-> "paid", order |-> NoOrder,
                                attempts |-> 0]]
  /\ calls = {}
  /\ service = "up"
  /\ crashes = 0

-----------------------------------------------------------------------------
(* The numbering of the sales. *)

Sold == {o \in Orders : order[o].ordinal # 0}
Reserved == {o \in Orders : intent[o].state \in Reserving}
Occupied == {order[o].ordinal : o \in Sold} \cup {intent[o].ordinal : o \in Reserved}

\* Mutant of FreeOrdinal: reservations are not counted.
FreeOrdinalIgnoringIntents(n) ==
  LET sold == {order[o].ordinal : o \in Sold}
  IN  n \in Nat \ {0} /\ n \notin sold /\ \A j \in 1 .. (n - 1) : j \in sold

\* The least ordinal that no sale and no reservation occupies.
FreeOrdinal(n) ==
  /\ n \in Nat \ {0}
  /\ n \notin Occupied
  /\ \A j \in 1 .. (n - 1) : j \in Occupied

\* next(i for i in range(1, len(occupied) + 2) if i not in occupied)
Ordinals == 1 .. (Cardinality(Orders) + 1)

PriceOf(n) == IF n <= EarlyLimit THEN "early" ELSE "regular"

Up == service = "up"

CreateOrder(o, rail) ==
  /\ Up
  /\ order[o].state = "none"
  /\ LET allocated == Cardinality(Sold) + Cardinality(Reserved)
     IN  order' = [order EXCEPT ![o] =
           [state |-> "pending_payment", rail |-> rail,
            quote |-> IF allocated < EarlyLimit THEN "early" ELSE "regular",
            ordinal |-> 0, ref |-> NoTx]]
  /\ UNCHANGED <<intent, chain, buyer, claims, inbox, calls, service, crashes>>

-----------------------------------------------------------------------------
(* The purchase request: challenge and verify, prepare, settle, and the    *)
(* recording of the facilitator's answer.                                  *)

\* challenge(): the requirements name this order and its quoted amount.
Challenge(o) ==
  /\ Up
  /\ buyer[o] = "idle"
  /\ order[o].rail = "x402" /\ order[o].state = "pending_payment"
  /\ buyer' = [buyer EXCEPT ![o] = "verify"]
  /\ UNCHANGED <<ledger, chain, calls, service, crashes>>

\* facilitator.verify(): the signed authorization is bound to exactly these
\* requirements and is kept for one settlement, or it is refused.
Verify(o) ==
  /\ Up
  /\ buyer[o] = "verify"
  /\ \E next \in {"prepare", "idle"} : buyer' = [buyer EXCEPT ![o] = next]
  /\ UNCHANGED <<ledger, chain, calls, service, crashes>>

\* prepare_x402_intent: the order is read again; a quote that went stale since
\* the challenge sends it to review, a second intent of the order is refused.
PrepareIntent(o) ==
  /\ Up
  /\ buyer[o] = "prepare"
  /\ UNCHANGED <<chain, claims, inbox, calls, service, crashes>>
  /\ \/ /\ order[o].state # "pending_payment" \/ intent[o].state # "none"
        /\ buyer' = [buyer EXCEPT ![o] = "idle"]
        /\ UNCHANGED <<order, intent>>
     \/ /\ order[o].state = "pending_payment" /\ intent[o].state = "none"
        /\ \E n \in Ordinals, fresh \in BOOLEAN :
             /\ FreeOrdinal(n)
             /\ IF fresh /\ order[o].quote = PriceOf(n)
                THEN /\ intent' = [intent EXCEPT ![o] =
                          [state |-> "prepared", ordinal |-> n, candidate |-> FALSE]]
                     /\ buyer' = [buyer EXCEPT ![o] = "settle"]
                     /\ UNCHANGED order
                ELSE /\ order' = [order EXCEPT ![o].state = "manual_review"]
                     /\ buyer' = [buyer EXCEPT ![o] = "idle"]
                     /\ UNCHANGED intent

\* facilitator.settle(): the authorization may reach the chain whether or not
\* an answer comes back.
Settle(o) ==
  /\ Up
  /\ buyer[o] = "settle"
  /\ chain' \in {chain, [chain EXCEPT ![o] = IF @ = "unsent" THEN "sent" ELSE @]}
  /\ buyer' = [buyer EXCEPT ![o] = "answer"]
  /\ UNCHANGED <<ledger, calls, service, crashes>>

\* The outside world: a sent authorization is final or fails; one that was
\* never sent runs out.
ChainDecides(o) ==
  /\ \/ chain[o] = "sent" /\ chain' \in {[chain EXCEPT ![o] = f] : f \in {"final", "void"}}
     \/ chain[o] = "unsent" /\ intent[o].state # "none"
          /\ chain' = [chain EXCEPT ![o] = "void"]
  /\ UNCHANGED <<ledger, buyer, calls, service, crashes>>

\* An intent that cannot be followed up at once goes to review with its order.
Ambiguous(o, candidate) ==
  /\ intent' = [intent EXCEPT ![o].state = "ambiguous",
                              ![o].candidate = @ \/ candidate]
  /\ order' = [order EXCEPT ![o].state = "manual_review"]

\* record_settlement_candidate, when the facilitator accepted a transaction.
RecordCandidate(o) ==
  /\ Up
  /\ buyer[o] = "answer"
  /\ chain[o] # "unsent"
  /\ intent[o].state \in Reconcilable
  /\ IF intent[o].candidate THEN UNCHANGED <<intent, order>> ELSE Ambiguous(o, TRUE)
  /\ buyer' = [buyer EXCEPT ![o] = "idle"]
  /\ UNCHANGED <<chain, claims, inbox, calls, service, crashes>>

\* mark_intent_ambiguous, after any exception of the purchase.
MarkIntentAmbiguous(o) ==
  /\ Up
  /\ buyer[o] = "answer"
  /\ IF intent[o].state = "prepared" THEN Ambiguous(o, FALSE) ELSE UNCHANGED <<intent, order>>
  /\ buyer' = [buyer EXCEPT ![o] = "idle"]
  /\ UNCHANGED <<chain, claims, inbox, calls, service, crashes>>

-----------------------------------------------------------------------------
(* Settlement. *)

\* The finality provider: the candidate's receipt is successful, lies in a
\* finalized block and holds one transfer of the amount.
FinalTransfer(o) == chain[o] = "final"

\* What a reconciler can prove of this intent: authenticated evidence is for
\* its proof, nonce, order, payer and amount and is final.
Evidence(o) == {e \in {"paid"} : FinalTransfer(o)} \cup {e \in {"unpaid"} : chain[o] = "void"}

\* Mutant of RecordSettlement: an accepted transaction counts as final.
RecordSettlementUnfinal(o) ==
  /\ Up
  /\ intent[o].state \in Reconcilable /\ chain[o] \in {"sent", "final"}
  /\ intent' = [intent EXCEPT ![o].state = "settled"]
  /\ calls' = calls \cup {o}
  /\ UNCHANGED <<order, chain, buyer, claims, inbox, service, crashes>>

\* record_settlement_result with authenticated evidence of a final transfer,
\* by the purchase itself or by reconcile_intent; its caller goes on to
\* finalize_x402_intent.
RecordSettlement(o) ==
  /\ Up
  /\ intent[o].state \in Reconcilable
  /\ "paid" \in Evidence(o)
  /\ intent' = [intent EXCEPT ![o].state = "settled"]
  /\ calls' = calls \cup {o}
  /\ UNCHANGED <<order, chain, buyer, claims, inbox, service, crashes>>

\* finalize_x402_intent: the sale takes the reserved ordinal, whatever the
\* order's state has become, and its entitlement row is queued.
FinalizeIntent(o) ==
  /\ o \in calls /\ service # "down"
  /\ intent[o].state = "settled"
  /\ order' = [order EXCEPT ![o].state = "payment_confirmed",
                            ![o].ordinal = intent[o].ordinal]
  /\ intent' = [intent EXCEPT ![o].state = "finalized_paid"]
  /\ calls' = calls \ {o}
  /\ UNCHANGED <<chain, buyer, claims, inbox, service, crashes>>

\* Mutant of FinalizeFails: a start goes on without the intent.
FinalizeFailsSkipped(o) ==
  /\ o \in calls /\ service # "down"
  /\ calls' = calls \ {o}
  /\ UNCHANGED <<ledger, chain, buyer, service, crashes>>

\* It raises, the database locked or the checkpoint file not written.  A
\* running service has no second try: mark_intent_ambiguous leaves a settled
\* intent alone and reconcile_intent refuses it.  A start that raises ends.
FinalizeFails(o) ==
  /\ o \in calls /\ service # "down"
  /\ calls' = IF Up THEN calls \ {o} ELSE {}
  /\ service' = IF Up THEN "up" ELSE "down"
  /\ UNCHANGED <<ledger, chain, buyer, crashes>>

\* reconcile_intent with final evidence that nothing was paid.
CancelUnpaid(o) ==
  /\ Up
  /\ intent[o].state \in Reconcilable
  /\ "unpaid" \in Evidence(o)
  /\ intent' = [intent EXCEPT ![o].state = "cancelled_unpaid"]
  /\ order' = [order EXCEPT ![o].state = "expired"]
  /\ UNCHANGED <<chain, buyer, claims, inbox, calls, service, crashes>>

-----------------------------------------------------------------------------
(* PayPal. *)

PayPalSubmit(o, t) ==
  /\ Up
  /\ order[o].rail = "paypal" /\ order[o].state = "pending_payment"
  /\ t \notin claims
  /\ claims' = claims \cup {t}
  /\ order' = [order EXCEPT ![o].ref = t]
  /\ UNCHANGED <<intent, chain, buyer, inbox, calls, service, crashes>>

\* paypal_confirm and _confirm_payment_locked: the operator attests a
\* completed payment of the given amount for the submitted transaction.
PayPalConfirm(o, amount) ==
  /\ Up
  /\ order[o].rail = "paypal" /\ order[o].ref # NoTx
  /\ order[o].state = "pending_payment"
  /\ \E n \in Ordinals, fresh \in BOOLEAN :
       /\ FreeOrdinal(n)
       /\ order' = IF fresh /\ amount = PriceOf(n) /\ order[o].quote = PriceOf(n)
                   THEN [order EXCEPT ![o].state = "payment_confirmed", ![o].ordinal = n]
                   ELSE [order EXCEPT ![o].state = "manual_review"]
  /\ UNCHANGED <<intent, chain, buyer, claims, inbox, calls, service, crashes>>

-----------------------------------------------------------------------------
(* Delivery, the operator and the Whop inbox. *)

\* The entitlement of a settled order was delivered.
Deliver(o) ==
  /\ Up
  /\ order[o].state = "payment_confirmed" /\ intent[o].state = "finalized_paid"
  /\ order' = [order EXCEPT ![o].state = "license_issued"]
  /\ UNCHANGED <<intent, chain, buyer, claims, inbox, calls, service, crashes>>

\* TRANSITIONS
From(action) ==
  CASE action = "reject" -> {"pending_payment", "manual_review"}
    [] action = "refund" -> Confirmed
    [] action = "revoke" -> {"license_issued"}

Target(action) ==
  CASE action = "reject" -> "rejected"
    [] action = "refund" -> "refunded"
    [] action = "revoke" -> "revoked"

\* Mutant of AdminTransition: a sale can be rejected.
AdminTransitionFromAnywhere(o, action) ==
  /\ Up
  /\ order[o].state # "none"
  /\ order' = [order EXCEPT ![o].state = Target(action)]
  /\ UNCHANGED <<intent, chain, buyer, claims, inbox, calls, service, crashes>>

AdminTransition(o, action) ==
  /\ Up
  /\ order[o].state \in From(action)
  /\ order' = [order EXCEPT ![o].state = Target(action)]
  /\ UNCHANGED <<intent, chain, buyer, claims, inbox, calls, service, crashes>>

\* receive_whop_event inserts the authenticated event ...
ReceiveEvent(e, kind, o) ==
  /\ Up
  /\ inbox[e].state = "none"
  /\ inbox' = [inbox EXCEPT ![e] = [state |-> "received", kind |-> kind, order |-> o,
                                    attempts |-> 0]]
  /\ UNCHANGED <<order, intent, chain, buyer, claims, calls, service, crashes>>

\* ... and _apply_whop_event applies it, on this or on a later delivery.  An
\* event cannot be applied to an unknown order, a payment not before the
\* order is paid; the schema refuses a reversal whose entitlement row is
\* under manual review.
Applicable(e) ==
  LET s == order[inbox[e].order].state
  IN  s # "none" /\ (inbox[e].kind = "paid" => s \notin {"pending_payment", "manual_review"})

ApplyEvent(e) ==
  LET o == inbox[e].order
      target == IF inbox[e].kind = "refund" THEN "refunded" ELSE "revoked"
  IN  /\ Up
      /\ inbox[e].state = "received"
      /\ Applicable(e)
      /\ order' = IF inbox[e].kind = "paid"
                       \/ order[o].state \in Reversed \cup {"rejected", "expired"}
                  THEN order
                  ELSE [order EXCEPT ![o].state = target]
      /\ inbox' = [inbox EXCEPT ![e].state = "applied", ![e].attempts = @ + 1]
      /\ UNCHANGED <<intent, chain, buyer, claims, calls, service, crashes>>

EventFails(e) ==
  LET o == inbox[e].order
      attempts == inbox[e].attempts + 1
  IN  /\ Up
      /\ inbox[e].state = "received"
      /\ \/ ~Applicable(e)
         \/ inbox[e].kind # "paid" /\ order[o].state = "payment_confirmed"
              /\ intent[o].state = "finalized_paid"
      /\ inbox' = [inbox EXCEPT
           ![e].state = IF attempts >= MaxAttempts THEN "quarantined" ELSE "received",
           ![e].attempts = attempts]
      /\ UNCHANGED <<order, intent, chain, buyer, claims, calls, service, crashes>>

-----------------------------------------------------------------------------
(* Crash and recovery. *)

\* The process dies, or is stopped after it closed itself.
Crash ==
  /\ service # "down" /\ crashes < MaxCrashes
  /\ service' = "down"
  /\ crashes' = crashes + 1
  /\ calls' = {}
  /\ buyer' = [o \in Orders |-> "idle"]
  /\ UNCHANGED <<ledger, chain>>

\* _init, on a ledger that its checkpoint authenticates, up to the list that
\* recover_durable_settlements reads.
Start ==
  /\ service = "down"
  /\ service' = "recovering"
  /\ calls' = {o \in Orders : intent[o].state = "settled"}
  /\ UNCHANGED <<ledger, chain, buyer, crashes>>

\* Once every intent of the list is finalized, reconcile_expired_intents
\* sends the abandoned ones to review.
Recover ==
  \E expired \in SUBSET {o \in Orders : intent[o].state = "prepared"} :
      /\ service = "recovering"
      /\ calls = {}
      /\ service' = "up"
      /\ intent' = [o \in Orders |-> IF o \in expired
                      THEN [intent[o] EXCEPT !.state = "ambiguous"] ELSE intent[o]]
      /\ order' = [o \in Orders |-> IF o \in expired
                      THEN [order[o] EXCEPT !.state = "manual_review"] ELSE order[o]]
      /\ UNCHANGED <<chain, buyer, claims, inbox, calls, crashes>>

-----------------------------------------------------------------------------
Purchase(o) ==
  \/ Challenge(o) \/ Verify(o) \/ PrepareIntent(o) \/ Settle(o) \/ RecordCandidate(o)
  \/ MarkIntentAmbiguous(o)

Administration(o) ==
  \/ CancelUnpaid(o) \/ RecordSettlement(o) \/ Deliver(o)
  \/ \E amount \in Tier : PayPalConfirm(o, amount)
  \/ \E action \in {"reject", "refund", "revoke"} : AdminTransition(o, action)

\* A delivery of the webhook; a dispute is handled as a chargeback is.
Webhook(e) ==
  \/ \E kind \in EventKind \ {"dispute"}, o \in Orders : ReceiveEvent(e, kind, o)
  \/ ApplyEvent(e) \/ EventFails(e)

Next ==
  \/ \E o \in Orders :
       \/ \E rail \in {"x402", "paypal"} : CreateOrder(o, rail)
       \/ Purchase(o) \/ Administration(o) \/ FinalizeIntent(o)
       \/ FinalizeFails(o) \/ ChainDecides(o)
       \/ \E t \in PayPalTx : PayPalSubmit(o, t)
  \/ \E e \in Events : Webhook(e)
  \/ Crash \/ Start \/ Recover

Spec == Init /\ [][Next]_vars

-----------------------------------------------------------------------------
TypeOK ==
  /\ order \in [Orders -> Order]
  /\ intent \in [Orders -> Intent]
  /\ chain \in [Orders -> {"unsent", "sent", "final", "void"}]
  /\ buyer \in [Orders -> {"idle", "verify", "prepare", "settle", "answer"}]
  /\ claims \in SUBSET PayPalTx
  /\ inbox \in [Events -> Event]
  /\ calls \in SUBSET Orders
  /\ service \in {"up", "recovering", "down"}
  /\ crashes \in 0..MaxCrashes

\* The ordinals an order holds, as a sale or as a reservation.
Held(o) == (IF o \in Sold THEN {order[o].ordinal} ELSE {})
             \cup (IF o \in Reserved THEN {intent[o].ordinal} ELSE {})

\* Early places are never oversold (service.py create_order,
\* prepare_x402_intent, _confirm_payment_locked): no ordinal is held by two
\* orders, whatever reservations expire, settle late or are cancelled, and
\* an order holds one of the first EarlyLimit exactly if it pays the early
\* price.
EarlyPlaces ==
  \A o \in Orders :
    /\ \A p \in Orders \ {o} : Held(o) \cap Held(p) = {}
    /\ \A n \in Held(o) : order[o].quote = PriceOf(n)

\* Sales and payments agree (finalize_x402_intent, reconcile_intent,
\* paypal_submit): an x402 order is sold exactly when its final transfer was
\* settled, a final transfer always has an intent that still leads to the
\* sale, and a PayPal transaction pays for one order.
PaymentBacked ==
  /\ \A o \in Orders :
       /\ order[o].state \in Confirmed => o \in Sold
       /\ order[o].rail = "x402" =>
            (o \in Sold <=> intent[o].state = "finalized_paid")
       /\ intent[o].state \in {"settled", "finalized_paid"} => chain[o] = "final"
       /\ chain[o] = "final" => intent[o].state \in Reserving \cup {"finalized_paid"}
  /\ \A o, p \in Sold : order[o].ref = order[p].ref /\ order[o].ref # NoTx => o = p

\* A sale only advances (admin_transition, _apply_whop_business_locked,
\* record_settlement_candidate, reconcile_expired_intents): once an order has
\* its ordinal it keeps it, and it goes from confirmed to issued to reversed
\* and never back to review, rejection or expiry.
Rank(s) ==
  CASE s = "payment_confirmed" -> 1
    [] s = "license_issued" -> 2
    [] s \in Reversed -> 3
    [] OTHER -> 0

SaleOnlyAdvances ==
  [][\A o \in Sold :
       /\ order'[o].ordinal = order[o].ordinal
       /\ Rank(order'[o].state) >= Rank(order[o].state)
       /\ order[o].state \in Reversed => order'[o].state = order[o].state]_vars

\* Recorded evidence is never left behind (record_settlement_result,
\* finalize_x402_intent, recover_durable_settlements): a settled intent only
\* ever becomes the sale of its reserved ordinal, whatever call raises or
\* process dies on the way, and no start comes up over one.
SettledIsKept ==
  [][\A o \in Orders : intent[o].state = "settled" =>
       \/ intent'[o] = intent[o] /\ (service' = "up" => service = "up")
       \/ /\ intent'[o].state = "finalized_paid"
          /\ order'[o].state = "payment_confirmed"
          /\ order'[o].ordinal = intent[o].ordinal]_vars

\* A start has every settled intent on its list.
RecoveryIsComplete ==
  service = "recovering" => \A o \in Orders : intent[o].state = "settled" => o \in calls

\* What the row, the intent, the purchase request and the authorization of an
\* order say about each other.
SaleOK(o) ==
  /\ order[o].state = "none" => order[o].ordinal = 0
  /\ order[o].ordinal # 0 => order[o].state \in Confirmed \cup Reversed
  /\ intent[o].state # "none" =>
       order[o].rail = "x402" /\ order[o].state # "none" /\ intent[o].ordinal # 0
  /\ buyer[o] # "idle" => order[o].rail = "x402" /\ order[o].state # "none"
  /\ buyer[o] \in {"settle", "answer"} \/ chain[o] # "unsent" => intent[o].state # "none"
  /\ intent[o].state = "cancelled_unpaid" => chain[o] = "void"

\* A PayPal transaction is claimed by at most one order, sold or not.
ClaimsAreOwn ==
  \A o, p \in Orders : order[o].ref # NoTx =>
    order[o].ref \in claims /\ (order[o].ref = order[p].ref => o = p)

\* An event that is still to be applied names an order and has attempts left.
EventsAreOpen ==
  \A e \in Events : inbox[e].state = "received" =>
    inbox[e].order \in Orders /\ inbox[e].attempts < MaxAttempts

\* The inductive invariant of the ledger.
SaleInv ==
  /\ TypeOK
  /\ \A o \in Orders : SaleOK(o)
  /\ ClaimsAreOwn
  /\ EventsAreOpen
  /\ EarlyPlaces
  /\ PaymentBacked
=============================================================================
