---------------------------- MODULE LedgerProofs ----------------------------
(***************************************************************************)
(* Proofs about the payment ledger and about its external checkpoint.      *)
(*                                                                         *)
(* The sale of a licence (SaleLedger) is proved for every set of orders,   *)
(* transactions and events and every number of early places.  SaleInv is   *)
(* inductive: it ties the row, the intent, the purchase request and the    *)
(* authorization of an order together, and makes a PayPal claim unique     *)
(* before the order that made it is sold.                                  *)
(*                                                                         *)
(* The checkpoint (IssuanceCheckpoint) is proved for every set of          *)
(* processes and transactions, with one process on the webhook route.      *)
(* CheckpointInv is inductive: while a process writes the note of a failed *)
(* webhook outside any transaction, the file must be one that the noted    *)
(* database cannot match, or another process could begin in between.       *)
(***************************************************************************)
EXTENDS SaleLedger, IssuanceCheckpoint, TLAPS

-----------------------------------------------------------------------------
(* SaleLedger: one order at a time. *)

\* What PaymentBacked says of one order.
PaymentOK(o) ==
  /\ order[o].state \in Confirmed => order[o].ordinal # 0
  /\ order[o].rail = "x402" => (order[o].ordinal # 0 <=> intent[o].state = "finalized_paid")
  /\ intent[o].state \in {"settled", "finalized_paid"} => chain[o] = "final"
  /\ chain[o] = "final" => intent[o].state \in Reserving \cup {"finalized_paid"}

\* The ordinals an order holds.
LEMMA HeldOrdinals ==
  ASSUME NEW o \in Orders, NEW n
  PROVE  n \in Held(o) <=> \/ order[o].ordinal # 0 /\ n = order[o].ordinal
                           \/ intent[o].state \in Reserving /\ n = intent[o].ordinal
BY DEF Held, Sold, Reserved

LEMMA HeldOrdinalsNext ==
  ASSUME NEW o \in Orders, NEW n
  PROVE  n \in Held(o)' <=> \/ order'[o].ordinal # 0 /\ n = order'[o].ordinal
                            \/ intent'[o].state \in Reserving /\ n = intent'[o].ordinal
BY DEF Held, Sold, Reserved

\* A free ordinal is held by nobody.
LEMMA FreeIsNotHeld ==
  ASSUME NEW n, FreeOrdinal(n)
  PROVE  n \in Nat \ {0} /\ \A p \in Orders : n \notin Held(p)
<1>1. n \in Nat \ {0} /\ n \notin Occupied
  BY DEF FreeOrdinal
<1>2. ASSUME NEW p \in Orders PROVE Held(p) \subseteq Occupied
  BY DEF Held, Occupied, Sold, Reserved
<1> QED
  BY <1>1, <1>2

LEMMA OrderFacts ==
  ASSUME SaleInv, NEW o \in Orders
  PROVE  /\ SaleOK(o) /\ PaymentOK(o)
         /\ order[o] \in Order /\ intent[o] \in Intent
         /\ \A n \in Held(o) : order[o].quote = PriceOf(n)
BY DEF SaleInv, TypeOK, PaymentBacked, PaymentOK, EarlyPlaces, Sold

\* The invariant is preserved by a step of one order that keeps that order
\* consistent, gives it no ordinal of another and no claim of another.
LEMMA OrderStep ==
  ASSUME SaleInv, NEW o \in Orders, TypeOK', EventsAreOpen',
         \A p \in Orders : p # o =>
           /\ order'[p] = order[p] /\ intent'[p] = intent[p]
           /\ chain'[p] = chain[p] /\ buyer'[p] = buyer[p],
         SaleOK(o)', PaymentOK(o)',
         \A n \in Held(o)' : /\ order'[o].quote = PriceOf(n)
                             /\ n \in Held(o) \/ FreeOrdinal(n),
         claims \subseteq claims',
         \/ order'[o].ref = order[o].ref \/ order'[o].ref = NoTx
         \/ order'[o].ref \in claims' \ claims
  PROVE  SaleInv'
<1>1. ASSUME NEW p \in Orders, p # o
      PROVE  /\ SaleOK(p)' /\ PaymentOK(p)' /\ Held(p)' = Held(p)
             /\ \A n \in Held(p)' : order'[p].quote = PriceOf(n)
  <2>1. SaleOK(p) /\ PaymentOK(p) /\ \A n \in Held(p) : order[p].quote = PriceOf(n)
    BY OrderFacts
  <2>2. /\ order'[p] = order[p] /\ intent'[p] = intent[p]
        /\ chain'[p] = chain[p] /\ buyer'[p] = buyer[p]
    BY <1>1
  <2>3. SaleOK(p)'
    BY <2>1, <2>2 DEF SaleOK
  <2>4. PaymentOK(p)'
    BY <2>1, <2>2 DEF PaymentOK
  <2>5. Held(p)' = Held(p)
    BY <2>2 DEF Held, Sold, Reserved
  <2> QED
    BY <2>1, <2>2, <2>3, <2>4, <2>5
<1>2. \A p \in Orders : SaleOK(p)' /\ PaymentOK(p)'
  BY <1>1
<1>3. \A p \in Orders \ {o} : Held(o)' \cap Held(p)' = {}
  <2> SUFFICES ASSUME NEW p \in Orders, p # o, NEW n \in Held(o)', n \in Held(p)' PROVE FALSE
    OBVIOUS
  <2>1. n \in Held(p)
    BY <1>1
  <2>2. n \notin Held(o)
    BY <2>1 DEF SaleInv, EarlyPlaces
  <2> QED
    BY <2>1, <2>2, FreeIsNotHeld
<1>4. EarlyPlaces'
  <2> SUFFICES ASSUME NEW p \in Orders
               PROVE  /\ \A q \in Orders \ {p} : Held(p)' \cap Held(q)' = {}
                      /\ \A n \in Held(p)' : order'[p].quote = PriceOf(n)
    BY DEF EarlyPlaces, PriceOf
  <2>1. CASE p = o
    BY <1>3, <2>1
  <2>2. CASE p # o
    <3> SUFFICES ASSUME NEW q \in Orders \ {p} PROVE Held(p)' \cap Held(q)' = {}
      BY <1>1, <2>2
    <3>1. CASE q = o
      BY <1>3, <2>2, <3>1
    <3>2. CASE q # o
      BY <1>1, <2>2, <3>2 DEF SaleInv, EarlyPlaces
    <3> QED
      BY <3>1, <3>2
  <2> QED
    BY <2>1, <2>2
<1>5. ClaimsAreOwn'
  BY DEF SaleInv, ClaimsAreOwn
<1>6. PaymentBacked'
  <2>1. \A p \in Orders :
          /\ order'[p].state \in Confirmed => p \in Sold'
          /\ order'[p].rail = "x402" => (p \in Sold' <=> intent'[p].state = "finalized_paid")
          /\ intent'[p].state \in {"settled", "finalized_paid"} => chain'[p] = "final"
          /\ chain'[p] = "final" => intent'[p].state \in Reserving \cup {"finalized_paid"}
    BY <1>2 DEF PaymentOK, Sold
  <2>2. \A p, q \in Sold' : order'[p].ref = order'[q].ref /\ order'[p].ref # NoTx => p = q
    BY <1>5 DEF ClaimsAreOwn, Sold
  <2> QED
    BY <2>1, <2>2 DEF PaymentBacked
<1> QED
  BY <1>2, <1>4, <1>5, <1>6 DEF SaleInv

-----------------------------------------------------------------------------
(* Rows with one field changed. *)

LEMMA OrderRows ==
  ASSUME NEW r \in Order
  PROVE  /\ \A s \in OrderState :
              /\ [r EXCEPT !.state = s] \in Order
              /\ [r EXCEPT !.state = s].state = s /\ [r EXCEPT !.state = s].rail = r.rail
              /\ [r EXCEPT !.state = s].quote = r.quote
              /\ [r EXCEPT !.state = s].ordinal = r.ordinal /\ [r EXCEPT !.state = s].ref = r.ref
         /\ \A t \in PayPalTx :
              /\ [r EXCEPT !.ref = t] \in Order
              /\ [r EXCEPT !.ref = t].state = r.state /\ [r EXCEPT !.ref = t].rail = r.rail
              /\ [r EXCEPT !.ref = t].quote = r.quote
              /\ [r EXCEPT !.ref = t].ordinal = r.ordinal /\ [r EXCEPT !.ref = t].ref = t
<1>1. ASSUME NEW s \in OrderState
      PROVE  /\ [r EXCEPT !.state = s] \in Order
             /\ [r EXCEPT !.state = s].state = s /\ [r EXCEPT !.state = s].rail = r.rail
             /\ [r EXCEPT !.state = s].quote = r.quote
             /\ [r EXCEPT !.state = s].ordinal = r.ordinal /\ [r EXCEPT !.state = s].ref = r.ref
  BY DEF Order
<1>2. ASSUME NEW t \in PayPalTx
      PROVE  /\ [r EXCEPT !.ref = t] \in Order
             /\ [r EXCEPT !.ref = t].state = r.state /\ [r EXCEPT !.ref = t].rail = r.rail
             /\ [r EXCEPT !.ref = t].quote = r.quote
             /\ [r EXCEPT !.ref = t].ordinal = r.ordinal /\ [r EXCEPT !.ref = t].ref = t
  BY DEF Order
<1> QED
  BY <1>1, <1>2

\* The row of a sale.
LEMMA SoldRow ==
  ASSUME NEW r \in Order, NEW n \in Nat
  PROVE  LET x == [r EXCEPT !.state = "payment_confirmed", !.ordinal = n]
         IN  /\ x \in Order /\ x.state = "payment_confirmed" /\ x.ordinal = n
             /\ x.rail = r.rail /\ x.quote = r.quote /\ x.ref = r.ref
<1>1. "payment_confirmed" \in OrderState
  BY DEF OrderState, Confirmed
<1> QED
  BY <1>1 DEF Order

LEMMA IntentRows ==
  ASSUME NEW r \in Intent, NEW s \in IntentState
  PROVE  /\ [r EXCEPT !.state = s] \in Intent
         /\ [r EXCEPT !.state = s].state = s /\ [r EXCEPT !.state = s].ordinal = r.ordinal
BY DEF Intent

LEMMA AmbiguousRow ==
  ASSUME NEW r \in Intent, NEW c \in BOOLEAN
  PROVE  LET x == [r EXCEPT !.state = "ambiguous", !.candidate = @ \/ c]
         IN  x \in Intent /\ x.state = "ambiguous" /\ x.ordinal = r.ordinal
<1>1. (r.candidate \/ c) \in BOOLEAN
  BY DEF Intent
<1>2. "ambiguous" \in IntentState
  BY DEF IntentState
<1> QED
  BY <1>1, <1>2 DEF Intent

LEMMA EventRows ==
  ASSUME NEW r \in Event, NEW n \in 0 .. MaxAttempts,
         NEW s \in {"none", "received", "applied", "quarantined"}
  PROVE  /\ [r EXCEPT !.state = s, !.attempts = n] \in Event
         /\ [r EXCEPT !.state = s, !.attempts = n].state = s
         /\ [r EXCEPT !.state = s, !.attempts = n].attempts = n
         /\ [r EXCEPT !.state = s, !.attempts = n].order = r.order
BY DEF Event

LEMMA StatesOfAnOrder ==
  /\ {"none", "pending_payment", "manual_review", "rejected", "expired", "payment_confirmed",
      "license_issued", "refunded", "revoked"} = OrderState
  /\ {"none", "prepared", "ambiguous", "settled", "finalized_paid", "cancelled_unpaid"}
       = IntentState
BY DEF OrderState, Confirmed, Reversed, IntentState

\* The events are not looked at.
LEMMA EventsUnchanged ==
  ASSUME SaleInv, inbox' = inbox PROVE EventsAreOpen'
BY DEF SaleInv, EventsAreOpen

-----------------------------------------------------------------------------
(* The purchase request and the chain. *)

LEMMA CreateOrderKeeps ==
  ASSUME SaleInv, NEW o \in Orders, NEW rail \in {"x402", "paypal"}, CreateOrder(o, rail)
  PROVE  SaleInv'
<1>1. PICK tier \in Tier :
        order' = [order EXCEPT ![o] = [state |-> "pending_payment", rail |-> rail,
                                       quote |-> tier, ordinal |-> 0, ref |-> NoTx]]
  BY DEF CreateOrder, Tier
<1> DEFINE r == [state |-> "pending_payment", rail |-> rail,
                 quote |-> tier, ordinal |-> 0, ref |-> NoTx]
<1>2. /\ r \in Order /\ r.state = "pending_payment" /\ r.rail = rail /\ r.ordinal = 0
      /\ r.ref = NoTx
  BY StatesOfAnOrder DEF Order
<1> HIDE DEF r
<1>3. UNCHANGED <<intent, chain, buyer, claims, inbox, calls, service, crashes>>
      /\ order[o].state = "none"
  BY DEF CreateOrder
<1>4. order \in [Orders -> Order]
  BY DEF SaleInv, TypeOK
<1>5. /\ order' \in [Orders -> Order] /\ order'[o] = r
      /\ \A p \in Orders : p # o => order'[p] = order[p]
  BY <1>1, <1>2, <1>4 DEF r
<1>6. SaleOK(o) /\ PaymentOK(o)
  BY OrderFacts
<1>7. intent[o].state = "none" /\ buyer[o] = "idle" /\ chain[o] = "unsent"
  BY <1>3, <1>6 DEF SaleOK
<1>8. TypeOK'
  BY <1>3, <1>5 DEF SaleInv, TypeOK
<1>9. SaleOK(o)' /\ PaymentOK(o)'
  BY <1>2, <1>3, <1>5, <1>7 DEF SaleOK, PaymentOK, Confirmed
<1>10. \A n : n \notin Held(o)'
  BY <1>2, <1>3, <1>5, <1>7, HeldOrdinalsNext DEF Reserving
<1> QED
  BY <1>2, <1>3, <1>5, <1>8, <1>9, <1>10, EventsUnchanged, OrderStep

\* A step of the purchase request and of the chain alone.
LEMMA RequestStep ==
  ASSUME SaleInv, NEW o \in Orders, UNCHANGED <<ledger, calls, service, crashes>>,
         NEW b \in {"idle", "verify", "prepare", "settle", "answer"},
         NEW c \in {"unsent", "sent", "final", "void"},
         buyer' = [buyer EXCEPT ![o] = b], chain' = [chain EXCEPT ![o] = c],
         b # "idle" => order[o].rail = "x402" /\ order[o].state # "none",
         b \in {"settle", "answer"} => intent[o].state # "none",
         \/ c = chain[o]
         \/ /\ chain[o] \in {"unsent", "sent"} /\ c \in {"sent", "final", "void"}
            /\ intent[o].state # "none"
            /\ chain[o] = "sent" \/ c # "final"
  PROVE  SaleInv'
<1>1. UNCHANGED <<order, intent, claims, inbox>>
  BY DEF ledger
<1>2. /\ buyer \in [Orders -> {"idle", "verify", "prepare", "settle", "answer"}]
      /\ chain \in [Orders -> {"unsent", "sent", "final", "void"}]
  BY DEF SaleInv, TypeOK
<1>3. /\ buyer' \in [Orders -> {"idle", "verify", "prepare", "settle", "answer"}]
      /\ buyer'[o] = b /\ \A p \in Orders : p # o => buyer'[p] = buyer[p]
  BY <1>2
<1>4. /\ chain' \in [Orders -> {"unsent", "sent", "final", "void"}]
      /\ chain'[o] = c /\ \A p \in Orders : p # o => chain'[p] = chain[p]
  BY <1>2
<1>5. TypeOK'
  BY <1>1, <1>3, <1>4 DEF SaleInv, TypeOK
<1>6. SaleOK(o) /\ PaymentOK(o) /\ intent[o] \in Intent
      /\ \A n \in Held(o) : order[o].quote = PriceOf(n)
  BY OrderFacts
<1>7. intent[o].state \in IntentState
  BY <1>6 DEF Intent
<1>8. SaleOK(o)'
  BY <1>1, <1>3, <1>4, <1>6 DEF SaleOK
<1>9. PaymentOK(o)'
  BY <1>1, <1>4, <1>6, <1>7 DEF PaymentOK, SaleOK, IntentState, Reserving
<1>10. Held(o)' = Held(o)
  BY <1>1 DEF Held, Sold, Reserved
<1> QED
  BY <1>1, <1>3, <1>4, <1>5, <1>6, <1>8, <1>9, <1>10, EventsUnchanged, OrderStep

LEMMA SameEntry ==
  ASSUME SaleInv, NEW o \in Orders
  PROVE  /\ chain = [chain EXCEPT ![o] = chain[o]] /\ buyer = [buyer EXCEPT ![o] = buyer[o]]
         /\ chain[o] \in {"unsent", "sent", "final", "void"}
         /\ buyer[o] \in {"idle", "verify", "prepare", "settle", "answer"}
BY DEF SaleInv, TypeOK

LEMMA RequestKeeps ==
  ASSUME SaleInv, NEW o \in Orders,
         Challenge(o) \/ Verify(o) \/ Settle(o) \/ ChainDecides(o)
  PROVE  SaleInv'
<1>0. SaleOK(o) /\ PaymentOK(o)
  BY OrderFacts
<1>1. CASE Challenge(o)
  <2>1. /\ buyer' = [buyer EXCEPT ![o] = "verify"] /\ chain' = chain
        /\ UNCHANGED <<ledger, calls, service, crashes>>
        /\ order[o].rail = "x402" /\ order[o].state # "none"
    BY <1>1 DEF Challenge
  <2> QED
    BY <2>1, SameEntry, RequestStep
<1>2. CASE Verify(o)
  <2>1. PICK b \in {"prepare", "idle"} : buyer' = [buyer EXCEPT ![o] = b]
    BY <1>2 DEF Verify
  <2>2. /\ chain' = chain /\ UNCHANGED <<ledger, calls, service, crashes>>
        /\ order[o].rail = "x402" /\ order[o].state # "none"
    BY <1>0, <1>2 DEF Verify, SaleOK
  <2> QED
    BY <2>1, <2>2, SameEntry, RequestStep
<1>3. CASE Settle(o)
  <2>1. /\ buyer' = [buyer EXCEPT ![o] = "answer"]
        /\ UNCHANGED <<ledger, calls, service, crashes>>
        /\ order[o].rail = "x402" /\ order[o].state # "none" /\ intent[o].state # "none"
    BY <1>0, <1>3 DEF Settle, SaleOK
  <2>2. chain' = chain \/ (chain[o] = "unsent" /\ chain' = [chain EXCEPT ![o] = "sent"])
    <3>1. chain' \in {chain, [chain EXCEPT ![o] = IF chain[o] = "unsent" THEN "sent" ELSE chain[o]]}
      BY <1>3 DEF Settle
    <3> QED
      BY <3>1, SameEntry
  <2>3. CASE chain' = chain
    BY <2>1, <2>3, SameEntry, RequestStep
  <2>4. CASE chain[o] = "unsent" /\ chain' = [chain EXCEPT ![o] = "sent"]
    BY <2>1, <2>4, RequestStep
  <2> QED
    BY <2>2, <2>3, <2>4
<1>4. CASE ChainDecides(o)
  <2>1. UNCHANGED <<ledger, calls, service, crashes>> /\ buyer' = buyer
    BY <1>4 DEF ChainDecides
  <2>2. PICK c \in {"final", "void"} :
          /\ chain' = [chain EXCEPT ![o] = c]
          /\ chain[o] = "sent" \/ (chain[o] = "unsent" /\ intent[o].state # "none" /\ c = "void")
    BY <1>4 DEF ChainDecides
  <2>3. intent[o].state # "none"
    BY <1>0, <2>2 DEF SaleOK
  <2>4. /\ buyer[o] # "idle" => order[o].rail = "x402" /\ order[o].state # "none"
    BY <1>0 DEF SaleOK
  <2> QED
    BY <2>1, <2>2, <2>3, <2>4, SameEntry, RequestStep
<1> QED
  BY <1>1, <1>2, <1>3, <1>4

-----------------------------------------------------------------------------
(* Transactions of the ledger. *)

\* The row r and the intent i that a transaction of order o writes fit
\* together.
Fits(o, r, i, b) ==
  /\ r.state # "none" /\ r.rail = order[o].rail /\ r.quote = order[o].quote
  /\ r.ordinal # 0 => r.state \in Confirmed \cup Reversed
  /\ r.state \in Confirmed => r.ordinal # 0
  /\ i.state # "none" => r.rail = "x402" /\ i.ordinal # 0
  /\ r.rail = "x402" => (r.ordinal # 0 <=> i.state = "finalized_paid")
  /\ b # "idle" => r.rail = "x402"
  /\ b \in {"settle", "answer"} \/ chain[o] # "unsent" => i.state # "none"
  /\ i.state = "cancelled_unpaid" => chain[o] = "void"
  /\ i.state \in {"settled", "finalized_paid"} => chain[o] = "final"

\* The ordinals that r and i hold are the order's own, or a free one.
OwnOrdinals(o, r, i) ==
  /\ r.ordinal # 0 =>
       /\ r.ordinal \in Held(o) \/ FreeOrdinal(r.ordinal)
       /\ r.quote = PriceOf(r.ordinal)
  /\ i.state \in Reserving =>
       /\ i.ordinal \in Held(o) \/ FreeOrdinal(i.ordinal)
       /\ r.quote = PriceOf(i.ordinal)

LEMMA LedgerStep ==
  ASSUME SaleInv, NEW o \in Orders, NEW r \in Order, NEW i \in Intent,
         NEW b \in {"idle", "verify", "prepare", "settle", "answer"},
         order' = [order EXCEPT ![o] = r], intent' = [intent EXCEPT ![o] = i],
         buyer' = [buyer EXCEPT ![o] = b], UNCHANGED <<chain, service, crashes>>,
         calls' = calls \/ calls' \in SUBSET Orders,
         inbox' \in [Events -> Event], EventsAreOpen',
         claims' \in SUBSET PayPalTx, claims \subseteq claims',
         r.ref = order[o].ref \/ r.ref \in claims' \ claims,
         Fits(o, r, i, b), OwnOrdinals(o, r, i)
  PROVE  SaleInv'
<1>1. /\ order \in [Orders -> Order] /\ intent \in [Orders -> Intent]
      /\ buyer \in [Orders -> {"idle", "verify", "prepare", "settle", "answer"}]
  BY DEF SaleInv, TypeOK
<1>2. order' \in [Orders -> Order] /\ order'[o] = r
      /\ \A p \in Orders : p # o => order'[p] = order[p]
  BY <1>1
<1>3. intent' \in [Orders -> Intent] /\ intent'[o] = i
      /\ \A p \in Orders : p # o => intent'[p] = intent[p]
  BY <1>1
<1>4. buyer' \in [Orders -> {"idle", "verify", "prepare", "settle", "answer"}] /\ buyer'[o] = b
      /\ \A p \in Orders : p # o => buyer'[p] = buyer[p]
  BY <1>1
<1>5. TypeOK'
  BY <1>2, <1>3, <1>4 DEF SaleInv, TypeOK
<1>6. SaleOK(o)'
  BY <1>2, <1>3, <1>4 DEF SaleOK, Fits
<1>7. PaymentOK(o)'
  <2>1. i.state \in IntentState
    BY DEF Intent
  <2> QED
    BY <1>2, <1>3, <2>1 DEF PaymentOK, Fits, IntentState, Reserving
<1>8. \A n \in Held(o)' : /\ order'[o].quote = PriceOf(n)
                          /\ n \in Held(o) \/ FreeOrdinal(n)
  BY <1>2, <1>3, HeldOrdinalsNext DEF OwnOrdinals
<1> QED
  BY <1>2, <1>3, <1>4, <1>5, <1>6, <1>7, <1>8, OrderStep

\* What is left alone is written again.
LEMMA SameRows ==
  ASSUME SaleInv, NEW o \in Orders
  PROVE  /\ order = [order EXCEPT ![o] = order[o]] /\ intent = [intent EXCEPT ![o] = intent[o]]
         /\ buyer = [buyer EXCEPT ![o] = buyer[o]]
         /\ order[o] \in Order /\ intent[o] \in Intent
         /\ buyer[o] \in {"idle", "verify", "prepare", "settle", "answer"}
         /\ inbox \in [Events -> Event] /\ claims \in SUBSET PayPalTx
         /\ order[o].state \in OrderState /\ intent[o].state \in IntentState
         /\ order[o].ordinal \in Nat /\ intent[o].ordinal \in Nat
<1>1. /\ order \in [Orders -> Order] /\ intent \in [Orders -> Intent]
      /\ buyer \in [Orders -> {"idle", "verify", "prepare", "settle", "answer"}]
      /\ inbox \in [Events -> Event] /\ claims \in SUBSET PayPalTx
  BY DEF SaleInv, TypeOK
<1>2. order[o] \in Order /\ intent[o] \in Intent
  BY <1>1
<1>3. /\ order[o].state \in OrderState /\ intent[o].state \in IntentState
      /\ order[o].ordinal \in Nat /\ intent[o].ordinal \in Nat
  BY <1>2 DEF Order, Intent
<1> QED
  BY <1>1, <1>2, <1>3

\* The ordinals of an order that is not sold and not reserved, of a sale, and
\* of a reservation.
LEMMA KeepsOrdinals ==
  ASSUME SaleInv, NEW o \in Orders
  PROVE  /\ order[o].ordinal # 0 =>
              order[o].ordinal \in Held(o) /\ order[o].quote = PriceOf(order[o].ordinal)
         /\ intent[o].state \in Reserving =>
              intent[o].ordinal \in Held(o) /\ order[o].quote = PriceOf(intent[o].ordinal)
BY OrderFacts, HeldOrdinals

\* The state of an order moves on, its intent stays.
LEMMA StateStep ==
  ASSUME SaleInv, NEW o \in Orders, NEW s \in OrderState \ {"none"},
         order' = [order EXCEPT ![o].state = s], UNCHANGED <<intent, chain, calls, service, crashes>>,
         NEW b \in {"idle", buyer[o]}, buyer' = [buyer EXCEPT ![o] = b], claims' = claims,
         inbox' \in [Events -> Event], EventsAreOpen', order[o].state # "none",
         s \in Confirmed <=> order[o].state \in Confirmed /\ s \notin Reversed,
         order[o].ordinal # 0 => s \in Confirmed \cup Reversed
  PROVE  SaleInv'
<1> DEFINE r == [order[o] EXCEPT !.state = s]
<1>1. order' = [order EXCEPT ![o] = r]
  OBVIOUS
<1>2. /\ r \in Order /\ r.state = s /\ r.rail = order[o].rail /\ r.quote = order[o].quote
      /\ r.ordinal = order[o].ordinal /\ r.ref = order[o].ref
  BY SameRows, OrderRows
<1> HIDE DEF r
<1>3. SaleOK(o) /\ PaymentOK(o)
  BY OrderFacts
<1>4. Fits(o, r, intent[o], b)
  BY <1>2, <1>3 DEF Fits, SaleOK, PaymentOK
<1>5. OwnOrdinals(o, r, intent[o])
  BY <1>2, KeepsOrdinals DEF OwnOrdinals
<1>6. intent' = [intent EXCEPT ![o] = intent[o]] /\ intent[o] \in Intent
  BY SameRows
<1>7. b \in {"idle", "verify", "prepare", "settle", "answer"} /\ claims' \in SUBSET PayPalTx
  BY SameRows
<1> QED
  BY <1>1, <1>2, <1>4, <1>5, <1>6, <1>7, LedgerStep

LEMMA PrepareIntentKeeps ==
  ASSUME SaleInv, NEW o \in Orders, PrepareIntent(o)
  PROVE  SaleInv'
<1>1. UNCHANGED <<chain, claims, inbox, calls, service, crashes>> /\ buyer[o] = "prepare"
      /\ EventsAreOpen'
  BY EventsUnchanged DEF PrepareIntent
<1>2. SaleOK(o) /\ PaymentOK(o)
  BY OrderFacts
<1>3. order[o].rail = "x402" /\ order[o].state # "none"
  BY <1>1, <1>2 DEF SaleOK
<1>4. CASE buyer' = [buyer EXCEPT ![o] = "idle"] /\ UNCHANGED <<order, intent>>
  <2>1. UNCHANGED <<ledger, calls, service, crashes>> /\ chain' = chain
    BY <1>1, <1>4 DEF ledger
  <2> QED
    BY <1>4, <2>1, SameEntry, RequestStep
<1>5. CASE /\ order[o].state = "pending_payment" /\ intent[o].state = "none"
           /\ \E n \in Ordinals : FreeOrdinal(n) /\ order[o].quote = PriceOf(n)
                /\ intent' = [intent EXCEPT ![o] =
                     [state |-> "prepared", ordinal |-> n, candidate |-> FALSE]]
           /\ buyer' = [buyer EXCEPT ![o] = "settle"] /\ UNCHANGED order
  <2>1. PICK n : /\ FreeOrdinal(n) /\ order[o].quote = PriceOf(n)
                 /\ intent' = [intent EXCEPT ![o] =
                      [state |-> "prepared", ordinal |-> n, candidate |-> FALSE]]
    BY <1>5
  <2> DEFINE i == [state |-> "prepared", ordinal |-> n, candidate |-> FALSE]
  <2>2. n \in Nat \ {0}
    BY <2>1, FreeIsNotHeld
  <2>3. i \in Intent /\ i.state = "prepared" /\ i.ordinal = n
    BY <2>2 DEF Intent, IntentState
  <2>4. intent' = [intent EXCEPT ![o] = i]
    BY <2>1
  <2> HIDE DEF i
  <2>5. order[o].ordinal = 0
    BY <1>2, <1>5 DEF SaleOK, Confirmed, Reversed
  <2>6. Fits(o, order[o], i, "settle")
    BY <1>2, <1>3, <1>5, <2>2, <2>3, <2>5 DEF Fits, SaleOK, PaymentOK, Confirmed
  <2>7. OwnOrdinals(o, order[o], i)
    BY <2>1, <2>3, <2>5 DEF OwnOrdinals
  <2>8. order' = [order EXCEPT ![o] = order[o]] /\ order[o] \in Order
        /\ inbox' \in [Events -> Event] /\ claims' \in SUBSET PayPalTx /\ claims \subseteq claims'
    BY <1>1, <1>5, SameRows
  <2> QED
    BY <1>1, <1>5, <2>3, <2>4, <2>6, <2>7, <2>8, LedgerStep
<1>6. CASE /\ order[o].state = "pending_payment"
           /\ order' = [order EXCEPT ![o].state = "manual_review"]
           /\ buyer' = [buyer EXCEPT ![o] = "idle"] /\ UNCHANGED intent
  <2>1. order[o].ordinal = 0
    BY <1>2, <1>6 DEF SaleOK, Confirmed, Reversed
  <2>2. "manual_review" \in OrderState \ {"none"} /\ "manual_review" \notin Confirmed
        /\ order[o].state \notin Confirmed
    BY <1>6 DEF OrderState, Confirmed
  <2>3. inbox' \in [Events -> Event]
    BY <1>1, SameRows
  <2> QED
    BY <1>1, <1>3, <1>6, <2>1, <2>2, <2>3, StateStep
<1> QED
  BY <1>4, <1>5, <1>6 DEF PrepareIntent

\* An intent of an unsold order goes to review with it.
LEMMA AmbiguousKeeps ==
  ASSUME SaleInv, NEW o \in Orders, NEW c \in BOOLEAN, Ambiguous(o, c),
         intent[o].state \in Reconcilable, NEW b \in {"idle", buyer[o]},
         buyer' = [buyer EXCEPT ![o] = b], UNCHANGED <<chain, claims, inbox, calls, service, crashes>>
  PROVE  SaleInv'
<1> DEFINE i == [intent[o] EXCEPT !.state = "ambiguous", !.candidate = @ \/ c]
           r == [order[o] EXCEPT !.state = "manual_review"]
<1>1. order' = [order EXCEPT ![o] = r] /\ intent' = [intent EXCEPT ![o] = i]
  BY DEF Ambiguous
<1>2. "manual_review" \in OrderState
  BY DEF OrderState
<1>3. /\ r \in Order /\ r.state = "manual_review" /\ r.rail = order[o].rail
      /\ r.quote = order[o].quote /\ r.ordinal = order[o].ordinal /\ r.ref = order[o].ref
  BY <1>2, SameRows, OrderRows
<1>4. i \in Intent /\ i.state = "ambiguous" /\ i.ordinal = intent[o].ordinal
  <2>1. intent[o] \in Intent
    BY SameRows
  <2> QED
    BY <2>1, AmbiguousRow, Zenon
<1> HIDE DEF r, i
<1>5. SaleOK(o) /\ PaymentOK(o) /\ intent[o].state \in {"prepared", "ambiguous"}
  BY OrderFacts DEF Reconcilable
<1>6. order[o].rail = "x402" /\ order[o].ordinal = 0 /\ intent[o].ordinal # 0
  BY <1>5 DEF SaleOK, PaymentOK
<1>7. Fits(o, r, i, b)
  BY <1>3, <1>4, <1>5, <1>6 DEF Fits, SaleOK, PaymentOK, Confirmed
<1>8. intent[o].state \in Reserving
  BY <1>5 DEF Reserving
<1>9. OwnOrdinals(o, r, i)
  BY <1>3, <1>4, <1>6, <1>8, KeepsOrdinals DEF OwnOrdinals
<1>10. /\ b \in {"idle", "verify", "prepare", "settle", "answer"}
       /\ inbox' \in [Events -> Event] /\ claims' \in SUBSET PayPalTx /\ claims \subseteq claims'
       /\ EventsAreOpen'
  BY SameRows, EventsUnchanged
<1> QED
  BY <1>1, <1>3, <1>4, <1>7, <1>9, <1>10, LedgerStep

LEMMA AnswerKeeps ==
  ASSUME SaleInv, NEW o \in Orders, RecordCandidate(o) \/ MarkIntentAmbiguous(o)
  PROVE  SaleInv'
<1>1. buyer' = [buyer EXCEPT ![o] = "idle"] /\ UNCHANGED <<chain, claims, inbox, calls, service, crashes>>
  BY DEF RecordCandidate, MarkIntentAmbiguous
<1>2. \/ UNCHANGED <<intent, order>>
      \/ \E c \in BOOLEAN : Ambiguous(o, c) /\ intent[o].state \in Reconcilable
  BY DEF RecordCandidate, MarkIntentAmbiguous, Reconcilable
<1>3. CASE UNCHANGED <<intent, order>>
  <2>1. UNCHANGED <<ledger, calls, service, crashes>> /\ chain' = chain
    BY <1>1, <1>3 DEF ledger
  <2> QED
    BY <1>1, <2>1, SameEntry, RequestStep
<1>4. CASE \E c \in BOOLEAN : Ambiguous(o, c) /\ intent[o].state \in Reconcilable
  BY <1>1, <1>4, AmbiguousKeeps
<1> QED
  BY <1>2, <1>3, <1>4

-----------------------------------------------------------------------------
(* Settlement, PayPal and the operator. *)

LEMMA SettlementKeeps ==
  ASSUME SaleInv, NEW o \in Orders, RecordSettlement(o)
  PROVE  SaleInv'
<1> DEFINE i == [intent[o] EXCEPT !.state = "settled"]
<1>1. /\ intent[o].state \in {"prepared", "ambiguous"} /\ intent' = [intent EXCEPT ![o] = i]
      /\ calls' = calls \cup {o}
      /\ UNCHANGED <<order, chain, buyer, claims, inbox, service, crashes>>
  BY DEF RecordSettlement, Reconcilable
<1>2. chain[o] = "final"
  BY DEF RecordSettlement, Evidence, FinalTransfer
<1>3. i \in Intent /\ i.state = "settled" /\ i.ordinal = intent[o].ordinal
  BY SameRows, IntentRows, StatesOfAnOrder
<1> HIDE DEF i
<1>4. SaleOK(o) /\ PaymentOK(o) /\ intent[o].state \in Reserving
  BY <1>1, OrderFacts DEF Reserving
<1>5. order[o].ordinal = 0 /\ order[o].state # "none"
  BY <1>1, <1>4 DEF SaleOK, PaymentOK
<1>6. Fits(o, order[o], i, buyer[o])
  BY <1>1, <1>2, <1>3, <1>4, <1>5 DEF Fits, SaleOK, PaymentOK
<1>7. OwnOrdinals(o, order[o], i)
  BY <1>3, <1>4, <1>5, KeepsOrdinals DEF OwnOrdinals
<1>8. /\ order' = [order EXCEPT ![o] = order[o]] /\ buyer' = [buyer EXCEPT ![o] = buyer[o]]
      /\ inbox' \in [Events -> Event] /\ claims' \in SUBSET PayPalTx /\ claims \subseteq claims'
      /\ EventsAreOpen' /\ calls' \in SUBSET Orders
  BY <1>1, SameRows, EventsUnchanged DEF SaleInv, TypeOK
<1> QED
  BY <1>1, <1>3, <1>6, <1>7, <1>8, SameRows, LedgerStep

LEMMA FinalizeKeeps ==
  ASSUME SaleInv, NEW o \in Orders, FinalizeIntent(o)
  PROVE  SaleInv'
<1> DEFINE i == [intent[o] EXCEPT !.state = "finalized_paid"]
           r == [order[o] EXCEPT !.state = "payment_confirmed", !.ordinal = intent[o].ordinal]
<1>1. /\ intent[o].state = "settled" /\ intent' = [intent EXCEPT ![o] = i]
      /\ order' = [order EXCEPT ![o] = r]
      /\ calls' = calls \ {o}
      /\ UNCHANGED <<chain, buyer, claims, inbox, service, crashes>>
  BY DEF FinalizeIntent
<1>2. i \in Intent /\ i.state = "finalized_paid" /\ i.ordinal = intent[o].ordinal
  BY SameRows, IntentRows, StatesOfAnOrder
<1>3. /\ r \in Order /\ r.state = "payment_confirmed" /\ r.ordinal = intent[o].ordinal
      /\ r.rail = order[o].rail /\ r.quote = order[o].quote /\ r.ref = order[o].ref
  <2>1. order[o] \in Order /\ intent[o].ordinal \in Nat
    BY SameRows
  <2> QED
    BY <2>1, SoldRow
<1> HIDE DEF i, r
<1>4. SaleOK(o) /\ PaymentOK(o) /\ intent[o].state \in Reserving
  BY <1>1, OrderFacts DEF Reserving
<1>5. Fits(o, r, i, buyer[o])
  BY <1>1, <1>2, <1>3, <1>4 DEF Fits, SaleOK, PaymentOK, Confirmed
<1>6. OwnOrdinals(o, r, i)
  BY <1>2, <1>3, <1>4, KeepsOrdinals DEF OwnOrdinals, Reserving
<1>7. /\ buyer' = [buyer EXCEPT ![o] = buyer[o]]
      /\ inbox' \in [Events -> Event] /\ claims' \in SUBSET PayPalTx /\ claims \subseteq claims'
      /\ EventsAreOpen' /\ calls' \in SUBSET Orders
  BY <1>1, SameRows, EventsUnchanged DEF SaleInv, TypeOK
<1> QED
  BY <1>1, <1>2, <1>3, <1>5, <1>6, <1>7, SameRows, LedgerStep

LEMMA CancelKeeps ==
  ASSUME SaleInv, NEW o \in Orders, CancelUnpaid(o)
  PROVE  SaleInv'
<1> DEFINE i == [intent[o] EXCEPT !.state = "cancelled_unpaid"]
           r == [order[o] EXCEPT !.state = "expired"]
<1>1. /\ intent[o].state \in {"prepared", "ambiguous"} /\ intent' = [intent EXCEPT ![o] = i]
      /\ order' = [order EXCEPT ![o] = r]
      /\ UNCHANGED <<chain, buyer, claims, inbox, calls, service, crashes>>
  BY DEF CancelUnpaid, Reconcilable
<1>2. chain[o] = "void"
  BY DEF CancelUnpaid, Evidence
<1>3. i \in Intent /\ i.state = "cancelled_unpaid" /\ i.ordinal = intent[o].ordinal
  BY SameRows, IntentRows, StatesOfAnOrder
<1>4. /\ r \in Order /\ r.state = "expired" /\ r.rail = order[o].rail
      /\ r.quote = order[o].quote /\ r.ordinal = order[o].ordinal /\ r.ref = order[o].ref
  BY SameRows, OrderRows, StatesOfAnOrder
<1> HIDE DEF i, r
<1>5. SaleOK(o) /\ PaymentOK(o)
  BY OrderFacts
<1>6. order[o].ordinal = 0 /\ order[o].rail = "x402"
  BY <1>1, <1>5 DEF SaleOK, PaymentOK
<1>7. Fits(o, r, i, buyer[o])
  BY <1>1, <1>2, <1>3, <1>4, <1>5, <1>6 DEF Fits, SaleOK, PaymentOK, Confirmed
<1>8. OwnOrdinals(o, r, i)
  BY <1>3, <1>4, <1>6 DEF OwnOrdinals, Reserving
<1>9. /\ buyer' = [buyer EXCEPT ![o] = buyer[o]]
      /\ inbox' \in [Events -> Event] /\ claims' \in SUBSET PayPalTx /\ claims \subseteq claims'
      /\ EventsAreOpen'
  BY <1>1, SameRows, EventsUnchanged
<1> QED
  BY <1>1, <1>3, <1>4, <1>7, <1>8, <1>9, SameRows, LedgerStep

LEMMA SubmitKeeps ==
  ASSUME SaleInv, NEW o \in Orders, NEW t \in PayPalTx, PayPalSubmit(o, t)
  PROVE  SaleInv'
<1> DEFINE r == [order[o] EXCEPT !.ref = t]
<1>1. /\ order' = [order EXCEPT ![o] = r] /\ t \notin claims /\ claims' = claims \cup {t}
      /\ UNCHANGED <<intent, chain, buyer, inbox, calls, service, crashes>>
      /\ order[o].state = "pending_payment"
  BY DEF PayPalSubmit
<1>2. /\ r \in Order /\ r.state = order[o].state /\ r.rail = order[o].rail
      /\ r.quote = order[o].quote /\ r.ordinal = order[o].ordinal /\ r.ref = t
  BY SameRows, OrderRows
<1> HIDE DEF r
<1>3. SaleOK(o) /\ PaymentOK(o)
  BY OrderFacts
<1>4. Fits(o, r, intent[o], buyer[o])
  BY <1>1, <1>2, <1>3 DEF Fits, SaleOK, PaymentOK
<1>5. OwnOrdinals(o, r, intent[o])
  BY <1>2, KeepsOrdinals DEF OwnOrdinals
<1>6. /\ buyer' = [buyer EXCEPT ![o] = buyer[o]] /\ intent' = [intent EXCEPT ![o] = intent[o]]
      /\ inbox' \in [Events -> Event] /\ claims' \in SUBSET PayPalTx /\ claims \subseteq claims'
      /\ r.ref \in claims' \ claims /\ EventsAreOpen'
  BY <1>1, <1>2, SameRows, EventsUnchanged
<1> QED
  BY <1>1, <1>2, <1>4, <1>5, <1>6, SameRows, LedgerStep

LEMMA ConfirmKeeps ==
  ASSUME SaleInv, NEW o \in Orders, NEW amount \in Tier, PayPalConfirm(o, amount)
  PROVE  SaleInv'
<1>1. /\ order[o].rail = "paypal" /\ order[o].state = "pending_payment"
      /\ UNCHANGED <<intent, chain, buyer, claims, inbox, calls, service, crashes>>
  BY DEF PayPalConfirm
<1>2. SaleOK(o) /\ PaymentOK(o)
  BY OrderFacts
<1>3. order[o].ordinal = 0 /\ intent[o].state = "none" /\ buyer[o] = "idle"
  BY <1>1, <1>2 DEF SaleOK, Confirmed, Reversed
<1>4. /\ buyer' = [buyer EXCEPT ![o] = buyer[o]] /\ intent' = [intent EXCEPT ![o] = intent[o]]
      /\ inbox' \in [Events -> Event] /\ claims' \in SUBSET PayPalTx /\ claims \subseteq claims'
      /\ EventsAreOpen'
  BY <1>1, SameRows, EventsUnchanged
<1>5. \/ order' = [order EXCEPT ![o].state = "manual_review"]
      \/ \E n : FreeOrdinal(n) /\ order[o].quote = PriceOf(n)
           /\ order' = [order EXCEPT ![o].state = "payment_confirmed", ![o].ordinal = n]
  BY DEF PayPalConfirm
<1>6. CASE order' = [order EXCEPT ![o].state = "manual_review"]
  <2>1. "manual_review" \in OrderState \ {"none"} /\ "manual_review" \notin Confirmed
        /\ order[o].state \notin Confirmed /\ order[o].state # "none"
    BY <1>1 DEF OrderState, Confirmed
  <2> QED
    BY <1>1, <1>3, <1>4, <1>6, <2>1, StateStep
<1>7. CASE \E n : FreeOrdinal(n) /\ order[o].quote = PriceOf(n)
             /\ order' = [order EXCEPT ![o].state = "payment_confirmed", ![o].ordinal = n]
  <2>1. PICK n : FreeOrdinal(n) /\ order[o].quote = PriceOf(n)
             /\ order' = [order EXCEPT ![o].state = "payment_confirmed", ![o].ordinal = n]
    BY <1>7
  <2>2. n \in Nat \ {0}
    BY <2>1, FreeIsNotHeld
  <2> DEFINE r == [order[o] EXCEPT !.state = "payment_confirmed", !.ordinal = n]
  <2>3. order' = [order EXCEPT ![o] = r]
    BY <2>1
  <2>4. /\ r \in Order /\ r.state = "payment_confirmed" /\ r.ordinal = n
        /\ r.rail = order[o].rail /\ r.quote = order[o].quote /\ r.ref = order[o].ref
    BY <2>2, SameRows, SoldRow
  <2> HIDE DEF r
  <2>5. Fits(o, r, intent[o], buyer[o])
    BY <1>1, <1>2, <1>3, <2>2, <2>4 DEF Fits, SaleOK, PaymentOK, Confirmed
  <2>6. OwnOrdinals(o, r, intent[o])
    BY <1>3, <2>1, <2>4 DEF OwnOrdinals, Reserving
  <2> QED
    BY <1>1, <1>4, <2>3, <2>4, <2>5, <2>6, SameRows, LedgerStep
<1> QED
  BY <1>5, <1>6, <1>7

LEMMA DeliverKeeps ==
  ASSUME SaleInv, NEW o \in Orders, Deliver(o)
  PROVE  SaleInv'
<1>1. /\ order' = [order EXCEPT ![o].state = "license_issued"]
      /\ order[o].state = "payment_confirmed"
      /\ UNCHANGED <<intent, chain, buyer, claims, inbox, calls, service, crashes>>
  BY DEF Deliver
<1>2. /\ buyer' = [buyer EXCEPT ![o] = buyer[o]] /\ inbox' \in [Events -> Event]
      /\ EventsAreOpen'
  BY <1>1, SameRows, EventsUnchanged
<1>3. /\ "license_issued" \in OrderState \ {"none"} /\ "license_issued" \in Confirmed
      /\ "license_issued" \notin Reversed /\ order[o].state \in Confirmed
  BY <1>1 DEF OrderState, Confirmed, Reversed
<1> QED
  BY <1>1, <1>2, <1>3, StateStep

LEMMA AdminKeeps ==
  ASSUME SaleInv, NEW o \in Orders, NEW action \in {"reject", "refund", "revoke"},
         AdminTransition(o, action)
  PROVE  SaleInv'
<1> DEFINE s == Target(action)
<1>1. /\ order' = [order EXCEPT ![o].state = s] /\ order[o].state \in From(action)
      /\ UNCHANGED <<intent, chain, buyer, claims, inbox, calls, service, crashes>>
  BY DEF AdminTransition
<1>2. /\ s \in OrderState \ {"none"} /\ order[o].state # "none"
      /\ s \in Reversed \/ (s = "rejected" /\ order[o].state \in {"pending_payment", "manual_review"})
  BY <1>1 DEF From, Target, OrderState, Confirmed, Reversed
<1>3. /\ s \in Confirmed <=> order[o].state \in Confirmed /\ s \notin Reversed
      /\ order[o].ordinal # 0 => s \in Confirmed \cup Reversed
  BY <1>2, OrderFacts DEF SaleOK, Confirmed, Reversed
<1> HIDE DEF s
<1>4. /\ buyer' = [buyer EXCEPT ![o] = buyer[o]] /\ inbox' \in [Events -> Event]
      /\ EventsAreOpen'
  BY <1>1, SameRows, EventsUnchanged
<1> QED
  BY <1>1, <1>2, <1>3, <1>4, StateStep

-----------------------------------------------------------------------------
(* The Whop inbox. *)

\* A step that leaves the orders alone.
LEMMA OrdersKept ==
  ASSUME SaleInv, TypeOK', EventsAreOpen', UNCHANGED <<order, intent, chain, claims>>,
         \A o \in Orders : buyer'[o] \in {"idle", buyer[o]}
  PROVE  SaleInv'
<1>1. ASSUME NEW o \in Orders PROVE SaleOK(o)'
  <2>1. SaleOK(o) /\ buyer'[o] \in {"idle", buyer[o]}
    BY DEF SaleInv
  <2> QED
    BY <2>1 DEF SaleOK
<1>2. ClaimsAreOwn'
  BY DEF SaleInv, ClaimsAreOwn
<1>3. EarlyPlaces'
  BY DEF SaleInv, EarlyPlaces, Held, Sold, Reserved, PriceOf
<1>4. PaymentBacked'
  BY DEF SaleInv, PaymentBacked, Sold
<1> QED
  BY <1>1, <1>2, <1>3, <1>4 DEF SaleInv

\* One event is written.
LEMMA EventWritten ==
  ASSUME SaleInv, NEW e \in Events, NEW r \in Event, inbox' = [inbox EXCEPT ![e] = r],
         r.state = "received" => r.order \in Orders /\ r.attempts < MaxAttempts
  PROVE  inbox' \in [Events -> Event] /\ EventsAreOpen'
<1>1. inbox \in [Events -> Event]
  BY DEF SaleInv, TypeOK
<1>2. inbox' \in [Events -> Event] /\ inbox'[e] = r
      /\ \A f \in Events : f # e => inbox'[f] = inbox[f]
  BY <1>1
<1> QED
  BY <1>2 DEF SaleInv, EventsAreOpen

\* The attempts of an open event, and one more.
LEMMA OneMoreAttempt ==
  ASSUME SaleInv, NEW e \in Events, inbox[e].state = "received"
  PROVE  /\ inbox[e] \in Event /\ inbox[e].order \in Orders
         /\ inbox[e].attempts + 1 \in 0 .. MaxAttempts
<1>1. /\ inbox[e] \in Event /\ inbox[e].order \in Orders /\ inbox[e].attempts < MaxAttempts
  BY DEF SaleInv, TypeOK, EventsAreOpen
<1>2. inbox[e].attempts \in 0 .. MaxAttempts /\ MaxAttempts \in Nat
  BY <1>1, SaleConstants DEF Event
<1> QED
  BY <1>1, <1>2

LEMMA ReceiveEventKeeps ==
  ASSUME SaleInv, NEW e \in Events, NEW kind \in EventKind, NEW o \in Orders,
         ReceiveEvent(e, kind, o)
  PROVE  SaleInv'
<1> DEFINE r == [state |-> "received", kind |-> kind, order |-> o, attempts |-> 0]
<1>1. /\ inbox' = [inbox EXCEPT ![e] = r]
      /\ UNCHANGED <<order, intent, chain, buyer, claims, calls, service, crashes>>
  BY DEF ReceiveEvent
<1>2. r \in Event /\ r.order \in Orders /\ r.attempts < MaxAttempts
  BY SaleConstants DEF Event
<1> HIDE DEF r
<1>3. inbox' \in [Events -> Event] /\ EventsAreOpen'
  BY <1>1, <1>2, EventWritten
<1>4. TypeOK'
  BY <1>1, <1>3 DEF SaleInv, TypeOK
<1> QED
  BY <1>1, <1>3, <1>4, OrdersKept

LEMMA EventFailsKeeps ==
  ASSUME SaleInv, NEW e \in Events, EventFails(e)
  PROVE  SaleInv'
<1> DEFINE n == inbox[e].attempts + 1
           s == IF n >= MaxAttempts THEN "quarantined" ELSE "received"
           r == [inbox[e] EXCEPT !.state = s, !.attempts = n]
<1>1. /\ inbox[e].state = "received" /\ inbox' = [inbox EXCEPT ![e] = r]
      /\ UNCHANGED <<order, intent, chain, buyer, claims, calls, service, crashes>>
  BY DEF EventFails
<1>2. inbox[e] \in Event /\ inbox[e].order \in Orders /\ n \in 0 .. MaxAttempts
  BY <1>1, OneMoreAttempt
<1>3. s \in {"quarantined", "received"} /\ (s = "received" => n < MaxAttempts)
  BY <1>2, SaleConstants
<1> HIDE DEF n, s
<1>4. r \in Event /\ r.state = s /\ r.attempts = n /\ r.order = inbox[e].order
  BY <1>2, <1>3 DEF Event
<1> HIDE DEF r
<1>5. inbox' \in [Events -> Event] /\ EventsAreOpen'
  BY <1>1, <1>2, <1>3, <1>4, EventWritten
<1>6. TypeOK'
  BY <1>1, <1>5 DEF SaleInv, TypeOK
<1> QED
  BY <1>1, <1>5, <1>6, OrdersKept

LEMMA ApplyEventKeeps ==
  ASSUME SaleInv, NEW e \in Events, ApplyEvent(e)
  PROVE  SaleInv'
<1> DEFINE o == inbox[e].order
           n == inbox[e].attempts + 1
           r == [inbox[e] EXCEPT !.state = "applied", !.attempts = n]
<1>1. /\ inbox[e].state = "received" /\ inbox' = [inbox EXCEPT ![e] = r]
      /\ UNCHANGED <<intent, chain, buyer, claims, calls, service, crashes>>
      /\ order[o].state # "none"
  BY DEF ApplyEvent, Applicable
<1>2. inbox[e] \in Event /\ o \in Orders /\ n \in 0 .. MaxAttempts
  BY <1>1, OneMoreAttempt
<1>3. r \in Event /\ r.state = "applied"
  BY <1>2, EventRows
<1> HIDE DEF n, r
<1>4. inbox' \in [Events -> Event] /\ EventsAreOpen'
  BY <1>1, <1>3, EventWritten
<1>5. order' = order \/ \E s \in Reversed : order' = [order EXCEPT ![o].state = s]
  BY DEF ApplyEvent, Reversed
<1>6. CASE order' = order
  <2>1. TypeOK'
    BY <1>1, <1>4, <1>6 DEF SaleInv, TypeOK
  <2> QED
    BY <1>1, <1>4, <1>6, <2>1, OrdersKept
<1>7. CASE \E s \in Reversed : order' = [order EXCEPT ![o].state = s]
  <2>1. PICK s \in Reversed : order' = [order EXCEPT ![o].state = s]
    BY <1>7
  <2>2. s \in OrderState \ {"none"} /\ s \notin Confirmed
    BY DEF OrderState, Reversed, Confirmed
  <2>3. buyer' = [buyer EXCEPT ![o] = buyer[o]]
    BY <1>1, <1>2, SameRows
  <2> HIDE DEF o
  <2> QED
    BY <1>1, <1>2, <1>4, <2>1, <2>2, <2>3, StateStep DEF o
<1> QED
  BY <1>5, <1>6, <1>7

-----------------------------------------------------------------------------
(* Crash and recovery. *)

LEMMA RestartKeeps ==
  ASSUME SaleInv, Crash \/ Start \/ \E o \in Orders : FinalizeFails(o)
  PROVE  SaleInv'
<1>1. /\ UNCHANGED <<order, intent, claims, inbox, chain>>
      /\ \A o \in Orders : buyer'[o] \in {"idle", buyer[o]}
  BY DEF Crash, Start, FinalizeFails, ledger
<1>2. TypeOK'
  <2>1. buyer' \in [Orders -> {"idle", "verify", "prepare", "settle", "answer"}]
    BY DEF Crash, Start, FinalizeFails, SaleInv, TypeOK
  <2>2. service' \in {"up", "recovering", "down"} /\ calls' \in SUBSET Orders
    BY DEF Crash, Start, FinalizeFails, SaleInv, TypeOK
  <2>3. crashes' \in 0 .. MaxCrashes
    BY SaleConstants DEF Crash, Start, FinalizeFails, SaleInv, TypeOK
  <2> QED
    BY <1>1, <2>1, <2>2, <2>3 DEF SaleInv, TypeOK
<1> QED
  BY <1>1, <1>2, EventsUnchanged, OrdersKept

\* What reconcile_expired_intents does to one order.
LEMMA RecoveredOrder ==
  ASSUME SaleInv, Recover, NEW o \in Orders
  PROVE  /\ order'[o] \in Order /\ intent'[o] \in Intent
         /\ order'[o].rail = order[o].rail /\ order'[o].quote = order[o].quote
         /\ order'[o].ordinal = order[o].ordinal /\ order'[o].ref = order[o].ref
         /\ intent'[o].ordinal = intent[o].ordinal
         /\ \/ order'[o] = order[o] /\ intent'[o] = intent[o]
            \/ /\ intent[o].state = "prepared" /\ intent'[o].state = "ambiguous"
               /\ order'[o].state = "manual_review"
<1>1. \/ order'[o] = order[o] /\ intent'[o] = intent[o]
      \/ /\ intent[o].state = "prepared"
         /\ intent'[o] = [intent[o] EXCEPT !.state = "ambiguous"]
         /\ order'[o] = [order[o] EXCEPT !.state = "manual_review"]
  BY DEF Recover
<1>2. CASE order'[o] = order[o] /\ intent'[o] = intent[o]
  BY <1>2, SameRows
<1>3. CASE /\ intent[o].state = "prepared"
           /\ intent'[o] = [intent[o] EXCEPT !.state = "ambiguous"]
           /\ order'[o] = [order[o] EXCEPT !.state = "manual_review"]
  <2>1. intent'[o] \in Intent /\ intent'[o].state = "ambiguous"
        /\ intent'[o].ordinal = intent[o].ordinal
    BY <1>3, SameRows, StatesOfAnOrder, IntentRows
  <2>2. /\ order'[o] \in Order /\ order'[o].state = "manual_review"
        /\ order'[o].rail = order[o].rail /\ order'[o].quote = order[o].quote
        /\ order'[o].ordinal = order[o].ordinal /\ order'[o].ref = order[o].ref
    <3>1. order[o] \in Order /\ "manual_review" \in OrderState
      BY SameRows, StatesOfAnOrder
    <3>2. order'[o] = [order[o] EXCEPT !.state = "manual_review"]
      BY <1>3
    <3> QED
      BY <3>1, <3>2, OrderRows
  <2> QED
    BY <1>3, <2>1, <2>2
<1> QED
  BY <1>1, <1>2, <1>3

LEMMA RecoverKeeps ==
  ASSUME SaleInv, Recover
  PROVE  SaleInv'
<1>1. UNCHANGED <<chain, buyer, claims, inbox, calls, crashes>> /\ service' = "up"
      /\ order' = [o \in Orders |-> order'[o]] /\ intent' = [o \in Orders |-> intent'[o]]
  BY DEF Recover
<1>2. TypeOK'
  <2>1. order' \in [Orders -> Order] /\ intent' \in [Orders -> Intent]
    BY <1>1, RecoveredOrder
  <2> QED
    BY <1>1, <2>1 DEF SaleInv, TypeOK
<1>3. ASSUME NEW o \in Orders
      PROVE  SaleOK(o)' /\ PaymentOK(o)' /\ Held(o)' = Held(o)
  <2>1. SaleOK(o) /\ PaymentOK(o)
    BY OrderFacts
  <2>2. /\ order'[o].rail = order[o].rail /\ order'[o].ordinal = order[o].ordinal
        /\ intent'[o].ordinal = intent[o].ordinal
        /\ \/ order'[o] = order[o] /\ intent'[o] = intent[o]
           \/ /\ intent[o].state = "prepared" /\ intent'[o].state = "ambiguous"
              /\ order'[o].state = "manual_review"
    BY RecoveredOrder
  <2>3. SaleOK(o)'
    BY <1>1, <2>1, <2>2 DEF SaleOK, PaymentOK
  <2>4. PaymentOK(o)'
    BY <1>1, <2>1, <2>2 DEF PaymentOK, Confirmed, Reserving
  <2>5. Held(o)' = Held(o)
    BY <2>2 DEF Held, Sold, Reserved, Reserving
  <2> QED
    BY <2>3, <2>4, <2>5
<1>4. \A o \in Orders : order'[o].ref = order[o].ref /\ order'[o].quote = order[o].quote
  BY RecoveredOrder
<1>5. ClaimsAreOwn'
  BY <1>1, <1>4 DEF SaleInv, ClaimsAreOwn
<1>6. EarlyPlaces'
  <2> SUFFICES ASSUME NEW o \in Orders
               PROVE  /\ \A p \in Orders \ {o} : Held(o)' \cap Held(p)' = {}
                      /\ \A n \in Held(o)' : order'[o].quote = PriceOf(n)
    BY DEF EarlyPlaces, PriceOf
  <2> QED
    BY <1>3, <1>4 DEF SaleInv, EarlyPlaces
<1>7. PaymentBacked'
  <2>1. \A o \in Orders :
          /\ order'[o].state \in Confirmed => o \in Sold'
          /\ order'[o].rail = "x402" => (o \in Sold' <=> intent'[o].state = "finalized_paid")
          /\ intent'[o].state \in {"settled", "finalized_paid"} => chain'[o] = "final"
          /\ chain'[o] = "final" => intent'[o].state \in Reserving \cup {"finalized_paid"}
    BY <1>3 DEF PaymentOK, Sold
  <2>2. \A o, p \in Sold' : order'[o].ref = order'[p].ref /\ order'[o].ref # NoTx => o = p
    BY <1>5 DEF ClaimsAreOwn, Sold
  <2> QED
    BY <2>1, <2>2 DEF PaymentBacked
<1> QED
  BY <1>1, <1>2, <1>3, <1>5, <1>6, <1>7, EventsUnchanged DEF SaleInv

-----------------------------------------------------------------------------
LEMMA SaleInit == Init => SaleInv
<1> SUFFICES ASSUME Init PROVE SaleInv
  OBVIOUS
<1>1. /\ [state |-> "none", rail |-> "x402", quote |-> "regular", ordinal |-> 0, ref |-> NoTx]
           \in Order
      /\ [state |-> "none", ordinal |-> 0, candidate |-> FALSE] \in Intent
  BY StatesOfAnOrder DEF Order, Intent, Tier
<1>2. [state |-> "none", kind |-> "paid", order |-> NoOrder, attempts |-> 0] \in Event
  BY SaleConstants DEF Event, EventKind
<1>3. TypeOK
  <2>1. order \in [Orders -> Order] /\ intent \in [Orders -> Intent] /\ inbox \in [Events -> Event]
    BY <1>1, <1>2 DEF Init
  <2>2. crashes \in 0 .. MaxCrashes
    BY SaleConstants DEF Init
  <2> QED
    BY <2>1, <2>2 DEF Init, TypeOK
<1>4. \A o \in Orders : SaleOK(o)
  BY DEF Init, SaleOK
<1>5. ClaimsAreOwn /\ EventsAreOpen
  BY DEF Init, ClaimsAreOwn, EventsAreOpen
<1>6. \A o \in Orders : Held(o) = {}
  BY DEF Init, Held, Sold, Reserved, Reserving
<1>7. EarlyPlaces
  BY <1>6 DEF EarlyPlaces
<1>8. PaymentBacked
  BY DEF Init, PaymentBacked, Sold, Confirmed, Reserving
<1> QED
  BY <1>3, <1>4, <1>5, <1>7, <1>8 DEF SaleInv

LEMMA SaleStep == SaleInv /\ [Next]_vars => SaleInv'
<1> SUFFICES ASSUME SaleInv, [Next]_vars PROVE SaleInv'
  OBVIOUS
<1>1. ASSUME NEW o \in Orders, NEW rail \in {"x402", "paypal"}, CreateOrder(o, rail)
      PROVE  SaleInv'
  BY <1>1, CreateOrderKeeps
<1>2. ASSUME NEW o \in Orders, Purchase(o) PROVE SaleInv'
  BY <1>2, RequestKeeps, PrepareIntentKeeps, AnswerKeeps DEF Purchase
<1>3. ASSUME NEW o \in Orders, Administration(o) PROVE SaleInv'
  BY <1>3, CancelKeeps, SettlementKeeps, DeliverKeeps, ConfirmKeeps, AdminKeeps
     DEF Administration
<1>4. ASSUME NEW o \in Orders, FinalizeIntent(o) PROVE SaleInv'
  BY <1>4, FinalizeKeeps
<1>5. ASSUME NEW o \in Orders, ChainDecides(o) PROVE SaleInv'
  BY <1>5, RequestKeeps
<1>6. ASSUME NEW o \in Orders, NEW t \in PayPalTx, PayPalSubmit(o, t) PROVE SaleInv'
  BY <1>6, SubmitKeeps
<1>7. ASSUME NEW e \in Events, Webhook(e) PROVE SaleInv'
  BY <1>7, ReceiveEventKeeps, ApplyEventKeeps, EventFailsKeeps DEF Webhook
<1>8. CASE Crash \/ Start \/ \E o \in Orders : FinalizeFails(o)
  BY <1>8, RestartKeeps
<1>9. CASE Recover
  BY <1>9, RecoverKeeps
<1>10. CASE UNCHANGED vars
  <2>1. UNCHANGED <<order, intent, chain, claims, inbox>> /\ TypeOK'
        /\ \A o \in Orders : buyer'[o] \in {"idle", buyer[o]}
    BY <1>10 DEF vars, SaleInv, TypeOK
  <2> QED
    BY <2>1, EventsUnchanged, OrdersKept
<1> QED
  BY <1>1, <1>2, <1>3, <1>4, <1>5, <1>6, <1>7, <1>8, <1>9, <1>10 DEF Next

\* The inductive invariant of the ledger holds in every reachable state
\* (service.py): order, intent, purchase request and authorization agree
\* between any two transactions, with crashes and late answers in between.
THEOREM SaleInvariant == Spec => []SaleInv
BY SaleInit, SaleStep, PTL DEF Spec

\* create_order, prepare_x402_intent, _confirm_payment_locked: no ordinal is
\* held twice and the price of every held ordinal is the quoted one, for any
\* number of orders and early places.
THEOREM EarlyPlacesAreSoldOnce == Spec => []EarlyPlaces
<1>1. SaleInv => EarlyPlaces
  BY DEF SaleInv
<1> QED
  BY <1>1, SaleInvariant, PTL

\* finalize_x402_intent, reconcile_intent, paypal_submit: sales and payments
\* agree in every reachable state.
THEOREM SalesArePaid == Spec => []PaymentBacked
<1>1. SaleInv => PaymentBacked
  BY DEF SaleInv
<1> QED
  BY <1>1, SaleInvariant, PTL

-----------------------------------------------------------------------------
(* A sale only advances. *)

\* What a step may do to a sale.
Advances(o) ==
  /\ order'[o].ordinal = order[o].ordinal
  /\ Rank(order'[o].state) >= Rank(order[o].state)
  /\ order[o].state \in Reversed => order'[o].state = order[o].state

LEMMA Ranks ==
  /\ Rank("payment_confirmed") = 1 /\ Rank("license_issued") = 2
  /\ Rank("refunded") = 3 /\ Rank("revoked") = 3
  /\ \A s : Rank(s) \in 0 .. 3
BY DEF Rank, Reversed

LEMMA UntouchedAdvances ==
  ASSUME NEW o, order'[o] = order[o] PROVE Advances(o)
<1>1. Rank(order[o].state) \in 0 .. 3
  BY Ranks
<1> QED
  BY <1>1 DEF Advances

\* A sale that gets a new state.
LEMMA ReversalAdvances ==
  ASSUME SaleInv, NEW o \in Orders, order[o].state \notin Reversed,
         NEW s, order' = [order EXCEPT ![o].state = s],
         s \in Reversed \/ (s = "license_issued" /\ order[o].state = "payment_confirmed")
  PROVE  Advances(o)
<1>1. order[o] \in Order /\ order \in [Orders -> Order]
  BY DEF SaleInv, TypeOK
<1>2. order'[o] = [order[o] EXCEPT !.state = s]
  BY <1>1
<1>3. order'[o].state = s /\ order'[o].ordinal = order[o].ordinal
  BY <1>1, <1>2 DEF Order
<1>4. Rank(s) >= Rank(order[o].state)
  <2>1. CASE s \in Reversed
    <3>1. Rank(s) = 3 /\ Rank(order[o].state) \in 0 .. 3
      BY <2>1, Ranks DEF Reversed
    <3> QED
      BY <3>1
  <2>2. CASE s = "license_issued" /\ order[o].state = "payment_confirmed"
    BY <2>2, Ranks
  <2> QED
    BY <2>1, <2>2
<1> QED
  BY <1>3, <1>4 DEF Advances

\* A step that writes the row of one order leaves the others alone.
LEMMA OthersUntouched ==
  ASSUME SaleInv, NEW o \in Orders, NEW p \in Orders, o # p,
         \/ \E rail : CreateOrder(p, rail)
         \/ Purchase(p) \/ Administration(p) \/ FinalizeIntent(p) \/ ChainDecides(p)
         \/ \E t : PayPalSubmit(p, t)
  PROVE  order'[o] = order[o]
<1>0. order \in [Orders -> Order]
  BY DEF SaleInv, TypeOK
<1>1. CASE (\E rail : CreateOrder(p, rail)) \/ (\E t : PayPalSubmit(p, t)) \/ FinalizeIntent(p)
  BY <1>0, <1>1 DEF CreateOrder, PayPalSubmit, FinalizeIntent
<1>2. CASE Purchase(p) \/ ChainDecides(p)
  BY <1>0, <1>2 DEF Purchase, ChainDecides, Challenge, Verify, PrepareIntent, Settle,
     RecordCandidate, MarkIntentAmbiguous, Ambiguous, ledger
<1>3. CASE Administration(p)
  BY <1>0, <1>3 DEF Administration, CancelUnpaid, RecordSettlement, Deliver, PayPalConfirm,
     AdminTransition
<1> QED
  BY <1>1, <1>2, <1>3

\* A step of a sold order's own.
LEMMA SoldAdvances ==
  ASSUME SaleInv, NEW o \in Orders, order[o].ordinal # 0,
         \/ \E rail : CreateOrder(o, rail)
         \/ Purchase(o) \/ Administration(o) \/ FinalizeIntent(o) \/ ChainDecides(o)
         \/ \E t : PayPalSubmit(o, t)
  PROVE  Advances(o)
<1>0. SaleOK(o) /\ PaymentOK(o) /\ order[o] \in Order
  BY OrderFacts
<1>1. order[o].state \in Confirmed \cup Reversed
  BY <1>0 DEF SaleOK
<1>2. intent[o].state \in {"none", "finalized_paid"}
  BY <1>0 DEF SaleOK, PaymentOK
<1>3. order[o].state \notin {"none", "pending_payment", "manual_review"}
  BY <1>1 DEF Confirmed, Reversed
<1>4. CASE (\E rail : CreateOrder(o, rail)) \/ (\E t : PayPalSubmit(o, t)) \/ FinalizeIntent(o)
  BY <1>2, <1>3, <1>4 DEF CreateOrder, PayPalSubmit, FinalizeIntent
<1>5. CASE Purchase(o) \/ ChainDecides(o)
  <2>1. order' = order
    BY <1>2, <1>3, <1>5 DEF Purchase, ChainDecides, Challenge, Verify, PrepareIntent, Settle,
       RecordCandidate, MarkIntentAmbiguous, Reconcilable, ledger
  <2> QED
    BY <2>1, UntouchedAdvances
<1>6. CASE CancelUnpaid(o) \/ RecordSettlement(o) \/ \E amount \in Tier : PayPalConfirm(o, amount)
  BY <1>2, <1>3, <1>6 DEF CancelUnpaid, RecordSettlement, PayPalConfirm, Reconcilable
<1>7. CASE Deliver(o)
  <2>1. order' = [order EXCEPT ![o].state = "license_issued"] /\ order[o].state = "payment_confirmed"
        /\ order[o].state \notin Reversed
    BY <1>7 DEF Deliver, Reversed
  <2> QED
    BY <2>1, ReversalAdvances
<1>8. CASE \E action \in {"reject", "refund", "revoke"} : AdminTransition(o, action)
  <2>1. PICK action \in {"reject", "refund", "revoke"} : AdminTransition(o, action)
    BY <1>8
  <2>2. order' = [order EXCEPT ![o].state = Target(action)] /\ order[o].state \in From(action)
    BY <2>1 DEF AdminTransition
  <2>3. Target(action) \in Reversed /\ order[o].state \notin Reversed
    BY <1>3, <2>2 DEF From, Target, Reversed, Confirmed
  <2> QED
    BY <2>2, <2>3, ReversalAdvances
<1> QED
  BY <1>4, <1>5, <1>6, <1>7, <1>8 DEF Administration

\* An event reverses a sale once.
LEMMA WebhookAdvances ==
  ASSUME SaleInv, NEW o \in Orders, NEW e \in Events, Webhook(e)
  PROVE  Advances(o)
<1>0. order \in [Orders -> Order]
  BY DEF SaleInv, TypeOK
<1>1. \/ order'[o] = order[o]
      \/ /\ inbox[e].order = o /\ order[o].state \notin Reversed
         /\ \E s \in Reversed : order' = [order EXCEPT ![o].state = s]
  BY <1>0 DEF Webhook, ReceiveEvent, EventFails, ApplyEvent, Reversed
<1> QED
  BY <1>1, UntouchedAdvances, ReversalAdvances

\* admin_transition, _apply_whop_business_locked, finalize_x402_intent,
\* reconcile_expired_intents: no step takes a sale's ordinal away or moves it
\* back.
THEOREM SalesOnlyAdvance == Spec => SaleOnlyAdvances
<1>1. ASSUME SaleInv, [Next]_vars, NEW o \in Orders, order[o].ordinal # 0
      PROVE  Advances(o)
  <2>1. ASSUME NEW p \in Orders,
               \/ \E rail : CreateOrder(p, rail)
               \/ Purchase(p) \/ Administration(p) \/ FinalizeIntent(p) \/ ChainDecides(p)
               \/ \E t : PayPalSubmit(p, t)
        PROVE  Advances(o)
    <3>1. CASE o = p
      BY <1>1, <2>1, <3>1, SoldAdvances
    <3>2. CASE o # p
      BY <1>1, <2>1, <3>2, OthersUntouched, UntouchedAdvances
    <3> QED
      BY <3>1, <3>2
  <2>2. CASE \E e \in Events : Webhook(e)
    BY <1>1, <2>2, WebhookAdvances
  <2>3. CASE Crash \/ Start \/ (\E p \in Orders : FinalizeFails(p)) \/ UNCHANGED vars
    BY <2>3, UntouchedAdvances DEF Crash, Start, FinalizeFails, ledger, vars
  <2>4. CASE Recover
    <3>1. SaleOK(o) /\ PaymentOK(o)
      BY <1>1, OrderFacts
    <3>2. intent[o].state # "prepared"
      BY <1>1, <3>1 DEF SaleOK, PaymentOK
    <3>3. order'[o] = order[o]
      BY <1>1, <2>4, <3>2, RecoveredOrder
    <3> QED
      BY <3>3, UntouchedAdvances
  <2> QED
    BY <1>1, <2>1, <2>2, <2>3, <2>4 DEF Next
<1>2. SaleInv /\ [Next]_vars =>
        [\A o \in Sold : /\ order'[o].ordinal = order[o].ordinal
                         /\ Rank(order'[o].state) >= Rank(order[o].state)
                         /\ order[o].state \in Reversed => order'[o].state = order[o].state]_vars
  BY <1>1 DEF Sold, Advances
<1> QED
  BY <1>2, SaleInvariant, PTL DEF Spec, SaleOnlyAdvances

-----------------------------------------------------------------------------
(* Recorded evidence. *)

\* The steps of a service that is up leave it up.
LEMMA ServingSteps ==
  ASSUME NEW o, \/ \E rail : CreateOrder(o, rail)
                \/ Purchase(o) \/ Administration(o)
                \/ \E t : PayPalSubmit(o, t)
                \/ Webhook(o)
  PROVE  service = "up" /\ service' = "up"
<1>1. CASE (\E rail : CreateOrder(o, rail)) \/ (\E t : PayPalSubmit(o, t)) \/ Webhook(o)
  BY <1>1 DEF CreateOrder, PayPalSubmit, Webhook, ReceiveEvent, ApplyEvent, EventFails, Up
<1>2. CASE Purchase(o)
  BY <1>2 DEF Purchase, Challenge, Verify, PrepareIntent, Settle, RecordCandidate,
     MarkIntentAmbiguous, Up
<1>3. CASE Administration(o)
  BY <1>3 DEF Administration, CancelUnpaid, RecordSettlement, Deliver, PayPalConfirm,
     AdminTransition, Up
<1> QED
  BY <1>1, <1>2, <1>3

LEMMA FinalizedRow ==
  ASSUME SaleInv, NEW p \in Orders, FinalizeIntent(p)
  PROVE  /\ intent[p].state = "settled" /\ intent'[p].state = "finalized_paid"
         /\ order'[p].state = "payment_confirmed" /\ order'[p].ordinal = intent[p].ordinal
         /\ \A o \in Orders : o # p => intent'[o] = intent[o]
         /\ calls' = calls \ {p} /\ service' = service
<1> DEFINE r == [order[p] EXCEPT !.state = "payment_confirmed", !.ordinal = intent[p].ordinal]
           i == [intent[p] EXCEPT !.state = "finalized_paid"]
<1>1. order \in [Orders -> Order] /\ intent \in [Orders -> Intent]
  BY DEF SaleInv, TypeOK
<1>2. /\ order'[p] = r /\ intent'[p] = i /\ \A o \in Orders : o # p => intent'[o] = intent[o]
      /\ intent[p].state = "settled" /\ calls' = calls \ {p} /\ service' = service
  BY <1>1 DEF FinalizeIntent
<1>3. r.state = "payment_confirmed" /\ r.ordinal = intent[p].ordinal
  <2>1. order[p] \in Order /\ intent[p].ordinal \in Nat
    BY SameRows
  <2> QED
    BY <2>1, SoldRow
<1>4. i.state = "finalized_paid"
  BY SameRows, IntentRows, StatesOfAnOrder
<1> HIDE DEF r, i
<1> QED
  BY <1>2, <1>3, <1>4

\* No step of a running service touches a settled intent but its finalization.
LEMMA SettledUntouched ==
  ASSUME SaleInv, NEW o \in Orders, intent[o].state = "settled", NEW p \in Orders,
         \/ \E rail : CreateOrder(p, rail)
         \/ Purchase(p) \/ Administration(p) \/ \E t : PayPalSubmit(p, t)
  PROVE  intent'[o] = intent[o]
<1>0. intent \in [Orders -> Intent]
  BY DEF SaleInv, TypeOK
<1>1. CASE (\E rail : CreateOrder(p, rail)) \/ (\E t : PayPalSubmit(p, t))
  BY <1>1 DEF CreateOrder, PayPalSubmit
<1>2. CASE Purchase(p)
  <2>1. CASE Challenge(p) \/ Verify(p) \/ Settle(p)
    BY <2>1 DEF Challenge, Verify, Settle, ledger
  <2>2. CASE PrepareIntent(p)
    BY <1>0, <2>2 DEF PrepareIntent
  <2>3. CASE RecordCandidate(p) \/ MarkIntentAmbiguous(p)
    <3>1. \/ intent' = intent
          \/ p # o /\ \E c \in BOOLEAN : Ambiguous(p, c)
      BY <2>3 DEF RecordCandidate, MarkIntentAmbiguous, Reconcilable
    <3> QED
      BY <1>0, <3>1 DEF Ambiguous
  <2> QED
    BY <1>2, <2>1, <2>2, <2>3 DEF Purchase
<1>3. CASE Administration(p)
  BY <1>0, <1>3 DEF Administration, CancelUnpaid, RecordSettlement, Deliver, PayPalConfirm,
     AdminTransition, Reconcilable
<1> QED
  BY <1>1, <1>2, <1>3

\* recover_durable_settlements has all of them on its list until it is done.
LEMMA RecoveryStep == SaleInv /\ RecoveryIsComplete /\ [Next]_vars => RecoveryIsComplete'
<1> SUFFICES ASSUME SaleInv, RecoveryIsComplete, [Next]_vars PROVE RecoveryIsComplete'
  OBVIOUS
<1>1. ASSUME NEW o \in Orders, \/ \E rail \in {"x402", "paypal"} : CreateOrder(o, rail)
                               \/ Purchase(o) \/ Administration(o)
                               \/ \E t \in PayPalTx : PayPalSubmit(o, t)
      PROVE  RecoveryIsComplete'
  BY <1>1, ServingSteps DEF RecoveryIsComplete
<1>2. ASSUME NEW e \in Events, Webhook(e) PROVE RecoveryIsComplete'
  BY <1>2, ServingSteps DEF RecoveryIsComplete
<1>3. ASSUME NEW p \in Orders, FinalizeIntent(p) PROVE RecoveryIsComplete'
  BY <1>3, FinalizedRow DEF RecoveryIsComplete
<1>4. ASSUME NEW p \in Orders, FinalizeFails(p) \/ ChainDecides(p) PROVE RecoveryIsComplete'
  BY <1>4 DEF FinalizeFails, ChainDecides, ledger, Up, RecoveryIsComplete
<1>5. CASE Crash \/ Start \/ Recover \/ UNCHANGED vars
  BY <1>5 DEF Crash, Start, Recover, vars, ledger, RecoveryIsComplete
<1> QED
  BY <1>1, <1>2, <1>3, <1>4, <1>5 DEF Next

\* record_settlement_result, finalize_x402_intent, recover_durable_settlements:
\* recorded evidence only ever becomes the sale it was recorded for, and no
\* start comes up before it has.
THEOREM SettledAreKept == Spec => SettledIsKept
<1> DEFINE Kept(o) == \/ intent'[o] = intent[o] /\ (service' = "up" => service = "up")
                      \/ /\ intent'[o].state = "finalized_paid"
                         /\ order'[o].state = "payment_confirmed"
                         /\ order'[o].ordinal = intent[o].ordinal
<1>1. ASSUME SaleInv, RecoveryIsComplete, [Next]_vars, NEW o \in Orders,
             intent[o].state = "settled"
      PROVE  Kept(o)
  <2>1. ASSUME NEW p \in Orders, \/ \E rail \in {"x402", "paypal"} : CreateOrder(p, rail)
                                 \/ Purchase(p) \/ Administration(p)
                                 \/ \E t \in PayPalTx : PayPalSubmit(p, t)
        PROVE  Kept(o)
    BY <1>1, <2>1, ServingSteps, SettledUntouched
  <2>2. ASSUME NEW e \in Events, Webhook(e) PROVE Kept(o)
    BY <2>2, ServingSteps DEF Webhook, ReceiveEvent, ApplyEvent, EventFails
  <2>3. ASSUME NEW p \in Orders, FinalizeIntent(p) PROVE Kept(o)
    BY <1>1, <2>3, FinalizedRow
  <2>4. ASSUME NEW p \in Orders, FinalizeFails(p) \/ ChainDecides(p) PROVE Kept(o)
    BY <2>4 DEF FinalizeFails, ChainDecides, ledger, Up
  <2>5. CASE Crash \/ Start \/ UNCHANGED vars
    BY <2>5 DEF Crash, Start, vars, ledger
  <2>6. ~Recover
    BY <1>1 DEF Recover, RecoveryIsComplete
  <2> QED
    BY <1>1, <2>1, <2>2, <2>3, <2>4, <2>5, <2>6 DEF Next
<1>2. SaleInv /\ RecoveryIsComplete /\ [Next]_vars =>
        [\A o \in Orders : intent[o].state = "settled" => Kept(o)]_vars
  BY <1>1
<1>3. Init => RecoveryIsComplete
  BY DEF Init, RecoveryIsComplete
<1> QED
  BY <1>2, <1>3, RecoveryStep, SaleInvariant, PTL DEF Spec, SettledIsKept

-----------------------------------------------------------------------------
(* IssuanceCheckpoint: snapshots, processes and what they rely on. *)

LEMMA Snapshots ==
  ASSUME CheckpointInv
  PROVE  /\ db \in Snapshot /\ db.seq \in Nat /\ db.root \subseteq Rows /\ db # Missing
         /\ doc \in Snapshot \cup {Missing} /\ (doc = db => doc # Missing)
<1>1. db \in Snapshot /\ doc \in Snapshot \cup {Missing}
  BY DEF CheckpointInv, CheckpointTypeOK
<1> QED
  BY <1>1, DistinctRows DEF Snapshot

\* One more transaction on the database.
LEMMA WithRows ==
  ASSUME CheckpointInv, NEW rows \in SUBSET Rows
  PROVE  /\ With(rows) \in Snapshot /\ With(rows) # Missing
         /\ With(rows).seq = db.seq + 1 /\ With(rows).root = db.root \cup rows
<1>1. db.seq \in Nat /\ db.root \subseteq Rows
  BY Snapshots
<1>2. With(rows) \in Snapshot
  BY <1>1 DEF With, Snapshot
<1> QED
  BY <1>2, DistinctRows DEF With

LEMMA RowsOfTransactions ==
  /\ \A t \in Txns : {t} \in SUBSET Rows
  /\ \A t \in Webhooks : {Failure(t)} \in SUBSET Rows
  /\ {Migration} \in SUBSET Rows
BY DEF Rows

LEMMA ProcessMoves ==
  ASSUME CheckpointInv, NEW p \in Services, NEW stage \in Stage, GoTo(p, stage)
  PROVE  /\ proc' \in [Services -> [stage : Stage, txn : Txns \cup {Missing}]]
         /\ proc'[p].stage = stage /\ proc'[p].txn = proc[p].txn
         /\ \A v \in Services : v # p => proc'[v] = proc[v]
<1> DEFINE r == [proc[p] EXCEPT !.stage = stage]
<1>1. proc \in [Services -> [stage : Stage, txn : Txns \cup {Missing}]]
  BY DEF CheckpointInv, CheckpointTypeOK
<1>2. /\ r \in [stage : Stage, txn : Txns \cup {Missing}]
      /\ r.stage = stage /\ r.txn = proc[p].txn
  BY <1>1
<1>3. proc' = [proc EXCEPT ![p] = r]
  BY DEF GoTo
<1> HIDE DEF r
<1> QED
  BY <1>1, <1>2, <1>3

LEMMA ProcessReplaced ==
  ASSUME CheckpointInv, NEW p \in Services, NEW stage \in Stage, NEW t \in Txns \cup {Missing},
         proc' = [proc EXCEPT ![p] = [stage |-> stage, txn |-> t]]
  PROVE  /\ proc' \in [Services -> [stage : Stage, txn : Txns \cup {Missing}]]
         /\ proc'[p].stage = stage /\ proc'[p].txn = t
         /\ \A v \in Services : v # p => proc'[v] = proc[v]
BY DEF CheckpointInv, CheckpointTypeOK

\* A process outside transactions relies on a file of the current schema alone.
LEMMA QuietProcess ==
  ASSUME NEW v \in Services, proc'[v].stage \in {"down", "serving"}, writer' # v,
         proc'[v].stage = "serving" => Adopted'
  PROVE  ProcessOK(v)'
BY DEF ProcessOK

\* A process whose files are left alone.
LEMMA SameFiles ==
  ASSUME NEW v \in Services, ProcessOK(v), proc'[v] = proc[v], db' = db, doc' = doc,
         writer' = v <=> writer = v, proc[v].stage = "republish" => writer' = Nobody
  PROVE  ProcessOK(v)'
BY DEF ProcessOK, Matches, Ahead, Adopted, With

LEMMA ProcessFacts ==
  ASSUME CheckpointInv, NEW p \in Services
  PROVE  /\ ProcessOK(p) /\ p # Nobody /\ proc[p].stage \in Stage
         /\ proc[p] \in [stage : Stage, txn : Txns \cup {Missing}]
BY CheckpointConstants DEF CheckpointInv, CheckpointTypeOK

\* The holder of the lock is alone.
LEMMA OthersAreQuiet ==
  ASSUME CheckpointInv, NEW p \in Services, writer = p, NEW v \in Services, v # p
  PROVE  proc[v].stage \in {"down", "serving", "loose"} \/ proc[v].stage = "migrated"
<1>1. ProcessOK(v) /\ p # Nobody /\ proc[v].stage \in Stage
  BY ProcessFacts
<1> QED
  BY <1>1 DEF ProcessOK, Stage

\* So is the process that notes the failure of a webhook.
LEMMA OneNotes ==
  ASSUME CheckpointInv, NEW p \in Services, proc[p].stage \in {"loose", "republish"},
         writer = Nobody, NEW v \in Services, v # p
  PROVE  proc[v].stage \in {"down", "serving"}
<1>1. ProcessOK(v) /\ v # Nobody /\ proc[v].stage \in Stage /\ ProcessOK(p)
  BY ProcessFacts
<1>2. p \in Apis /\ Adopted
  BY <1>1 DEF ProcessOK
<1>3. proc[v].stage \notin {"loose", "republish"}
  BY <1>1, <1>2, OneApi DEF ProcessOK
<1> QED
  BY <1>1, <1>2, <1>3 DEF ProcessOK, Stage

\* A process that runs has migrated the database.
LEMMA CurrentSchema ==
  ASSUME CheckpointInv, NEW p \in Services, proc[p].stage # "down"
  PROVE  schema = "current" /\ Migration \in db.root
BY DEF CheckpointInv, MigrationOnce

LEMMA NotMigrating ==
  ASSUME CheckpointInv, NEW p \in Services, schema = "current", schema' = schema,
         bundle' = bundle, db.root \subseteq db'.root,
         \A v \in Services : v # p => proc'[v] = proc[v], proc'[p].stage # "migrated"
  PROVE  MigrationOnce'
<1>1. MigrationOnce
  BY DEF CheckpointInv
<1>2. schema' = "current" /\ Migration \in db'.root
  BY <1>1 DEF MigrationOnce
<1>3. bundle' # Missing => Migration \in bundle'.db.root
  BY <1>1 DEF MigrationOnce
<1>4. ASSUME NEW v \in Services, NEW w \in Services,
             proc'[v].stage = "migrated", proc'[w].stage = "migrated"
      PROVE  v = w
  BY <1>1, <1>4 DEF MigrationOnce
<1> QED
  BY <1>2, <1>3, <1>4 DEF MigrationOnce

\* The invariant after a step of a service, from its parts.
LEMMA ServiceStep ==
  ASSUME CheckpointInv, UNCHANGED <<backup, bundle>>,
         db' \in Snapshot, doc' \in Snapshot \cup {Missing}, schema' \in {"v5", "old", "current"},
         writer' \in Services \cup {Nobody},
         proc' \in [Services -> [stage : Stage, txn : Txns \cup {Missing}]],
         failed' \in [Services -> BOOLEAN], acked' \subseteq Txns, faults' \in 0 .. MaxFaults,
         \A v \in Services : ProcessOK(v)', MigrationOnce',
         db.root \subseteq db'.root, acked' \subseteq db'.root,
         doc' # Missing => acked' \subseteq doc'.root
  PROVE  CheckpointInv'
<1>1. CheckpointTypeOK'
  BY DEF CheckpointInv, CheckpointTypeOK
<1>2. CopyIsPast'
  BY DEF CheckpointInv, CopyIsPast
<1>3. BundleIsOneCommit'
  BY DEF CheckpointInv, BundleIsOneCommit
<1> QED
  BY <1>1, <1>2, <1>3 DEF CheckpointInv

\* What a step that writes neither file leaves as it was.
LEMMA FilesKept ==
  ASSUME CheckpointInv, UNCHANGED <<db, doc, acked>>
  PROVE  /\ db' \in Snapshot /\ doc' \in Snapshot \cup {Missing} /\ acked' \subseteq Txns
         /\ db.root \subseteq db'.root /\ acked' \subseteq db'.root
         /\ doc' # Missing => acked' \subseteq doc'.root
BY DEF CheckpointInv, CheckpointTypeOK

LEMMA KeptTypes ==
  ASSUME CheckpointInv
  PROVE  /\ schema \in {"v5", "old", "current"} /\ writer \in Services \cup {Nobody}
         /\ failed \in [Services -> BOOLEAN] /\ faults \in 0 .. MaxFaults /\ MaxFaults \in Nat
         /\ acked \subseteq Txns /\ acked \subseteq db.root
         /\ doc # Missing => acked \subseteq doc.root
         /\ proc \in [Services -> [stage : Stage, txn : Txns \cup {Missing}]]
BY CheckpointConstants DEF CheckpointInv, CheckpointTypeOK

-----------------------------------------------------------------------------
(* Start. *)

LEMMA MigrateKeeps ==
  ASSUME CheckpointInv, NEW p \in Services, Migrate(p)
  PROVE  CheckpointInv'
<1>1. /\ GoTo(p, "migrated") /\ schema # "current" /\ schema' = "current" /\ writer = Nobody
      /\ db' = [db EXCEPT !.root = @ \cup {Migration}]
      /\ UNCHANGED <<doc, writer, failed, acked, backup, bundle, faults>>
  BY DEF Migrate
<1>2. ~Adopted /\ ~Adopted' /\ bundle = Missing /\ \A v \in Services : proc[v].stage = "down"
  BY <1>1 DEF CheckpointInv, MigrationOnce, Adopted
<1>3. "migrated" \in Stage
  BY DEF Stage
<1>4. /\ proc' \in [Services -> [stage : Stage, txn : Txns \cup {Missing}]]
      /\ proc'[p].stage = "migrated" /\ \A v \in Services : v # p => proc'[v] = proc[v]
  BY <1>1, <1>3, ProcessMoves
<1>5. db' \in Snapshot /\ db.root \subseteq db'.root /\ Migration \in db'.root
  <2>1. db \in Snapshot /\ db.root \cup {Migration} \in SUBSET Rows
    BY Snapshots, RowsOfTransactions
  <2> QED
    BY <1>1, <2>1 DEF Snapshot
<1>6. \A v \in Services : ProcessOK(v)'
  <2> SUFFICES ASSUME NEW v \in Services PROVE ProcessOK(v)'
    OBVIOUS
  <2>1. writer' # v
    BY <1>1, CheckpointConstants
  <2>2. CASE v = p
    BY <1>1, <1>2, <1>4, <2>1, <2>2 DEF ProcessOK
  <2>3. CASE v # p
    BY <1>2, <1>4, <2>1, <2>3, QuietProcess
  <2> QED
    BY <2>2, <2>3
<1>7. MigrationOnce'
  BY <1>1, <1>2, <1>4, <1>5 DEF MigrationOnce
<1> QED
  BY <1>1, <1>2, <1>4, <1>5, <1>6, <1>7, KeptTypes, Snapshots, ServiceStep

LEMMA AdoptKeeps ==
  ASSUME CheckpointInv, NEW p \in Services, Adopt(p)
  PROVE  CheckpointInv'
<1>1. /\ proc[p].stage = "migrated" /\ writer = Nobody /\ doc' = db
      /\ GoTo(p, "serving") /\ failed' = [failed EXCEPT ![p] = FALSE]
      /\ UNCHANGED <<db, schema, writer, acked, backup, bundle, faults>>
  BY DEF Adopt, GoTo
<1>2. "serving" \in Stage
  BY DEF Stage
<1>3. /\ proc' \in [Services -> [stage : Stage, txn : Txns \cup {Missing}]]
      /\ proc'[p].stage = "serving" /\ \A v \in Services : v # p => proc'[v] = proc[v]
  BY <1>1, <1>2, ProcessMoves
<1>4. ASSUME NEW v \in Services, v # p PROVE proc[v].stage = "down"
  <2>1. ProcessOK(v) /\ ProcessOK(p)
    BY ProcessFacts
  <2>2. ~Adopted
    BY <1>1, <2>1 DEF ProcessOK
  <2>3. proc[v].stage # "migrated"
    BY <1>1, <1>4 DEF CheckpointInv, MigrationOnce
  <2> QED
    BY <2>1, <2>2, <2>3 DEF ProcessOK
<1>5. Adopted' /\ doc' \in Snapshot \cup {Missing} /\ db' \in Snapshot
  BY <1>1, Snapshots, CurrentSchema DEF Adopted
<1>6. \A v \in Services : ProcessOK(v)'
  <2> SUFFICES ASSUME NEW v \in Services PROVE ProcessOK(v)'
    OBVIOUS
  <2>1. writer' # v
    BY <1>1, CheckpointConstants
  <2>2. CASE v = p
    BY <1>3, <1>5, <2>1, <2>2, QuietProcess
  <2>3. CASE v # p
    BY <1>3, <1>4, <2>1, <2>3, QuietProcess
  <2> QED
    BY <2>2, <2>3
<1>7. schema = "current" /\ schema' = schema
  BY <1>1, CurrentSchema
<1>8. MigrationOnce'
  BY <1>1, <1>3, <1>7, NotMigrating
<1>9. failed' \in [Services -> BOOLEAN]
  BY <1>1, KeptTypes
<1> QED
  BY <1>1, <1>3, <1>5, <1>6, <1>7, <1>8, <1>9, KeptTypes, ServiceStep

\* A step of process p that writes neither file.
LEMMA QuietStep ==
  ASSUME CheckpointInv, NEW p \in Services, UNCHANGED <<db, doc, schema, acked, backup, bundle>>,
         proc' \in [Services -> [stage : Stage, txn : Txns \cup {Missing}]],
         \A v \in Services : v # p => proc'[v] = proc[v],
         failed' \in [Services -> BOOLEAN], faults' \in 0 .. MaxFaults,
         writer' \in Services \cup {Nobody},
         \A v \in Services : v # p => (writer' = v <=> writer = v),
         writer' = Nobody \/ writer' = writer \/ Matches,
         schema = "current", proc'[p].stage # "migrated", ProcessOK(p)'
  PROVE  CheckpointInv'
<1>1. \A v \in Services : ProcessOK(v)'
  <2> SUFFICES ASSUME NEW v \in Services, v # p PROVE ProcessOK(v)'
    OBVIOUS
  <2>1. ProcessOK(v)
    BY ProcessFacts
  <2>2. proc[v].stage = "republish" => writer' = Nobody
    BY <2>1 DEF ProcessOK
  <2> QED
    BY <2>1, <2>2, SameFiles
<1>2. MigrationOnce'
  BY NotMigrating
<1> QED
  BY <1>1, <1>2, FilesKept, KeptTypes, ServiceStep

LEMMA StartVerifiedKeeps ==
  ASSUME CheckpointInv, NEW p \in Services, StartVerified(p)
  PROVE  CheckpointInv'
<1>1. /\ writer = Nobody /\ schema = "current" /\ doc = db /\ GoTo(p, "serving")
      /\ failed' = [failed EXCEPT ![p] = FALSE]
      /\ UNCHANGED <<db, doc, schema, writer, acked, backup, bundle, faults>>
  BY DEF StartVerified, Matches
<1>2. "serving" \in Stage
  BY DEF Stage
<1>3. /\ proc' \in [Services -> [stage : Stage, txn : Txns \cup {Missing}]]
      /\ proc'[p].stage = "serving" /\ \A v \in Services : v # p => proc'[v] = proc[v]
  BY <1>1, <1>2, ProcessMoves
<1>4. Adopted' /\ writer' # p /\ writer' = Nobody
  <2>1. Migration \in db.root
    BY <1>1 DEF CheckpointInv, MigrationOnce
  <2> QED
    BY <1>1, <2>1, Snapshots, CheckpointConstants DEF Adopted
<1>5. ProcessOK(p)'
  BY <1>3, <1>4, QuietProcess
<1>6. failed' \in [Services -> BOOLEAN]
  BY <1>1, KeptTypes
<1> QED
  BY <1>1, <1>3, <1>4, <1>5, <1>6, KeptTypes, QuietStep

\* A process that dies or is stopped.
LEMMA DownKeeps ==
  ASSUME CheckpointInv, NEW p \in Services, ProcessDies(p) \/ Stop(p)
  PROVE  CheckpointInv'
<1>1. /\ proc[p].stage # "down" /\ proc' = [proc EXCEPT ![p] = [stage |-> "down", txn |-> Missing]]
      /\ UNCHANGED <<db, doc, schema, failed, acked, backup, bundle>>
  BY DEF ProcessDies, Stop
<1>2. "down" \in Stage /\ Missing \in Txns \cup {Missing}
  BY DEF Stage
<1>3. /\ proc' \in [Services -> [stage : Stage, txn : Txns \cup {Missing}]]
      /\ proc'[p].stage = "down" /\ \A v \in Services : v # p => proc'[v] = proc[v]
  BY <1>1, <1>2, ProcessReplaced
<1>4. faults' \in 0 .. MaxFaults
  BY KeptTypes DEF ProcessDies, Stop
<1>5. /\ writer' # p /\ writer' \in Services \cup {Nobody}
      /\ \A v \in Services : v # p => (writer' = v <=> writer = v)
      /\ writer' = Nobody \/ writer' = writer
  <2>1. ProcessOK(p) /\ p # Nobody /\ writer \in Services \cup {Nobody}
    BY ProcessFacts, KeptTypes
  <2>2. CASE ProcessDies(p)
    BY <2>1, <2>2, CheckpointConstants DEF ProcessDies
  <2>3. CASE Stop(p)
    BY <2>1, <2>3 DEF Stop, ProcessOK
  <2> QED
    BY <2>2, <2>3
<1>6. ProcessOK(p)'
  BY <1>3, <1>5, QuietProcess
<1>7. schema = "current"
  BY <1>1, CurrentSchema
<1> QED
  BY <1>1, <1>3, <1>4, <1>5, <1>6, <1>7, KeptTypes, QuietStep

-----------------------------------------------------------------------------
(* A trusted transaction. *)

LEMMA BeginKeeps ==
  ASSUME CheckpointInv, NEW p \in Services, NEW t \in Txns, Begin(p, t)
  PROVE  CheckpointInv'
<1>1. /\ writer = Nobody /\ writer' = p /\ doc = db /\ Matches
      /\ t \notin db.root /\ (t \in Webhooks => p \in Apis)
      /\ proc[p].stage # "down"
      /\ proc' = [proc EXCEPT ![p] = [stage |-> "open", txn |-> t]]
      /\ UNCHANGED <<db, doc, schema, failed, acked, backup, bundle, faults>>
  BY DEF Begin, Matches
<1>2. "open" \in Stage /\ t \in Txns \cup {Missing}
  BY DEF Stage
<1>3. /\ proc' \in [Services -> [stage : Stage, txn : Txns \cup {Missing}]]
      /\ proc'[p].stage = "open" /\ proc'[p].txn = t
      /\ \A v \in Services : v # p => proc'[v] = proc[v]
  BY <1>1, <1>2, ProcessReplaced
<1>4. ProcessOK(p)'
  <2>1. Adopted'
    BY <1>1, Snapshots, CurrentSchema DEF Adopted
  <2> QED
    BY <1>1, <1>3, <2>1 DEF ProcessOK, Matches
<1>5. \A v \in Services : v # p => (writer' = v <=> writer = v)
  BY <1>1, CheckpointConstants
<1>6. schema = "current" /\ writer' \in Services \cup {Nobody} /\ faults' \in 0 .. MaxFaults
      /\ failed' \in [Services -> BOOLEAN]
  BY <1>1, CurrentSchema, KeptTypes
<1> QED
  BY <1>1, <1>3, <1>4, <1>5, <1>6, QuietStep

\* In a transaction process p has the lock and an unrecorded transaction.
LEMMA InTheTransaction ==
  ASSUME CheckpointInv, NEW p \in Services, proc[p].stage \in {"open", "published"}
  PROVE  /\ writer = p /\ writer # Nobody /\ Adopted /\ schema = "current"
         /\ Migration \in db.root
         /\ proc[p].txn \in Txns /\ proc[p].txn \notin db.root
         /\ {proc[p].txn} \in SUBSET Rows
         /\ proc[p].stage = "open" => doc = db
         /\ proc[p].stage = "published" => doc = With({proc[p].txn})
         /\ proc[p].txn \in Webhooks => p \in Apis
<1>1. ProcessOK(p) /\ p # Nobody /\ schema = "current" /\ Migration \in db.root
  BY ProcessFacts, CurrentSchema
<1> QED
  BY <1>1, RowsOfTransactions DEF ProcessOK, Matches

LEMMA PublishKeeps ==
  ASSUME CheckpointInv, NEW p \in Services, Publish(p)
  PROVE  CheckpointInv'
<1> DEFINE t == proc[p].txn
<1>1. /\ proc[p].stage = "open" /\ doc' = With({t}) /\ GoTo(p, "published")
      /\ UNCHANGED <<db, schema, writer, failed, acked, backup, bundle, faults>>
  BY DEF Publish
<1>2. "published" \in Stage
  BY DEF Stage
<1>3. /\ proc' \in [Services -> [stage : Stage, txn : Txns \cup {Missing}]]
      /\ proc'[p].stage = "published" /\ proc'[p].txn = t
      /\ \A v \in Services : v # p => proc'[v] = proc[v]
  BY <1>1, <1>2, ProcessMoves
<1>4. /\ writer = p /\ Adopted /\ schema = "current" /\ t \in Txns /\ t \notin db.root
      /\ {t} \in SUBSET Rows /\ (t \in Webhooks => p \in Apis) /\ Migration \in db.root
  BY <1>1, InTheTransaction
<1> HIDE DEF t
<1>5. /\ doc' \in Snapshot /\ doc' # Missing /\ Adopted'
      /\ doc'.seq = db.seq + 1 /\ doc'.root = db.root \cup {t}
  BY <1>1, <1>4, WithRows DEF Adopted
<1>6. Ahead'
  BY <1>1, <1>4, <1>5 DEF Ahead
<1>7. \A v \in Services : ProcessOK(v)'
  <2> SUFFICES ASSUME NEW v \in Services PROVE ProcessOK(v)'
    OBVIOUS
  <2>1. CASE v = p
    BY <1>1, <1>3, <1>4, <1>5, <2>1 DEF ProcessOK, With
  <2>2. CASE v # p
    <3>1. /\ proc[v].stage \in {"down", "serving", "loose"} \/ proc[v].stage = "migrated"
          /\ ProcessOK(v) /\ proc'[v] = proc[v] /\ writer' # v
      BY <1>1, <1>3, <1>4, <2>2, OthersAreQuiet, ProcessFacts
    <3>2. proc[v].stage # "migrated"
      BY <1>4, <3>1 DEF ProcessOK
    <3>3. CASE proc[v].stage = "loose"
      BY <1>5, <1>6, <3>1, <3>3 DEF ProcessOK
    <3>4. CASE proc[v].stage \in {"down", "serving"}
      BY <1>5, <3>1, <3>4, QuietProcess
    <3> QED
      BY <3>1, <3>2, <3>3, <3>4
  <2> QED
    BY <2>1, <2>2
<1>8. MigrationOnce'
  BY <1>1, <1>3, <1>4, NotMigrating
<1>9. acked' \subseteq doc'.root /\ db' \in Snapshot
  BY <1>1, <1>5, KeptTypes, Snapshots
<1> QED
  BY <1>1, <1>3, <1>4, <1>5, <1>7, <1>8, <1>9, KeptTypes, ServiceStep

LEMMA CommitKeeps ==
  ASSUME CheckpointInv, NEW p \in Services, Commit(p)
  PROVE  CheckpointInv'
<1> DEFINE t == proc[p].txn
<1>1. /\ proc[p].stage = "published" /\ db' = With({t}) /\ acked' = acked \cup {t}
      /\ writer' = Nobody /\ GoTo(p, "serving")
      /\ UNCHANGED <<doc, schema, failed, backup, bundle, faults>>
  BY DEF Commit
<1>2. "serving" \in Stage
  BY DEF Stage
<1>3. /\ proc' \in [Services -> [stage : Stage, txn : Txns \cup {Missing}]]
      /\ proc'[p].stage = "serving" /\ \A v \in Services : v # p => proc'[v] = proc[v]
  BY <1>1, <1>2, ProcessMoves
<1>4. /\ writer = p /\ Adopted /\ schema = "current" /\ t \in Txns
      /\ {t} \in SUBSET Rows /\ doc = With({t})
  BY <1>1, InTheTransaction
<1> HIDE DEF t
<1>5. db' \in Snapshot /\ db'.root = db.root \cup {t} /\ doc' = db' /\ Adopted'
  BY <1>1, <1>4, WithRows DEF Adopted
<1>6. \A v \in Services : ProcessOK(v)'
  <2> SUFFICES ASSUME NEW v \in Services PROVE ProcessOK(v)'
    OBVIOUS
  <2>0. writer' # v
    BY <1>1, CheckpointConstants
  <2>1. CASE v = p
    BY <1>3, <1>5, <2>0, <2>1, QuietProcess
  <2>2. CASE v # p
    <3>1. /\ proc[v].stage \in {"down", "serving", "loose"} \/ proc[v].stage = "migrated"
          /\ ProcessOK(v) /\ proc'[v] = proc[v]
      BY <1>3, <1>4, <2>2, OthersAreQuiet, ProcessFacts
    <3>2. proc[v].stage # "migrated"
      BY <1>4, <3>1 DEF ProcessOK
    <3>3. CASE proc[v].stage = "loose"
      BY <1>5, <2>0, <3>1, <3>3 DEF ProcessOK, Matches
    <3>4. CASE proc[v].stage \in {"down", "serving"}
      BY <1>5, <2>0, <3>1, <3>4, QuietProcess
    <3> QED
      BY <3>1, <3>2, <3>3, <3>4
  <2> QED
    BY <2>1, <2>2
<1>7. MigrationOnce'
  BY <1>1, <1>3, <1>4, <1>5, NotMigrating
<1>8. acked' \subseteq db'.root /\ acked' \subseteq Txns /\ db.root \subseteq db'.root
  BY <1>1, <1>4, <1>5, KeptTypes
<1> QED
  BY <1>1, <1>3, <1>5, <1>6, <1>7, <1>8, KeptTypes, ServiceStep

LEMMA RollbackKeeps ==
  ASSUME CheckpointInv, NEW p \in Services, Rollback(p)
  PROVE  CheckpointInv'
<1> DEFINE t == proc[p].txn
           s == IF t \in Webhooks THEN "loose" ELSE "serving"
<1>1. /\ proc[p].stage \in {"open", "published"} /\ faults < MaxFaults
      /\ writer' = Nobody /\ failed' = [failed EXCEPT ![p] = TRUE]
      /\ GoTo(p, s) /\ faults' = faults + 1
      /\ UNCHANGED <<db, doc, schema, acked, backup, bundle>>
  BY DEF Rollback
<1>2. s \in Stage /\ (s = "loose" => t \in Webhooks) /\ s \in {"loose", "serving"}
  BY DEF Stage
<1> HIDE DEF s
<1>3. /\ proc' \in [Services -> [stage : Stage, txn : Txns \cup {Missing}]]
      /\ proc'[p].stage = s /\ proc'[p].txn = t
      /\ \A v \in Services : v # p => proc'[v] = proc[v]
  BY <1>1, <1>2, ProcessMoves
<1>4. /\ writer = p /\ Adopted /\ Adopted' /\ schema = "current"
      /\ t \in Txns /\ t \notin db.root
      /\ {t} \in SUBSET Rows /\ (t \in Webhooks => p \in Apis)
      /\ doc = db \/ doc = With({t})
  BY <1>1, InTheTransaction DEF Adopted
<1> HIDE DEF t
<1>5. Matches' \/ Ahead'
  <2>1. CASE doc = db
    BY <1>1, <2>1 DEF Matches
  <2>2. CASE doc = With({t})
    <3>1. doc.seq = db.seq + 1 /\ doc.root = db.root \cup {t}
      BY <1>4, <2>2, WithRows
    <3> QED
      BY <1>1, <1>4, <3>1 DEF Ahead, Adopted
  <2> QED
    BY <1>4, <2>1, <2>2
<1>6. ProcessOK(p)'
  <2>1. writer' # p
    BY <1>1, CheckpointConstants
  <2> QED
    BY <1>1, <1>2, <1>3, <1>4, <1>5, <2>1 DEF ProcessOK
<1>7. \A v \in Services : v # p => (writer' = v <=> writer = v)
  BY <1>1, <1>4, CheckpointConstants
<1>8. failed' \in [Services -> BOOLEAN] /\ faults' \in 0 .. MaxFaults
  BY <1>1, KeptTypes
<1> QED
  BY <1>1, <1>2, <1>3, <1>4, <1>6, <1>7, <1>8, QuietStep

LEMMA NoteFailureKeeps ==
  ASSUME CheckpointInv, NEW p \in Services, NoteFailure(p)
  PROVE  CheckpointInv'
<1> DEFINE t == proc[p].txn
<1>1. /\ proc[p].stage = "loose" /\ writer = Nobody /\ db' = With({Failure(t)})
      /\ GoTo(p, "republish")
      /\ UNCHANGED <<doc, schema, writer, failed, acked, backup, bundle, faults>>
  BY DEF NoteFailure
<1>2. "republish" \in Stage
  BY DEF Stage
<1>3. /\ proc' \in [Services -> [stage : Stage, txn : Txns \cup {Missing}]]
      /\ proc'[p].stage = "republish" /\ proc'[p].txn = t
      /\ \A v \in Services : v # p => proc'[v] = proc[v]
  BY <1>1, <1>2, ProcessMoves
<1>4. /\ t \in Webhooks /\ p \in Apis /\ Adopted /\ Adopted' /\ (Matches \/ Ahead)
      /\ schema = "current"
  BY <1>1, ProcessFacts, CurrentSchema DEF ProcessOK, Adopted
<1> HIDE DEF t
<1>5. /\ db' \in Snapshot /\ db'.seq = db.seq + 1 /\ db'.root = db.root \cup {Failure(t)}
      /\ Failure(t) \notin Txns /\ db.seq \in Nat
  BY <1>1, <1>4, RowsOfTransactions, WithRows, DistinctRows, Snapshots
<1>6. doc' # db'
  <2>1. CASE Matches
    BY <1>1, <1>5, <2>1 DEF Matches
  <2>2. CASE Ahead
    BY <1>1, <1>5, <2>2 DEF Ahead
  <2> QED
    BY <1>4, <2>1, <2>2
<1>7. \A v \in Services : ProcessOK(v)'
  <2> SUFFICES ASSUME NEW v \in Services PROVE ProcessOK(v)'
    OBVIOUS
  <2>0. writer' # v /\ writer' = Nobody
    BY <1>1, CheckpointConstants
  <2>1. CASE v = p
    BY <1>1, <1>3, <1>4, <1>6, <2>0, <2>1 DEF ProcessOK, Matches
  <2>2. CASE v # p
    <3>1. proc'[v] = proc[v] /\ proc[v].stage \in {"down", "serving"}
      BY <1>1, <1>3, <2>2, OneNotes
    <3> QED
      BY <1>1, <1>4, <2>0, <3>1, QuietProcess
  <2> QED
    BY <2>1, <2>2
<1>8. MigrationOnce'
  BY <1>1, <1>3, <1>4, <1>5, NotMigrating
<1>9. acked' \subseteq db'.root /\ db.root \subseteq db'.root
      /\ doc' \in Snapshot \cup {Missing}
  BY <1>1, <1>5, KeptTypes, Snapshots
<1> QED
  BY <1>1, <1>3, <1>5, <1>7, <1>8, <1>9, KeptTypes, ServiceStep

LEMMA RepublishKeeps ==
  ASSUME CheckpointInv, NEW p \in Services, Republish(p)
  PROVE  CheckpointInv'
<1>1. /\ proc[p].stage = "republish" /\ GoTo(p, "serving")
      /\ doc' = db \/ doc' = doc
      /\ UNCHANGED <<db, schema, writer, failed, acked, backup, bundle>>
  BY DEF Republish
<1>2. "serving" \in Stage
  BY DEF Stage
<1>3. /\ proc' \in [Services -> [stage : Stage, txn : Txns \cup {Missing}]]
      /\ proc'[p].stage = "serving" /\ \A v \in Services : v # p => proc'[v] = proc[v]
  BY <1>1, <1>2, ProcessMoves
<1>4. Adopted /\ schema = "current" /\ Migration \in db.root /\ writer = Nobody
  BY <1>1, ProcessFacts, CurrentSchema DEF ProcessOK
<1>5. Adopted' /\ doc' \in Snapshot \cup {Missing} /\ db' \in Snapshot
  BY <1>1, <1>4, Snapshots DEF Adopted
<1>6. \A v \in Services : ProcessOK(v)'
  <2> SUFFICES ASSUME NEW v \in Services PROVE ProcessOK(v)'
    OBVIOUS
  <2>0. writer' # v
    BY <1>1, <1>4, CheckpointConstants
  <2>1. CASE v = p
    BY <1>3, <1>5, <2>0, <2>1, QuietProcess
  <2>2. CASE v # p
    <3>1. proc'[v] = proc[v] /\ proc[v].stage \in {"down", "serving"}
      BY <1>1, <1>3, <1>4, <2>2, OneNotes
    <3> QED
      BY <1>5, <2>0, <3>1, QuietProcess
  <2> QED
    BY <2>1, <2>2
<1>7. MigrationOnce'
  BY <1>1, <1>3, <1>4, NotMigrating
<1>8. faults' \in 0 .. MaxFaults
  BY KeptTypes DEF Republish
<1>9. acked' \subseteq db'.root /\ acked' \subseteq doc'.root
  BY <1>1, <1>4, KeptTypes DEF Adopted
<1> QED
  BY <1>1, <1>3, <1>4, <1>5, <1>6, <1>7, <1>8, <1>9, KeptTypes, ServiceStep

-----------------------------------------------------------------------------
(* Backup and restore. *)

\* What a backup may hold.
BackupState == [stage : {"idle", "copy", "verify"}, attempt : Nat,
                before : Snapshot \cup {Missing}, copy : Snapshot \cup {Missing},
                owed : SUBSET Txns]

\* A step of the backup alone.
LEMMA BackupStep ==
  ASSUME CheckpointInv, UNCHANGED <<db, doc, schema, writer, proc, failed, acked, faults>>,
         backup' \in BackupState, CopyIsPast', BundleIsOneCommit',
         bundle' = bundle \/ (schema = "current" /\ Migration \in bundle'.db.root),
         bundle' \in [db : Snapshot, doc : Snapshot \cup {Missing}, owed : SUBSET Txns]
                       \cup {Missing}
  PROVE  CheckpointInv'
<1>1. CheckpointTypeOK'
  BY DEF CheckpointInv, CheckpointTypeOK, BackupState
<1>2. \A v \in Services : ProcessOK(v)'
  <2> SUFFICES ASSUME NEW v \in Services PROVE ProcessOK(v)'
    OBVIOUS
  <2>1. ProcessOK(v)
    BY ProcessFacts
  <2>2. proc[v].stage = "republish" => writer' = Nobody
    BY <2>1 DEF ProcessOK
  <2> QED
    BY <2>1, <2>2, SameFiles
<1>3. MigrationOnce'
  <2>1. MigrationOnce /\ (Adopted' <=> Adopted)
    BY DEF CheckpointInv, Adopted
  <2>2. CASE bundle' = bundle
    BY <2>1, <2>2 DEF MigrationOnce
  <2>3. CASE schema = "current" /\ Migration \in bundle'.db.root
    BY <2>1, <2>3 DEF MigrationOnce
  <2> QED
    BY <2>2, <2>3
<1> QED
  BY <1>1, <1>2, <1>3 DEF CheckpointInv

\* A copy that begins, or begins again.
LEMMA CopyBegins ==
  ASSUME NEW n \in Nat, doc \in Snapshot \cup {Missing}
  PROVE  LET b == [NoBackup EXCEPT !.stage = "copy", !.attempt = n, !.before = doc]
         IN  b \in BackupState /\ b.stage = "copy"
BY DEF NoBackup, BackupState

LEMMA NoBackupType == NoBackup \in BackupState /\ NoBackup.stage = "idle"
BY DEF NoBackup, BackupState

LEMMA BackupKeeps ==
  ASSUME CheckpointInv, BeginBackup \/ CopyDatabase \/ PublishBundle \/ RetryBackup
  PROVE  CheckpointInv'
<1>1. UNCHANGED <<db, doc, schema, writer, proc, failed, acked, faults>>
  BY DEF BeginBackup, CopyDatabase, PublishBundle, RetryBackup
<1>2. /\ backup \in BackupState /\ doc \in Snapshot \cup {Missing} /\ db \in Snapshot
      /\ db # Missing /\ acked \subseteq Txns /\ acked \subseteq db.root
      /\ bundle \in [db : Snapshot, doc : Snapshot \cup {Missing}, owed : SUBSET Txns]
                      \cup {Missing}
      /\ MigrationOnce /\ CopyIsPast /\ BundleIsOneCommit
  BY Snapshots DEF CheckpointInv, CheckpointTypeOK, BackupState
<1>3. CASE BeginBackup
  <2>1. backup' \in BackupState /\ backup'.stage = "copy" /\ bundle' = bundle
    BY <1>2, <1>3, CopyBegins DEF BeginBackup
  <2>2. CopyIsPast' /\ BundleIsOneCommit'
    BY <1>1, <1>2, <2>1 DEF CopyIsPast, BundleIsOneCommit
  <2> QED
    BY <1>1, <1>2, <2>1, <2>2, BackupStep
<1>4. CASE CopyDatabase
  <2>1. backup' = [backup EXCEPT !.stage = "verify", !.copy = db, !.owed = acked]
        /\ bundle' = bundle
    BY <1>4 DEF CopyDatabase
  <2>2. backup' \in BackupState /\ backup'.copy = db /\ backup'.owed = acked
    BY <1>2, <2>1 DEF BackupState
  <2>3. CopyIsPast' /\ BundleIsOneCommit'
    BY <1>1, <1>2, <2>1, <2>2 DEF CopyIsPast, BundleIsOneCommit
  <2> QED
    BY <1>1, <1>2, <2>1, <2>2, <2>3, BackupStep
<1>5. CASE PublishBundle
  <2>1. /\ backup.stage = "verify" /\ backup.before = backup.copy /\ backup' = NoBackup
        /\ bundle' = [db |-> backup.copy, doc |-> backup.before, owed |-> backup.owed]
    BY <1>5 DEF PublishBundle, BackupMatches
  <2>2. /\ backup.copy \in Snapshot /\ backup.before \in Snapshot \cup {Missing}
        /\ backup.owed \in SUBSET Txns
        /\ backup.copy.root \subseteq db.root /\ backup.owed \subseteq backup.copy.root
    BY <1>2, <2>1 DEF CopyIsPast, BackupState
  <2>3. bundle' \in [db : Snapshot, doc : Snapshot \cup {Missing}, owed : SUBSET Txns]
    BY <2>1, <2>2
  <2>4. bundle'.db = backup.copy /\ bundle'.doc = backup.copy /\ bundle'.owed = backup.owed
    BY <2>1
  <2>5. BundleIsOneCommit'
    BY <1>1, <2>2, <2>4 DEF BundleIsOneCommit
  <2>6. backup' \in BackupState /\ CopyIsPast'
    BY <2>1, NoBackupType DEF CopyIsPast
  <2>7. schema = "current" /\ Migration \in bundle'.db.root
    BY <1>2, <1>5, <2>2, <2>4 DEF PublishBundle, BackupMatches, MigrationOnce
  <2> QED
    BY <1>1, <2>3, <2>5, <2>6, <2>7, BackupStep
<1>6. CASE RetryBackup
  <2>1. bundle' = bundle
        /\ \/ backup' = NoBackup
           \/ backup' = [NoBackup EXCEPT !.stage = "copy", !.attempt = backup.attempt + 1,
                                         !.before = doc]
    BY <1>6 DEF RetryBackup
  <2>2. backup.attempt + 1 \in Nat
    BY <1>2 DEF BackupState
  <2>3. backup' \in BackupState /\ backup'.stage # "verify"
    BY <1>2, <2>1, <2>2, CopyBegins, NoBackupType
  <2>4. CopyIsPast' /\ BundleIsOneCommit'
    BY <1>1, <1>2, <2>1, <2>3 DEF CopyIsPast, BundleIsOneCommit
  <2> QED
    BY <1>1, <1>2, <2>1, <2>3, <2>4, BackupStep
<1> QED
  BY <1>3, <1>4, <1>5, <1>6

LEMMA RestoreKeeps ==
  ASSUME CheckpointInv, Restore
  PROVE  CheckpointInv'
<1>1. /\ \A v \in Services : proc[v].stage = "down"
      /\ backup = NoBackup /\ bundle # Missing /\ bundle.doc = bundle.db
      /\ db' = bundle.db /\ doc' = bundle.db /\ acked' = bundle.owed
      /\ UNCHANGED <<schema, writer, proc, failed, backup, bundle, faults>>
  BY DEF Restore, Restorable
<1>2. /\ bundle \in [db : Snapshot, doc : Snapshot \cup {Missing}, owed : SUBSET Txns]
      /\ bundle.owed \subseteq bundle.db.root /\ MigrationOnce
  BY <1>1 DEF CheckpointInv, CheckpointTypeOK, BundleIsOneCommit
<1>3. CheckpointTypeOK'
  BY <1>1, <1>2 DEF CheckpointInv, CheckpointTypeOK
<1>4. \A v \in Services : ProcessOK(v)'
  <2> SUFFICES ASSUME NEW v \in Services PROVE ProcessOK(v)'
    OBVIOUS
  <2>1. ProcessOK(v)
    BY ProcessFacts
  <2>2. writer' # v
    BY <1>1, <2>1 DEF ProcessOK
  <2> QED
    BY <1>1, <2>2, QuietProcess
<1>5. MigrationOnce'
  <2>1. schema = "current" /\ Migration \in bundle.db.root
    BY <1>1, <1>2 DEF MigrationOnce
  <2> QED
    BY <1>1, <1>2, <2>1 DEF MigrationOnce
<1>6. CopyIsPast'
  BY <1>1, NoBackupType DEF CopyIsPast
<1>7. BundleIsOneCommit'
  BY <1>1, <1>2 DEF BundleIsOneCommit
<1> QED
  BY <1>1, <1>2, <1>3, <1>4, <1>5, <1>6, <1>7 DEF CheckpointInv

-----------------------------------------------------------------------------
LEMMA CheckpointInitially == CheckpointInit => CheckpointInv
<1> SUFFICES ASSUME CheckpointInit PROVE CheckpointInv
  OBVIOUS
<1>1. PICK done \in SUBSET Txns : db = [seq |-> 0, root |-> done] /\ acked = done
  BY DEF CheckpointInit
<1>2. db \in Snapshot /\ db.root = done /\ db.root \subseteq Txns /\ done \subseteq Rows
  BY <1>1 DEF Snapshot, Rows
<1>3. \/ doc = Missing
      \/ doc = db
      \/ \E t \in Txns : doc = With({t})
  BY DEF CheckpointInit
<1>4. /\ doc \in Snapshot \cup {Missing} /\ ~Adopted
      /\ doc # Missing => acked \subseteq doc.root
  <2>1. CASE doc = Missing
    BY <2>1 DEF Adopted
  <2>2. CASE doc = db
    BY <1>1, <1>2, <2>2, DistinctRows DEF Adopted
  <2>3. ASSUME NEW t \in Txns, doc = With({t})
        PROVE  doc \in Snapshot /\ doc.root = done \cup {t}
    BY <1>1, <2>3 DEF With, Snapshot, Rows
  <2>4. ASSUME NEW t \in Txns, doc = With({t})
        PROVE  doc \in Snapshot /\ ~Adopted /\ acked \subseteq doc.root
    BY <1>1, <1>2, <2>3, <2>4, DistinctRows DEF Adopted
  <2> QED
    BY <1>3, <2>1, <2>2, <2>4, <1>2
<1>5. proc \in [Services -> [stage : Stage, txn : Txns \cup {Missing}]]
  BY DEF CheckpointInit, Stage
<1>6. CheckpointTypeOK
  BY <1>1, <1>2, <1>4, <1>5, NoBackupType, CheckpointConstants
     DEF CheckpointInit, CheckpointTypeOK, BackupState
<1>7. \A p \in Services : ProcessOK(p)
  BY CheckpointConstants DEF CheckpointInit, ProcessOK
<1>8. MigrationOnce
  BY <1>2, <1>4, DistinctRows DEF CheckpointInit, MigrationOnce
<1>9. CopyIsPast
  BY NoBackupType DEF CheckpointInit, CopyIsPast
<1> QED
  BY <1>1, <1>2, <1>4, <1>6, <1>7, <1>8, <1>9
     DEF CheckpointInit, CheckpointInv, BundleIsOneCommit

LEMMA CheckpointStep == CheckpointInv /\ [CheckpointNext]_checkpointVars => CheckpointInv'
<1> SUFFICES ASSUME CheckpointInv, [CheckpointNext]_checkpointVars PROVE CheckpointInv'
  OBVIOUS
<1>1. ASSUME NEW p \in Services, Migrate(p) \/ Adopt(p) \/ StartVerified(p) \/ Stop(p)
      PROVE  CheckpointInv'
  BY <1>1, MigrateKeeps, AdoptKeeps, StartVerifiedKeeps, DownKeeps
<1>2. ASSUME NEW p \in Services, NEW t \in Txns, Begin(p, t) PROVE CheckpointInv'
  BY <1>2, BeginKeeps
<1>3. ASSUME NEW p \in Services, Publish(p) \/ Commit(p) \/ Rollback(p) PROVE CheckpointInv'
  BY <1>3, PublishKeeps, CommitKeeps, RollbackKeeps
<1>4. ASSUME NEW p \in Services, NoteFailure(p) \/ Republish(p) \/ ProcessDies(p)
      PROVE  CheckpointInv'
  BY <1>4, NoteFailureKeeps, RepublishKeeps, DownKeeps
<1>5. CASE BeginBackup \/ CopyDatabase \/ PublishBundle \/ RetryBackup
  BY <1>5, BackupKeeps
<1>6. CASE Restore
  BY <1>6, RestoreKeeps
<1>7. CASE UNCHANGED checkpointVars
  <2>1. CheckpointTypeOK' /\ MigrationOnce' /\ CopyIsPast' /\ BundleIsOneCommit'
    BY <1>7 DEF checkpointVars, CheckpointInv, CheckpointTypeOK, MigrationOnce, Adopted,
       CopyIsPast, BundleIsOneCommit
  <2>2. \A v \in Services : ProcessOK(v)'
    <3> SUFFICES ASSUME NEW v \in Services PROVE ProcessOK(v)'
      OBVIOUS
    <3>1. ProcessOK(v)
      BY ProcessFacts
    <3> QED
      BY <1>7, <3>1 DEF checkpointVars, ProcessOK, Matches, Ahead, Adopted, With
  <2> QED
    BY <1>7, <2>1, <2>2 DEF checkpointVars, CheckpointInv
<1> QED
  BY <1>1, <1>2, <1>3, <1>4, <1>5, <1>6, <1>7 DEF CheckpointNext

\* The inductive invariant of the checkpoint holds in every reachable state
\* (service.py, ops.py), for any number of processes and transactions, as long
\* as one process serves the webhook route.
THEOREM CheckpointInvariant == CheckpointSpec => []CheckpointInv
BY CheckpointInitially, CheckpointStep, PTL DEF CheckpointSpec

\* _commit_trusted, _apply_whop_event: what a caller was told is in the
\* database and in the file that authenticates it, in every reachable state.
THEOREM AckedAreCheckpointed == CheckpointSpec => []AckedIsCheckpointed
<1>1. CheckpointInv => AckedIsCheckpointed
  <2> SUFFICES ASSUME CheckpointInv PROVE AckedIsCheckpointed
    OBVIOUS
  <2>1. ASSUME NEW p \in Services
        PROVE  /\ proc[p].stage = "open" => writer = p /\ Matches
               /\ proc[p].stage = "published" => writer = p /\ doc = With({proc[p].txn})
    BY ProcessFacts DEF ProcessOK
  <2> QED
    BY <2>1 DEF CheckpointInv, AckedIsCheckpointed
<1> QED
  BY <1>1, CheckpointInvariant, PTL

\* backup_pair: every published bundle is one commit of the ledger and holds
\* what was acknowledged before it was copied.
THEOREM BundlesAreOneCommit == CheckpointSpec => []BundleIsOneCommit
<1>1. CheckpointInv => BundleIsOneCommit
  BY DEF CheckpointInv
<1> QED
  BY <1>1, CheckpointInvariant, PTL

\* _commit_trusted, _init, _verify_legacy_v5_checkpoint: once file and
\* database are apart and nobody is between the two halves of a commit, no
\* step writes either of them but a restore and the migration of an older
\* schema; and no migration adopts rows of a version 5 ledger that its file
\* does not authenticate.
THEOREM ChecksFailClosed == CheckpointSpec => FailClosed
<1> DEFINE Blessed == (schema = "v5" => db.root = {}) /\ \E p \in Services : Migrate(p)
<1>1. ASSUME CheckpointInv, [CheckpointNext]_checkpointVars, ~Matches, ~Committing, ~Restore,
             ~Blessed
      PROVE  UNCHANGED <<db, doc>>
  <2>1. ASSUME NEW p \in Services PROVE ~Publish(p)
    <3>1. proc[p].stage # "open"
      BY <1>1, ProcessFacts DEF ProcessOK
    <3> QED
      BY <3>1 DEF Publish
  <2>2. ASSUME NEW p \in Services
        PROVE  ~Adopt(p) /\ ~Commit(p) /\ ~NoteFailure(p) /\ ~Republish(p)
    BY <1>1 DEF Committing, Adopt, Commit, NoteFailure, Republish
  <2>3. ASSUME NEW p \in Services PROVE ~Migrate(p)
    <3>1. Migrate(p) => (schema = "v5" => db.root = {})
      BY <1>1 DEF Migrate, LegacyVerified
    <3> QED
      BY <1>1, <3>1
  <2>4. CASE UNCHANGED checkpointVars
    BY <2>4 DEF checkpointVars
  <2>5. CASE CheckpointNext
    BY <1>1, <2>1, <2>2, <2>3, <2>5 DEF CheckpointNext, StartVerified, Stop, Begin, Rollback,
       ProcessDies, BeginBackup, CopyDatabase, PublishBundle, RetryBackup
  <2> QED
    BY <1>1, <2>4, <2>5
<1>2. CheckpointInv /\ [CheckpointNext]_checkpointVars =>
        [~Matches /\ ~Committing => UNCHANGED <<db, doc>> \/ Restore \/ Blessed]_checkpointVars
  BY <1>1
<1> QED
  BY <1>2, CheckpointInvariant, PTL DEF CheckpointSpec, FailClosed
=============================================================================
