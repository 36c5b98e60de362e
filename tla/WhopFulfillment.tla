-------------------------- MODULE WhopFulfillment --------------------------
(***************************************************************************)
(* The fulfilment of Whop purchases                                        *)
(* (services/payments/growthmap_payments/whop_fulfillment.py and           *)
(* whop_buyer_api.py): worker processes read batches of verified webhooks, *)
(* grant or revoke the licence of the payment at the Authority while they  *)
(* hold SQLite's writer lock, and mark the webhook in a transaction of its *)
(* own; buyers turn a granted row into an activation challenge.  Webhooks  *)
(* arrive in any order and more than once, batches of two processes        *)
(* overlap, Authority calls fail after they took effect, and a process may *)
(* die between any two steps.                                              *)
(***************************************************************************)
EXTENDS Naturals, FiniteSets

CONSTANTS Payments,     \* provider payment ids
          Webhooks,     \* webhook ids; a webhook's payload digest is its id
          Contents,     \* what each webhook may say
          Workers,      \* rows that workers can be busy with at a time
          None,         \* no webhook, no holder of the lock
          EarlyLimit,   \* EARLY_LIMIT
          MaxAttempts,  \* MAX_ATTEMPTS
          MaxFaults     \* bound on crashes and on timeouts of the lock

Reversal == {"refund", "dispute"}

\* "other" is an unsupported type, "invalid" a payload that parse_event or
\* _validate_semantics refuses for good.
Kind == {"payment", "other", "invalid"} \cup Reversal

\* PRODUCTS: a product and its plan make a tier.
Tier == {"early", "standard"}

\* user is whop_user_id, and whatever else a payment's _canonical_event_digest
\* covers beside the product and the plan.
Content == [kind : Kind, payment : Payments, tier : Tier, user : {"one", "other"}]

ASSUME FulfillmentConstants ==
  /\ Contents \in [Webhooks -> SUBSET Content]
  /\ None \notin Webhooks \cup Workers \cup Payments
  /\ EarlyLimit \in Nat /\ MaxAttempts \in Nat \ {0} /\ MaxFaults \in Nat

VARIABLES inbox,      \* the ingress database: one row per webhook
          row,        \* whop_fulfillments, by payment
          authority,  \* external_entitlements and external_revocations
          lock,       \* the worker in a BEGIN IMMEDIATE transaction
          worker,     \* the webhook each worker is busy with
          buyer,      \* a buyer's request for an activation challenge
          faults

vars == <<inbox, row, authority, lock, worker, buyer, faults>>

-----------------------------------------------------------------------------
\* attempts and due are the row of whop_fulfillment_attempts; fresh tells
\* whether the event is less than a day old.
Inbox == [status : {"none", "verified_pending", "processed", "rejected"},
          kind : Kind, payment : Payments \cup {None}, tier : Tier, user : {"one", "other"},
          attempts : Nat, due : BOOLEAN, fresh : BOOLEAN]

\* by is grant_webhook_id.  A row in state granting is never committed.
Row == [state : {"absent", "granted", "revoked"}, by : Webhooks \cup {None},
        tier : Tier \cup {None}]

\* The webhook whose payload digest the licence, and whose event the
\* revocation, is bound to.
Authority == [licence : Webhooks \cup {None}, revocation : Webhooks \cup {None}]

\* read is the attempts that were selected with the webhook, never refreshed.
Worker == [pc : {"idle", "begin", "create", "ack", "revoke", "revack",
                 "finish", "retry", "reject"},
           webhook : Webhooks \cup {None}, read : Nat]

Idle == [pc |-> "idle", webhook |-> None, read |-> 0]

\* What the buyer has got: nothing, the licence of a payment, a challenge.
Buyer == [got : {"nothing", "licence", "challenge"}, payment : Payments \cup {None}]

Init ==
  /\ inbox = [w \in Webhooks |-> [status |-> "none", kind |-> "other", payment |-> None,
                                  tier |-> "standard", user |-> "one",
                                  attempts |-> 0, due |-> TRUE, fresh |-> TRUE]]
  /\ row = [p \in Payments |-> [state |-> "absent", by |-> None, tier |-> None]]
  /\ authority = [p \in Payments |-> [licence |-> None, revocation |-> None]]
  /\ lock = None
  /\ worker = [k \in Workers |-> Idle]
  /\ buyer = [got |-> "nothing", payment |-> None]
  /\ faults = 0

-----------------------------------------------------------------------------
(* Ingress and time. *)

\* The ingress process, which is not part of the repository, stores a verified
\* webhook.
Receive(w, c) ==
  /\ inbox[w].status = "none"
  /\ inbox' = [inbox EXCEPT ![w].status = "verified_pending", ![w].kind = c.kind,
                            ![w].payment = c.payment, ![w].tier = c.tier, ![w].user = c.user]
  /\ UNCHANGED <<row, authority, lock, worker, buyer, faults>>

BackoffEnds(w) ==
  /\ inbox[w].status = "verified_pending" /\ ~inbox[w].due
  /\ inbox' = [inbox EXCEPT ![w].due = TRUE]
  /\ UNCHANGED <<row, authority, lock, worker, buyer, faults>>

DayPasses(w) ==
  /\ inbox[w].status = "verified_pending" /\ inbox[w].kind \in Reversal /\ inbox[w].fresh
  /\ inbox' = [inbox EXCEPT ![w].fresh = FALSE]
  /\ UNCHANGED <<row, authority, lock, worker, buyer, faults>>

-----------------------------------------------------------------------------
(* run_once.  The rows of a batch are read together and handled one after  *)
(* the other; each of them is a worker of its own here, which lets more    *)
(* happen than the loop does: what was read may be long out of date.       *)

\* _validate_semantics: types that are not supported are marked without a look
\* inside; a payload that does not name this company, product, price and status
\* is refused for good.
FirstStage(kind) == CASE kind = "other" -> "finish"
                      [] kind = "invalid" -> "reject"
                      [] OTHER -> "begin"

\* The row is verified, not yet dealt with, and due.
Select(k, w) ==
  /\ worker[k].pc = "idle"
  /\ inbox[w].status = "verified_pending" /\ inbox[w].due
  /\ worker' = [worker EXCEPT ![k] =
                  [pc |-> FirstStage(inbox[w].kind), webhook |-> w, read |-> inbox[w].attempts]]
  /\ UNCHANGED <<inbox, row, authority, lock, buyer, faults>>

Current(k) == worker[k].webhook
Payment(k) == inbox[Current(k)].payment

GoTo(k, pc) == worker' = [worker EXCEPT ![k].pc = pc]

Done(k) == worker' = [worker EXCEPT ![k] = Idle]

\* A reversal names the product and plan of the payment's row ...
SamePlan(k) == row[Payment(k)].tier = inbox[Current(k)].tier

\* ... and a second payment event agrees with everything the row's
\* commercial_digest covers.
SameDigest(k) == SamePlan(k) /\ inbox[row[Payment(k)].by].user = inbox[Current(k)].user

\* A retryable error: the eighth one rejects the webhook.
RetryOrReject(k) == IF worker[k].read + 1 >= MaxAttempts THEN "reject" ELSE "retry"

-----------------------------------------------------------------------------
(* _grant and _revoke: one transaction that spans the Authority calls. *)

\* Mutant of EarlyTaken: a refunded early payment gives its place back.
EarlyTakenGranted == {p \in Payments : row[p].state = "granted" /\ row[p].tier = "early"}

\* The early allocations that count, the revoked ones included.
EarlyTaken == {p \in Payments : row[p].state # "absent" /\ row[p].tier = "early"}

\* An error inside the transaction rolls it back.
RollBack(k, pc) ==
  /\ GoTo(k, pc)
  /\ lock' = None
  /\ UNCHANGED <<inbox, row, authority, buyer, faults>>

BeginGrant(k) ==
  LET p == Payment(k)
  IN  /\ worker[k].pc = "begin" /\ inbox[Current(k)].kind = "payment"
      /\ lock = None
      /\ CASE row[p].state # "absent" /\ SameDigest(k) -> RollBack(k, "finish")
           [] row[p].state # "absent" /\ ~SameDigest(k) -> RollBack(k, "reject")
           [] row[p].state = "absent" /\ inbox[Current(k)].tier = "early"
                /\ Cardinality(EarlyTaken) >= EarlyLimit -> RollBack(k, "reject")
           [] OTHER -> /\ lock' = k
                       /\ GoTo(k, "create")
                       /\ UNCHANGED <<inbox, row, authority, buyer, faults>>

\* Mutant of BeginRevoke: a reversal of an unknown payment is taken as done.
BeginRevokeIgnoringUnknown(k) ==
  LET p == Payment(k)
  IN  /\ worker[k].pc = "begin" /\ inbox[Current(k)].kind \in Reversal
      /\ lock = None
      /\ IF row[p].state # "granted"
         THEN RollBack(k, "finish")
         ELSE /\ lock' = k
              /\ GoTo(k, "revoke")
              /\ UNCHANGED <<inbox, row, authority, buyer, faults>>

BeginRevoke(k) ==
  LET p == Payment(k)
  IN  /\ worker[k].pc = "begin" /\ inbox[Current(k)].kind \in Reversal
      /\ lock = None
      /\ CASE row[p].state = "absent" -> RollBack(k, RetryOrReject(k))
           [] row[p].state # "absent" /\ ~SamePlan(k) -> RollBack(k, "reject")
           [] row[p].state = "revoked" /\ SamePlan(k) -> RollBack(k, "finish")
           [] OTHER -> /\ lock' = k
                       /\ GoTo(k, "revoke")
                       /\ UNCHANGED <<inbox, row, authority, buyer, faults>>

\* The writer lock stays taken for longer than the busy timeout: the error is
\* retryable where run_once catches it and ends the process elsewhere.
LockTimeout(k) ==
  LET caught == \/ worker[k].pc = "begin"
                \/ worker[k].pc = "finish" /\ inbox[Current(k)].kind # "other"
  IN  /\ worker[k].pc \in {"begin", "finish", "retry", "reject"}
      /\ lock \notin {None, k} /\ faults < MaxFaults
      /\ IF caught THEN GoTo(k, RetryOrReject(k)) ELSE Done(k)
      /\ faults' = faults + 1
      /\ UNCHANGED <<inbox, row, authority, lock, buyer>>

\* A signed request to the Authority: it is not delivered, or it has its
\* effect, and in both cases the worker may see nothing but a failure.
Reaches(effect) == authority' \in {authority, effect}

\* create_external_entitlement answers a repetition of the same payload and
\* refuses another payload for the same payment.
Licensed(p, w) == [authority EXCEPT ![p].licence = IF @ = None THEN w ELSE @]

\* The call succeeds, or raises although it may have taken effect.
Create(k) ==
  LET p == Payment(k)  w == Current(k)
  IN  /\ worker[k].pc = "create"
      /\ Reaches(Licensed(p, w))
      /\ UNCHANGED <<inbox, row, buyer, faults>>
      /\ \/ /\ authority'[p].licence = w
            /\ GoTo(k, "ack")
            /\ UNCHANGED lock
         \/ /\ GoTo(k, RetryOrReject(k))
            /\ lock' = None

\* Mutant of Acknowledge: the row is committed without the readback.
AcknowledgeUnread(k) ==
  LET p == Payment(k)
  IN  /\ worker[k].pc \in {"create", "ack"}
      /\ row' = [row EXCEPT ![p] = [state |-> "granted", by |-> Current(k),
                                     tier |-> inbox[Current(k)].tier]]
      /\ lock' = None
      /\ GoTo(k, "finish")
      /\ UNCHANGED <<inbox, authority, buyer, faults>>

\* The readback names the licence, and the row is committed as granted.
Acknowledge(k) ==
  LET p == Payment(k)
  IN  /\ worker[k].pc = "ack"
      /\ \/ /\ row' = [row EXCEPT ![p] = [state |-> "granted", by |-> Current(k),
                                           tier |-> inbox[Current(k)].tier]]
            /\ lock' = None
            /\ GoTo(k, "finish")
            /\ UNCHANGED <<inbox, authority, buyer, faults>>
         \/ RollBack(k, RetryOrReject(k))

\* revoke_external_entitlement: the recorded event is answered again, another
\* event of the same payment is a contradiction, and a first one must be
\* fresh.
RevokedBy(p, w) ==
  [authority EXCEPT ![p].revocation = IF @ = None /\ inbox[w].fresh THEN w ELSE @]

Revoke(k) ==
  LET p == Payment(k)  w == Current(k)
  IN  /\ worker[k].pc = "revoke"
      /\ Reaches(RevokedBy(p, w))
      /\ UNCHANGED <<inbox, row, buyer, faults>>
      /\ \/ /\ authority'[p].revocation = w
            /\ GoTo(k, "revack")
            /\ UNCHANGED lock
         \/ /\ GoTo(k, RetryOrReject(k))
            /\ lock' = None

AcknowledgeRevocation(k) ==
  /\ worker[k].pc = "revack"
  /\ \/ /\ row' = [row EXCEPT ![Payment(k)].state = "revoked"]
        /\ lock' = None
        /\ GoTo(k, "finish")
        /\ UNCHANGED <<inbox, authority, buyer, faults>>
     \/ RollBack(k, RetryOrReject(k))

-----------------------------------------------------------------------------
(* The webhook's own transaction. *)

\* _finish: the webhook is marked, unless another worker did so meanwhile;
\* for an unsupported type that error ends the process, elsewhere it counts
\* as a failure.
Finish(k) ==
  LET w == Current(k)
  IN  /\ worker[k].pc = "finish" /\ lock = None
      /\ IF inbox[w].status = "verified_pending"
         THEN /\ inbox' = [inbox EXCEPT ![w].status = "processed", ![w].attempts = 0]
              /\ Done(k)
         ELSE /\ IF inbox[w].kind = "other"
                 THEN worker' = [worker EXCEPT ![k] = Idle]
                 ELSE GoTo(k, RetryOrReject(k))
              /\ UNCHANGED inbox
      /\ UNCHANGED <<row, authority, lock, buyer, faults>>

\* _fail: the attempts read with the batch plus one, a delay, and, for a
\* permanent error or the last attempt, the rejection.
Fail(k) ==
  LET w == Current(k)
      pending == inbox[w].status = "verified_pending"
  IN  /\ worker[k].pc \in {"retry", "reject"} /\ lock = None
      /\ inbox' = [inbox EXCEPT ![w].attempts = worker[k].read + 1, ![w].due = FALSE,
                     ![w].status = IF worker[k].pc = "reject" /\ pending
                                   THEN "rejected" ELSE @]
      /\ Done(k)
      /\ UNCHANGED <<row, authority, lock, buyer, faults>>

Crash(k) ==
  /\ worker[k].pc # "idle" /\ faults < MaxFaults
  /\ worker' = [worker EXCEPT ![k] = Idle]
  /\ lock' = IF lock = k THEN None ELSE lock
  /\ faults' = faults + 1
  /\ UNCHANGED <<inbox, row, authority, buyer>>

-----------------------------------------------------------------------------
(* The buyer. *)

\* authenticated_entitlement: the recovery code fits a granted row.
Authenticate(p) ==
  /\ buyer.got # "licence" /\ row[p].state = "granted"
  /\ buyer' = [got |-> "licence", payment |-> p]
  /\ UNCHANGED <<inbox, row, authority, lock, worker, faults>>

\* issue_activation_challenge at the Authority, which refuses a licence that
\* was revoked since.
IsChallenged(p) == authority[p].revocation = None

RequestChallenge ==
  /\ buyer.got = "licence"
  /\ buyer' = IF IsChallenged(buyer.payment)
              THEN [buyer EXCEPT !.got = "challenge"]
              ELSE [got |-> "nothing", payment |-> None]
  /\ UNCHANGED <<inbox, row, authority, lock, worker, faults>>

\* activate_challenge: the answer, a certificate or a refusal, ends the
\* purchase for the buyer.
Complete ==
  /\ buyer.got = "challenge"
  /\ buyer' = [got |-> "nothing", payment |-> None]
  /\ UNCHANGED <<inbox, row, authority, lock, worker, faults>>

-----------------------------------------------------------------------------
Step(k) ==
  \/ BeginGrant(k) \/ BeginRevoke(k) \/ Create(k) \/ Acknowledge(k)
  \/ Revoke(k) \/ AcknowledgeRevocation(k) \/ Finish(k) \/ Fail(k)

Next ==
  \/ \E w \in Webhooks :
       \/ \E c \in Contents[w] : Receive(w, c)
       \/ \E k \in Workers : Select(k, w)
       \/ BackoffEnds(w) \/ DayPasses(w)
  \/ \E k \in Workers : Step(k) \/ LockTimeout(k) \/ Crash(k)
  \/ \E p \in Payments : Authenticate(p)
  \/ RequestChallenge \/ Complete

Spec == Init /\ [][Next]_vars

-----------------------------------------------------------------------------
TypeOK ==
  /\ inbox \in [Webhooks -> Inbox]
  /\ row \in [Payments -> Row]
  /\ authority \in [Payments -> Authority]
  /\ lock \in Workers \cup {None}
  /\ worker \in [Workers -> Worker]
  /\ buyer \in Buyer
  /\ faults \in 0 .. MaxFaults

\* The two databases agree on a granted payment (_grant, _revoke): its
\* licence exists at the Authority and is bound to the very webhook the row
\* names, however many webhooks and workers raced for it, and a row is
\* revoked only when the Authority has revoked the licence.
GrantIsBacked ==
  \A p \in Payments :
    /\ row[p].state # "absent" => authority[p].licence = row[p].by
    /\ row[p].state = "revoked" => authority[p].revocation # None

\* The first places are sold once (_grant): with several workers granting at
\* the same time, at most EarlyLimit early payments ever get a row, and a
\* refund does not reopen a place.
EarlyAllocation ==
  Cardinality({p \in Payments : row[p].state # "absent" /\ row[p].tier = "early"}) <= EarlyLimit

\* A reversal is not lost (_revoke, _finish): once its webhook is marked
\* processed, the payment's row is revoked and stays so, and no buyer who
\* authenticated before gets a challenge after the Authority acted.
ReversalTakesEffect ==
  [][\A p \in Payments :
       /\ (\E w \in Webhooks : /\ inbox[w].status = "processed"
                               /\ inbox[w].kind \in Reversal /\ inbox[w].payment = p)
            => row[p].state = "revoked" /\ row'[p].state = "revoked"
       /\ authority[p].revocation # None /\ buyer' # buyer
            => buyer' # [got |-> "challenge", payment |-> p]]_vars

InTransaction == {"create", "ack", "revoke", "revack"}

\* What worker k relies on: in a transaction it has the writer lock, its
\* payment's row is as it was read and, for an early payment, a place is left;
\* after a call the Authority holds what the webhook asked for; and a reversal
\* is marked only when its row is revoked.
WorkerOK(k) ==
  LET pc == worker[k].pc  w == worker[k].webhook  p == inbox[w].payment
  IN  /\ pc \in InTransaction <=> lock = k
      /\ pc # "idle" => w \in Webhooks /\ inbox[w].status # "none"
      /\ pc \in {"create", "ack"} =>
           /\ inbox[w].kind = "payment" /\ row[p].state = "absent"
           /\ inbox[w].tier = "early" => Cardinality(EarlyTaken) < EarlyLimit
      /\ pc = "ack" => authority[p].licence = w
      /\ pc \in {"revoke", "revack"} => row[p].state = "granted"
      /\ pc = "revack" => authority[p].revocation = w
      /\ pc = "finish" /\ inbox[w].kind \in Reversal => row[p].state = "revoked"

\* A stored webhook names a payment, and a reversal that was marked has
\* revoked it.
InboxInv ==
  \A w \in Webhooks :
    /\ inbox[w].status # "none" => inbox[w].payment \in Payments
    /\ inbox[w].status = "processed" /\ inbox[w].kind \in Reversal =>
         row[inbox[w].payment].state = "revoked"

\* The inductive invariant of the fulfilment.
FulfillmentInv ==
  /\ TypeOK
  /\ \A k \in Workers : WorkerOK(k)
  /\ InboxInv
  /\ GrantIsBacked
  /\ IsFiniteSet(EarlyTaken) /\ EarlyAllocation
=============================================================================
