------------------------- MODULE EntitlementOutbox -------------------------
(***************************************************************************)
(* Delivery of a paid licence from the payment ledger to the licence       *)
(* Authority: PaymentService.claim_outbox, deliver_claimed_outbox,         *)
(* fail_outbox, admin_transition and the Whop reversals                    *)
(* (services/payments/growthmap_payments/service.py), together with the    *)
(* SQL triggers that guard the entitlement_outbox table and the            *)
(* idempotent inbox of the Authority (licensing/authority.py).             *)
(*                                                                         *)
(* The ledger and the Authority are two databases, so the worker crosses   *)
(* from one to the other in several transactions and a refund, a crash or  *)
(* an expired lease can fall between any two of them.  Every BEGIN         *)
(* IMMEDIATE transaction is one action; the Authority call is a message    *)
(* that may be lost, or applied long after its sender has given up.        *)
(***************************************************************************)
EXTENDS Naturals

CONSTANTS Orders,       \* x402 orders
          Workers,      \* concurrent calls of deliver_entitlement
          NoOrder,      \* the order of a worker that is not delivering
          NoWorker,     \* lease_owner IS NULL
          MaxAttempts,  \* max_attempts of fail_outbox and of the schema trigger
          MaxFaults     \* bound on worker crashes and leases lost while alive

ASSUME NullAssumption == NoOrder \notin Orders /\ NoWorker \notin Workers
ASSUME AttemptsAssumption == MaxAttempts \in Nat \ {0}
ASSUME FaultsAssumption == MaxFaults \in Nat

VARIABLES order,        \* orders.state
          outbox,       \* entitlement_outbox, one row per order
          revocations,  \* orders that have a row in revocation_outbox
          worker,       \* the call each worker is executing
          inflight,     \* create requests on their way to the Authority
          licensed,     \* orders with a row in external_entitlements
          calls,        \* how often create_external_entitlement was called
          faults        \* crashes and premature lease expiries so far

vars == <<order, outbox, revocations, worker, inflight, licensed, calls, faults>>

-----------------------------------------------------------------------------
(* Types. *)

Reversed == {"refunded", "revoked"}

\* "unpaid" stands for the two states that precede payment in the ledger,
\* pending_payment and manual_review.
OrderState == {"unpaid", "payment_confirmed", "license_issued"} \cup Reversed

Phase == {"none", "crossing_prepared", "crossing_authorized", "readback_only",
          "manual_review"}

\* The phases in which the Authority may already have been asked.
Crossed == {"crossing_authorized", "readback_only", "manual_review"}

\* lease is lease_expires_at (NULL, in the future, in the past); retry tells
\* whether next_attempt_at has been reached.
Row == [state    : {"absent", "pending", "leased", "delivered", "quarantined"},
        phase    : Phase,
        owner    : Workers \cup {NoWorker},
        fence    : Nat,
        attempts : Nat,
        lease    : {"none", "live", "expired"},
        retry    : {"now", "later"}]

\* The control points of deliver_claimed_outbox, in order, then its two
\* failure handlers.
Pc == {"idle", "claimed", "prepare", "authorize", "create", "readback", "acked",
       "requeue", "failing"}

\* fence and phase are the fencing_version and reconciliation_phase of the row
\* that claim_outbox returned: the worker's own copy, never refreshed.
WorkerState == [pc    : Pc,
                order : Orders \cup {NoOrder},
                fence : Nat,
                phase : Phase]

Idle == [pc |-> "idle", order |-> NoOrder, fence |-> 0, phase |-> "none"]

AbsentRow == [state |-> "absent", phase |-> "none", owner |-> NoWorker,
              fence |-> 0, attempts |-> 0, lease |-> "none", retry |-> "now"]

Init ==
  /\ order = [o \in Orders |-> "unpaid"]
  /\ outbox = [o \in Orders |-> AbsentRow]
  /\ revocations = {}
  /\ worker = [w \in Workers |-> Idle]
  /\ inflight = {}
  /\ licensed = {}
  /\ calls = [o \in Orders |-> 0]
  /\ faults = 0

-----------------------------------------------------------------------------
(* The schema triggers.  An UPDATE they refuse aborts its transaction. *)

Protocol(old, new) ==
  /\ old.state = "delivered" => new.state = "delivered"
  /\ old.phase = "none" =>
       \/ new.phase = "none"
       \/ /\ new.phase = "crossing_prepared"
          /\ new.state = "leased"
          /\ new.owner # NoWorker
  /\ old.phase = "crossing_prepared" =>
       \/ /\ new.phase = "crossing_prepared"
          /\ new.state = old.state
          /\ new.owner = old.owner
          /\ new.lease = old.lease
          /\ new.fence = old.fence
       \/ /\ new.phase = "crossing_authorized"
          /\ old.state = "leased"
          /\ new.state = "leased"
          /\ new.owner = old.owner
          /\ new.owner # NoWorker
          /\ new.fence = old.fence
       \/ /\ new.phase = "none"
          /\ new.state = "quarantined"
          /\ new.owner = NoWorker
  /\ old.phase = "crossing_authorized" =>
       new.phase \in {"crossing_authorized", "readback_only"}
  /\ old.phase = "readback_only" =>
       \/ new.phase = "readback_only"
       \/ new.phase = "manual_review" /\ new.attempts >= MaxAttempts
  /\ old.phase = "manual_review" => new.phase = "manual_review"

Update(o, new) ==
  /\ Protocol(outbox[o], new)
  /\ outbox' = [outbox EXCEPT ![o] = new]

-----------------------------------------------------------------------------
(* The ledger: payment, and its reversal by an operator or by the provider. *)

\* _issue_reserved looks at the settlement intent only, never at orders.state.
Issue(o) ==
  /\ outbox[o].state = "absent"
  /\ order[o] \in {"unpaid"} \cup Reversed
  /\ order' = [order EXCEPT ![o] = "payment_confirmed"]
  /\ outbox' = [outbox EXCEPT ![o] = [AbsentRow EXCEPT !.state = "pending"]]
  /\ UNCHANGED <<revocations, worker, inflight, licensed, calls, faults>>

\* Mutant of CancelledRow: the reversal leaves the reconciliation phase alone.
CancelledRowKeepsPhase(row) ==
  [row EXCEPT !.state = "quarantined", !.owner = NoWorker, !.lease = "none",
              !.fence = @ + 1, !.retry = "later"]

\* A reversal before delivery takes the lease away and advances the fence; it
\* forgets a crossing only while the Authority cannot have been asked.
CancelledRow(row) ==
  [row EXCEPT !.state = "quarantined",
              !.phase = IF row.phase \in {"none", "crossing_prepared"}
                          THEN "none" ELSE "readback_only",
              !.owner = NoWorker,
              !.lease = "none",
              !.fence = row.fence + 1,
              !.retry = IF row.phase = "none" THEN row.retry ELSE "later"]

\* Mutant of Reverse: a revocation is queued although nothing was delivered.
ReverseAlwaysQueues(o, target) ==
  /\ order' = [order EXCEPT ![o] = target]
  /\ revocations' = revocations \cup {o}
  /\ IF outbox[o].state \in {"absent", "delivered"}
       THEN UNCHANGED outbox
       ELSE Update(o, CancelledRow(outbox[o]))
  /\ UNCHANGED <<worker, inflight, licensed, calls, faults>>

Reverse(o, target) ==
  /\ order' = [order EXCEPT ![o] = target]
  /\ IF outbox[o].state = "delivered"
       THEN /\ revocations' = revocations \cup {o}
            /\ UNCHANGED outbox
       ELSE /\ IF outbox[o].state = "absent"
                 THEN UNCHANGED outbox
                 ELSE Update(o, CancelledRow(outbox[o]))
            /\ UNCHANGED revocations
  /\ UNCHANGED <<worker, inflight, licensed, calls, faults>>

\* admin_transition(o, "refund")
AdminRefund(o) ==
  /\ order[o] \in {"payment_confirmed", "license_issued"}
  /\ Reverse(o, "refunded")

\* admin_transition(o, "revoke"): the outbox is touched by refunds only.
AdminRevoke(o) ==
  /\ order[o] = "license_issued"
  /\ order' = [order EXCEPT ![o] = "revoked"]
  /\ revocations' = IF outbox[o].state = "delivered"
                      THEN revocations \cup {o} ELSE revocations
  /\ UNCHANGED <<outbox, worker, inflight, licensed, calls, faults>>

\* A refund or chargeback webhook; it may precede the payment.
WhopReversal(o, target) ==
  /\ order[o] \notin Reversed
  /\ Reverse(o, target)

-----------------------------------------------------------------------------
(* The worker. *)

Mine(w) == worker[w].order

\* Mutant of Holds: owner and fence are not compared.
HoldsAnyLease(w) == outbox[Mine(w)].state = "leased"

Holds(w) ==
  /\ outbox[Mine(w)].state = "leased"
  /\ outbox[Mine(w)].owner = w
  /\ outbox[Mine(w)].fence = worker[w].fence

GoTo(w, pc) == worker' = [worker EXCEPT ![w].pc = pc]

Return(w) == worker' = [worker EXCEPT ![w] = Idle]

Reclaimable(o) ==
  \/ order[o] \in {"payment_confirmed", "refunded"}
  \/ order[o] = "revoked" /\ outbox[o].phase = "readback_only"

\* Mutant of Eligible: expired leases are not reclaimed.
EligibleWithoutReclaim(o) ==
  /\ outbox[o].state = "pending"
  /\ outbox[o].retry = "now"
  /\ order[o] = "payment_confirmed"

Eligible(o) ==
  \/ /\ outbox[o].state = "pending"
     /\ outbox[o].retry = "now"
     /\ order[o] = "payment_confirmed"
  \/ /\ outbox[o].state = "leased"
     /\ outbox[o].lease = "expired"
     /\ Reclaimable(o)
  \/ /\ outbox[o].state = "quarantined"
     /\ outbox[o].phase \in {"crossing_authorized", "readback_only"}
     /\ outbox[o].retry = "now"
     /\ Reclaimable(o)

\* An expired lease that was prepared but not authorized is cancelled first.
Recovered(row) ==
  IF row.state = "leased" /\ row.phase = "crossing_prepared"
    THEN [row EXCEPT !.state = "quarantined", !.phase = "none",
                     !.owner = NoWorker, !.lease = "none",
                     !.fence = row.fence + 1, !.retry = "now"]
    ELSE row

\* A row that may have crossed is leased for reading back only.
LeasedRow(row, w) ==
  [row EXCEPT !.state = "leased",
              !.owner = w,
              !.lease = "live",
              !.attempts = row.attempts + 1,
              !.fence = row.fence + 1,
              !.phase = IF row.phase \in {"crossing_authorized", "readback_only"}
                          THEN "readback_only" ELSE row.phase]

Claim(w, o) ==
  LET row == Recovered(outbox[o])
      leased == LeasedRow(row, w)
  IN /\ worker[w].pc = "idle"
     /\ Eligible(o)
     /\ Protocol(outbox[o], row)
     /\ IF row # outbox[o] /\ order[o] = "refunded"
          THEN /\ outbox' = [outbox EXCEPT ![o] = row]
               /\ UNCHANGED worker
          ELSE /\ Protocol(row, leased)
               /\ outbox' = [outbox EXCEPT ![o] = leased]
               /\ worker' = [worker EXCEPT ![w] =
                               [pc |-> "claimed", order |-> o,
                                fence |-> leased.fence, phase |-> leased.phase]]
     /\ UNCHANGED <<order, revocations, inflight, licensed, calls, faults>>

\* Mutant of Revalidate: a readback-only row is created again.
RevalidateThenCreate(w) ==
  /\ worker[w].pc = "claimed"
  /\ GoTo(w, IF ~Holds(w) THEN "failing"
             ELSE IF worker[w].phase = "readback_only" THEN "create" ELSE "prepare")
  /\ UNCHANGED <<order, outbox, revocations, inflight, licensed, calls, faults>>

\* The read-only transaction that opens deliver_claimed_outbox.
Revalidate(w) ==
  /\ worker[w].pc = "claimed"
  /\ GoTo(w, IF /\ Holds(w)
                /\ order[Mine(w)] \in {"payment_confirmed"} \cup Reversed
                /\ order[Mine(w)] \in Reversed => worker[w].phase = "readback_only"
               THEN IF worker[w].phase = "readback_only"
                      THEN "readback" ELSE "prepare"
               ELSE "failing")
  /\ UNCHANGED <<order, outbox, revocations, inflight, licensed, calls, faults>>

\* none -> crossing_prepared under the worker's own lease and fence.
Prepare(w) ==
  LET o == Mine(w)
      new == [outbox[o] EXCEPT !.phase = "crossing_prepared"]
  IN /\ worker[w].pc = "prepare"
     /\ IF Holds(w) /\ outbox[o].phase = "none" /\ Protocol(outbox[o], new)
          THEN /\ outbox' = [outbox EXCEPT ![o] = new]
               /\ GoTo(w, "authorize")
          ELSE /\ UNCHANGED outbox
               /\ GoTo(w, "failing")
     /\ UNCHANGED <<order, revocations, inflight, licensed, calls, faults>>

\* Mutant of Authorize: the row count of the UPDATE is not checked.
AuthorizeUnchecked(w) ==
  LET o == Mine(w)
  IN /\ worker[w].pc = "authorize"
     /\ outbox' = IF Holds(w) /\ outbox[o].phase = "crossing_prepared"
                    THEN [outbox EXCEPT ![o].phase = "crossing_authorized"]
                    ELSE outbox
     /\ GoTo(w, "create")
     /\ UNCHANGED <<order, revocations, inflight, licensed, calls, faults>>

\* crossing_prepared -> crossing_authorized while the order is still paid: the
\* point after which a refund has to be compensated.
Authorize(w) ==
  LET o == Mine(w)
      new == [outbox[o] EXCEPT !.phase = "crossing_authorized"]
  IN /\ worker[w].pc = "authorize"
     /\ IF /\ Holds(w)
           /\ outbox[o].phase = "crossing_prepared"
           /\ order[o] = "payment_confirmed"
           /\ Protocol(outbox[o], new)
          THEN /\ outbox' = [outbox EXCEPT ![o] = new]
               /\ GoTo(w, "create")
          ELSE /\ UNCHANGED outbox
               /\ GoTo(w, "failing")
     /\ UNCHANGED <<order, revocations, inflight, licensed, calls, faults>>

\* The create call.  Its own failure is swallowed, whether or not the request
\* reached the Authority.
Create(w) ==
  /\ worker[w].pc = "create"
  /\ calls' = [calls EXCEPT ![Mine(w)] = @ + 1]
  /\ \E sent \in {{}, {Mine(w)}} : inflight' = inflight \cup sent
  /\ GoTo(w, "readback")
  /\ UNCHANGED <<order, outbox, revocations, licensed, faults>>

\* The Authority commits the entitlement, possibly after its caller is gone;
\* (source, source_id) makes the request idempotent.
AuthorityCreate(o) ==
  /\ o \in inflight
  /\ inflight' = inflight \ {o}
  /\ licensed' = licensed \cup {o}
  /\ UNCHANGED <<order, outbox, revocations, worker, calls, faults>>

\* Mutant of ReadAcknowledgement: the create response is trusted unread.
ReadAcknowledgementUnread(w) ==
  /\ worker[w].pc = "readback"
  /\ GoTo(w, "acked")
  /\ UNCHANGED <<order, outbox, revocations, inflight, licensed, calls, faults>>

\* The signed acknowledgement is read back ...
ReadAcknowledgement(w) ==
  /\ worker[w].pc = "readback"
  /\ Mine(w) \in licensed
  /\ GoTo(w, "acked")
  /\ UNCHANGED <<order, outbox, revocations, inflight, licensed, calls, faults>>

\* ... or is not there, or the Authority does not answer.
ReadbackFails(w) ==
  /\ worker[w].pc = "readback"
  /\ GoTo(w, "requeue")
  /\ UNCHANGED <<order, outbox, revocations, inflight, licensed, calls, faults>>

\* A handshake fails, the row's identity is not the configured one, or the
\* acknowledgement does not verify.
AuthorityFault(w) ==
  /\ worker[w].pc \in {"prepare", "create", "readback", "acked"}
  /\ GoTo(w, "failing")
  /\ UNCHANGED <<order, outbox, revocations, inflight, licensed, calls, faults>>

\* The closing transaction.  A worker that lost its fence to a reversal still
\* records the evidence and queues the compensating revocation.
Finalize(w) ==
  LET o == Mine(w)
      new == [outbox[o] EXCEPT !.state = "delivered", !.owner = NoWorker,
                               !.lease = "none"]
      settles == \/ /\ Holds(w)
                    /\ order[o] \in {"payment_confirmed"} \cup Reversed
                 \/ /\ order[o] \in Reversed
                    /\ outbox[o].state \in {"quarantined", "pending", "leased"}
  IN /\ worker[w].pc = "acked"
     /\ IF settles /\ Protocol(outbox[o], new)
          THEN /\ outbox' = [outbox EXCEPT ![o] = new]
               /\ IF order[o] = "payment_confirmed"
                    THEN /\ order' = [order EXCEPT ![o] = "license_issued"]
                         /\ UNCHANGED revocations
                    ELSE /\ revocations' = revocations \cup {o}
                         /\ UNCHANGED order
               /\ Return(w)
          ELSE /\ GoTo(w, "failing")
               /\ UNCHANGED <<order, outbox, revocations>>
     /\ UNCHANGED <<inflight, licensed, calls, faults>>

-----------------------------------------------------------------------------
(* Failure handling of a delivery attempt. *)

\* _requeue_reconciliation_failure
RequeuedRow(row) ==
  [row EXCEPT !.state = "quarantined",
              !.phase = IF row.attempts >= MaxAttempts
                          THEN "manual_review" ELSE "readback_only",
              !.owner = NoWorker, !.lease = "none", !.retry = "later"]

\* fail_outbox before anything can have crossed
FailedRow(row) ==
  [row EXCEPT !.state = IF row.attempts >= MaxAttempts
                          THEN "quarantined" ELSE "pending",
              !.owner = NoWorker, !.lease = "none", !.retry = "later"]

\* The acknowledgement could not be read.  The schema refuses to go straight
\* from crossing_authorized to manual_review; fail_outbox then takes over.
Requeue(w) ==
  LET o == Mine(w)
      expected == IF worker[w].phase = "readback_only"
                    THEN {"readback_only"}
                    ELSE {"crossing_authorized", "readback_only"}
      new == RequeuedRow(outbox[o])
  IN /\ worker[w].pc = "requeue"
     /\ IF Holds(w) /\ outbox[o].phase \in expected
          THEN IF Protocol(outbox[o], new)
                 THEN outbox' = [outbox EXCEPT ![o] = new] /\ Return(w)
                 ELSE UNCHANGED outbox /\ GoTo(w, "failing")
          ELSE UNCHANGED outbox /\ Return(w)
     /\ UNCHANGED <<order, revocations, inflight, licensed, calls, faults>>

\* fail_outbox, called with the row as it was claimed.
Fail(w) ==
  LET o == Mine(w)
      new == IF worker[w].phase = "readback_only"
               THEN RequeuedRow(outbox[o]) ELSE FailedRow(outbox[o])
      applies == /\ Holds(w)
                 /\ worker[w].phase = "readback_only" =>
                      outbox[o].phase = "readback_only"
  IN /\ worker[w].pc = "failing"
     /\ IF applies /\ Protocol(outbox[o], new)
          THEN outbox' = [outbox EXCEPT ![o] = new]
          ELSE UNCHANGED outbox
     /\ Return(w)
     /\ UNCHANGED <<order, revocations, inflight, licensed, calls, faults>>

-----------------------------------------------------------------------------
(* Time and failures. *)

HolderAlive(o) == \E w \in Workers : Mine(w) = o /\ Holds(w)

\* lease_seconds pass.  A lease that outlives its holder always expires; one
\* that a slow holder loses is a fault, and faults are bounded.
LeaseExpires(o) ==
  /\ outbox[o].lease = "live"
  /\ HolderAlive(o) => faults < MaxFaults
  /\ faults' = IF HolderAlive(o) THEN faults + 1 ELSE faults
  /\ outbox' = [outbox EXCEPT ![o].lease = "expired"]
  /\ UNCHANGED <<order, revocations, worker, inflight, licensed, calls>>

\* The backoff of next_attempt_at elapses.
RetryDue(o) ==
  /\ outbox[o].retry = "later"
  /\ outbox' = [outbox EXCEPT ![o].retry = "now"]
  /\ UNCHANGED <<order, revocations, worker, inflight, licensed, calls, faults>>

\* The process dies between two transactions; only the databases survive.
Crash(w) ==
  /\ worker[w].pc # "idle"
  /\ faults < MaxFaults
  /\ faults' = faults + 1
  /\ Return(w)
  /\ UNCHANGED <<order, outbox, revocations, inflight, licensed, calls>>

-----------------------------------------------------------------------------
WorkerStep(w) ==
  \/ Revalidate(w) \/ Prepare(w) \/ Authorize(w) \/ Create(w)
  \/ ReadAcknowledgement(w) \/ ReadbackFails(w) \/ AuthorityFault(w)
  \/ Finalize(w) \/ Requeue(w) \/ Fail(w)

LedgerStep(o) ==
  \/ Issue(o) \/ AdminRefund(o) \/ AdminRevoke(o)
  \/ \E target \in Reversed : WhopReversal(o, target)

Next ==
  \/ \E w \in Workers : WorkerStep(w) \/ Crash(w)
  \/ \E w \in Workers, o \in Orders : Claim(w, o)
  \/ \E o \in Orders : LedgerStep(o) \/ AuthorityCreate(o)
  \/ \E o \in Orders : LeaseExpires(o) \/ RetryDue(o)

Spec == Init /\ [][Next]_vars

\* A call that has started runs to its end unless it crashes, and time passes.
\* Nothing makes anybody call deliver_entitlement again: its one caller
\* (licensed_commerce of api.py) calls it once for a purchase.
Fairness ==
  /\ \A w \in Workers : WF_vars(WorkerStep(w))
  /\ \A o \in Orders : WF_vars(LeaseExpires(o)) /\ WF_vars(RetryDue(o))

FairSpec == Spec /\ Fairness

-----------------------------------------------------------------------------
(* Properties. *)

WellLeased(row) ==
  /\ row.state = "leased" <=> row.owner # NoWorker
  /\ row.state = "leased" <=> row.lease # "none"

\* Every variable has its type; a row is leased exactly while it has an owner
\* and an expiry (state, lease_owner and lease_expires_at of entitlement_outbox
\* are written together in every transaction).
TypeOK ==
  /\ order \in [Orders -> OrderState]
  /\ outbox \in [Orders -> Row]
  /\ revocations \subseteq Orders
  /\ worker \in [Workers -> WorkerState]
  /\ inflight \subseteq Orders
  /\ licensed \subseteq Orders
  /\ calls \in [Orders -> Nat]
  /\ faults \in 0..MaxFaults
  /\ \A w \in Workers : worker[w].pc # "idle" => worker[w].order \in Orders
  /\ \A o \in Orders : WellLeased(outbox[o])

\* create_external_entitlement is called at most once for an order, whatever
\* crashes, lost answers, expired leases and reclaims happen: recovery after an
\* uncertain crossing only reads back.
CreateAtMostOnce == \A o \in Orders : calls[o] <= 1

\* A refund or chargeback that wins before crossing_authorized keeps the create
\* count where it is: the fenced worker can no longer reach the Authority.
CancelledNeverCrosses ==
  [][\A o \in Orders :
       order[o] \in Reversed /\ outbox[o].phase = "none" => calls'[o] = calls[o]]_vars

\* A licence the Authority holds for a reversed order is never forgotten: a
\* revocation is queued for it, or its row is still undelivered and in a phase
\* from which a readback, or an operator, can find it.
NoForgottenLicense ==
  \A o \in Orders :
    order[o] \in Reversed /\ o \in licensed =>
      \/ o \in revocations
      \/ /\ outbox[o].state # "delivered"
         /\ outbox[o].phase \in {"readback_only", "manual_review"}

\* A revocation is queued only for an order that is reversed and whose licence
\* was delivered: no buyer who kept the purchase loses the licence.
RevocationIsJustified ==
  \A o \in revocations :
    order[o] \in Reversed /\ outbox[o].state = "delivered" /\ o \in licensed

\* The ledger and the Authority agree on what was sold: an order is
\* license_issued exactly when its row is delivered and it is not reversed, and
\* a delivered row always has its licence at the Authority.
IssuedIsBacked ==
  \A o \in Orders :
    /\ outbox[o].state = "delivered" => o \in licensed
    /\ order[o] = "license_issued" => outbox[o].state = "delivered"
    /\ order[o] = "payment_confirmed" => outbox[o].state # "delivered"

\* A worker whose lease was taken over or cancelled never changes the row,
\* except to record the evidence of a reversed order's licence together with its
\* compensating revocation.
FencedWorkerIsHarmless ==
  [][\A w \in Workers :
       LET o == worker[w].order
       IN /\ worker[w].pc # "idle"
          /\ worker'[w] # worker[w]
          /\ \/ outbox[o].state # "leased"
             \/ outbox[o].owner # w
             \/ outbox[o].fence # worker[w].fence
          /\ outbox'[o] # outbox[o]
          => /\ order[o] \in Reversed
             /\ outbox'[o].state = "delivered"
             /\ o \in revocations']_vars

\* The inductive invariant behind the four invariants above.  What makes it
\* inductive is that the phase of a row remembers a crossing for ever, and that
\* a worker about to call the Authority is the only one for its order.
OneCrossing ==
  \A o \in Orders :
    /\ calls[o] \in {0, 1}
    /\ calls[o] = 1 => outbox[o].phase \in Crossed
    /\ o \in inflight \cup licensed => calls[o] = 1

CreatorIsAlone ==
  /\ \A w \in Workers :
       worker[w].pc = "create" => /\ outbox[Mine(w)].phase \in Crossed
                                  /\ calls[Mine(w)] = 0
  /\ \A v, w \in Workers :
       worker[v].pc = "create" /\ worker[w].pc = "create" /\ Mine(v) = Mine(w)
         => v = w

Backed(o) ==
  /\ outbox[o].state = "absent" => outbox[o].phase = "none"
  /\ outbox[o].state = "delivered" =>
       o \in licensed /\ order[o] \in {"license_issued"} \cup Reversed
  /\ order[o] = "license_issued" => outbox[o].state = "delivered"
  /\ o \in revocations <=> outbox[o].state = "delivered" /\ order[o] \in Reversed
  /\ order[o] \in Reversed /\ outbox[o].state # "delivered"
       => outbox[o].phase # "crossing_authorized"

AckIsGenuine == \A w \in Workers : worker[w].pc = "acked" => Mine(w) \in licensed

DeliveryInv ==
  /\ OneCrossing
  /\ CreatorIsAlone
  /\ \A o \in Orders : Backed(o)
  /\ AckIsGenuine

\* Nothing more will happen to the row without an operator.
Settled(o) ==
  \/ outbox[o].state = "delivered"
  \/ outbox[o].phase = "manual_review"
  \/ outbox[o].state = "quarantined" /\ outbox[o].phase = "none"

\* A call of claim_outbox by w would lease the row, or cancel it: the SELECT
\* finds it and no trigger aborts the transaction.
Claimable(w, o) ==
  LET row == Recovered(outbox[o])
  IN  /\ Eligible(o)
      /\ Protocol(outbox[o], row)
      /\ Protocol(row, LeasedRow(row, w))

\* No attempt strands a row (claim_outbox, fail_outbox,
\* _requeue_reconciliation_failure): however a call ends - by a crash, by a
\* lost lease, in a phase whose triggers refuse what its failure handler
\* writes - the clock alone brings the row back to where the next claim takes
\* it, or it is settled.  That there is a next claim is not promised.
RowIsNeverStranded ==
  \A o \in Orders :
    outbox[o].state # "absent" ~> Settled(o) \/ \A w \in Workers : Claimable(w, o)
=============================================================================
