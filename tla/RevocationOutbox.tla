-------------------------- MODULE RevocationOutbox --------------------------
(***************************************************************************)
(* Delivery of a revocation from the payment ledger to the licence         *)
(* Authority: PaymentService._enqueue_revocation, claim_revocation,        *)
(* deliver_claimed_revocation, fail_revocation and deliver_revocation      *)
(* (services/payments/growthmap_payments/service.py) and                   *)
(* LicenseAuthority.revoke_external_entitlement (licensing/authority.py).  *)
(* Each BEGIN IMMEDIATE transaction and each call of the Authority is one  *)
(* action.  Calls are lost, answered too late or applied after their       *)
(* sender gave up, leases expire under a running call, the Authority       *)
(* refuses events older than a day, and the signer identity that a row is  *)
(* bound to is rotated.                                                    *)
(***************************************************************************)
EXTENDS Naturals

CONSTANTS Orders,       \* orders with a delivered licence
          Workers,      \* concurrent calls of deliver_revocation
          NoOrder,      \* the order of a call that is not running
          NoWorker,     \* lease_owner IS NULL
          MaxAttempts,  \* max_attempts of fail_revocation
          Generations,  \* bound on the signer generations, 1 .. Generations
          MaxFaults     \* bound on crashes and on leases lost under a call

ASSUME RevocationConstants ==
  /\ NoOrder \notin Orders /\ NoWorker \notin Workers
  /\ MaxAttempts \in Nat \ {0} /\ Generations \in Nat \ {0} /\ MaxFaults \in Nat

VARIABLES row,       \* revocation_outbox, at most one row per order
          call,      \* the deliver_revocation each worker is executing
          authority, \* external_revocations: the signer generation, 0 for none
          inflight,  \* requests still on their way: order and signer generation
          signer,    \* the generation the Authority signs with
          config,    \* the generation the payment service is configured for
          faults

vars == <<row, call, authority, inflight, signer, config, faults>>

-----------------------------------------------------------------------------
Generation == 1 .. Generations

\* lease is lease_expires_at (NULL, in the future, in the past), retry tells
\* whether next_attempt_at has been reached, fresh whether created_at is less
\* than 24 hours ago; signer is the identity the row is bound to.
Row == [state : {"absent", "pending", "leased", "delivered", "quarantined"},
        owner : Workers \cup {NoWorker}, fence : Nat, attempts : Nat,
        lease : {"none", "live", "expired"}, retry : {"now", "later"},
        fresh : BOOLEAN, signer : Generation]

\* fence is the fencing_version of the claimed row, never refreshed.
Call == [pc : {"idle", "handshake", "revoke", "readback", "finalize", "fail"},
         order : Orders \cup {NoOrder}, fence : Nat]

Idle == [pc |-> "idle", order |-> NoOrder, fence |-> 0]

AbsentRow == [state |-> "absent", owner |-> NoWorker, fence |-> 0, attempts |-> 0,
              lease |-> "none", retry |-> "now", fresh |-> TRUE, signer |-> 1]

Init ==
  /\ row = [o \in Orders |-> AbsentRow]
  /\ call = [w \in Workers |-> Idle]
  /\ authority = [o \in Orders |-> 0]
  /\ inflight = {}
  /\ signer = 1 /\ config = 1
  /\ faults = 0

GoTo(w, pc) == call' = [call EXCEPT ![w].pc = pc]

-----------------------------------------------------------------------------
(* The ledger. *)

\* _enqueue_revocation, from admin_transition or a Whop reversal.
Enqueue(o) ==
  /\ row[o].state = "absent"
  /\ row' = [row EXCEPT ![o].state = "pending", ![o].signer = config]
  /\ UNCHANGED <<call, authority, inflight, signer, config, faults>>

Claimable(r) ==
  \/ r.state = "pending" /\ r.retry = "now"
  \/ r.state = "leased" /\ r.lease = "expired"

\* claim_revocation
Claim(w, o) ==
  /\ call[w].pc = "idle"
  /\ Claimable(row[o])
  /\ row' = [row EXCEPT ![o].state = "leased", ![o].owner = w, ![o].lease = "live",
                        ![o].attempts = @ + 1, ![o].fence = @ + 1]
  /\ call' = [call EXCEPT ![w] = [pc |-> "handshake", order |-> o,
                                  fence |-> row[o].fence + 1]]
  /\ UNCHANGED <<authority, inflight, signer, config, faults>>

\* What deliver_claimed_revocation and fail_revocation look for before they
\* write: the lease, expired or not, is still the one that was claimed.
Holds(w) ==
  LET r == row[call[w].order]
  IN  /\ call[w].order # NoOrder
      /\ r.state = "leased" /\ r.owner = w /\ r.fence = call[w].fence

-----------------------------------------------------------------------------
(* deliver_claimed_revocation. *)

\* The call raises: an answer was an error, was wrong or never came.
Raise(w) == GoTo(w, "fail") /\ UNCHANGED <<row, authority, inflight, signer, config, faults>>

\* _verify_authority_handshake: the Authority signs with the configured identity.
Agrees == signer = config

\* Mutant of Handshake: the row's own identity is not compared.
HandshakeUnbound(w) ==
  /\ call[w].pc = "handshake"
  /\ \/ /\ Agrees
        /\ GoTo(w, "revoke")
        /\ UNCHANGED <<row, authority, inflight, signer, config, faults>>
     \/ Raise(w)

\* The configured identity is also the one the row is bound to.
Handshake(w) ==
  /\ call[w].pc = "handshake"
  /\ \/ /\ Agrees /\ row[call[w].order].signer = config
        /\ GoTo(w, "revoke")
        /\ UNCHANGED <<row, authority, inflight, signer, config, faults>>
     \/ Raise(w)

\* revoke_external_entitlement: the caller's identity must be the current
\* one; a replay of the recorded request is answered whatever its age, a
\* first request only within 24 hours.
Accepts(o, g) ==
  /\ g = signer
  /\ IF authority[o] = 0 THEN row[o].fresh ELSE authority[o] = g

Applied(o, g) == [authority EXCEPT ![o] = IF @ = 0 THEN g ELSE @]

Revoke(w) ==
  /\ call[w].pc = "revoke"
  /\ LET o == call[w].order
     IN  \/ /\ Accepts(o, config)
            /\ authority' = Applied(o, config)
            /\ call' = [call EXCEPT ![w].pc = "readback"]
            /\ UNCHANGED <<row, inflight, signer, config, faults>>
         \/ Raise(w)
         \/ /\ inflight' = inflight \cup {<<o, config>>}
            /\ GoTo(w, "fail")
            /\ UNCHANGED <<row, authority, signer, config, faults>>

\* A request whose sender gave up reaches the Authority.
LateRevoke(o, g) ==
  /\ <<o, g>> \in inflight
  /\ inflight' = inflight \ {<<o, g>>}
  /\ authority' = IF Accepts(o, g) THEN Applied(o, g) ELSE authority
  /\ UNCHANGED <<row, call, signer, config, faults>>

\* Another handshake, read_external_revocation_acknowledgement, a third
\* handshake and the validation of the signed acknowledgement.
Readback(w) ==
  /\ call[w].pc = "readback"
  /\ \/ /\ Agrees /\ authority[call[w].order] = config
        /\ GoTo(w, "finalize")
        /\ UNCHANGED <<row, authority, inflight, signer, config, faults>>
     \/ Raise(w)

\* Mutant of Finalize: any lease will do.
FinalizeAnyLease(w) ==
  /\ call[w].pc = "finalize"
  /\ LET o == call[w].order
     IN  IF row[o].state = "leased"
         THEN /\ row' = [row EXCEPT ![o].state = "delivered", ![o].owner = NoWorker,
                                    ![o].lease = "none"]
              /\ call' = [call EXCEPT ![w] = Idle]
              /\ UNCHANGED <<authority, inflight, signer, config, faults>>
         ELSE Raise(w)

Finalize(w) ==
  /\ call[w].pc = "finalize"
  /\ LET o == call[w].order
     IN  IF Holds(w)
         THEN /\ row' = [row EXCEPT ![o].state = "delivered", ![o].owner = NoWorker,
                                    ![o].lease = "none"]
              /\ call' = [call EXCEPT ![w] = Idle]
              /\ UNCHANGED <<authority, inflight, signer, config, faults>>
         ELSE Raise(w)

\* fail_revocation: back to the queue with a delay, or out of it for good.
FailedRow(r) ==
  [r EXCEPT !.state = IF r.attempts >= MaxAttempts THEN "quarantined" ELSE "pending",
            !.owner = NoWorker, !.lease = "none", !.retry = "later"]

\* Mutant of Fail: the row is written whoever holds it.
FailUnfenced(w) ==
  /\ call[w].pc = "fail"
  /\ row' = [row EXCEPT ![call[w].order] = FailedRow(@)]
  /\ call' = [call EXCEPT ![w] = Idle]
  /\ UNCHANGED <<authority, inflight, signer, config, faults>>

Fail(w) ==
  /\ call[w].pc = "fail"
  /\ row' = IF Holds(w) THEN [row EXCEPT ![call[w].order] = FailedRow(@)] ELSE row
  /\ call' = [call EXCEPT ![w] = Idle]
  /\ UNCHANGED <<authority, inflight, signer, config, faults>>

-----------------------------------------------------------------------------
(* Time, crashes and the rotation of the signer. *)

BackoffEnds(o) ==
  /\ row[o].state = "pending" /\ row[o].retry = "later"
  /\ row' = [row EXCEPT ![o].retry = "now"]
  /\ UNCHANGED <<call, authority, inflight, signer, config, faults>>

\* A day has passed since the order was reversed.
DayPasses(o) ==
  /\ row[o].state \notin {"absent", "delivered"} /\ row[o].fresh
  /\ row' = [row EXCEPT ![o].fresh = FALSE]
  /\ UNCHANGED <<call, authority, inflight, signer, config, faults>>

\* The lease of a dead call expires; under a live call that is a fault.
LeaseExpires(o) ==
  /\ row[o].lease = "live"
  /\ ~ \E w \in Workers : call[w].order = o /\ Holds(w)
  /\ row' = [row EXCEPT ![o].lease = "expired"]
  /\ UNCHANGED <<call, authority, inflight, signer, config, faults>>

LeaseLost(o) ==
  /\ row[o].lease = "live" /\ faults < MaxFaults
  /\ \E w \in Workers : call[w].order = o /\ Holds(w)
  /\ row' = [row EXCEPT ![o].lease = "expired"]
  /\ faults' = faults + 1
  /\ UNCHANGED <<call, authority, inflight, signer, config>>

Crash(w) ==
  /\ call[w].pc # "idle" /\ faults < MaxFaults
  /\ call' = [call EXCEPT ![w] = Idle]
  /\ faults' = faults + 1
  /\ UNCHANGED <<row, authority, inflight, signer, config>>

\* The Authority is restarted under the next ceremony ...
RotateSigner ==
  /\ signer < Generations
  /\ signer' = signer + 1
  /\ UNCHANGED <<row, call, authority, inflight, config, faults>>

\* ... and the payment service under the configuration that pins it.
RotateConfig ==
  /\ config < signer
  /\ config' = signer
  /\ call' = [w \in Workers |-> Idle]
  /\ UNCHANGED <<row, authority, inflight, signer, faults>>

-----------------------------------------------------------------------------
Step(w) == Handshake(w) \/ Revoke(w) \/ Readback(w) \/ Finalize(w) \/ Fail(w)

Next ==
  \/ \E o \in Orders :
       \/ Enqueue(o) \/ BackoffEnds(o) \/ DayPasses(o) \/ LeaseExpires(o) \/ LeaseLost(o)
       \/ \E w \in Workers : Claim(w, o)
       \/ \E g \in Generation : LateRevoke(o, g)
  \/ \E w \in Workers : Step(w) \/ Crash(w)
  \/ RotateSigner \/ RotateConfig

Spec == Init /\ [][Next]_vars

-----------------------------------------------------------------------------
TypeOK ==
  /\ row \in [Orders -> Row]
  /\ call \in [Workers -> Call]
  /\ authority \in [Orders -> 0 .. Generations]
  /\ inflight \subseteq Orders \X Generation
  /\ signer \in Generation /\ config \in Generation
  /\ faults \in 0 .. MaxFaults

\* A delivered row is proven by the identity it was queued under
\* (deliver_claimed_revocation): whatever was rotated, lost or replayed in
\* between, the Authority holds a revocation of the licence signed by the
\* generation that the row has been bound to since it was written.
DeliveredIsProven ==
  \A o \in Orders : row[o].state = "delivered" => authority[o] = row[o].signer

\* A call that lost its lease is harmless (the fencing_version checks of
\* deliver_claimed_revocation and fail_revocation): whatever it still does, it
\* does not touch the row of the call that took over.
LostLeaseIsHarmless ==
  [][\A w \in Workers :
       call[w].pc # "idle" /\ ~Holds(w) /\ call'[w] # call[w] => UNCHANGED row]_vars

\* The outbox implements the abstract delivery: a row that waits or is leased
\* is a queued request, a quarantined one is abandoned.
Request(r) ==
  CASE r.state = "absent" -> "none"
    [] r.state \in {"pending", "leased"} -> "queued"
    [] r.state = "delivered" -> "delivered"
    [] r.state = "quarantined" -> "abandoned"

Delivery == INSTANCE RevocationDelivery WITH
  request <- [o \in Orders |-> Request(row[o])],
  revoked <- {o \in Orders : authority[o] # 0}

\* deliver_revocation, seen from outside, asks, revokes at most once, reports
\* a delivery only after it took effect, and never withdraws the report nor
\* takes a request back from the operator it was handed to.
ImplementsDelivery == Delivery!Spec

\* What a running call relies on: its row exists; from the first handshake on
\* the row is bound to the configured identity, for a rotation restarts the
\* payment service; and it finalizes only what the Authority has recorded.
CallIsBound ==
  \A w \in Workers :
    LET o == call[w].order
    IN  call[w].pc # "idle" =>
          /\ o \in Orders
          /\ row[o].state # "absent"
          /\ call[w].pc \in {"revoke", "readback", "finalize"} => row[o].signer = config
          /\ call[w].pc = "finalize" => authority[o] = config

\* What was revoked, or may still be by a request on its way, was asked for.
RevokedWasAsked ==
  \A o \in Orders :
    authority[o] # 0 \/ (\E g \in Generation : <<o, g>> \in inflight) => row[o].state # "absent"

\* The inductive invariant of the outbox.
OutboxInv == TypeOK /\ CallIsBound /\ RevokedWasAsked /\ DeliveredIsProven
=============================================================================
