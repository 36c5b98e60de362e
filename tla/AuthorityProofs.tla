--------------------------- MODULE AuthorityProofs ---------------------------
(***************************************************************************)
(* Proofs about the licence Authority and about the fulfilment that calls  *)
(* it.                                                                     *)
(*                                                                         *)
(* The Authority behind its journal (LicenseAuthority, AuthorityService)   *)
(* is proved for every set of licences, devices, challenges and requests   *)
(* and every limit of devices.  ServiceInv is inductive: a seat must be    *)
(* traced to the challenge that was spent for it, and a journal row to the *)
(* answer that its transaction wrote, for a replay reads that answer and   *)
(* not the licence.                                                        *)
(*                                                                         *)
(* The fulfilment of Whop purchases (WhopFulfillment) is proved for every  *)
(* set of payments, webhooks and workers.  FulfillmentInv is inductive:    *)
(* what a worker read before it called the Authority is still true when it *)
(* commits, because it holds the writer lock, and a place that was free    *)
(* when it looked is free when it takes it.  Finiteness of the sets that   *)
(* are counted is part of the invariants and not assumed.                  *)
(***************************************************************************)
EXTENDS AuthorityService, WhopFulfillment, FiniteSetTheorems, TLAPS

-----------------------------------------------------------------------------
(* LicenseAuthority: what its operations write. *)

\* As long as nobody is activated or deactivated, the same devices are active.
LEMMA SameActive ==
  ASSUME activation' = activation, NEW l \in Licenses
  PROVE  Active(l)' = Active(l)
BY DEF Active

\* A row of activations, and the same row deactivated.
LEMMA ActivationCell ==
  ASSUME AuthorityTypeOK, NEW l \in Licenses, NEW d \in Devices
  PROVE  /\ activation[l] \in [Devices -> Activation]
         /\ activation[l][d] \in Activation
         /\ activation[l][d].by \in Challenges \cup {Nil}
         /\ [activation[l][d] EXCEPT !.active = FALSE] \in Activation
         /\ [activation[l][d] EXCEPT !.active = FALSE].by = activation[l][d].by
         /\ [activation[l][d] EXCEPT !.active = FALSE].active = FALSE
<1>1. activation[l] \in [Devices -> Activation] /\ activation[l][d] \in Activation
  BY DEF AuthorityTypeOK
<1>2. ASSUME NEW a \in Activation
      PROVE  /\ a.by \in Challenges \cup {Nil}
             /\ [a EXCEPT !.active = FALSE] \in Activation
             /\ [a EXCEPT !.active = FALSE].by = a.by
             /\ [a EXCEPT !.active = FALSE].active = FALSE
  BY DEF Activation
<1> QED
  BY <1>1, <1>2

\* What a row of activations names.
LEMMA ActivatedBy ==
  ASSUME AuthorityTypeOK, NEW l \in Licenses, NEW d \in Devices
  PROVE  activation[l][d].by \in Challenges \cup {Nil}
BY ActivationCell

\* Challenges that are superseded, rotated away or used change their state alone.
LEMMA ConsumedKeeps ==
  ASSUME AuthorityTypeOK, NEW used
  PROVE  /\ Consumed(used) \in [Challenges -> Challenge]
         /\ \A c \in Challenges :
              LET x == Consumed(used)[c]
              IN  /\ x.licence = challenge[c].licence /\ x.device = challenge[c].device
                  /\ x.flow = challenge[c].flow /\ x.secret = challenge[c].secret
                  /\ x.request = challenge[c].request
                  /\ x.state = "none" <=> challenge[c].state = "none"
                  /\ challenge[c].state = "consumed" => x.state = "consumed"
<1>1. challenge \in [Challenges -> Challenge]
  BY DEF AuthorityTypeOK
<1>2. ASSUME NEW c \in Challenges
      PROVE  LET x == [challenge[c] EXCEPT !.state = "consumed"]
             IN  /\ x \in Challenge /\ x.state = "consumed"
                 /\ x.licence = challenge[c].licence /\ x.device = challenge[c].device
                 /\ x.flow = challenge[c].flow /\ x.secret = challenge[c].secret
                 /\ x.request = challenge[c].request
  BY <1>1 DEF Challenge
<1>3. \A c \in Challenges : Consumed(used)[c] =
        IF c \in used /\ challenge[c].state \in {"open", "expired"}
        THEN [challenge[c] EXCEPT !.state = "consumed"] ELSE challenge[c]
  BY DEF Consumed
<1>4. Consumed(used) \in [Challenges -> Challenge]
  BY <1>1, <1>2 DEF Consumed
<1> QED
  BY <1>2, <1>3, <1>4

\* A new licence has no devices yet (create_gift, create_external_entitlement).
LEMMA LicenceCreated ==
  ASSUME AuthorityInv, NEW l \in Licenses, NEW n \in SeatLimits, NEW s \in {0, 1},
         licence[l].state = "none",
         licence' = [licence EXCEPT ![l] = [state |-> "valid", seats |-> n, secret |-> s]],
         source' \in [Sources -> Licenses \cup {Nil}], UNCHANGED <<activation, challenge>>
  PROVE  AuthorityInv'
<1> USE AuthorityConstants
<1>1. AuthorityTypeOK /\ licence \in [Licenses -> Licence]
  BY DEF AuthorityInv, AuthorityTypeOK
<1>2. [state |-> "valid", seats |-> n, secret |-> s] \in Licence
  BY DEF Licence
<1>3. /\ licence' \in [Licenses -> Licence]
      /\ licence'[l].state = "valid" /\ licence'[l].seats = n
      /\ \A k \in Licenses \ {l} : licence'[k] = licence[k]
  BY <1>1, <1>2
<1>4. AuthorityTypeOK'
  BY <1>1, <1>3 DEF AuthorityTypeOK
<1>5. ChallengeIsGrounded'
  BY <1>3 DEF AuthorityInv, ChallengeIsGrounded
<1>6. ActiveIsFinite'
  BY <1>3, SameActive DEF AuthorityInv, ActiveIsFinite
<1>7. SeatsHeld'
  <2>1. Active(l) = {} /\ Cardinality(Active(l)) = 0
    BY FS_EmptySet DEF AuthorityInv, ActiveIsFinite
  <2>2. Cardinality(Active(l)) <= n
    BY <2>1
  <2> QED
    BY <1>3, <2>2, SameActive DEF AuthorityInv, SeatsHeld
<1>8. RequestsAgree'
  BY DEF AuthorityInv, RequestsAgree
<1> QED
  BY <1>4, <1>5, <1>6, <1>7, <1>8 DEF AuthorityInv

\* A step that consumes challenges, and issues none, loses nothing
\* (recover_gift, the expiry of a challenge).
LEMMA ChallengesConsumed ==
  ASSUME AuthorityInv, AuthorityTypeOK',
         \A l \in Licenses : licence'[l].state = licence[l].state /\ licence'[l].seats = licence[l].seats,
         \A c \in Challenges :
           /\ challenge'[c].licence = challenge[c].licence /\ challenge'[c].device = challenge[c].device
           /\ challenge'[c].request = challenge[c].request
           /\ challenge'[c].state = "none" <=> challenge[c].state = "none"
           /\ challenge[c].state = "consumed" => challenge'[c].state = "consumed",
         UNCHANGED activation
  PROVE  AuthorityInv'
<1>1. ChallengeIsGrounded'
  BY DEF AuthorityInv, ChallengeIsGrounded
<1>2. ActiveIsFinite'
  BY SameActive DEF AuthorityInv, ActiveIsFinite
<1>3. SeatsHeld'
  BY SameActive DEF AuthorityInv, SeatsHeld
<1>4. RequestsAgree'
  <2>1. \A l \in Licenses, d \in Devices : activation[l][d].by \in Challenges \cup {Nil}
    BY ActivatedBy DEF AuthorityInv
  <2> QED
    BY <2>1 DEF AuthorityInv, RequestsAgree
<1> QED
  BY <1>1, <1>2, <1>3, <1>4 DEF AuthorityInv

\* A new secret ends the challenges of the old one (recover_gift).
LEMMA RecoverGiftKeeps ==
  ASSUME AuthorityInv, NEW l \in Licenses, NEW a, RecoverGift(l, a)
  PROVE  AuthorityInv'
<1>1. AuthorityTypeOK /\ licence \in [Licenses -> Licence]
  BY DEF AuthorityInv, AuthorityTypeOK
<1>2. [licence[l] EXCEPT !.secret = @ + 1] \in Licence
  BY <1>1 DEF Licence
<1>3. /\ licence' \in [Licenses -> Licence]
      /\ \A k \in Licenses : licence'[k].state = licence[k].state /\ licence'[k].seats = licence[k].seats
  BY <1>1, <1>2 DEF RecoverGift, Licence
<1>4. AuthorityTypeOK'
  BY <1>1, <1>3, ConsumedKeeps DEF AuthorityTypeOK, RecoverGift
<1> QED
  BY <1>1, <1>3, <1>4, ConsumedKeeps, ChallengesConsumed DEF RecoverGift

\* The end of a challenge's time to live.
LEMMA ChallengeExpiresKeeps ==
  ASSUME AuthorityInv, NEW c \in Challenges, ChallengeExpires(c)
  PROVE  AuthorityInv'
<1>1. AuthorityTypeOK /\ challenge \in [Challenges -> Challenge]
  BY DEF AuthorityInv, AuthorityTypeOK
<1>2. [challenge[c] EXCEPT !.state = "expired"] \in Challenge
  BY <1>1 DEF Challenge
<1>3. AuthorityTypeOK'
  BY <1>1, <1>2 DEF AuthorityTypeOK, ChallengeExpires
<1>4. \A x \in Challenges :
        /\ challenge'[x].licence = challenge[x].licence /\ challenge'[x].device = challenge[x].device
        /\ challenge'[x].request = challenge[x].request
        /\ challenge'[x].state = "none" <=> challenge[x].state = "none"
        /\ challenge[x].state = "consumed" => challenge'[x].state = "consumed"
  BY <1>1 DEF ChallengeExpires, Challenge
<1> QED
  BY <1>3, <1>4, ChallengesConsumed DEF ChallengeExpires

\* The licence, its devices, their requests and its challenges end together
\* (revoke_gift, revoke_external_entitlement).
LEMMA RevokedKeeps ==
  ASSUME AuthorityInv, NEW l \in Licenses, licence[l].state = "valid", Revoked(l)
  PROVE  AuthorityInv'
<1> USE AuthorityConstants
<1>1. /\ AuthorityTypeOK /\ licence \in [Licenses -> Licence]
      /\ activation \in [Licenses -> [Devices -> Activation]]
      /\ challenge \in [Challenges -> Challenge]
  BY DEF AuthorityInv, AuthorityTypeOK
<1>2. /\ licence' \in [Licenses -> Licence]
      /\ licence'[l].state = "revoked"
      /\ \A k \in Licenses : licence'[k].seats = licence[k].seats
      /\ \A k \in Licenses \ {l} : licence'[k] = licence[k]
  <2>1. [licence[l] EXCEPT !.state = "revoked"] \in Licence
    BY <1>1 DEF Licence
  <2> QED
    BY <1>1, <2>1 DEF Revoked, Licence
<1>3. /\ activation' \in [Licenses -> [Devices -> Activation]]
      /\ \A d \in Devices : /\ activation'[l][d].by = activation[l][d].by
                            /\ activation'[l][d].active = FALSE
      /\ \A k \in Licenses \ {l} : activation'[k] = activation[k]
  <2> DEFINE ended == [d \in Devices |-> [activation[l][d] EXCEPT !.active = FALSE]]
  <2>1. /\ ended \in [Devices -> Activation]
        /\ \A d \in Devices : ended[d].by = activation[l][d].by /\ ended[d].active = FALSE
    BY <1>1, ActivationCell
  <2>2. activation' = [activation EXCEPT ![l] = ended]
    BY DEF Revoked
  <2> HIDE DEF ended
  <2> QED
    BY <1>1, <2>1, <2>2
<1>4. \A c \in Challenges :
        /\ challenge'[c] \in Challenge
        /\ challenge'[c].licence = challenge[c].licence /\ challenge'[c].device = challenge[c].device
        /\ challenge[c].licence = l =>
             challenge'[c].state = "consumed" /\ challenge'[c].request # "active"
        /\ challenge[c].licence # l => challenge'[c] = challenge[c]
  <2> SUFFICES ASSUME NEW c \in Challenges
               PROVE  /\ challenge'[c] \in Challenge
                      /\ challenge'[c].licence = challenge[c].licence
                      /\ challenge'[c].device = challenge[c].device
                      /\ challenge[c].licence = l =>
                           challenge'[c].state = "consumed" /\ challenge'[c].request # "active"
                      /\ challenge[c].licence # l => challenge'[c] = challenge[c]
    OBVIOUS
  <2> DEFINE q == IF challenge[c].request = "active" THEN "consumed" ELSE challenge[c].request
  <2>1. q \in {"none", "consumed"} /\ challenge[c] \in Challenge
    BY <1>1 DEF Challenge
  <2>2. challenge'[c] = IF challenge[c].licence = l
                        THEN [challenge[c] EXCEPT !.state = "consumed", !.request = q]
                        ELSE challenge[c]
    BY DEF Revoked
  <2> HIDE DEF q
  <2> QED
    BY <2>1, <2>2 DEF Challenge
<1>5. AuthorityTypeOK'
  <2>1. challenge' \in [Challenges -> Challenge]
    BY <1>4 DEF Revoked
  <2> QED
    BY <1>1, <1>2, <1>3, <2>1 DEF AuthorityTypeOK, Revoked
<1>6. ChallengeIsGrounded'
  <2> SUFFICES ASSUME NEW c \in Challenges
               PROVE  /\ challenge'[c].state = "none" => challenge'[c].licence = Nil
                      /\ challenge'[c].state # "none" =>
                           /\ challenge'[c].licence \in Licenses /\ challenge'[c].device \in Devices
                           /\ licence'[challenge'[c].licence].state # "none"
    BY DEF ChallengeIsGrounded
  <2> QED
    BY <1>2, <1>4 DEF AuthorityInv, ChallengeIsGrounded
<1>7. Active(l)' = {} /\ \A k \in Licenses \ {l} : Active(k)' = Active(k)
  BY <1>3 DEF Active
<1>8. ActiveIsFinite'
  BY <1>2, <1>7, FS_EmptySet DEF AuthorityInv, ActiveIsFinite
<1>9. SeatsHeld'
  <2>1. Cardinality(Active(l))' <= licence'[l].seats
    BY <1>1, <1>2, <1>7, FS_EmptySet DEF Licence
  <2> SUFFICES ASSUME NEW k \in Licenses
               PROVE  /\ Cardinality(Active(k)') <= licence'[k].seats
                      /\ licence'[k].state = "revoked" =>
                           /\ Active(k)' = {}
                           /\ \A c \in Challenges : challenge'[c].licence = k =>
                                challenge'[c].state = "consumed" /\ challenge'[c].request # "active"
    BY DEF SeatsHeld
  <2>2. CASE k = l
    BY <1>4, <1>7, <2>1, <2>2
  <2>3. CASE k # l
    BY <1>2, <1>4, <1>7, <2>3 DEF AuthorityInv, SeatsHeld
  <2> QED
    BY <2>2, <2>3
<1>10. RequestsAgree'
  <2> SUFFICES ASSUME NEW k \in Licenses, NEW d \in Devices, activation'[k][d].by # Nil
               PROVE  LET c == activation'[k][d].by
                      IN  /\ challenge'[c].licence = k /\ challenge'[c].device = d
                          /\ activation'[k][d].active <=> challenge'[c].request = "active"
    BY DEF RequestsAgree
  <2>0. activation'[k][d].by = activation[k][d].by
    BY <1>3
  <2>1. activation'[k][d].by = activation[k][d].by /\ activation[k][d].by \in Challenges
    BY <1>1, <2>0, ActivatedBy
  <2>2. challenge[activation[k][d].by].licence = k
    BY <2>1 DEF AuthorityInv, RequestsAgree
  <2>3. CASE k = l
    BY <1>3, <1>4, <2>1, <2>2, <2>3 DEF AuthorityInv, RequestsAgree
  <2>4. CASE k # l
    BY <1>3, <1>4, <2>1, <2>2, <2>4 DEF AuthorityInv, RequestsAgree
  <2> QED
    BY <2>3, <2>4
<1> QED
  BY <1>5, <1>6, <1>8, <1>9, <1>10 DEF AuthorityInv

\* A new challenge, of a valid licence, supersedes the device's open ones
\* (issue_activation_challenge, issue_gift_claim_challenge).
LEMMA IssuedKeeps ==
  ASSUME AuthorityInv, NEW c \in Challenges, NEW l \in Licenses, NEW d \in Devices,
         NEW flow \in {"payment", "gift"}, NEW secret \in Nat,
         licence[l].state = "valid", Issued(c, l, d, flow, secret)
  PROVE  AuthorityInv'
<1> DEFINE used == {x \in Challenges : challenge[x].licence = l /\ challenge[x].device = d}
           new == [state |-> "open", licence |-> l, device |-> d, flow |-> flow,
                   secret |-> secret, request |-> "none"]
<1> USE AuthorityConstants
<1>1. AuthorityTypeOK /\ challenge \in [Challenges -> Challenge]
  BY DEF AuthorityInv, AuthorityTypeOK
<1>2. new \in Challenge /\ new.state = "open" /\ new.licence = l /\ new.device = d
  BY DEF Challenge
<1>3. challenge[c].state = "none" /\ challenge' = [Consumed(used) EXCEPT ![c] = new]
      /\ UNCHANGED <<licence, source, activation>>
  BY DEF Issued
<1> HIDE DEF used, new
<1>4. /\ challenge' \in [Challenges -> Challenge]
      /\ challenge'[c] = new
      /\ \A x \in Challenges \ {c} : challenge'[x] = Consumed(used)[x]
  BY <1>1, <1>2, <1>3, ConsumedKeeps
<1>5. \A x \in Challenges \ {c} :
        /\ challenge'[x].licence = challenge[x].licence /\ challenge'[x].device = challenge[x].device
        /\ challenge'[x].request = challenge[x].request
        /\ challenge'[x].state = "none" <=> challenge[x].state = "none"
        /\ challenge[x].state = "consumed" => challenge'[x].state = "consumed"
  BY <1>1, <1>4, ConsumedKeeps
<1>6. AuthorityTypeOK'
  BY <1>1, <1>3, <1>4 DEF AuthorityTypeOK
<1>7. ChallengeIsGrounded'
  BY <1>2, <1>3, <1>4, <1>5 DEF AuthorityInv, ChallengeIsGrounded
<1>8. ActiveIsFinite'
  BY <1>3, SameActive DEF AuthorityInv, ActiveIsFinite
<1>9. SeatsHeld'
  BY <1>2, <1>3, <1>4, <1>5, SameActive DEF AuthorityInv, SeatsHeld
<1>10. RequestsAgree'
  <2>1. \A k \in Licenses, e \in Devices : activation[k][e].by \in (Challenges \cup {Nil}) \ {c}
    <3> SUFFICES ASSUME NEW k \in Licenses, NEW e \in Devices, activation[k][e].by = c PROVE FALSE
      BY <1>1, ActivatedBy
    <3>1. c # Nil
      OBVIOUS
    <3>2. challenge[c].licence = k
      BY <3>1 DEF AuthorityInv, RequestsAgree
    <3> QED
      BY <1>3, <3>2 DEF AuthorityInv, ChallengeIsGrounded
  <2> QED
    BY <1>3, <1>5, <2>1 DEF AuthorityInv, RequestsAgree
<1> QED
  BY <1>6, <1>7, <1>8, <1>9, <1>10 DEF AuthorityInv

\* A device takes a seat that is free or the one it has, and its request is the
\* one that is active from now on (_activate_in_transaction).
LEMMA ActivateKeeps ==
  ASSUME AuthorityInv, NEW c \in Challenges, NEW flow, NEW a, Activate(c, flow, a)
  PROVE  AuthorityInv'
<1> USE AuthorityConstants
<1>0. /\ challenge[c].licence \in Licenses /\ challenge[c].device \in Devices
      /\ licence[challenge[c].licence].state = "valid" /\ challenge[c].state = "open"
  BY DEF Activate, Admissible, Unused, AuthorityInv, ChallengeIsGrounded
<1> SUFFICES ASSUME NEW l \in Licenses, NEW d \in Devices,
                    challenge[c].licence = l, challenge[c].device = d
             PROVE  AuthorityInv'
  BY <1>0
<1>1. /\ AuthorityTypeOK /\ licence \in [Licenses -> Licence]
      /\ activation \in [Licenses -> [Devices -> Activation]]
      /\ challenge \in [Challenges -> Challenge]
  BY DEF AuthorityInv, AuthorityTypeOK
<1>2. licence[l].state = "valid"
  BY <1>0
<1>3. /\ challenge' \in [Challenges -> Challenge]
      /\ challenge'[c].licence = l /\ challenge'[c].device = d
      /\ challenge'[c].state = "consumed" /\ challenge'[c].request = "active"
      /\ \A x \in Challenges \ {c} : challenge'[x] = challenge[x]
  <2>1. challenge' = [challenge EXCEPT ![c] =
                        [challenge[c] EXCEPT !.state = "consumed", !.request = "active"]]
    BY DEF Activate
  <2>2. LET x == [challenge[c] EXCEPT !.state = "consumed", !.request = "active"]
        IN  /\ x \in Challenge /\ x.licence = l /\ x.device = d
            /\ x.state = "consumed" /\ x.request = "active"
    BY <1>1 DEF Challenge
  <2> QED
    BY <1>1, <2>1, <2>2
<1>4. /\ activation' \in [Licenses -> [Devices -> Activation]]
      /\ activation'[l][d].by = c /\ activation'[l][d].active = TRUE
      /\ \A e \in Devices \ {d} : activation'[l][e] = activation[l][e]
      /\ \A k \in Licenses \ {l} : activation'[k] = activation[k]
  <2> DEFINE new == [by |-> c, active |-> TRUE]
             cells == [activation[l] EXCEPT ![d] = new]
  <2>1. new \in Activation /\ new.by = c /\ new.active = TRUE
    BY DEF Activation
  <2>2. activation[l] \in [Devices -> Activation]
    BY <1>1, <1>2
  <2>3. activation' = [activation EXCEPT ![l] = cells]
    BY DEF Activate
  <2> HIDE DEF new
  <2>4. /\ cells \in [Devices -> Activation] /\ cells[d] = new
        /\ \A e \in Devices \ {d} : cells[e] = activation[l][e]
    BY <1>2, <2>1, <2>2
  <2> HIDE DEF cells
  <2> QED
    BY <1>1, <1>2, <2>1, <2>3, <2>4
<1>5. licence' = licence /\ source' = source /\ HasSeat(l, d)
  BY DEF Activate
<1>6. AuthorityTypeOK'
  BY <1>1, <1>3, <1>4, <1>5 DEF AuthorityTypeOK
<1>7. ChallengeIsGrounded'
  BY <1>2, <1>3, <1>5 DEF AuthorityInv, ChallengeIsGrounded
<1>8. /\ Active(l)' = Active(l) \cup {d}
      /\ \A k \in Licenses \ {l} : Active(k)' = Active(k)
  BY <1>2, <1>4 DEF Active
<1>9. IsFiniteSet(Active(l)) /\ Cardinality(Active(l)) \in Nat
  BY <1>2, FS_CardinalityType DEF AuthorityInv, ActiveIsFinite
<1>10. ActiveIsFinite'
  BY <1>2, <1>5, <1>8, <1>9, FS_AddElement DEF AuthorityInv, ActiveIsFinite
<1>11. Cardinality(Active(l)') <= licence[l].seats
  <2>1. Cardinality(Active(l)) <= licence[l].seats /\ licence[l].seats \in Nat
    BY <1>1, <1>2 DEF AuthorityInv, SeatsHeld, Licence
  <2>2. Cardinality(Active(l) \cup {d}) = IF d \in Active(l) THEN Cardinality(Active(l))
                                          ELSE Cardinality(Active(l)) + 1
    BY <1>9, FS_AddElement
  <2>3. d \in Active(l) \/ Cardinality(Active(l)) < licence[l].seats
    BY <1>5 DEF HasSeat
  <2> QED
    BY <1>8, <1>9, <2>1, <2>2, <2>3
<1>12. SeatsHeld'
  <2> SUFFICES ASSUME NEW k \in Licenses
               PROVE  /\ Cardinality(Active(k)') <= licence'[k].seats
                      /\ licence'[k].state = "revoked" =>
                           /\ Active(k)' = {}
                           /\ \A x \in Challenges : challenge'[x].licence = k =>
                                challenge'[x].state = "consumed" /\ challenge'[x].request # "active"
    BY DEF SeatsHeld
  <2>1. CASE k = l
    BY <1>2, <1>5, <1>11, <2>1
  <2>2. CASE k # l
    BY <1>3, <1>5, <1>8, <2>2 DEF AuthorityInv, SeatsHeld
  <2> QED
    BY <2>1, <2>2
<1>13. RequestsAgree'
  <2> SUFFICES ASSUME NEW k \in Licenses, NEW e \in Devices, activation'[k][e].by # Nil
               PROVE  LET x == activation'[k][e].by
                      IN  /\ challenge'[x].licence = k /\ challenge'[x].device = e
                          /\ activation'[k][e].active <=> challenge'[x].request = "active"
    BY DEF RequestsAgree
  <2>1. CASE k = l /\ e = d
    BY <1>3, <1>4, <2>1
  <2>2. CASE ~(k = l /\ e = d)
    <3>1. activation'[k][e] = activation[k][e]
      BY <1>4, <2>2
    <3>2. activation[k][e].by \in Challenges
      BY <1>1, <3>1, ActivatedBy
    <3>3. /\ challenge[activation[k][e].by].licence = k /\ challenge[activation[k][e].by].device = e
          /\ activation[k][e].active <=> challenge[activation[k][e].by].request = "active"
      BY <3>1 DEF AuthorityInv, RequestsAgree
    <3>4. activation[k][e].by # c
      BY <2>2, <3>3
    <3> QED
      BY <1>3, <3>1, <3>2, <3>3, <3>4
  <2> QED
    BY <2>1, <2>2
<1> QED
  BY <1>6, <1>7, <1>10, <1>12, <1>13 DEF AuthorityInv

\* A deactivated device gives its seat back, and its requests are consumed
\* (deactivate).
LEMMA DeactivateKeeps ==
  ASSUME AuthorityInv, NEW l \in Licenses, NEW d \in Devices, NEW a, Deactivate(l, d, a)
  PROVE  AuthorityInv'
<1> USE AuthorityConstants
<1>1. /\ AuthorityTypeOK /\ licence \in [Licenses -> Licence]
      /\ activation \in [Licenses -> [Devices -> Activation]]
      /\ challenge \in [Challenges -> Challenge]
  BY DEF AuthorityInv, AuthorityTypeOK
<1>2. \A c \in Challenges :
        /\ challenge'[c] \in Challenge
        /\ challenge'[c].licence = challenge[c].licence /\ challenge'[c].device = challenge[c].device
        /\ challenge'[c].state = challenge[c].state
        /\ challenge[c].request # "active" => challenge'[c].request # "active"
        /\ d \in Active(l) /\ challenge[c].licence = l /\ challenge[c].device = d =>
             challenge'[c].request # "active"
        /\ ~(d \in Active(l) /\ challenge[c].licence = l /\ challenge[c].device = d) =>
             challenge'[c] = challenge[c]
  <2>1. \A x \in Challenge :
          LET y == [x EXCEPT !.request = "consumed"]
          IN  /\ y \in Challenge /\ y.licence = x.licence /\ y.device = x.device
              /\ y.state = x.state /\ y.request = "consumed"
    BY DEF Challenge
  <2>2. \A c \in Challenges : challenge'[c] =
          IF /\ d \in Active(l)
             /\ challenge[c].licence = l /\ challenge[c].device = d
             /\ challenge[c].request = "active"
          THEN [challenge[c] EXCEPT !.request = "consumed"] ELSE challenge[c]
    BY DEF Deactivate
  <2> QED
    BY <1>1, <2>1, <2>2
<1>3. /\ activation' \in [Licenses -> [Devices -> Activation]]
      /\ activation'[l][d].by = activation[l][d].by /\ activation'[l][d].active = FALSE
      /\ \A e \in Devices \ {d} : activation'[l][e] = activation[l][e]
      /\ \A k \in Licenses \ {l} : activation'[k] = activation[k]
  <2> DEFINE new == [activation[l][d] EXCEPT !.active = FALSE]
             cells == [activation[l] EXCEPT ![d] = new]
  <2>1. new \in Activation /\ new.by = activation[l][d].by /\ new.active = FALSE
    BY <1>1, ActivationCell
  <2>2. activation[l] \in [Devices -> Activation]
    BY <1>1
  <2>3. activation' = [activation EXCEPT ![l] = cells]
    BY DEF Deactivate
  <2> HIDE DEF new
  <2>4. /\ cells \in [Devices -> Activation] /\ cells[d] = new
        /\ \A e \in Devices \ {d} : cells[e] = activation[l][e]
    BY <2>1, <2>2
  <2> HIDE DEF cells
  <2> QED
    BY <1>1, <2>1, <2>3, <2>4
<1>4. licence' = licence /\ source' = source
  BY DEF Deactivate
<1>5. AuthorityTypeOK'
  <2>1. challenge' \in [Challenges -> Challenge]
    BY <1>2 DEF Deactivate
  <2> QED
    BY <1>1, <1>3, <1>4, <2>1 DEF AuthorityTypeOK
<1>6. ChallengeIsGrounded'
  BY <1>2, <1>4 DEF AuthorityInv, ChallengeIsGrounded
<1>7. /\ Active(l)' = Active(l) \ {d}
      /\ \A k \in Licenses \ {l} : Active(k)' = Active(k)
  BY <1>3 DEF Active
<1>8. /\ \A k \in Licenses : Active(k)' \subseteq Active(k) /\ IsFiniteSet(Active(k))
      /\ \A k \in Licenses : IsFiniteSet(Active(k)') /\ Cardinality(Active(k)') <= Cardinality(Active(k))
      /\ \A k \in Licenses : Cardinality(Active(k)') \in Nat /\ Cardinality(Active(k)) \in Nat
  BY <1>7, FS_Subset, FS_CardinalityType DEF AuthorityInv, ActiveIsFinite
<1>9. ActiveIsFinite'
  BY <1>4, <1>8 DEF AuthorityInv, ActiveIsFinite
<1>10. SeatsHeld'
  <2> SUFFICES ASSUME NEW k \in Licenses
               PROVE  /\ Cardinality(Active(k)') <= licence'[k].seats
                      /\ licence'[k].state = "revoked" =>
                           /\ Active(k)' = {}
                           /\ \A x \in Challenges : challenge'[x].licence = k =>
                                challenge'[x].state = "consumed" /\ challenge'[x].request # "active"
    BY DEF SeatsHeld
  <2>1. Cardinality(Active(k)) <= licence[k].seats /\ licence[k].seats \in Nat
    BY <1>1 DEF AuthorityInv, SeatsHeld, Licence
  <2>2. Cardinality(Active(k)') <= licence'[k].seats
    BY <1>4, <1>8, <2>1
  <2> QED
    BY <1>2, <1>4, <1>8, <2>2 DEF AuthorityInv, SeatsHeld
<1>11. RequestsAgree'
  <2> SUFFICES ASSUME NEW k \in Licenses, NEW e \in Devices, activation'[k][e].by # Nil
               PROVE  LET x == activation'[k][e].by
                      IN  /\ challenge'[x].licence = k /\ challenge'[x].device = e
                          /\ activation'[k][e].active <=> challenge'[x].request = "active"
    BY DEF RequestsAgree
  <2>1. activation'[k][e].by = activation[k][e].by
    BY <1>3
  <2>2. activation[k][e].by \in Challenges
    BY <1>1, <2>1, ActivatedBy
  <2>3. /\ challenge[activation[k][e].by].licence = k /\ challenge[activation[k][e].by].device = e
        /\ activation[k][e].active <=> challenge[activation[k][e].by].request = "active"
    BY <2>1 DEF AuthorityInv, RequestsAgree
  <2>4. CASE k = l /\ e = d
    <3>1. d \in Active(l) <=> activation[l][d].active
      BY DEF Active
    <3> QED
      BY <1>2, <1>3, <2>1, <2>2, <2>3, <2>4, <3>1
  <2>5. CASE ~(k = l /\ e = d)
    <3>1. activation'[k][e] = activation[k][e]
      BY <1>3, <2>5
    <3> QED
      BY <1>2, <2>2, <2>3, <2>5, <3>1
  <2> QED
    BY <2>4, <2>5
<1> QED
  BY <1>5, <1>6, <1>9, <1>10, <1>11 DEF AuthorityInv

-----------------------------------------------------------------------------
(* AuthorityService: requests behind the journal. *)

\* What the body of a request names, by its operation.
LEMMA BodyNames ==
  ASSUME NEW b \in Body
  PROVE  /\ b.op \in {"create_external", "revoke_external"} => b.source \in Sources
         /\ b.op \in {"recover", "revoke_gift", "deactivate", "gift_challenge", "challenge"} =>
              b.licence \in Licenses
         /\ b.op \in {"deactivate", "gift_challenge", "challenge"} => b.device \in Devices
         /\ b.op = "complete" => b.challenge \in Challenges
BY DEF Body

\* An accepted body is one the Authority has handed out the names of.
LEMMA OperationIsBody == ASSUME NEW b \in Operation PROVE b \in Body
BY DEF Operation, Body

\* Steps of the journal leave the Authority alone.
LEMMA AuthorityUnchanged == AuthorityInv /\ UNCHANGED authorityVars => AuthorityInv'
<1> SUFFICES ASSUME AuthorityInv, UNCHANGED <<licence, source, activation, challenge>>
             PROVE  AuthorityInv'
  BY DEF authorityVars
<1>1. AuthorityTypeOK'
  BY DEF AuthorityInv, AuthorityTypeOK
<1>2. ChallengeIsGrounded' /\ RequestsAgree'
  BY DEF AuthorityInv, ChallengeIsGrounded, RequestsAgree
<1>3. ActiveIsFinite' /\ SeatsHeld'
  BY SameActive DEF AuthorityInv, ActiveIsFinite, SeatsHeld
<1> QED
  BY <1>1, <1>2, <1>3 DEF AuthorityInv

\* An operation that commits keeps the invariant of the Authority.
LEMMA PerformKeeps ==
  ASSUME AuthorityInv, NEW b \in Body, NEW a, Perform(b, a)
  PROVE  AuthorityInv'
<1> USE AuthorityConstants
<1>1. CASE UNCHANGED authorityVars
  BY <1>1, AuthorityUnchanged
<1>2. ASSUME NEW l \in Licenses, CreateGift(l, a) PROVE AuthorityInv'
  <2>1. source \in [Sources -> Licenses \cup {Nil}]
    BY DEF AuthorityInv, AuthorityTypeOK
  <2> QED
    BY <1>2, <2>1, LicenceCreated DEF CreateGift
<1>3. ASSUME NEW s \in Sources, NEW l \in Licenses, CreateExternal(s, l, a) PROVE AuthorityInv'
  <2>1. source \in [Sources -> Licenses \cup {Nil}]
    BY DEF AuthorityInv, AuthorityTypeOK
  <2>2. CASE source[s] = l /\ UNCHANGED authorityVars
    BY <1>1, <2>2
  <2>3. CASE ~(source[s] = l /\ UNCHANGED authorityVars)
    <3>1. source' \in [Sources -> Licenses \cup {Nil}]
      BY <1>3, <2>1, <2>3 DEF CreateExternal
    <3> QED
      BY <1>3, <2>3, <3>1, LicenceCreated DEF CreateExternal
  <2> QED
    BY <2>2, <2>3
<1>4. ASSUME b.op = "revoke_gift", RevokeGift(b.licence, a) PROVE AuthorityInv'
  BY <1>1, <1>4, BodyNames, RevokedKeeps DEF RevokeGift
<1>5. ASSUME b.op = "revoke_external", RevokeExternal(b.source, a) PROVE AuthorityInv'
  <2>1. b.source \in Sources
    BY <1>5, BodyNames
  <2>2. source[b.source] \in Licenses
    BY <1>5, <2>1 DEF RevokeExternal, AuthorityInv, AuthorityTypeOK
  <2> QED
    BY <1>1, <1>5, <2>2, RevokedKeeps DEF RevokeExternal
<1>6. ASSUME b.op = "recover", RecoverGift(b.licence, a) PROVE AuthorityInv'
  BY <1>6, BodyNames, RecoverGiftKeeps
<1>7. ASSUME b.op = "gift_challenge", NEW c \in Challenges,
             IssueGiftChallenge(b.licence, b.secret, b.device, c, a)
      PROVE  AuthorityInv'
  <2>1. b.licence \in Licenses /\ b.device \in Devices
    BY <1>7, BodyNames
  <2>2. b.secret \in Nat
    BY <1>7, <2>1 DEF IssueGiftChallenge, AuthorityInv, AuthorityTypeOK, Licence
  <2> QED
    BY <1>7, <2>1, <2>2, IssuedKeeps DEF IssueGiftChallenge
<1>8. ASSUME b.op = "challenge", NEW c \in Challenges,
             IssueActivationChallenge(b.licence, b.device, c, a)
      PROVE  AuthorityInv'
  <2>1. b.licence \in Licenses /\ b.device \in Devices
    BY <1>8, BodyNames
  <2> QED
    BY <1>8, <2>1, IssuedKeeps DEF IssueActivationChallenge
<1>9. ASSUME b.op = "deactivate", DeactivateGiftDevice(b.licence, b.device, a) PROVE AuthorityInv'
  BY <1>9, BodyNames, DeactivateKeeps DEF DeactivateGiftDevice
<1>10. ASSUME b.op = "complete", Retrieve(b.challenge, b.flow, a) PROVE AuthorityInv'
  BY <1>1, <1>10 DEF Retrieve
<1>11. ASSUME b.op = "complete", Activate(b.challenge, b.flow, a) PROVE AuthorityInv'
  BY <1>11, BodyNames, ActivateKeeps
<1> QED
  <2>1. b.op = "create_external" => b.source \in Sources
    BY BodyNames
  <2> QED
    BY <1>2, <1>3, <1>4, <1>5, <1>6, <1>7, <1>8, <1>9, <1>10, <1>11, <2>1 DEF Perform, PerformGift

\* What an operation returns can be stored and sent.
LEMMA PerformAnswers ==
  ASSUME AuthorityTypeOK, NEW b \in Body, NEW a, Perform(b, a)
  PROVE  a \in Answer
<1>1. ASSUME NEW l \in Licenses, NEW n \in Nat PROVE <<"gift", l, n>> \in Answer
  BY DEF Answer
<1>2. ASSUME NEW l \in Licenses PROVE <<"entitlement", l>> \in Answer /\ <<"revoked", l>> \in Answer
  BY DEF Answer
<1>3. ASSUME NEW c \in Challenges PROVE <<"challenge", c>> \in Answer /\ <<"certificate", c>> \in Answer
  BY DEF Answer
<1>4. ASSUME NEW x \in BOOLEAN PROVE <<"deactivated", x>> \in Answer
  BY DEF Answer
<1>5. ASSUME NEW l \in Licenses PROVE licence[l].secret \in Nat /\ licence[l].secret + 1 \in Nat
  BY DEF AuthorityTypeOK, Licence
<1>6. ASSUME NEW s \in Sources, source[s] # Nil PROVE source[s] \in Licenses
  BY <1>6 DEF AuthorityTypeOK
<1>7. CASE PerformGift(b, a)
  <2>1. ASSUME NEW l \in Licenses, CreateGift(l, a) PROVE a \in Answer
    BY <1>1, <2>1 DEF CreateGift
  <2>2. ASSUME b.op = "recover", RecoverGift(b.licence, a) PROVE a \in Answer
    BY <1>1, <1>5, <2>2, BodyNames DEF RecoverGift
  <2>3. ASSUME b.op = "revoke_gift", RevokeGift(b.licence, a) PROVE a \in Answer
    BY <1>2, <2>3, BodyNames DEF RevokeGift
  <2>4. ASSUME NEW c \in Challenges, IssueGiftChallenge(b.licence, b.secret, b.device, c, a)
        PROVE  a \in Answer
    BY <1>3, <2>4 DEF IssueGiftChallenge
  <2>5. ASSUME DeactivateGiftDevice(b.licence, b.device, a) PROVE a \in Answer
    <3>1. (b.device \in Active(b.licence)) \in BOOLEAN
      OBVIOUS
    <3>2. a = <<"deactivated", b.device \in Active(b.licence)>>
      BY <2>5 DEF DeactivateGiftDevice, Deactivate
    <3> QED
      BY <1>4, <3>1, <3>2
  <2> QED
    BY <1>7, <2>1, <2>2, <2>3, <2>4, <2>5 DEF PerformGift
<1>8. ASSUME NEW s, NEW l \in Licenses, CreateExternal(s, l, a) PROVE a \in Answer
  BY <1>2, <1>8 DEF CreateExternal
<1>9. ASSUME b.op = "revoke_external", RevokeExternal(b.source, a) PROVE a \in Answer
  BY <1>2, <1>6, <1>9, BodyNames DEF RevokeExternal
<1>10. ASSUME NEW c \in Challenges, IssueActivationChallenge(b.licence, b.device, c, a) PROVE a \in Answer
  BY <1>3, <1>10 DEF IssueActivationChallenge
<1>11. ASSUME b.op = "complete", Retrieve(b.challenge, b.flow, a) \/ Activate(b.challenge, b.flow, a)
       PROVE  a \in Answer
  BY <1>3, <1>11, BodyNames DEF Retrieve, Activate
<1> QED
  BY <1>7, <1>8, <1>9, <1>10, <1>11 DEF Perform

\* The rows the journal writes (SQLiteRequestJournal.execute).
LEMMA JournalRows ==
  /\ \A b \in Body : [state |-> "PENDING", body |-> b, leased |-> TRUE, timely |-> TRUE,
                      response |-> Nil] \in JournalRow
  /\ NoRow \in JournalRow /\ [NoRow EXCEPT !.state = "PENDING"] \in JournalRow
  /\ [NoRow EXCEPT !.state = "PENDING"].state = "PENDING"
  /\ [NoRow EXCEPT !.state = "PENDING"].timely = FALSE
  /\ [NoRow EXCEPT !.state = "PENDING"].response = Nil
<1>1. ASSUME NEW b \in Body
      PROVE  [state |-> "PENDING", body |-> b, leased |-> TRUE, timely |-> TRUE,
              response |-> Nil] \in JournalRow
  BY DEF JournalRow
<1>2. NoRow \in JournalRow /\ [NoRow EXCEPT !.state = "PENDING"] \in JournalRow
  BY DEF NoRow, JournalRow
<1>3. /\ [NoRow EXCEPT !.state = "PENDING"].state = "PENDING"
      /\ [NoRow EXCEPT !.state = "PENDING"].timely = FALSE
      /\ [NoRow EXCEPT !.state = "PENDING"].response = Nil
  BY DEF NoRow
<1> QED
  BY <1>1, <1>2, <1>3

LEMMA LeasedRow ==
  ASSUME NEW x \in JournalRow, NEW v \in BOOLEAN
  PROVE  /\ [x EXCEPT !.leased = v] \in JournalRow
         /\ [x EXCEPT !.leased = v].leased = v
         /\ [x EXCEPT !.leased = v].state = x.state
         /\ [x EXCEPT !.leased = v].body = x.body
         /\ [x EXCEPT !.leased = v].timely = x.timely
         /\ [x EXCEPT !.leased = v].response = x.response
BY DEF JournalRow

LEMMA CommittedRow ==
  ASSUME NEW x \in JournalRow, NEW a \in Answer
  PROVE  LET y == [x EXCEPT !.state = "COMMITTED", !.leased = FALSE, !.body = Nil, !.response = a]
         IN  y \in JournalRow /\ y.state = "COMMITTED" /\ y.response = a
BY DEF JournalRow

\* A request is recorded before it runs.
LEMMA AcceptKeeps ==
  ASSUME ServiceInv, NEW r \in Requests, NEW b \in Operation, Accept(r, b)
  PROVE  ServiceInv'
<1> USE ServiceConstants
<1> DEFINE new == [state |-> "PENDING", body |-> b, leased |-> TRUE, timely |-> TRUE, response |-> Nil]
<1>1. /\ AuthorityInv' /\ AuthorityTypeOK'
  BY AuthorityUnchanged DEF ServiceInv, Accept, AuthorityInv
<1>2. new \in JournalRow /\ b \in Body
  BY OperationIsBody DEF JournalRow
<1>3. /\ new.state = "PENDING" /\ new.body = b /\ new.leased = TRUE /\ new.timely = TRUE
      /\ new.response = Nil
  OBVIOUS
<1>4. /\ journal' = [journal EXCEPT ![r] = new] /\ journal[r].state = "none" /\ running = Nil
      /\ running' = r /\ UNCHANGED <<response, answered>>
  BY DEF Accept
<1> HIDE DEF new
<1>5. journal' \in [Requests -> JournalRow] /\ journal'[r] = new
      /\ \A q \in Requests \ {r} : journal'[q] = journal[q]
  BY <1>2, <1>4 DEF ServiceInv, ServiceTypeOK
<1>6. ServiceTypeOK'
  BY <1>1, <1>4, <1>5 DEF ServiceInv, ServiceTypeOK
<1>7. answered[r] = Nil
  BY <1>4 DEF ServiceInv, JournalInv
<1>8. JournalInv'
  BY <1>2, <1>3, <1>4, <1>5, <1>7 DEF ServiceInv, JournalInv
<1> QED
  BY <1>1, <1>6, <1>8 DEF ServiceInv

\* The lease of a row ends, or a row that was let in again gets a new one.
LEMMA LeasedKeeps ==
  ASSUME ServiceInv, NEW r \in Requests, Reaccept(r) \/ LeaseEnds(r)
  PROVE  ServiceInv'
<1> USE ServiceConstants
<1>1. AuthorityInv' /\ AuthorityTypeOK'
  BY AuthorityUnchanged DEF ServiceInv, Reaccept, LeaseEnds, AuthorityInv
<1>2. PICK v \in BOOLEAN : /\ journal' = [journal EXCEPT ![r].leased = v]
                           /\ UNCHANGED <<response, answered>>
                           /\ \/ /\ v = TRUE /\ running = Nil /\ running' = r
                                 /\ journal[r].state = "PENDING" /\ journal[r].timely
                              \/ v = FALSE /\ running # r /\ running' = running
  BY DEF Reaccept, LeaseEnds, LetIn
<1>3. journal \in [Requests -> JournalRow] /\ journal[r] \in JournalRow
  BY DEF ServiceInv, ServiceTypeOK
<1>4. /\ journal' \in [Requests -> JournalRow]
      /\ \A q \in Requests \ {r} : journal'[q] = journal[q]
      /\ journal'[r].leased = v
      /\ journal'[r].state = journal[r].state /\ journal'[r].body = journal[r].body
      /\ journal'[r].timely = journal[r].timely /\ journal'[r].response = journal[r].response
  <2> DEFINE new == [journal[r] EXCEPT !.leased = v]
  <2>1. /\ new \in JournalRow /\ new.leased = v
        /\ new.state = journal[r].state /\ new.body = journal[r].body
        /\ new.timely = journal[r].timely /\ new.response = journal[r].response
    BY <1>3, LeasedRow
  <2>2. journal' = [journal EXCEPT ![r] = new]
    BY <1>2
  <2> HIDE DEF new
  <2>3. /\ journal' \in [Requests -> JournalRow] /\ journal'[r] = new
        /\ \A q \in Requests \ {r} : journal'[q] = journal[q]
    BY <1>3, <2>1, <2>2
  <2> QED
    BY <2>1, <2>3
<1>5. ServiceTypeOK'
  BY <1>1, <1>2, <1>4 DEF ServiceInv, ServiceTypeOK
<1>6. JournalInv'
  BY <1>2, <1>4 DEF ServiceInv, JournalInv
<1> QED
  BY <1>1, <1>5, <1>6 DEF ServiceInv

\* The client of a COMMITTED row is told what the row says.
LEMMA ReplayKeeps ==
  ASSUME ServiceInv, NEW r \in Requests, Replay(r)
  PROVE  ServiceInv'
<1>1. AuthorityInv' /\ AuthorityTypeOK'
  BY AuthorityUnchanged DEF ServiceInv, Replay, AuthorityInv
<1>2. journal[r].response \in Answer \cup {Nil}
  BY DEF ServiceInv, ServiceTypeOK, JournalRow
<1>3. ServiceTypeOK'
  BY <1>1, <1>2 DEF ServiceInv, ServiceTypeOK, Replay
<1>4. JournalInv'
  BY DEF ServiceInv, ServiceTypeOK, JournalInv, Replay
<1> QED
  BY <1>1, <1>3, <1>4 DEF ServiceInv

\* The request that runs was let in, so that its body is there to be executed.
LEMMA EffectKeeps ==
  ASSUME ServiceInv, Effect
  PROVE  ServiceInv'
<1>1. running \in Requests /\ journal[running].body \in Body
  BY DEF Effect, ServiceInv, ServiceTypeOK, JournalInv
<1>2. AuthorityInv' /\ AuthorityTypeOK'
  BY <1>1, PerformKeeps DEF ServiceInv, Effect, AuthorityInv
<1>3. response' \in Answer
  BY <1>1, PerformAnswers DEF ServiceInv, AuthorityInv, Effect
<1>4. ServiceTypeOK'
  BY <1>2, <1>3 DEF ServiceInv, ServiceTypeOK, Effect
<1>5. JournalInv'
  BY DEF ServiceInv, JournalInv, Effect
<1> QED
  BY <1>2, <1>4, <1>5 DEF ServiceInv

\* The row becomes COMMITTED with what the client is told.
LEMMA CommitKeeps ==
  ASSUME ServiceInv, Commit
  PROVE  ServiceInv'
<1> USE ServiceConstants
<1>1. AuthorityInv' /\ AuthorityTypeOK'
  BY AuthorityUnchanged DEF ServiceInv, Commit, AuthorityInv
<1>2. running \in Requests /\ response \in Answer
  BY DEF Commit, ServiceInv, ServiceTypeOK
<1> DEFINE new == [journal[running] EXCEPT !.state = "COMMITTED", !.leased = FALSE,
                                           !.body = Nil, !.response = response]
<1>3. journal \in [Requests -> JournalRow] /\ journal[running] \in JournalRow
  BY <1>2 DEF ServiceInv, ServiceTypeOK
<1>4. new \in JournalRow /\ new.state = "COMMITTED" /\ new.response = response
  BY <1>2, <1>3, CommittedRow, Zenon
<1>5. journal' = [journal EXCEPT ![running] = new]
  BY DEF Commit
<1> HIDE DEF new
<1>6. /\ journal' \in [Requests -> JournalRow] /\ journal'[running] = new
      /\ \A q \in Requests \ {running} : journal'[q] = journal[q]
  BY <1>2, <1>3, <1>4, <1>5
<1>7. ServiceTypeOK'
  BY <1>1, <1>2, <1>6 DEF ServiceInv, ServiceTypeOK, Commit
<1>8. response # Nil /\ running' = Nil /\ response' = Nil
      /\ answered'[running] = response
      /\ \A q \in Requests \ {running} : answered'[q] = answered[q]
  BY <1>2 DEF Commit, ServiceInv, ServiceTypeOK
<1>9. JournalInv'
  BY <1>2, <1>4, <1>6, <1>8 DEF ServiceInv, JournalInv
<1> QED
  BY <1>1, <1>7, <1>9 DEF ServiceInv

\* A request that is let in no more is forgotten, or stays as an empty row.
LEMMA RequestEndsKeeps ==
  ASSUME ServiceInv, NEW r \in Requests, RequestEnds(r)
  PROVE  ServiceInv'
<1> USE ServiceConstants
<1>1. AuthorityInv' /\ AuthorityTypeOK'
  BY AuthorityUnchanged DEF ServiceInv, RequestEnds, AuthorityInv
<1> DEFINE new == IF journal[r].state = "COMMITTED" THEN NoRow ELSE [NoRow EXCEPT !.state = "PENDING"]
<1>2. journal \in [Requests -> JournalRow] /\ journal[r] \in JournalRow
  BY DEF ServiceInv, ServiceTypeOK
<1>3. /\ new \in JournalRow /\ new.timely = FALSE /\ new.response = Nil /\ new.state # "COMMITTED"
  BY <1>2, JournalRows DEF NoRow
<1>4. /\ journal' = [journal EXCEPT ![r] = new] /\ running # r
      /\ answered' = [answered EXCEPT ![r] = Nil] /\ UNCHANGED <<running, response>>
  BY DEF RequestEnds
<1> HIDE DEF new
<1>5. /\ journal' \in [Requests -> JournalRow] /\ journal'[r] = new
      /\ \A q \in Requests \ {r} : journal'[q] = journal[q]
  BY <1>2, <1>3, <1>4
<1>6. ServiceTypeOK'
  BY <1>1, <1>4, <1>5 DEF ServiceInv, ServiceTypeOK
<1>7. answered'[r] = Nil /\ \A q \in Requests \ {r} : answered'[q] = answered[q]
  BY <1>4 DEF ServiceInv, ServiceTypeOK
<1>8. JournalInv'
  BY <1>3, <1>4, <1>5, <1>7 DEF ServiceInv, JournalInv
<1> QED
  BY <1>1, <1>6, <1>8 DEF ServiceInv

\* Every step keeps the invariant: the three commits of a request are separate,
\* and the process may die between any two of them.
LEMMA ServiceStepKeeps == ServiceInv /\ [ServiceNext]_serviceVars => ServiceInv'
<1> SUFFICES ASSUME ServiceInv, [ServiceNext]_serviceVars PROVE ServiceInv'
  OBVIOUS
<1> USE ServiceConstants
<1>1. ASSUME NEW r \in Requests,
             \/ \E b \in Operation : Accept(r, b)
             \/ Reaccept(r) \/ Replay(r) \/ LeaseEnds(r) \/ RequestEnds(r)
      PROVE  ServiceInv'
  BY <1>1, AcceptKeeps, LeasedKeeps, ReplayKeeps, RequestEndsKeeps
<1>2. CASE Effect
  BY <1>2, EffectKeeps
<1>3. CASE Commit
  BY <1>3, CommitKeeps
<1>4. CASE Raise \/ LoseResponse
  <2>1. AuthorityInv' /\ AuthorityTypeOK'
    BY <1>4, AuthorityUnchanged DEF ServiceInv, Raise, LoseResponse, AuthorityInv
  <2>2. ServiceTypeOK'
    BY <1>4, <2>1 DEF ServiceInv, ServiceTypeOK, Raise, LoseResponse
  <2>3. JournalInv'
    BY <1>4 DEF ServiceInv, JournalInv, Raise, LoseResponse
  <2> QED
    BY <2>1, <2>2, <2>3 DEF ServiceInv
<1>5. ASSUME NEW c \in Challenges, ChallengeEnds(c) PROVE ServiceInv'
  <2>1. AuthorityInv' /\ AuthorityTypeOK'
    BY <1>5, ChallengeExpiresKeeps DEF ServiceInv, ChallengeEnds, AuthorityInv
  <2>2. ServiceTypeOK' /\ JournalInv'
    BY <1>5, <2>1 DEF ServiceInv, ServiceTypeOK, JournalInv, ChallengeEnds, journalVars
  <2> QED
    BY <2>1, <2>2 DEF ServiceInv
<1>6. CASE UNCHANGED serviceVars
  <2>1. AuthorityInv' /\ AuthorityTypeOK'
    BY <1>6, AuthorityUnchanged DEF ServiceInv, serviceVars, authorityVars, AuthorityInv
  <2>2. ServiceTypeOK' /\ JournalInv'
    BY <1>6, <2>1 DEF ServiceInv, ServiceTypeOK, JournalInv, serviceVars
  <2> QED
    BY <2>1, <2>2 DEF ServiceInv
<1> QED
  BY <1>1, <1>2, <1>3, <1>4, <1>5, <1>6 DEF ServiceNext

\* Nothing exists when the Authority and its journal are new.
LEMMA InitServiceInv == ServiceInit => ServiceInv
<1> SUFFICES ASSUME ServiceInit PROVE ServiceInv
  OBVIOUS
<1> USE AuthorityConstants, ServiceConstants DEF ServiceInit, AuthorityInit
<1>1. AuthorityTypeOK
  <2>1. /\ [state |-> "none", seats |-> 1, secret |-> 0] \in Licence
        /\ [by |-> Nil, active |-> FALSE] \in Activation
        /\ [state |-> "none", licence |-> Nil, device |-> Nil,
            flow |-> "payment", secret |-> 0, request |-> "none"] \in Challenge
    BY DEF Licence, Activation, Challenge
  <2> QED
    BY <2>1 DEF AuthorityTypeOK
<1>2. \A l \in Licenses : Active(l) = {}
  BY DEF Active
<1>3. ActiveIsFinite
  BY <1>2, FS_EmptySet DEF ActiveIsFinite
<1>3a. SeatsHeld
  <2>1. \A l \in Licenses : Cardinality(Active(l)) = 0 /\ licence[l].seats = 1 /\ licence[l].state = "none"
    BY <1>2, FS_EmptySet
  <2> QED
    BY <2>1 DEF SeatsHeld
<1>4. ChallengeIsGrounded /\ RequestsAgree
  BY DEF ChallengeIsGrounded, RequestsAgree
<1>5. ServiceTypeOK
  <2>1. NoRow \in JournalRow
    BY DEF NoRow, JournalRow
  <2> QED
    BY <1>1, <2>1 DEF ServiceTypeOK
<1>6. JournalInv
  BY DEF JournalInv, NoRow
<1> QED
  BY <1>1, <1>3, <1>3a, <1>4, <1>5, <1>6 DEF ServiceInv, AuthorityInv

\* The inductive invariant of the Authority behind its journal, for every set
\* of licences, devices, challenges and requests.
THEOREM ServiceInvariant == ServiceSpec => []ServiceInv
BY InitServiceInv, ServiceStepKeeps, PTL DEF ServiceSpec

\* No licence has more active devices than seats, and a revoked one none
\* (_activate_in_transaction, revoke_gift, revoke_external_entitlement).
THEOREM SeatsAreHeld == ServiceSpec => []SeatsHeld
<1>1. ServiceInv => SeatsHeld
  BY DEF ServiceInv, AuthorityInv
<1> QED
  BY <1>1, ServiceInvariant, PTL

\* A new challenge has no request, and the superseded ones keep theirs.
LEMMA IssuedConsumes ==
  ASSUME AuthorityTypeOK, UsedIsConsumed, NEW c \in Challenges, NEW l, NEW d, NEW flow, NEW secret,
         Issued(c, l, d, flow, secret)
  PROVE  UsedIsConsumed'
<1> DEFINE used == {x \in Challenges : challenge[x].licence = l /\ challenge[x].device = d}
           new == [state |-> "open", licence |-> l, device |-> d, flow |-> flow,
                   secret |-> secret, request |-> "none"]
<1>1. new.request = "none"
  OBVIOUS
<1>2. challenge' = [Consumed(used) EXCEPT ![c] = new]
  BY DEF Issued
<1> HIDE DEF used, new
<1>3. challenge'[c] = new /\ \A x \in Challenges \ {c} : challenge'[x] = Consumed(used)[x]
  BY <1>2, ConsumedKeeps
<1>4. \A x \in Challenges \ {c} :
        /\ challenge'[x].request = challenge[x].request
        /\ challenge[x].state = "consumed" => challenge'[x].state = "consumed"
  BY <1>3, ConsumedKeeps
<1> QED
  BY <1>1, <1>3, <1>4 DEF UsedIsConsumed

\* Completing a challenge is the only way to a request, and no operation
\* reopens a completed challenge.
LEMMA PerformConsumes ==
  ASSUME AuthorityInv, UsedIsConsumed, NEW b \in Body, NEW a, Perform(b, a)
  PROVE  UsedIsConsumed'
<1>1. AuthorityTypeOK /\ challenge \in [Challenges -> Challenge]
  BY DEF AuthorityInv, AuthorityTypeOK
<1>2. CASE challenge' = challenge
  BY <1>2 DEF UsedIsConsumed
<1>3. ASSUME NEW l \in Licenses, Revoked(l) PROVE UsedIsConsumed'
  <2>1. ASSUME NEW c \in Challenges, challenge[c].licence = l PROVE challenge'[c].state = "consumed"
    BY <1>1, <1>3, <2>1 DEF Revoked, Challenge
  <2>2. ASSUME NEW c \in Challenges, challenge[c].licence # l PROVE challenge'[c] = challenge[c]
    BY <1>3, <2>2 DEF Revoked
  <2> QED
    BY <2>1, <2>2 DEF UsedIsConsumed
<1>4. ASSUME NEW l, RecoverGift(l, a) PROVE UsedIsConsumed'
  BY <1>1, <1>4, ConsumedKeeps DEF RecoverGift, UsedIsConsumed
<1>5. ASSUME NEW c \in Challenges, NEW l, NEW d, NEW flow, NEW secret, Issued(c, l, d, flow, secret)
      PROVE  UsedIsConsumed'
  BY <1>1, <1>5, IssuedConsumes
<1>6. ASSUME NEW l, NEW d, Deactivate(l, d, a) PROVE UsedIsConsumed'
  <2>1. ASSUME NEW c \in Challenges
        PROVE  challenge'[c].state = challenge[c].state /\ (challenge'[c].request # "none" => challenge[c].request # "none")
    BY <1>1, <1>6 DEF Deactivate, Challenge
  <2> QED
    BY <2>1 DEF UsedIsConsumed
<1>7. ASSUME NEW c \in Challenges, NEW flow, Activate(c, flow, a) PROVE UsedIsConsumed'
  <2>1. challenge'[c].state = "consumed" /\ \A x \in Challenges \ {c} : challenge'[x] = challenge[x]
    BY <1>1, <1>7 DEF Activate, Challenge
  <2> QED
    BY <2>1 DEF UsedIsConsumed
<1>8. ASSUME NEW l \in Licenses, CreateGift(l, a) PROVE UsedIsConsumed'
  BY <1>2, <1>8 DEF CreateGift
<1>9. ASSUME NEW s, NEW l \in Licenses, CreateExternal(s, l, a) PROVE UsedIsConsumed'
  BY <1>2, <1>9 DEF CreateExternal, authorityVars
<1>10. ASSUME b.op = "revoke_gift", RevokeGift(b.licence, a) PROVE UsedIsConsumed'
  BY <1>2, <1>3, <1>10, BodyNames DEF RevokeGift, authorityVars
<1>11. ASSUME b.op = "revoke_external", RevokeExternal(b.source, a) PROVE UsedIsConsumed'
  <2>1. source[b.source] \in Licenses
    BY <1>1, <1>11, BodyNames DEF RevokeExternal, AuthorityTypeOK
  <2> QED
    BY <1>2, <1>3, <1>11, <2>1 DEF RevokeExternal, authorityVars
<1>12. ASSUME NEW c, NEW flow, Retrieve(c, flow, a) PROVE UsedIsConsumed'
  BY <1>2, <1>12 DEF Retrieve, authorityVars
<1>13. ASSUME NEW c \in Challenges, NEW l, NEW d, NEW secret, IssueGiftChallenge(l, secret, d, c, a)
       PROVE  UsedIsConsumed'
  BY <1>5, <1>13 DEF IssueGiftChallenge
<1>14. ASSUME NEW c \in Challenges, NEW l, NEW d, IssueActivationChallenge(l, d, c, a)
       PROVE  UsedIsConsumed'
  BY <1>5, <1>14 DEF IssueActivationChallenge
<1>15. ASSUME NEW l, NEW d, DeactivateGiftDevice(l, d, a) PROVE UsedIsConsumed'
  BY <1>6, <1>15 DEF DeactivateGiftDevice
<1>16. b.op = "complete" => b.challenge \in Challenges
  BY BodyNames
<1> QED
  BY <1>4, <1>7, <1>8, <1>9, <1>10, <1>11, <1>12, <1>13, <1>14, <1>15, <1>16 DEF Perform, PerformGift

LEMMA UsedInvariant == ServiceSpec => []UsedIsConsumed
<1>1. ServiceInit => UsedIsConsumed
  BY DEF ServiceInit, AuthorityInit, UsedIsConsumed
<1>2. ServiceInv /\ UsedIsConsumed /\ [ServiceNext]_serviceVars => UsedIsConsumed'
  <2> SUFFICES ASSUME ServiceInv, UsedIsConsumed, [ServiceNext]_serviceVars PROVE UsedIsConsumed'
    OBVIOUS
  <2>1. CASE challenge' = challenge
    BY <2>1 DEF UsedIsConsumed
  <2>2. CASE Effect
    <3>1. running \in Requests /\ journal[running].body \in Body
      BY <2>2 DEF Effect, ServiceInv, ServiceTypeOK, JournalInv
    <3> QED
      BY <2>2, <3>1, PerformConsumes DEF Effect, ServiceInv
  <2>3. ASSUME NEW c \in Challenges, ChallengeEnds(c) PROVE UsedIsConsumed'
    <3>1. challenge \in [Challenges -> Challenge]
      BY DEF ServiceInv, ServiceTypeOK, AuthorityTypeOK
    <3>2. challenge'[c].request = challenge[c].request /\ challenge[c].state = "open"
      BY <2>3, <3>1 DEF ChallengeEnds, ChallengeExpires, Challenge
    <3>3. \A x \in Challenges \ {c} : challenge'[x] = challenge[x]
      BY <2>3, <3>1 DEF ChallengeEnds, ChallengeExpires
    <3> QED
      BY <3>2, <3>3 DEF UsedIsConsumed
  <2> QED
    BY <2>1, <2>2, <2>3 DEF ServiceNext, Accept, Reaccept, Replay, LeaseEnds, RequestEnds, Raise, Commit,
       LoseResponse, authorityVars, serviceVars
<1> QED
  BY <1>1, <1>2, ServiceInvariant, PTL DEF ServiceSpec

\* The certificate a device got last can be fetched again exactly while the
\* device is active and the gift's secret is the one it was claimed with
\* (activate_challenge, deactivate, recover_gift).
THEOREM CertificatesAreLive == ServiceSpec => []CertificateIsLive
<1>1. ServiceInv /\ UsedIsConsumed => CertificateIsLive
  <2> SUFFICES ASSUME ServiceInv, UsedIsConsumed, NEW l \in Licenses, NEW d \in Devices,
                      activation[l][d].by # Nil
               PROVE  Retrievable(activation[l][d].by, challenge[activation[l][d].by].flow)
                        <=> activation[l][d].active /\ ~RotatedAway(activation[l][d].by)
    BY DEF CertificateIsLive, ServiceInv, AuthorityInv
  <2> DEFINE c == activation[l][d].by
  <2>1. /\ c \in Challenges /\ challenge[c].licence = l /\ challenge[c].device = d
        /\ activation[l][d].active <=> challenge[c].request = "active"
    BY ActivatedBy DEF ServiceInv, AuthorityInv, RequestsAgree
  <2>2. activation[l][d].active => challenge[c].state = "consumed"
    BY <2>1 DEF UsedIsConsumed
  <2>3. activation[l][d].active => licence[l].state = "valid"
    <3>1. activation[l][d].active => d \in Active(l)
      BY DEF Active
    <3>2. licence[l].state \in {"none", "valid", "revoked"}
      BY DEF ServiceInv, AuthorityInv, AuthorityTypeOK, Licence
    <3> QED
      BY <3>1, <3>2 DEF ServiceInv, AuthorityInv, SeatsHeld, ActiveIsFinite
  <2> HIDE DEF c
  <2>4. c = activation[l][d].by
    BY DEF c
  <2> QED
    BY <2>1, <2>2, <2>3, <2>4 DEF Retrievable, Admissible, RotatedAway
<1> QED
  BY <1>1, ServiceInvariant, UsedInvariant, PTL

\* A client is never told two things about one request
\* (SQLiteRequestJournal.execute).
THEOREM AnswersAreFinal == ServiceSpec => OneAnswer
<1>1. ServiceInv /\ [ServiceNext]_serviceVars
        => [\A r \in Requests :
              answered[r] # Nil /\ journal'[r].timely => answered'[r] = answered[r]]_serviceVars
  <2> SUFFICES ASSUME ServiceInv, ServiceNext, NEW r \in Requests,
                      answered[r] # Nil, journal'[r].timely
               PROVE  answered'[r] = answered[r]
    BY DEF serviceVars
  <2> USE ServiceConstants
  <2>1. /\ journal \in [Requests -> JournalRow] /\ answered \in [Requests -> Answer \cup {Nil}]
        /\ running \in Requests \cup {Nil}
    BY DEF ServiceInv, ServiceTypeOK
  <2>2. journal[r].state = "COMMITTED" /\ journal[r].response = answered[r] /\ running # r
    BY DEF ServiceInv, JournalInv
  <2>3. ASSUME NEW q \in Requests, Replay(q) PROVE answered'[r] = answered[r]
    BY <2>1, <2>2, <2>3 DEF Replay
  <2>4. ASSUME NEW q \in Requests, RequestEnds(q) PROVE answered'[r] = answered[r]
    <3>1. q # r
      BY <2>1, <2>2, <2>4 DEF RequestEnds, NoRow
    <3> QED
      BY <2>1, <2>4, <3>1 DEF RequestEnds
  <2>5. CASE Commit
    BY <2>1, <2>2, <2>5 DEF Commit
  <2> QED
    BY <2>3, <2>4, <2>5 DEF ServiceNext, Accept, Reaccept, LeaseEnds, Effect, Raise, LoseResponse,
       ChallengeEnds, journalVars
<1> QED
  BY <1>1, ServiceInvariant, PTL DEF ServiceSpec, OneAnswer

\* Neither an operation nor the passing of time brings a used challenge back,
\* and an operation activates with an open one only.
LEMMA UsedStaysUsed ==
  ASSUME AuthorityInv, NEW c \in Challenges, challenge[c].state = "consumed",
         NEW b \in Body, NEW a, Perform(b, a)
  PROVE  /\ challenge'[c].state = "consumed"
         /\ \A l \in Licenses, d \in Devices :
              activation'[l][d].by = c /\ activation'[l][d].active =>
                activation[l][d].by = c /\ activation[l][d].active
<1> DEFINE Used == /\ challenge'[c].state = "consumed"
                   /\ \A l \in Licenses, d \in Devices :
                        activation'[l][d].by = c /\ activation'[l][d].active =>
                          activation[l][d].by = c /\ activation[l][d].active
<1>1. /\ AuthorityTypeOK /\ activation \in [Licenses -> [Devices -> Activation]]
      /\ challenge \in [Challenges -> Challenge]
  BY DEF AuthorityInv, AuthorityTypeOK
<1>2. CASE activation' = activation /\ challenge' = challenge
  BY <1>2
<1>3. ASSUME NEW l, RecoverGift(l, a) PROVE Used
  BY <1>1, <1>3, ConsumedKeeps DEF RecoverGift
<1>4. ASSUME NEW x \in Challenges, NEW l, NEW d, NEW flow, NEW secret, Issued(x, l, d, flow, secret)
      PROVE  Used
  <2>1. x # c
    BY <1>4 DEF Issued
  <2> QED
    BY <1>1, <1>4, <2>1, ConsumedKeeps DEF Issued
<1>5. ASSUME NEW l \in Licenses, Revoked(l) PROVE Used
  <2>1. challenge'[c].state = "consumed"
    BY <1>1, <1>5 DEF Revoked, Challenge
  <2>2. ASSUME NEW k \in Licenses, NEW d \in Devices, activation'[k][d].active
        PROVE  activation'[k][d] = activation[k][d]
    <3>1. CASE k = l
      <4>1. activation'[l][d] = [activation[l][d] EXCEPT !.active = FALSE]
        BY <1>1, <1>5 DEF Revoked
      <4>2. activation'[l][d].active = FALSE
        BY <1>1, <4>1, ActivationCell
      <4> QED
        BY <2>2, <3>1, <4>2
    <3>2. CASE k # l
      BY <1>1, <1>5, <3>2 DEF Revoked
    <3> QED
      BY <3>1, <3>2
  <2> QED
    BY <2>1, <2>2
<1>6. ASSUME NEW x \in Challenges, NEW flow, Activate(x, flow, a) PROVE Used
  <2>1. x # c
    BY <1>6 DEF Activate, Unused
  <2>2. challenge'[c] = challenge[c]
    BY <1>1, <1>6, <2>1 DEF Activate
  <2>3. ASSUME NEW k \in Licenses, NEW d \in Devices, activation'[k][d].by = c
        PROVE  activation'[k][d] = activation[k][d]
    <3> DEFINE l == challenge[x].licence
               e == challenge[x].device
               new == [by |-> x, active |-> TRUE]
    <3>1. activation' = [activation EXCEPT ![l][e] = new] /\ new.by # c
      BY <1>6, <2>1 DEF Activate
    <3> HIDE DEF l, e, new
    <3>2. activation'[k][d] = new \/ activation'[k][d] = activation[k][d]
      BY <1>1, <3>1
    <3> QED
      BY <2>3, <3>1, <3>2
  <2> QED
    BY <2>2, <2>3
<1>7. ASSUME NEW l \in Licenses, NEW d \in Devices, Deactivate(l, d, a) PROVE Used
  <2>1. challenge'[c].state = "consumed"
    BY <1>1, <1>7 DEF Deactivate, Challenge
  <2>2. ASSUME NEW k \in Licenses, NEW e \in Devices, activation'[k][e].active
        PROVE  activation'[k][e] = activation[k][e]
    <3> DEFINE new == [activation[l][d] EXCEPT !.active = FALSE]
    <3>1. new.active = FALSE
      BY <1>1, ActivationCell
    <3>2. activation' = [activation EXCEPT ![l][d] = new]
      BY <1>7 DEF Deactivate
    <3> HIDE DEF new
    <3>3. activation'[k][e] = new \/ activation'[k][e] = activation[k][e]
      BY <1>1, <3>2
    <3> QED
      BY <2>2, <3>1, <3>3
  <2> QED
    BY <2>1, <2>2
<1>8. ASSUME b.op = "revoke_gift", RevokeGift(b.licence, a) PROVE Used
  BY <1>2, <1>5, <1>8, BodyNames DEF RevokeGift, authorityVars
<1>9. ASSUME b.op = "revoke_external", RevokeExternal(b.source, a) PROVE Used
  <2>1. source[b.source] \in Licenses
    BY <1>1, <1>9, BodyNames DEF RevokeExternal, AuthorityTypeOK
  <2> QED
    BY <1>2, <1>5, <1>9, <2>1 DEF RevokeExternal, authorityVars
<1>10. ASSUME b.op = "deactivate", DeactivateGiftDevice(b.licence, b.device, a) PROVE Used
  BY <1>7, <1>10, BodyNames DEF DeactivateGiftDevice
<1>11. ASSUME b.op = "complete", Retrieve(b.challenge, b.flow, a) \/ Activate(b.challenge, b.flow, a)
       PROVE  Used
  BY <1>2, <1>6, <1>11, BodyNames DEF Retrieve, authorityVars
<1>12. ASSUME NEW l, CreateGift(l, a) \/ \E s : CreateExternal(s, l, a) PROVE Used
  BY <1>2, <1>12 DEF CreateGift, CreateExternal, authorityVars
<1>13. ASSUME NEW x \in Challenges,
              \/ IssueGiftChallenge(b.licence, b.secret, b.device, x, a)
              \/ IssueActivationChallenge(b.licence, b.device, x, a)
       PROVE  Used
  BY <1>4, <1>13 DEF IssueGiftChallenge, IssueActivationChallenge
<1> QED
  BY <1>3, <1>8, <1>9, <1>10, <1>11, <1>12, <1>13 DEF Perform, PerformGift

\* A used challenge activates nothing any more
\* (activate_challenge's consumed_at).
THEOREM ChallengesAreUsedOnce == ServiceSpec => ChallengeUsedOnce
<1>1. ServiceInv /\ [ServiceNext]_serviceVars
        => [\A c \in Challenges :
              challenge[c].state = "consumed" =>
                /\ challenge'[c].state = "consumed"
                /\ \A l \in Licenses, d \in Devices :
                     activation'[l][d].by = c /\ activation'[l][d].active =>
                       activation[l][d].by = c /\ activation[l][d].active]_serviceVars
  <2> SUFFICES ASSUME ServiceInv, ServiceNext, NEW c \in Challenges, challenge[c].state = "consumed"
               PROVE  /\ challenge'[c].state = "consumed"
                      /\ \A l \in Licenses, d \in Devices :
                           activation'[l][d].by = c /\ activation'[l][d].active =>
                             activation[l][d].by = c /\ activation[l][d].active
    BY DEF serviceVars
  <2>1. AuthorityInv /\ challenge \in [Challenges -> Challenge]
    BY DEF ServiceInv, AuthorityInv, AuthorityTypeOK
  <2>2. CASE Effect
    <3>1. running \in Requests /\ journal[running].body \in Body
      BY <2>2 DEF Effect, ServiceInv, ServiceTypeOK, JournalInv
    <3> QED
      BY <2>1, <2>2, <3>1, UsedStaysUsed DEF Effect
  <2>3. ASSUME NEW x \in Challenges, ChallengeEnds(x)
        PROVE  challenge'[c] = challenge[c] /\ activation' = activation
    BY <2>1, <2>3 DEF ChallengeEnds, ChallengeExpires
  <2>4. CASE UNCHANGED authorityVars
    BY <2>4 DEF authorityVars
  <2> QED
    BY <2>2, <2>3, <2>4 DEF ServiceNext, Accept, Reaccept, Replay, LeaseEnds, RequestEnds, Raise, Commit,
       LoseResponse
<1> QED
  BY <1>1, ServiceInvariant, PTL DEF ServiceSpec, ChallengeUsedOnce

-----------------------------------------------------------------------------
(* The fulfilment of Whop purchases (WhopFulfillment). *)

\* A stored webhook stays stored and keeps what it says.
InboxKept ==
  \A w \in Webhooks : inbox[w].status # "none" =>
    /\ inbox'[w].status # "none"
    /\ inbox'[w].kind = inbox[w].kind /\ inbox'[w].payment = inbox[w].payment
    /\ inbox'[w].tier = inbox[w].tier

\* A revoked row stays revoked.
RevokedKept == \A p \in Payments : row[p].state = "revoked" => row'[p].state = "revoked"

LEMMA RetryIsAFailure == ASSUME NEW k PROVE RetryOrReject(k) \in {"retry", "reject"}
BY DEF RetryOrReject

LEMMA FirstStages ==
  ASSUME NEW kind PROVE FirstStage(kind) \in {"finish", "reject", "begin"}
                        /\ (FirstStage(kind) = "finish" => kind = "other")
BY DEF FirstStage

LEMMA NoneIsNoWorker == ASSUME NEW k \in Workers PROVE k # None
BY FulfillmentConstants

\* A worker that does not step keeps what it relies on.
LEMMA OtherWorkerKeeps ==
  ASSUME FulfillmentInv, NEW v \in Workers, worker'[v] = worker[v],
         lock' = v <=> lock = v, InboxKept, RevokedKept,
         lock = v => row' = row /\ authority' = authority
  PROVE  WorkerOK(v)'
<1> DEFINE w == worker[v].webhook
<1>0. WorkerOK(v) /\ InboxInv
  BY DEF FulfillmentInv
<1>1. worker[v].pc \in InTransaction <=> lock = v
  BY <1>0 DEF WorkerOK
<1>2. CASE worker[v].pc = "idle"
  BY <1>1, <1>2 DEF WorkerOK, InTransaction
<1>3. CASE worker[v].pc # "idle"
  <2>1. w \in Webhooks /\ inbox[w].status # "none"
    BY <1>0, <1>3 DEF WorkerOK
  <2>2. inbox'[w].status # "none" /\ inbox'[w].kind = inbox[w].kind
        /\ inbox'[w].payment = inbox[w].payment /\ inbox[w].payment \in Payments
        /\ inbox'[w].tier = inbox[w].tier
    BY <1>0, <2>1 DEF InboxKept, InboxInv
  <2>3. CASE lock = v
    <3>1. row' = row /\ authority' = authority
      BY <2>3
    <3>2. EarlyTaken' = EarlyTaken
      BY <3>1 DEF EarlyTaken
    <3> QED
      BY <1>0, <1>1, <2>1, <2>2, <2>3, <3>1, <3>2 DEF WorkerOK
  <2>4. CASE lock # v
    BY <1>0, <1>1, <2>1, <2>2, <2>4 DEF WorkerOK, InTransaction, RevokedKept
  <2> QED
    BY <2>3, <2>4
<1> QED
  BY <1>2, <1>3

\* A step that leaves rows and Authority alone, and marks no reversal whose
\* row is not revoked, keeps the rest of the invariant.
LEMMA DatabasesKept ==
  ASSUME FulfillmentInv, row' = row, authority' = authority
  PROVE  GrantIsBacked' /\ IsFiniteSet(EarlyTaken)' /\ EarlyAllocation'
<1>1. GrantIsBacked'
  BY DEF FulfillmentInv, GrantIsBacked
<1>2. EarlyTaken' = EarlyTaken
  BY DEF EarlyTaken
<1>3. EarlyAllocation'
  BY DEF FulfillmentInv, EarlyAllocation
<1> QED
  BY <1>1, <1>2, <1>3 DEF FulfillmentInv

LEMMA InboxUnchanged ==
  ASSUME FulfillmentInv, inbox' = inbox, RevokedKept
  PROVE  InboxKept /\ InboxInv'
BY DEF FulfillmentInv, InboxKept, InboxInv, RevokedKept

-----------------------------------------------------------------------------
LEMMA WorkerMoves ==
  ASSUME TypeOK, NEW k \in Workers, NEW pc, GoTo(k, pc),
         pc \in {"begin", "create", "ack", "revoke", "revack", "finish", "retry", "reject"}
  PROVE  /\ worker' \in [Workers -> Worker]
         /\ worker'[k].pc = pc /\ worker'[k].webhook = worker[k].webhook
         /\ \A v \in Workers : v # k => worker'[v] = worker[v]
<1>1. worker \in [Workers -> Worker] /\ worker[k] \in Worker
  BY DEF TypeOK
<1>2. [worker[k] EXCEPT !.pc = pc] \in Worker
  BY <1>1 DEF Worker
<1>3. worker' = [worker EXCEPT ![k] = [worker[k] EXCEPT !.pc = pc]]
  BY DEF GoTo
<1>4. worker'[k] = [worker[k] EXCEPT !.pc = pc]
  BY <1>1, <1>3
<1>5. worker'[k].pc = pc /\ worker'[k].webhook = worker[k].webhook
  BY <1>1, <1>4 DEF Worker
<1>6. worker' \in [Workers -> Worker]
  BY <1>1, <1>2, <1>3
<1>7. \A v \in Workers : v # k => worker'[v] = worker[v]
  BY <1>1, <1>3
<1> QED
  BY <1>5, <1>6, <1>7

LEMMA WorkerRests ==
  ASSUME TypeOK, NEW k \in Workers, worker' = [worker EXCEPT ![k] = Idle]
  PROVE  /\ worker' \in [Workers -> Worker]
         /\ worker'[k].pc = "idle"
         /\ \A v \in Workers : v # k => worker'[v] = worker[v]
<1>1. Idle \in Worker /\ Idle.pc = "idle"
  BY DEF Idle, Worker
<1> QED
  BY <1>1 DEF TypeOK

\* A worker outside a transaction that goes on to retry or to reject, or to
\* rest, relies on nothing.
LEMMA WorkerFails ==
  ASSUME FulfillmentInv, NEW k \in Workers, worker[k].pc # "idle",
         worker'[k].webhook = worker[k].webhook, worker'[k].pc \in {"retry", "reject"},
         lock' # k, InboxKept
  PROVE  WorkerOK(k)'
<1>1. WorkerOK(k)
  BY DEF FulfillmentInv
<1> DEFINE w == worker[k].webhook
<1>2. w \in Webhooks /\ inbox[w].status # "none"
  BY <1>1 DEF WorkerOK
<1>3. inbox'[w].status # "none"
  BY <1>2 DEF InboxKept
<1> QED
  BY <1>2, <1>3 DEF WorkerOK, InTransaction

LEMMA RestingWorker ==
  ASSUME NEW k \in Workers, worker'[k].pc = "idle", lock' # k
  PROVE  WorkerOK(k)'
BY DEF WorkerOK, InTransaction

\* The whole invariant from its parts.
LEMMA AllWorkers ==
  ASSUME FulfillmentInv, NEW k \in Workers, WorkerOK(k)',
         \A v \in Workers : v # k => worker'[v] = worker[v],
         \A v \in Workers : v # k => (lock' = v <=> lock = v),
         InboxKept, RevokedKept,
         lock = k \/ (row' = row /\ authority' = authority)
  PROVE  (\A v \in Workers : WorkerOK(v))'
<1> SUFFICES ASSUME NEW v \in Workers PROVE WorkerOK(v)'
  OBVIOUS
<1>1. CASE v = k
  BY <1>1
<1>2. CASE v # k
  BY <1>2, OtherWorkerKeeps
<1> QED
  BY <1>1, <1>2

-----------------------------------------------------------------------------
(* Ingress and time. *)

LEMMA InboxTypes ==
  ASSUME NEW r \in Inbox
  PROVE  /\ \A c \in Content :
              [r EXCEPT !.status = "verified_pending", !.kind = c.kind,
                        !.payment = c.payment, !.tier = c.tier, !.user = c.user] \in Inbox
         /\ [r EXCEPT !.due = TRUE] \in Inbox
         /\ [r EXCEPT !.fresh = FALSE] \in Inbox
<1>1. ASSUME NEW c \in Content
      PROVE [r EXCEPT !.status = "verified_pending", !.kind = c.kind,
                      !.payment = c.payment, !.tier = c.tier, !.user = c.user] \in Inbox
  BY DEF Inbox, Content
<1>2. [r EXCEPT !.due = TRUE] \in Inbox
  BY DEF Inbox
<1>3. [r EXCEPT !.fresh = FALSE] \in Inbox
  BY DEF Inbox
<1> QED
  BY <1>1, <1>2, <1>3

LEMMA MarkTypes ==
  ASSUME NEW r \in Inbox, NEW n \in Nat
  PROVE  /\ [r EXCEPT !.status = "processed", !.attempts = 0] \in Inbox
         /\ \A s \in {r.status, "rejected"} :
              [r EXCEPT !.attempts = n + 1, !.due = FALSE, !.status = s] \in Inbox
<1>1. [r EXCEPT !.status = "processed", !.attempts = 0] \in Inbox
  BY DEF Inbox
<1>2. ASSUME NEW s \in {r.status, "rejected"}
      PROVE [r EXCEPT !.attempts = n + 1, !.due = FALSE, !.status = s] \in Inbox
  <2>1. r.status \in {"none", "verified_pending", "processed", "rejected"} /\ n + 1 \in Nat
    BY DEF Inbox
  <2>2. s \in {"none", "verified_pending", "processed", "rejected"}
    BY <2>1
  <2> QED
    BY <2>1, <2>2 DEF Inbox
<1> QED
  BY <1>1, <1>2

\* A step of the inbox alone.
LEMMA InboxStep ==
  ASSUME FulfillmentInv, UNCHANGED <<row, authority, lock, worker, buyer, faults>>,
         inbox' \in [Webhooks -> Inbox], InboxKept, InboxInv'
  PROVE  FulfillmentInv'
<1>1. TypeOK'
  BY DEF FulfillmentInv, TypeOK
<1>2. RevokedKept
  BY DEF RevokedKept
<1>3. (\A v \in Workers : WorkerOK(v))'
  <2> SUFFICES ASSUME NEW v \in Workers PROVE WorkerOK(v)'
    OBVIOUS
  <2> QED
    BY <1>2, OtherWorkerKeeps
<1> QED
  BY <1>1, <1>3, DatabasesKept DEF FulfillmentInv

LEMMA ReceiveKeeps ==
  ASSUME FulfillmentInv, NEW w \in Webhooks, NEW c \in Contents[w], Receive(w, c)
  PROVE  FulfillmentInv'
<1>1. c \in Content /\ c.payment \in Payments
  BY FulfillmentConstants DEF Content
<1>2. inbox \in [Webhooks -> Inbox] /\ inbox[w] \in Inbox
  BY DEF FulfillmentInv, TypeOK
<1> DEFINE r == [inbox[w] EXCEPT !.status = "verified_pending", !.kind = c.kind,
                                 !.payment = c.payment, !.tier = c.tier, !.user = c.user]
<1>3. r \in Inbox
  BY <1>1, <1>2, InboxTypes
<1>4. r.status = "verified_pending" /\ r.payment \in Payments
  BY <1>1, <1>2 DEF Inbox
<1>5. inbox' = [inbox EXCEPT ![w] = r]
  BY DEF Receive
<1> HIDE DEF r
<1>6. inbox' \in [Webhooks -> Inbox]
  BY <1>2, <1>3, <1>5
<1>7. inbox'[w] = r /\ \A u \in Webhooks : u # w => inbox'[u] = inbox[u]
  BY <1>2, <1>5
<1>8. InboxKept
  BY <1>7 DEF InboxKept, Receive
<1>9. InboxInv'
  <2> SUFFICES ASSUME NEW u \in Webhooks
               PROVE /\ inbox'[u].status # "none" => inbox'[u].payment \in Payments
                     /\ inbox'[u].status = "processed" /\ inbox'[u].kind \in Reversal =>
                          row'[inbox'[u].payment].state = "revoked"
    BY DEF InboxInv
  <2>1. CASE u = w
    BY <1>4, <1>7, <2>1
  <2>2. CASE u # w
    BY <1>7, <2>2 DEF FulfillmentInv, InboxInv, Receive
  <2> QED
    BY <2>1, <2>2
<1> QED
  BY <1>6, <1>8, <1>9, InboxStep DEF Receive

\* A step that changes only what the invariant does not speak of.
LEMMA InboxSameKeeps ==
  ASSUME FulfillmentInv, NEW w \in Webhooks, NEW r \in Inbox,
         inbox' = [inbox EXCEPT ![w] = r],
         r.kind = inbox[w].kind, r.payment = inbox[w].payment, r.tier = inbox[w].tier,
         r.status = inbox[w].status \/ r.status = "rejected",
         inbox[w].status # "none" \/ r.status = "none",
         row' = row
  PROVE  inbox' \in [Webhooks -> Inbox] /\ InboxKept /\ InboxInv'
<1>1. inbox \in [Webhooks -> Inbox]
  BY DEF FulfillmentInv, TypeOK
<1>2. inbox'[w] = r /\ \A u \in Webhooks : u # w => inbox'[u] = inbox[u]
  BY <1>1
<1>3. inbox' \in [Webhooks -> Inbox]
  BY <1>1
<1>4. InboxKept
  BY <1>2 DEF InboxKept
<1>5. InboxInv'
  <2> SUFFICES ASSUME NEW u \in Webhooks
               PROVE /\ inbox'[u].status # "none" => inbox'[u].payment \in Payments
                     /\ inbox'[u].status = "processed" /\ inbox'[u].kind \in Reversal =>
                          row'[inbox'[u].payment].state = "revoked"
    BY DEF InboxInv
  <2>1. CASE u = w
    BY <1>2, <2>1 DEF FulfillmentInv, InboxInv
  <2>2. CASE u # w
    BY <1>2, <2>2 DEF FulfillmentInv, InboxInv
  <2> QED
    BY <2>1, <2>2
<1> QED
  BY <1>3, <1>4, <1>5

LEMMA TimeKeeps ==
  ASSUME FulfillmentInv, NEW w \in Webhooks, BackoffEnds(w) \/ DayPasses(w)
  PROVE  FulfillmentInv'
<1>1. inbox[w] \in Inbox
  BY DEF FulfillmentInv, TypeOK
<1> DEFINE d == [inbox[w] EXCEPT !.due = TRUE]
           f == [inbox[w] EXCEPT !.fresh = FALSE]
<1>2. d \in Inbox /\ f \in Inbox
  BY <1>1, InboxTypes
<1>3. d.kind = inbox[w].kind /\ d.payment = inbox[w].payment /\ d.status = inbox[w].status
      /\ d.tier = inbox[w].tier
  BY <1>1 DEF Inbox
<1>4. f.kind = inbox[w].kind /\ f.payment = inbox[w].payment /\ f.status = inbox[w].status
      /\ f.tier = inbox[w].tier
  BY <1>1 DEF Inbox
<1>5. \/ BackoffEnds(w) /\ inbox' = [inbox EXCEPT ![w] = d]
      \/ DayPasses(w) /\ inbox' = [inbox EXCEPT ![w] = f]
  BY DEF BackoffEnds, DayPasses
<1>6. UNCHANGED <<row, authority, lock, worker, buyer, faults>>
      /\ inbox[w].status = "verified_pending"
  BY DEF BackoffEnds, DayPasses
<1> HIDE DEF d, f
<1>7. inbox' \in [Webhooks -> Inbox] /\ InboxKept /\ InboxInv'
  <2>1. row' = row /\ inbox[w].status # "none"
    BY <1>6
  <2>2. CASE inbox' = [inbox EXCEPT ![w] = d]
    BY <1>2, <1>3, <2>1, <2>2, InboxSameKeeps
  <2>3. CASE inbox' = [inbox EXCEPT ![w] = f]
    BY <1>2, <1>4, <2>1, <2>3, InboxSameKeeps
  <2> QED
    BY <1>5, <2>2, <2>3
<1> QED
  BY <1>6, <1>7, InboxStep

-----------------------------------------------------------------------------
(* The workers. *)

\* A step of worker k that changes neither database.
LEMMA WorkerStep ==
  ASSUME FulfillmentInv, NEW k \in Workers, UNCHANGED <<inbox, row, authority, buyer>>,
         worker' \in [Workers -> Worker], faults' \in 0 .. MaxFaults,
         \A v \in Workers : v # k => worker'[v] = worker[v],
         lock' \in Workers \cup {None},
         \A v \in Workers : v # k => (lock' = v <=> lock = v),
         WorkerOK(k)'
  PROVE  FulfillmentInv'
<1>1. TypeOK'
  BY DEF FulfillmentInv, TypeOK
<1>2. RevokedKept
  BY DEF RevokedKept
<1>3. InboxKept /\ InboxInv'
  BY <1>2, InboxUnchanged
<1>4. (\A v \in Workers : WorkerOK(v))'
  BY <1>2, <1>3, AllWorkers
<1> QED
  BY <1>1, <1>3, <1>4, DatabasesKept DEF FulfillmentInv

LEMMA SelectKeeps ==
  ASSUME FulfillmentInv, NEW k \in Workers, NEW w \in Webhooks, Select(k, w)
  PROVE  FulfillmentInv'
<1>1. worker \in [Workers -> Worker] /\ inbox[w] \in Inbox /\ WorkerOK(k)
      /\ lock \in Workers \cup {None} /\ faults \in 0 .. MaxFaults
  BY DEF FulfillmentInv, TypeOK
<1> DEFINE r == [pc |-> FirstStage(inbox[w].kind), webhook |-> w, read |-> inbox[w].attempts]
<1>2. r.pc \in {"finish", "reject", "begin"} /\ (r.pc = "finish" => inbox[w].kind = "other")
      /\ r.webhook = w
  BY FirstStages
<1>3. inbox[w].attempts \in Nat
  BY <1>1 DEF Inbox
<1>4. r \in Worker
  BY <1>2, <1>3 DEF Worker
<1>5. worker' = [worker EXCEPT ![k] = r]
  BY DEF Select
<1> HIDE DEF r
<1>6. /\ worker' \in [Workers -> Worker] /\ worker'[k] = r
      /\ \A v \in Workers : v # k => worker'[v] = worker[v]
  BY <1>1, <1>4, <1>5
<1>7. lock # k
  BY <1>1 DEF WorkerOK, InTransaction, Select
<1>8. inbox' = inbox /\ lock' = lock /\ inbox[w].status # "none"
  BY DEF Select
<1>9. WorkerOK(k)'
  BY <1>2, <1>6, <1>7, <1>8 DEF WorkerOK, InTransaction, Reversal
<1>10. /\ UNCHANGED <<inbox, row, authority, buyer>> /\ faults' \in 0 .. MaxFaults
       /\ lock' \in Workers \cup {None}
       /\ \A v \in Workers : v # k => (lock' = v <=> lock = v)
  BY <1>1 DEF Select
<1> QED
  BY <1>6, <1>9, <1>10, WorkerStep

\* The transaction of worker k, or none, ends without an effect.
LEMMA RollBackKeeps ==
  ASSUME FulfillmentInv, NEW k \in Workers, NEW pc, RollBack(k, pc), worker[k].pc # "idle",
         lock \in {None, k},
         \/ pc \in {"retry", "reject"}
         \/ /\ pc = "finish"
            /\ inbox[worker[k].webhook].kind \in Reversal =>
                 row[inbox[worker[k].webhook].payment].state = "revoked"
  PROVE  FulfillmentInv'
<1>1. TypeOK /\ WorkerOK(k) /\ faults \in 0 .. MaxFaults
  BY DEF FulfillmentInv, TypeOK
<1>2. /\ worker' \in [Workers -> Worker]
      /\ worker'[k].pc = pc /\ worker'[k].webhook = worker[k].webhook
      /\ \A v \in Workers : v # k => worker'[v] = worker[v]
  <2>1. GoTo(k, pc)
    BY DEF RollBack
  <2> QED
    BY <1>1, <2>1, WorkerMoves
<1>3. UNCHANGED <<inbox, row, authority, buyer, faults>> /\ lock' = None
  BY DEF RollBack
<1>4. WorkerOK(k)'
  <2>1. lock' # k
    BY <1>3, NoneIsNoWorker
  <2>2. worker[k].webhook \in Webhooks /\ inbox[worker[k].webhook].status # "none"
    BY <1>1 DEF WorkerOK
  <2> QED
    BY <1>2, <1>3, <2>1, <2>2 DEF WorkerOK, InTransaction
<1>5. \A v \in Workers : v # k => (lock' = v <=> lock = v)
  BY <1>3, NoneIsNoWorker
<1> QED
  BY <1>1, <1>2, <1>3, <1>4, <1>5, WorkerStep

\* A transaction begins.
LEMMA TransactionBegins ==
  ASSUME FulfillmentInv, NEW k \in Workers, NEW pc, GoTo(k, pc), worker[k].pc # "idle",
         lock = None, lock' = k, UNCHANGED <<inbox, row, authority, buyer, faults>>,
         \/ /\ pc = "create" /\ inbox[worker[k].webhook].kind = "payment"
            /\ row[inbox[worker[k].webhook].payment].state = "absent"
            /\ inbox[worker[k].webhook].tier = "early" => Cardinality(EarlyTaken) < EarlyLimit
         \/ pc = "revoke" /\ row[inbox[worker[k].webhook].payment].state = "granted"
  PROVE  FulfillmentInv'
<1>1. TypeOK /\ WorkerOK(k) /\ faults \in 0 .. MaxFaults
  BY DEF FulfillmentInv, TypeOK
<1>2. /\ worker' \in [Workers -> Worker]
      /\ worker'[k].pc = pc /\ worker'[k].webhook = worker[k].webhook
      /\ \A v \in Workers : v # k => worker'[v] = worker[v]
  BY <1>1, WorkerMoves
<1>3. EarlyTaken' = EarlyTaken
  BY DEF EarlyTaken
<1>4. WorkerOK(k)'
  <2>1. worker[k].webhook \in Webhooks /\ inbox[worker[k].webhook].status # "none"
    BY <1>1 DEF WorkerOK
  <2> QED
    BY <1>2, <1>3, <2>1 DEF WorkerOK, InTransaction
<1>5. \A v \in Workers : v # k => (lock' = v <=> lock = v)
  BY NoneIsNoWorker
<1> QED
  BY <1>1, <1>2, <1>4, <1>5, WorkerStep

LEMMA CurrentWebhook ==
  ASSUME FulfillmentInv, NEW k \in Workers, worker[k].pc # "idle"
  PROVE  /\ Current(k) \in Webhooks /\ inbox[Current(k)].status # "none"
         /\ Payment(k) \in Payments
         /\ inbox[Current(k)] \in Inbox /\ row[Payment(k)] \in Row
         /\ authority[Payment(k)] \in Authority /\ worker[k] \in Worker
<1>1. Current(k) \in Webhooks /\ inbox[Current(k)].status # "none"
  BY DEF FulfillmentInv, WorkerOK, Current
<1>2. Payment(k) \in Payments
  BY <1>1 DEF FulfillmentInv, InboxInv, Payment
<1> QED
  BY <1>1, <1>2 DEF FulfillmentInv, TypeOK

LEMMA BeginGrantKeeps ==
  ASSUME FulfillmentInv, NEW k \in Workers, BeginGrant(k)
  PROVE  FulfillmentInv'
<1> DEFINE p == Payment(k)
<1>1. /\ worker[k].pc = "begin" /\ worker[k].pc # "idle" /\ lock = None /\ lock \in {None, k}
      /\ inbox[worker[k].webhook].kind = "payment"
      /\ inbox[worker[k].webhook].kind \notin Reversal
  BY DEF BeginGrant, Current, Reversal
<1>2. \/ RollBack(k, "finish") \/ RollBack(k, "reject")
      \/ /\ row[p].state = "absent" /\ ~(inbox[Current(k)].tier = "early" /\ Cardinality(EarlyTaken) >= EarlyLimit)
         /\ lock' = k /\ GoTo(k, "create")
         /\ UNCHANGED <<inbox, row, authority, buyer, faults>>
  BY DEF BeginGrant
<1>3. CASE RollBack(k, "finish")
  BY <1>1, <1>3, RollBackKeeps
<1>4. CASE RollBack(k, "reject")
  BY <1>1, <1>4, RollBackKeeps
<1>5. CASE /\ row[p].state = "absent" /\ ~(inbox[Current(k)].tier = "early" /\ Cardinality(EarlyTaken) >= EarlyLimit)
           /\ lock' = k /\ GoTo(k, "create")
           /\ UNCHANGED <<inbox, row, authority, buyer, faults>>
  <2>1. Cardinality(EarlyTaken) \in Nat /\ EarlyLimit \in Nat
    BY FS_CardinalityType, FulfillmentConstants DEF FulfillmentInv
  <2>2. inbox[worker[k].webhook].tier = "early" => Cardinality(EarlyTaken) < EarlyLimit
    BY <1>5, <2>1 DEF Current
  <2>3. p = inbox[worker[k].webhook].payment
    BY DEF Payment, Current
  <2> HIDE DEF p
  <2> QED
    BY <1>1, <1>5, <2>2, <2>3, TransactionBegins
<1> QED
  BY <1>2, <1>3, <1>4, <1>5

LEMMA BeginRevokeKeeps ==
  ASSUME FulfillmentInv, NEW k \in Workers, BeginRevoke(k)
  PROVE  FulfillmentInv'
<1> DEFINE p == Payment(k)
<1>1. worker[k].pc # "idle" /\ lock = None /\ lock \in {None, k}
  BY DEF BeginRevoke
<1>2. row[p].state \in {"absent", "granted", "revoked"}
  BY <1>1, CurrentWebhook DEF Row
<1>3. p = inbox[worker[k].webhook].payment
  BY DEF Payment, Current
<1>4. \/ RollBack(k, RetryOrReject(k)) \/ RollBack(k, "reject")
      \/ row[p].state = "revoked" /\ RollBack(k, "finish")
      \/ /\ row[p].state = "granted" /\ lock' = k /\ GoTo(k, "revoke")
         /\ UNCHANGED <<inbox, row, authority, buyer, faults>>
  BY <1>2 DEF BeginRevoke
<1> HIDE DEF p
<1>5. CASE RollBack(k, RetryOrReject(k))
  BY <1>1, <1>5, RetryIsAFailure, RollBackKeeps
<1>6. CASE RollBack(k, "reject")
  BY <1>1, <1>6, RollBackKeeps
<1>7. CASE row[p].state = "revoked" /\ RollBack(k, "finish")
  BY <1>1, <1>3, <1>7, RollBackKeeps
<1>8. CASE /\ row[p].state = "granted" /\ lock' = k /\ GoTo(k, "revoke")
           /\ UNCHANGED <<inbox, row, authority, buyer, faults>>
  BY <1>1, <1>3, <1>8, TransactionBegins
<1> QED
  BY <1>4, <1>5, <1>6, <1>7, <1>8

LEMMA LockTimeoutKeeps ==
  ASSUME FulfillmentInv, NEW k \in Workers, LockTimeout(k)
  PROVE  FulfillmentInv'
<1>1. TypeOK /\ lock \in Workers \cup {None}
  BY DEF FulfillmentInv, TypeOK
<1>2. /\ UNCHANGED <<inbox, row, authority, lock, buyer>> /\ lock' # k
      /\ worker[k].pc # "idle" /\ faults' = faults + 1 /\ faults < MaxFaults
  BY DEF LockTimeout
<1>3. faults' \in 0 .. MaxFaults
  BY <1>2, FulfillmentConstants DEF FulfillmentInv, TypeOK
<1>4. InboxKept
  BY <1>2 DEF InboxKept
<1>5. GoTo(k, RetryOrReject(k)) \/ Done(k)
  BY DEF LockTimeout
<1>6. CASE GoTo(k, RetryOrReject(k))
  <2>1. /\ worker' \in [Workers -> Worker]
        /\ worker'[k].pc = RetryOrReject(k) /\ worker'[k].webhook = worker[k].webhook
        /\ \A v \in Workers : v # k => worker'[v] = worker[v]
    BY <1>1, <1>6, RetryIsAFailure, WorkerMoves
  <2>2. WorkerOK(k)'
    BY <1>2, <1>4, <2>1, RetryIsAFailure, WorkerFails
  <2> QED
    BY <1>1, <1>2, <1>3, <2>1, <2>2, WorkerStep
<1>7. CASE Done(k)
  <2>1. /\ worker' \in [Workers -> Worker] /\ worker'[k].pc = "idle"
        /\ \A v \in Workers : v # k => worker'[v] = worker[v]
    BY <1>1, <1>7, WorkerRests DEF Done
  <2>2. WorkerOK(k)'
    BY <1>2, <2>1, RestingWorker
  <2> QED
    BY <1>1, <1>2, <1>3, <2>1, <2>2, WorkerStep
<1> QED
  BY <1>5, <1>6, <1>7

LEMMA CrashKeeps ==
  ASSUME FulfillmentInv, NEW k \in Workers, Crash(k)
  PROVE  FulfillmentInv'
<1>1. TypeOK /\ lock \in Workers \cup {None}
  BY DEF FulfillmentInv, TypeOK
<1>2. /\ UNCHANGED <<inbox, row, authority, buyer>>
      /\ worker' = [worker EXCEPT ![k] = Idle]
      /\ lock' = (IF lock = k THEN None ELSE lock)
      /\ faults' = faults + 1 /\ faults < MaxFaults
  BY DEF Crash
<1>3. faults' \in 0 .. MaxFaults
  BY <1>2, FulfillmentConstants DEF FulfillmentInv, TypeOK
<1>4. /\ lock' # k /\ lock' \in Workers \cup {None}
      /\ \A v \in Workers : v # k => (lock' = v <=> lock = v)
  BY <1>1, <1>2, NoneIsNoWorker
<1>5. /\ worker' \in [Workers -> Worker] /\ worker'[k].pc = "idle"
      /\ \A v \in Workers : v # k => worker'[v] = worker[v]
  BY <1>1, <1>2, WorkerRests
<1>6. WorkerOK(k)'
  BY <1>4, <1>5, RestingWorker
<1> QED
  BY <1>2, <1>3, <1>4, <1>5, <1>6, WorkerStep

LEMMA BuyerKeeps ==
  ASSUME FulfillmentInv, UNCHANGED <<inbox, row, authority, lock, worker, faults>>,
         buyer' \in Buyer
  PROVE  FulfillmentInv'
<1>1. TypeOK'
  BY DEF FulfillmentInv, TypeOK
<1>2. RevokedKept
  BY DEF RevokedKept
<1>3. InboxKept /\ InboxInv'
  BY <1>2, InboxUnchanged
<1>4. (\A v \in Workers : WorkerOK(v))'
  <2> SUFFICES ASSUME NEW v \in Workers PROVE WorkerOK(v)'
    OBVIOUS
  <2> QED
    BY <1>2, <1>3, OtherWorkerKeeps
<1> QED
  BY <1>1, <1>3, <1>4, DatabasesKept DEF FulfillmentInv

LEMMA BuyerTypes ==
  ASSUME TypeOK, (\E p \in Payments : Authenticate(p)) \/ RequestChallenge \/ Complete
  PROVE  buyer' \in Buyer /\ UNCHANGED <<inbox, row, authority, lock, worker, faults>>
<1>1. buyer \in Buyer
  BY DEF TypeOK
<1>2. [buyer EXCEPT !.got = "challenge"] \in Buyer
  BY <1>1 DEF Buyer
<1>3. [got |-> "nothing", payment |-> None] \in Buyer
  BY DEF Buyer
<1>4. \A p \in Payments : [got |-> "licence", payment |-> p] \in Buyer
  BY DEF Buyer
<1> QED
  BY <1>2, <1>3, <1>4 DEF Authenticate, RequestChallenge, Complete

-----------------------------------------------------------------------------
(* The Authority calls and the commits of a transaction. *)

LEMMA HoldsTheLock ==
  ASSUME FulfillmentInv, NEW k \in Workers, worker[k].pc \in InTransaction
  PROVE  lock = k /\ lock # None /\ worker[k].pc # "idle"
BY NoneIsNoWorker DEF FulfillmentInv, WorkerOK, InTransaction

\* What a call leaves behind when it adds to the Authority's rows only.
LEMMA AuthorityTypes ==
  ASSUME TypeOK, NEW k \in Workers, worker[k].pc # "idle", FulfillmentInv,
         Reaches(Licensed(Payment(k), Current(k))) \/ Reaches(RevokedBy(Payment(k), Current(k)))
  PROVE  /\ authority' \in [Payments -> Authority]
         /\ \A q \in Payments : q # Payment(k) => authority'[q] = authority[q]
         /\ \A q \in Payments : authority[q].revocation # None => authority'[q].revocation # None
         /\ Reaches(RevokedBy(Payment(k), Current(k))) =>
              \A q \in Payments : authority'[q].licence = authority[q].licence
<1> DEFINE p == Payment(k)  w == Current(k)
           l == [authority[p] EXCEPT !.licence = IF @ = None THEN w ELSE @]
           v == [authority[p] EXCEPT !.revocation = IF @ = None /\ inbox[w].fresh THEN w ELSE @]
<1>1. p \in Payments /\ w \in Webhooks /\ authority[p] \in Authority
      /\ authority \in [Payments -> Authority]
  BY CurrentWebhook DEF TypeOK
<1>2. Licensed(p, w) = [authority EXCEPT ![p] = l]
      /\ RevokedBy(p, w) = [authority EXCEPT ![p] = v]
  BY DEF Licensed, RevokedBy
<1>3. l \in Authority /\ l.revocation = authority[p].revocation
  <2>1. (IF authority[p].licence = None THEN w ELSE authority[p].licence) \in Webhooks \cup {None}
    BY <1>1 DEF Authority
  <2> QED
    BY <1>1, <2>1 DEF Authority
<1>4. /\ v \in Authority /\ v.licence = authority[p].licence
      /\ authority[p].revocation # None => v.revocation # None
  <2>1. (IF authority[p].revocation = None /\ inbox[w].fresh THEN w ELSE authority[p].revocation)
          \in Webhooks \cup {None}
    BY <1>1 DEF Authority
  <2>2. v \in Authority /\ v.licence = authority[p].licence
    BY <1>1, <2>1 DEF Authority
  <2>3. authority[p].revocation # None => v.revocation = authority[p].revocation
    BY <1>1 DEF Authority
  <2> QED
    BY <2>2, <2>3
<1>5. /\ authority' \in {authority, [authority EXCEPT ![p] = l], [authority EXCEPT ![p] = v]}
      /\ Reaches(RevokedBy(p, w)) => authority' \in {authority, [authority EXCEPT ![p] = v]}
  BY <1>2 DEF Reaches
<1> HIDE DEF p, w, l, v
<1>6. authority' \in [Payments -> Authority]
      /\ \A q \in Payments : q # p => authority'[q] = authority[q]
  BY <1>1, <1>3, <1>4, <1>5
<1>7. \A q \in Payments : authority[q].revocation # None => authority'[q].revocation # None
  BY <1>1, <1>3, <1>4, <1>5
<1>8. Reaches(RevokedBy(p, w)) => \A q \in Payments : authority'[q].licence = authority[q].licence
  BY <1>1, <1>4, <1>5
<1> QED
  BY <1>6, <1>7, <1>8 DEF p, w

\* A step of worker k, in its transaction, at the Authority.
LEMMA CallStep ==
  ASSUME FulfillmentInv, NEW k \in Workers, NEW pc, GoTo(k, pc), lock = k,
         worker[k].pc # "idle", UNCHANGED <<inbox, row, buyer, faults>>,
         authority' \in [Payments -> Authority], GrantIsBacked',
         \/ pc \in {"retry", "reject"} /\ lock' = None
         \/ pc \in {"ack", "revack"} /\ lock' = lock /\ WorkerOK(k)'
  PROVE  FulfillmentInv'
<1>1. TypeOK
  BY DEF FulfillmentInv
<1>2. /\ worker' \in [Workers -> Worker]
      /\ worker'[k].pc = pc /\ worker'[k].webhook = worker[k].webhook
      /\ \A v \in Workers : v # k => worker'[v] = worker[v]
  BY <1>1, WorkerMoves
<1>3. TypeOK'
  BY <1>1, <1>2 DEF TypeOK
<1>4. RevokedKept
  BY DEF RevokedKept
<1>5. InboxKept /\ InboxInv'
  BY <1>4, InboxUnchanged
<1>6. WorkerOK(k)'
  BY <1>2, <1>5, NoneIsNoWorker, WorkerFails
<1>7. \A v \in Workers : v # k => (lock' = v <=> lock = v)
  BY NoneIsNoWorker
<1>8. (\A v \in Workers : WorkerOK(v))'
  BY <1>2, <1>4, <1>5, <1>6, <1>7, AllWorkers
<1>9. EarlyTaken' = EarlyTaken /\ EarlyAllocation'
  BY DEF FulfillmentInv, EarlyTaken, EarlyAllocation
<1> QED
  BY <1>3, <1>5, <1>8, <1>9 DEF FulfillmentInv

LEMMA CreateKeeps ==
  ASSUME FulfillmentInv, NEW k \in Workers, Create(k)
  PROVE  FulfillmentInv'
<1> DEFINE p == Payment(k)
<1>1. TypeOK /\ worker[k].pc = "create" /\ UNCHANGED <<inbox, row, buyer, faults>>
      /\ Reaches(Licensed(Payment(k), Current(k)))
  BY DEF Create, FulfillmentInv
<1>2. lock = k /\ worker[k].pc # "idle"
  BY <1>1, HoldsTheLock DEF InTransaction
<1>3. /\ authority' \in [Payments -> Authority]
      /\ \A q \in Payments : q # Payment(k) => authority'[q] = authority[q]
  BY <1>1, <1>2, AuthorityTypes
<1>4. WorkerOK(k) /\ row[p].state = "absent"
  BY <1>1 DEF FulfillmentInv, WorkerOK, Payment, Current
<1>5. GrantIsBacked'
  BY <1>1, <1>3, <1>4 DEF FulfillmentInv, GrantIsBacked
<1>6. \/ authority'[p].licence = Current(k) /\ GoTo(k, "ack") /\ UNCHANGED lock
      \/ GoTo(k, RetryOrReject(k)) /\ lock' = None
  BY DEF Create
<1>7. CASE authority'[p].licence = Current(k) /\ GoTo(k, "ack") /\ UNCHANGED lock
  <2>1. worker'[k].pc = "ack" /\ worker'[k].webhook = worker[k].webhook
    BY <1>1, <1>7, WorkerMoves
  <2>2. EarlyTaken' = EarlyTaken
    BY <1>1 DEF EarlyTaken
  <2>3. WorkerOK(k)'
    BY <1>1, <1>2, <1>4, <1>7, <2>1, <2>2 DEF WorkerOK, InTransaction, Payment, Current
  <2> QED
    BY <1>1, <1>2, <1>3, <1>5, <1>7, <2>3, CallStep
<1>8. CASE GoTo(k, RetryOrReject(k)) /\ lock' = None
  BY <1>1, <1>2, <1>3, <1>5, <1>8, RetryIsAFailure, CallStep
<1> QED
  BY <1>6, <1>7, <1>8

LEMMA RevokeKeeps ==
  ASSUME FulfillmentInv, NEW k \in Workers, Revoke(k)
  PROVE  FulfillmentInv'
<1> DEFINE p == Payment(k)
<1>1. TypeOK /\ worker[k].pc = "revoke" /\ UNCHANGED <<inbox, row, buyer, faults>>
      /\ Reaches(RevokedBy(Payment(k), Current(k)))
  BY DEF Revoke, FulfillmentInv
<1>2. lock = k /\ worker[k].pc # "idle"
  BY <1>1, HoldsTheLock DEF InTransaction
<1>3. /\ authority' \in [Payments -> Authority]
      /\ \A q \in Payments : authority[q].revocation # None => authority'[q].revocation # None
      /\ \A q \in Payments : authority'[q].licence = authority[q].licence
  BY <1>1, <1>2, AuthorityTypes
<1>4. WorkerOK(k) /\ row[p].state = "granted"
  BY <1>1 DEF FulfillmentInv, WorkerOK, Payment, Current
<1>5. GrantIsBacked'
  BY <1>1, <1>3 DEF FulfillmentInv, GrantIsBacked
<1>6. \/ authority'[p].revocation = Current(k) /\ GoTo(k, "revack") /\ UNCHANGED lock
      \/ GoTo(k, RetryOrReject(k)) /\ lock' = None
  BY DEF Revoke
<1>7. CASE authority'[p].revocation = Current(k) /\ GoTo(k, "revack") /\ UNCHANGED lock
  <2>1. worker'[k].pc = "revack" /\ worker'[k].webhook = worker[k].webhook
    BY <1>1, <1>7, WorkerMoves
  <2>2. WorkerOK(k)'
    BY <1>1, <1>2, <1>4, <1>7, <2>1 DEF WorkerOK, InTransaction, Payment, Current
  <2> QED
    BY <1>1, <1>2, <1>3, <1>5, <1>7, <2>2, CallStep
<1>8. CASE GoTo(k, RetryOrReject(k)) /\ lock' = None
  BY <1>1, <1>2, <1>3, <1>5, <1>8, RetryIsAFailure, CallStep
<1> QED
  BY <1>6, <1>7, <1>8

\* The commit of a transaction: the payment's row takes a new value and the
\* worker goes on to mark its webhook.
LEMMA CommitStep ==
  ASSUME FulfillmentInv, NEW k \in Workers, lock = k, lock' = None, GoTo(k, "finish"),
         worker[k].pc # "idle", UNCHANGED <<inbox, authority, buyer, faults>>,
         row' \in [Payments -> Row], RevokedKept, GrantIsBacked',
         IsFiniteSet(EarlyTaken)', EarlyAllocation',
         inbox[Current(k)].kind \in Reversal => row'[Payment(k)].state = "revoked"
  PROVE  FulfillmentInv'
<1>1. TypeOK /\ WorkerOK(k)
  BY DEF FulfillmentInv
<1>2. /\ worker' \in [Workers -> Worker]
      /\ worker'[k].pc = "finish" /\ worker'[k].webhook = worker[k].webhook
      /\ \A v \in Workers : v # k => worker'[v] = worker[v]
  BY <1>1, WorkerMoves
<1>3. TypeOK'
  BY <1>1, <1>2 DEF TypeOK
<1>4. InboxKept /\ InboxInv'
  BY InboxUnchanged
<1>5. WorkerOK(k)'
  <2>1. worker[k].webhook \in Webhooks /\ inbox[worker[k].webhook].status # "none"
    BY <1>1 DEF WorkerOK
  <2> QED
    BY <1>2, <2>1, NoneIsNoWorker DEF WorkerOK, InTransaction, Current, Payment
<1>6. \A v \in Workers : v # k => (lock' = v <=> lock = v)
  BY NoneIsNoWorker
<1>7. (\A v \in Workers : WorkerOK(v))'
  BY <1>2, <1>4, <1>5, <1>6, AllWorkers
<1> QED
  BY <1>3, <1>4, <1>7 DEF FulfillmentInv

LEMMA AcknowledgeKeeps ==
  ASSUME FulfillmentInv, NEW k \in Workers, Acknowledge(k)
  PROVE  FulfillmentInv'
<1> DEFINE p == Payment(k)
           r == [state |-> "granted", by |-> Current(k), tier |-> inbox[Current(k)].tier]
<1>1. worker[k].pc = "ack" /\ lock = k /\ worker[k].pc # "idle"
  BY HoldsTheLock DEF Acknowledge, InTransaction
<1>2. p \in Payments /\ Current(k) \in Webhooks
  BY <1>1, CurrentWebhook
<1>3. CASE RollBack(k, RetryOrReject(k))
  BY <1>1, <1>3, RetryIsAFailure, RollBackKeeps
<1>4. CASE /\ row' = [row EXCEPT ![p] = r]
           /\ lock' = None /\ GoTo(k, "finish")
           /\ UNCHANGED <<inbox, authority, buyer, faults>>
  <2>1. /\ inbox[Current(k)].kind = "payment" /\ row[p].state = "absent"
        /\ inbox[Current(k)].tier = "early" => Cardinality(EarlyTaken) < EarlyLimit
        /\ authority[p].licence = Current(k)
    BY <1>1 DEF FulfillmentInv, WorkerOK, Payment, Current
  <2>2. /\ r \in Row /\ r.state = "granted" /\ r.by = Current(k)
        /\ r.tier = inbox[Current(k)].tier
    BY <1>1, <1>2, CurrentWebhook DEF Row, Inbox
  <2>3. row \in [Payments -> Row]
    BY DEF FulfillmentInv, TypeOK
  <2> HIDE DEF p, r
  <2>4. /\ row' \in [Payments -> Row] /\ row'[p] = r
        /\ \A q \in Payments : q # p => row'[q] = row[q]
    BY <1>2, <1>4, <2>2, <2>3
  <2>5. RevokedKept
    BY <2>1, <2>4 DEF RevokedKept
  <2>6. GrantIsBacked'
    <3> SUFFICES ASSUME NEW q \in Payments
                 PROVE /\ row'[q].state # "absent" => authority'[q].licence = row'[q].by
                       /\ row'[q].state = "revoked" => authority'[q].revocation # None
      BY DEF GrantIsBacked
    <3>1. CASE q = p
      BY <1>4, <2>1, <2>2, <2>4, <3>1
    <3>2. CASE q # p
      BY <1>4, <2>4, <3>2 DEF FulfillmentInv, GrantIsBacked
    <3> QED
      BY <3>1, <3>2
  <2>7. IsFiniteSet(EarlyTaken)' /\ EarlyAllocation'
    <3>0. IsFiniteSet(EarlyTaken) /\ Cardinality(EarlyTaken) <= EarlyLimit
          /\ Cardinality(EarlyTaken) \in Nat /\ EarlyLimit \in Nat
      BY FS_CardinalityType, FulfillmentConstants DEF FulfillmentInv, EarlyAllocation, EarlyTaken
    <3>2. CASE inbox[Current(k)].tier = "early"
      <4>1. EarlyTaken' = EarlyTaken \cup {p}
        BY <1>2, <2>2, <2>4, <3>2 DEF EarlyTaken
      <4>2. p \notin EarlyTaken
        BY <2>1 DEF EarlyTaken
      <4>3. IsFiniteSet(EarlyTaken') /\ Cardinality(EarlyTaken') = Cardinality(EarlyTaken) + 1
        BY <3>0, <4>1, <4>2, FS_AddElement
      <4>4. Cardinality(EarlyTaken') <= EarlyLimit
        BY <2>1, <3>0, <3>2, <4>3
      <4> QED
        BY <4>3, <4>4 DEF EarlyAllocation, EarlyTaken
    <3>3. CASE inbox[Current(k)].tier # "early"
      <4>1. EarlyTaken' = EarlyTaken
        BY <2>1, <2>2, <2>4, <3>3 DEF EarlyTaken
      <4> QED
        BY <3>0, <4>1 DEF EarlyAllocation, EarlyTaken
    <3> QED
      BY <3>2, <3>3
  <2>8. inbox[Current(k)].kind \in Reversal => row'[Payment(k)].state = "revoked"
    BY <2>1 DEF Reversal
  <2> QED
    BY <1>1, <1>4, <2>4, <2>5, <2>6, <2>7, <2>8, CommitStep
<1> QED
  BY <1>3, <1>4 DEF Acknowledge

LEMMA AcknowledgeRevocationKeeps ==
  ASSUME FulfillmentInv, NEW k \in Workers, AcknowledgeRevocation(k)
  PROVE  FulfillmentInv'
<1> DEFINE p == Payment(k)
           r == [row[p] EXCEPT !.state = "revoked"]
<1>1. worker[k].pc = "revack" /\ lock = k /\ worker[k].pc # "idle"
  BY HoldsTheLock DEF AcknowledgeRevocation, InTransaction
<1>2. p \in Payments /\ Current(k) \in Webhooks /\ row[p] \in Row
  BY <1>1, CurrentWebhook
<1>3. CASE RollBack(k, RetryOrReject(k))
  BY <1>1, <1>3, RetryIsAFailure, RollBackKeeps
<1>4. CASE /\ row' = [row EXCEPT ![p].state = "revoked"]
           /\ lock' = None /\ GoTo(k, "finish")
           /\ UNCHANGED <<inbox, authority, buyer, faults>>
  <2>1. row[p].state = "granted" /\ authority[p].revocation = Current(k)
        /\ authority[p].revocation # None
    BY <1>1, <1>2, FulfillmentConstants DEF FulfillmentInv, WorkerOK, Payment, Current
  <2>2. r \in Row /\ r.state = "revoked" /\ r.by = row[p].by /\ r.tier = row[p].tier
    BY <1>2 DEF Row
  <2>3. row \in [Payments -> Row] /\ row' = [row EXCEPT ![p] = r]
    BY <1>4 DEF FulfillmentInv, TypeOK
  <2> HIDE DEF p, r
  <2>4. /\ row' \in [Payments -> Row] /\ row'[p] = r
        /\ \A q \in Payments : q # p => row'[q] = row[q]
    BY <1>2, <2>2, <2>3
  <2>5. RevokedKept
    BY <2>2, <2>4 DEF RevokedKept
  <2>6. GrantIsBacked'
    <3> SUFFICES ASSUME NEW q \in Payments
                 PROVE /\ row'[q].state # "absent" => authority'[q].licence = row'[q].by
                       /\ row'[q].state = "revoked" => authority'[q].revocation # None
      BY DEF GrantIsBacked
    <3>1. CASE q = p
      BY <1>4, <2>1, <2>2, <2>4, <3>1 DEF FulfillmentInv, GrantIsBacked
    <3>2. CASE q # p
      BY <1>4, <2>4, <3>2 DEF FulfillmentInv, GrantIsBacked
    <3> QED
      BY <3>1, <3>2
  <2>7. \A q \in Payments :
          /\ row'[q].state # "absent" <=> row[q].state # "absent"
          /\ row'[q].tier = row[q].tier
    BY <2>1, <2>2, <2>4
  <2>8. EarlyTaken' = EarlyTaken
    BY <2>7 DEF EarlyTaken
  <2>9. IsFiniteSet(EarlyTaken)' /\ EarlyAllocation'
    BY <2>8 DEF FulfillmentInv, EarlyAllocation, EarlyTaken
  <2>10. row'[Payment(k)].state = "revoked"
    BY <2>2, <2>4 DEF p
  <2> QED
    BY <1>1, <1>4, <2>4, <2>5, <2>6, <2>9, <2>10, CommitStep
<1> QED
  BY <1>3, <1>4 DEF AcknowledgeRevocation

-----------------------------------------------------------------------------
(* The webhook's own transaction. *)

\* A step that marks the webhook of worker k, which then rests.
LEMMA MarkStep ==
  ASSUME FulfillmentInv, NEW k \in Workers, lock = None, lock' = lock,
         UNCHANGED <<row, authority, buyer, faults>>,
         worker' = [worker EXCEPT ![k] = Idle],
         inbox' \in [Webhooks -> Inbox], InboxKept, InboxInv'
  PROVE  FulfillmentInv'
<1>1. /\ worker' \in [Workers -> Worker] /\ worker'[k].pc = "idle"
      /\ \A v \in Workers : v # k => worker'[v] = worker[v]
  BY WorkerRests DEF FulfillmentInv
<1>2. TypeOK'
  BY <1>1 DEF FulfillmentInv, TypeOK
<1>3. RevokedKept
  BY DEF RevokedKept
<1>4. WorkerOK(k)'
  BY <1>1, NoneIsNoWorker, RestingWorker
<1>5. (\A v \in Workers : WorkerOK(v))'
  BY <1>1, <1>3, <1>4, AllWorkers
<1> QED
  BY <1>2, <1>5, DatabasesKept DEF FulfillmentInv

LEMMA FinishKeeps ==
  ASSUME FulfillmentInv, NEW k \in Workers, Finish(k)
  PROVE  FulfillmentInv'
<1> DEFINE w == Current(k)
           r == [inbox[w] EXCEPT !.status = "processed", !.attempts = 0]
<1>1. worker[k].pc = "finish" /\ worker[k].pc # "idle" /\ lock = None
      /\ UNCHANGED <<row, authority, lock, buyer, faults>>
  BY DEF Finish
<1>2. w \in Webhooks /\ inbox[w] \in Inbox /\ inbox[w].status # "none"
      /\ inbox[w].payment \in Payments
  BY <1>1, CurrentWebhook DEF Payment
<1>3. inbox[w].kind \in Reversal => row[inbox[w].payment].state = "revoked"
  BY <1>1 DEF FulfillmentInv, WorkerOK, Current
<1>4. CASE inbox[w].status = "verified_pending"
  <2>1. worker' = [worker EXCEPT ![k] = Idle] /\ inbox' = [inbox EXCEPT ![w] = r]
    BY <1>4 DEF Finish, Done
  <2>2. r \in Inbox
    <3>1. 0 \in Nat
      OBVIOUS
    <3> QED
      BY <1>2, <3>1, MarkTypes
  <2>3. r.status = "processed" /\ r.kind = inbox[w].kind /\ r.payment = inbox[w].payment
        /\ r.tier = inbox[w].tier
    BY <1>2 DEF Inbox
  <2>4. inbox \in [Webhooks -> Inbox]
    BY DEF FulfillmentInv, TypeOK
  <2> HIDE DEF w, r
  <2>5. /\ inbox' \in [Webhooks -> Inbox] /\ inbox'[w] = r
        /\ \A u \in Webhooks : u # w => inbox'[u] = inbox[u]
    BY <1>2, <2>1, <2>2, <2>4
  <2>6. InboxKept
    BY <2>3, <2>5 DEF InboxKept
  <2>7. InboxInv'
    <3> SUFFICES ASSUME NEW u \in Webhooks
                 PROVE /\ inbox'[u].status # "none" => inbox'[u].payment \in Payments
                       /\ inbox'[u].status = "processed" /\ inbox'[u].kind \in Reversal =>
                            row'[inbox'[u].payment].state = "revoked"
      BY DEF InboxInv
    <3>1. CASE u = w
      BY <1>1, <1>2, <1>3, <2>3, <2>5, <3>1
    <3>2. CASE u # w
      BY <1>1, <2>5, <3>2 DEF FulfillmentInv, InboxInv
    <3> QED
      BY <3>1, <3>2
  <2> QED
    BY <1>1, <2>1, <2>5, <2>6, <2>7, MarkStep
<1>5. CASE inbox[w].status # "verified_pending"
  <2>1. UNCHANGED <<inbox, row, authority, buyer>>
        /\ (worker' = [worker EXCEPT ![k] = Idle] \/ GoTo(k, RetryOrReject(k)))
    BY <1>1, <1>5 DEF Finish
  <2>2. CASE worker' = [worker EXCEPT ![k] = Idle]
    <3>1. RevokedKept
      BY <2>1 DEF RevokedKept
    <3>2. inbox' \in [Webhooks -> Inbox] /\ InboxKept /\ InboxInv'
      BY <2>1, <3>1, InboxUnchanged DEF FulfillmentInv, TypeOK
    <3> QED
      BY <1>1, <2>2, <3>2, MarkStep
  <2>3. CASE GoTo(k, RetryOrReject(k))
    <3>1. RollBack(k, RetryOrReject(k))
      BY <1>1, <2>1, <2>3 DEF RollBack
    <3> QED
      BY <1>1, <3>1, RetryIsAFailure, RollBackKeeps
  <2> QED
    BY <2>1, <2>2, <2>3
<1> QED
  BY <1>4, <1>5

LEMMA FailKeeps ==
  ASSUME FulfillmentInv, NEW k \in Workers, Fail(k)
  PROVE  FulfillmentInv'
<1> DEFINE w == Current(k)  n == worker[k].read
           s == IF worker[k].pc = "reject" /\ inbox[w].status = "verified_pending"
                THEN "rejected" ELSE inbox[w].status
           r == [inbox[w] EXCEPT !.attempts = n + 1, !.due = FALSE, !.status = s]
<1>1. worker[k].pc # "idle" /\ lock = None
      /\ UNCHANGED <<row, authority, lock, buyer, faults>>
      /\ worker' = [worker EXCEPT ![k] = Idle]
  BY DEF Fail, Done
<1>2. w \in Webhooks /\ inbox[w] \in Inbox /\ inbox[w].status # "none" /\ n \in Nat
  BY <1>1, CurrentWebhook DEF Worker
<1>3. inbox' = [inbox EXCEPT ![w] = r]
  BY DEF Fail
<1>4. s \in {inbox[w].status, "rejected"}
  OBVIOUS
<1> HIDE DEF s
<1>5. r \in Inbox
  BY <1>2, <1>4, MarkTypes
<1>6. r.kind = inbox[w].kind /\ r.payment = inbox[w].payment /\ r.status = s
      /\ r.tier = inbox[w].tier
  BY <1>2 DEF Inbox
<1> HIDE DEF r, w, n
<1>7. inbox' \in [Webhooks -> Inbox] /\ InboxKept /\ InboxInv'
  BY <1>1, <1>2, <1>3, <1>4, <1>5, <1>6, InboxSameKeeps
<1> QED
  BY <1>1, <1>7, MarkStep

-----------------------------------------------------------------------------
LEMMA FulfillmentInit == Init => FulfillmentInv
<1> SUFFICES ASSUME Init PROVE FulfillmentInv
  OBVIOUS
<1>1. /\ [status |-> "none", kind |-> "other", payment |-> None, tier |-> "standard",
          user |-> "one", attempts |-> 0, due |-> TRUE, fresh |-> TRUE] \in Inbox
      /\ [state |-> "absent", by |-> None, tier |-> None] \in Row
      /\ [licence |-> None, revocation |-> None] \in Authority
      /\ Idle \in Worker /\ Idle.pc = "idle"
      /\ [got |-> "nothing", payment |-> None] \in Buyer
  BY DEF Inbox, Kind, Tier, Row, Authority, Idle, Worker, Buyer
<1>2. TypeOK
  BY <1>1, FulfillmentConstants DEF Init, TypeOK
<1>3. \A k \in Workers : WorkerOK(k)
  BY <1>1, NoneIsNoWorker DEF Init, WorkerOK, InTransaction
<1>4. InboxInv /\ GrantIsBacked
  BY DEF Init, InboxInv, GrantIsBacked
<1>5. EarlyTaken = {}
  BY FulfillmentConstants DEF Init, EarlyTaken
<1>6. IsFiniteSet(EarlyTaken) /\ EarlyAllocation
  BY <1>5, FS_EmptySet, FulfillmentConstants DEF EarlyAllocation, EarlyTaken
<1> QED
  BY <1>2, <1>3, <1>4, <1>6 DEF FulfillmentInv

LEMMA FulfillmentStep == FulfillmentInv /\ [Next]_vars => FulfillmentInv'
<1> SUFFICES ASSUME FulfillmentInv, [Next]_vars PROVE FulfillmentInv'
  OBVIOUS
<1>1. ASSUME NEW w \in Webhooks, NEW c \in Contents[w], Receive(w, c) PROVE FulfillmentInv'
  BY <1>1, ReceiveKeeps
<1>2. ASSUME NEW w \in Webhooks, NEW k \in Workers, Select(k, w) PROVE FulfillmentInv'
  BY <1>2, SelectKeeps
<1>3. ASSUME NEW w \in Webhooks, BackoffEnds(w) \/ DayPasses(w) PROVE FulfillmentInv'
  BY <1>3, TimeKeeps
<1>4. ASSUME NEW k \in Workers, Step(k) PROVE FulfillmentInv'
  BY <1>4, BeginGrantKeeps, BeginRevokeKeeps, CreateKeeps, AcknowledgeKeeps, RevokeKeeps,
     AcknowledgeRevocationKeeps, FinishKeeps, FailKeeps DEF Step
<1>5. ASSUME NEW k \in Workers, LockTimeout(k) \/ Crash(k) PROVE FulfillmentInv'
  BY <1>5, LockTimeoutKeeps, CrashKeeps
<1>6. ASSUME (\E p \in Payments : Authenticate(p)) \/ RequestChallenge \/ Complete
      PROVE  FulfillmentInv'
  <2>1. TypeOK
    BY DEF FulfillmentInv
  <2> QED
    BY <1>6, <2>1, BuyerTypes, BuyerKeeps
<1>7. CASE UNCHANGED vars
  <2>1. UNCHANGED <<inbox, row, authority, lock, worker, faults>> /\ buyer' \in Buyer
    BY <1>7 DEF vars, FulfillmentInv, TypeOK
  <2> QED
    BY <2>1, BuyerKeeps
<1> QED
  BY <1>1, <1>2, <1>3, <1>4, <1>5, <1>6, <1>7 DEF Next

\* The inductive invariant of the fulfilment holds in every reachable state
\* (whop_fulfillment.py): it is what a worker may rely on between the steps of
\* _grant and _revoke while other workers, crashes and redeliveries go on.
THEOREM FulfillmentInvariant == Spec => []FulfillmentInv
BY FulfillmentInit, FulfillmentStep, PTL DEF Spec

\* _grant, _revoke: in every reachable state a granted row names the webhook to
\* which the Authority bound the licence, and a revoked one is revoked there.
THEOREM GrantsAreBacked == Spec => []GrantIsBacked
<1>1. FulfillmentInv => GrantIsBacked
  BY DEF FulfillmentInv
<1> QED
  BY <1>1, FulfillmentInvariant, PTL

\* _grant: no interleaving of workers allocates more than EarlyLimit early
\* places.
THEOREM EarlyPlacesAreAllocatedOnce == Spec => []EarlyAllocation
<1>1. FulfillmentInv => EarlyAllocation
  BY DEF FulfillmentInv
<1> QED
  BY <1>1, FulfillmentInvariant, PTL

\* Only a commit that found the row absent, or granted, writes it.
LEMMA RevokedStays ==
  ASSUME FulfillmentInv, [Next]_vars PROVE RevokedKept
<1>0. row \in [Payments -> Row]
  BY DEF FulfillmentInv, TypeOK
<1>1. ASSUME NEW k \in Workers, Acknowledge(k) PROVE RevokedKept
  <2>1. worker[k].pc = "ack" /\ Payment(k) \in Payments
    BY <1>1, CurrentWebhook DEF Acknowledge
  <2>2. row[Payment(k)].state = "absent"
    BY <2>1 DEF FulfillmentInv, WorkerOK, Payment, Current
  <2>3. \A q \in Payments : q # Payment(k) => row'[q] = row[q]
    BY <1>0, <1>1, <2>1 DEF Acknowledge, RollBack
  <2> QED
    BY <2>2, <2>3 DEF RevokedKept
<1>2. ASSUME NEW k \in Workers, AcknowledgeRevocation(k) PROVE RevokedKept
  <2>1. Payment(k) \in Payments
    BY <1>2, CurrentWebhook DEF AcknowledgeRevocation
  <2>2. row' = row \/ row' = [row EXCEPT ![Payment(k)].state = "revoked"]
    BY <1>2 DEF AcknowledgeRevocation, RollBack
  <2> QED
    BY <1>0, <2>1, <2>2 DEF RevokedKept, Row
<1>3. ASSUME NEW k \in Workers, Step(k), ~Acknowledge(k), ~AcknowledgeRevocation(k)
      PROVE row' = row
  BY <1>3 DEF Step, BeginGrant, BeginRevoke, Create, Revoke, Finish, Fail, RollBack
<1>4. CASE Next
  <2>1. CASE \E k \in Workers : Step(k)
    BY <1>1, <1>2, <1>3, <2>1 DEF RevokedKept
  <2>2. CASE ~\E k \in Workers : Step(k)
    <3>1. row' = row
      BY <1>4, <2>2 DEF Next, Receive, Select, BackoffEnds, DayPasses, LockTimeout, Crash,
         Authenticate, RequestChallenge, Complete
    <3> QED
      BY <3>1 DEF RevokedKept
  <2> QED
    BY <2>1, <2>2
<1>5. CASE UNCHANGED vars
  BY <1>5 DEF vars, RevokedKept
<1> QED
  BY <1>4, <1>5

\* _revoke, _finish, whop_buyer_api.py: a reversal that was marked processed
\* has revoked the row, no later step undoes that, and no step hands out a
\* challenge for a licence that the Authority has revoked.
THEOREM ReversalsTakeEffect == Spec => ReversalTakesEffect
<1>1. ASSUME FulfillmentInv, [Next]_vars, NEW p \in Payments
      PROVE  (\E w \in Webhooks : /\ inbox[w].status = "processed"
                                  /\ inbox[w].kind \in Reversal /\ inbox[w].payment = p)
               => row[p].state = "revoked" /\ row'[p].state = "revoked"
  <2>1. RevokedKept
    BY <1>1, RevokedStays
  <2> QED
    BY <1>1, <2>1 DEF FulfillmentInv, InboxInv, RevokedKept
<1>2. ASSUME FulfillmentInv, [Next]_vars, NEW p \in Payments,
             authority[p].revocation # None, buyer' # buyer
      PROVE  buyer' # [got |-> "challenge", payment |-> p]
  <2>1. (\E q \in Payments : Authenticate(q)) \/ RequestChallenge \/ Complete
    BY <1>2 DEF Next, vars, Receive, Select, BackoffEnds, DayPasses, LockTimeout, Crash, Step,
       BeginGrant, BeginRevoke, Create, Revoke, Acknowledge, AcknowledgeRevocation, Finish,
       Fail, RollBack
  <2>2. CASE \E q \in Payments : Authenticate(q)
    <3>1. buyer'.got = "licence"
      BY <2>2 DEF Authenticate
    <3> QED
      BY <3>1
  <2>3. CASE RequestChallenge
    <3>1. CASE IsChallenged(buyer.payment)
      <4>1. buyer' = [buyer EXCEPT !.got = "challenge"] /\ buyer \in Buyer
        BY <1>2, <2>3, <3>1 DEF RequestChallenge, FulfillmentInv, TypeOK
      <4>2. buyer'.payment = buyer.payment
        BY <4>1 DEF Buyer
      <4>3. buyer.payment # p
        BY <1>2, <3>1 DEF IsChallenged
      <4> QED
        BY <4>2, <4>3
    <3>2. CASE ~IsChallenged(buyer.payment)
      <4>1. buyer'.got = "nothing"
        BY <2>3, <3>2 DEF RequestChallenge
      <4> QED
        BY <4>1
    <3> QED
      BY <3>1, <3>2
  <2>4. CASE Complete
    <3>1. buyer'.got = "nothing"
      BY <2>4 DEF Complete
    <3> QED
      BY <3>1
  <2> QED
    BY <2>1, <2>2, <2>3, <2>4
<1>3. FulfillmentInv /\ [Next]_vars =>
        [\A p \in Payments :
           /\ (\E w \in Webhooks : /\ inbox[w].status = "processed"
                                   /\ inbox[w].kind \in Reversal /\ inbox[w].payment = p)
                => row[p].state = "revoked" /\ row'[p].state = "revoked"
           /\ authority[p].revocation # None /\ buyer' # buyer
                => buyer' # [got |-> "challenge", payment |-> p]]_vars
  BY <1>1, <1>2
<1> QED
  BY <1>3, FulfillmentInvariant, PTL DEF Spec, ReversalTakesEffect
=============================================================================
