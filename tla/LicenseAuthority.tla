-------------------------- MODULE LicenseAuthority --------------------------
(***************************************************************************)
(* The licence Authority (licensing/authority.py, gift_service.py):        *)
(* licences bought elsewhere or given away, the devices active on them,    *)
(* and the challenges by which a device becomes active.  Every operation   *)
(* is one BEGIN IMMEDIATE transaction under the Authority's lock, hence    *)
(* one action; its guard is what the operation checks before it writes,    *)
(* and an operation whose guard is false raises and changes nothing.  An   *)
(* action's last parameter is what the operation returns.                  *)
(***************************************************************************)
EXTENDS Naturals, FiniteSets

CONSTANTS Licenses,    \* licence ids; a gift is named by its licence
          Devices,     \* device ids
          Challenges,  \* challenge ids
          Sources,     \* source ids of external payments
          Nil,         \* NULL
          SeatLimits   \* the seat limits on sale

ASSUME AuthorityConstants ==
  /\ SeatLimits \subseteq {1, 2}
  /\ Nil \notin Licenses \cup Challenges

VARIABLES licence,     \* licenses and gift_entitlements
          source,      \* external_entitlements: the licence of each source
          activation,  \* activations: the request that activated the device
          challenge    \* activation_challenges and their activation_requests

authorityVars == <<licence, source, activation, challenge>>

-----------------------------------------------------------------------------
\* secret is secret_generation of the gift, 0 for a licence that is no gift.
Licence == [state : {"none", "valid", "revoked"}, seats : {1, 2}, secret : Nat]

\* The challenge whose completion activated the device, with the device's
\* activation row: absent (Nil), active or deactivated.
Activation == [by : Challenges \cup {Nil}, active : BOOLEAN]

\* request is the row of activation_requests that completing the challenge
\* wrote; the nonce of a challenge is its identity, so there is at most one.
Challenge == [state : {"none", "open", "expired", "consumed"},
              licence : Licenses \cup {Nil}, device : Devices \cup {Nil},
              flow : {"payment", "gift"}, secret : Nat,
              request : {"none", "active", "consumed"}]

AuthorityInit ==
  /\ licence = [l \in Licenses |-> [state |-> "none", seats |-> 1, secret |-> 0]]
  /\ source = [s \in Sources |-> Nil]
  /\ activation = [l \in Licenses |-> [d \in Devices |-> [by |-> Nil, active |-> FALSE]]]
  /\ challenge = [c \in Challenges |->
                    [state |-> "none", licence |-> Nil, device |-> Nil,
                     flow |-> "payment", secret |-> 0, request |-> "none"]]

Active(l) == {d \in Devices : activation[l][d].active}

-----------------------------------------------------------------------------
(* Licences. *)

\* create_gift draws a new gift, licence and secret each time it runs.
CreateGift(l, answer) ==
  /\ licence[l].state = "none"
  /\ \E n \in SeatLimits :
       licence' = [licence EXCEPT ![l] = [state |-> "valid", seats |-> n, secret |-> 1]]
  /\ answer = <<"gift", l, 1>>
  /\ UNCHANGED <<source, activation, challenge>>

\* create_external_entitlement: the source is the identity of the licence; a
\* repetition is answered with the licence that exists.
CreateExternal(s, l, answer) ==
  /\ answer = <<"entitlement", l>>
  /\ \/ /\ source[s] = l
        /\ UNCHANGED authorityVars
     \/ /\ source[s] = Nil /\ licence[l].state = "none"
        /\ source' = [source EXCEPT ![s] = l]
        /\ \E n \in SeatLimits :
             licence' = [licence EXCEPT ![l] = [state |-> "valid", seats |-> n, secret |-> 0]]
        /\ UNCHANGED <<activation, challenge>>

\* These challenges stop being usable; what they activated stays.
Consumed(used) ==
  [c \in Challenges |->
     IF c \in used /\ challenge[c].state \in {"open", "expired"}
     THEN [challenge[c] EXCEPT !.state = "consumed"] ELSE challenge[c]]

\* recover_gift: a new secret, and no challenge of the old one survives.
RecoverGift(l, answer) ==
  /\ licence[l].state = "valid" /\ licence[l].secret # 0
  /\ licence' = [licence EXCEPT ![l].secret = @ + 1]
  /\ challenge' = Consumed({c \in Challenges : challenge[c].licence = l})
  /\ answer = <<"gift", l, licence[l].secret + 1>>
  /\ UNCHANGED <<source, activation>>

\* What revoke_gift and revoke_external_entitlement both do: the licence, its
\* devices, their requests and its challenges end together.
Revoked(l) ==
  /\ licence' = [licence EXCEPT ![l].state = "revoked"]
  /\ activation' = [activation EXCEPT ![l] = [d \in Devices |-> [@[d] EXCEPT !.active = FALSE]]]
  /\ challenge' = [c \in Challenges |->
                     IF challenge[c].licence = l
                     THEN [challenge[c] EXCEPT
                             !.state = "consumed",
                             !.request = IF @ = "active" THEN "consumed" ELSE @]
                     ELSE challenge[c]]
  /\ UNCHANGED source

\* revoke_gift leaves a revoked gift as it is.
RevokeGift(l, answer) ==
  /\ licence[l].secret # 0
  /\ answer = <<"revoked", l>>
  /\ IF licence[l].state = "valid" THEN Revoked(l) ELSE UNCHANGED authorityVars

\* revoke_external_entitlement: a repetition is answered with the receipt.
RevokeExternal(s, answer) ==
  /\ source[s] # Nil
  /\ answer = <<"revoked", source[s]>>
  /\ IF licence[source[s]].state = "valid" THEN Revoked(source[s]) ELSE UNCHANGED authorityVars

-----------------------------------------------------------------------------
(* Devices. *)

\* A new challenge supersedes the device's open ones.
Issued(c, l, d, flow, secret) ==
  /\ challenge[c].state = "none"
  /\ challenge' =
       LET superseded == {x \in Challenges : challenge[x].licence = l /\ challenge[x].device = d}
       IN  [Consumed(superseded) EXCEPT ![c] =
              [state |-> "open", licence |-> l, device |-> d, flow |-> flow,
               secret |-> secret, request |-> "none"]]
  /\ UNCHANGED <<licence, source, activation>>

\* issue_activation_challenge, for whoever proved the purchase elsewhere.
IssueActivationChallenge(l, d, c, answer) ==
  /\ licence[l].state = "valid"
  /\ Issued(c, l, d, "payment", 0)
  /\ answer = <<"challenge", c>>

\* issue_gift_claim_challenge, for the holder of the current secret.
IssueGiftChallenge(l, secret, d, c, answer) ==
  /\ licence[l].state = "valid" /\ licence[l].secret # 0 /\ licence[l].secret = secret
  /\ Issued(c, l, d, "gift", secret)
  /\ answer = <<"challenge", c>>

\* Mutant of HasSeat: one device too many.
HasSeatOffByOne(l, d) == d \in Active(l) \/ Cardinality(Active(l)) <= licence[l].seats

\* The device is active already, or a seat is free.
HasSeat(l, d) == d \in Active(l) \/ Cardinality(Active(l)) < licence[l].seats

\* activate_challenge, up to the look at consumed_at: the flow is the
\* challenge's own, a gift's secret has not been rotated since, the licence
\* is valid.
Admissible(c, flow) ==
  /\ challenge[c].state # "none" /\ challenge[c].flow = flow
  /\ licence[challenge[c].licence].state = "valid"
  /\ flow = "gift" => challenge[c].secret = licence[challenge[c].licence].secret

\* A completed challenge answers with its certificate as long as it is
\* admissible and the request and the activation it made are the current ones.
Retrievable(c, flow) ==
  LET a == activation[challenge[c].licence][challenge[c].device]
  IN  /\ Admissible(c, flow)
      /\ challenge[c].state = "consumed" /\ challenge[c].request = "active"
      /\ a.active /\ a.by = c

Retrieve(c, flow, answer) ==
  /\ Retrievable(c, flow)
  /\ answer = <<"certificate", c>>
  /\ UNCHANGED authorityVars

\* Mutant of Unused: only the expiry is looked at.
UnusedUnlessExpired(c) == challenge[c].state # "expired"

\* Neither consumed nor expired.
Unused(c) == challenge[c].state = "open"

\* _activate_in_transaction: a seat, a request of its own, and the activation.
Activate(c, flow, answer) ==
  LET l == challenge[c].licence  d == challenge[c].device
  IN  /\ Admissible(c, flow)
      /\ Unused(c)
      /\ HasSeat(l, d)
      /\ activation' = [activation EXCEPT ![l][d] = [by |-> c, active |-> TRUE]]
      /\ challenge' = [challenge EXCEPT ![c].state = "consumed", ![c].request = "active"]
      /\ answer = <<"certificate", c>>
      /\ UNCHANGED <<licence, source>>

\* Mutant of Deactivate: the requests of the device are forgotten.
DeactivateKeepingRequests(l, d, answer) ==
  /\ answer = <<"deactivated", d \in Active(l)>>
  /\ activation' = [activation EXCEPT ![l][d].active = FALSE]
  /\ UNCHANGED <<licence, source, challenge>>

\* deactivate says whether the device was active.
Deactivate(l, d, answer) ==
  /\ answer = <<"deactivated", d \in Active(l)>>
  /\ activation' = [activation EXCEPT ![l][d].active = FALSE]
  /\ challenge' = [c \in Challenges |->
                     IF /\ d \in Active(l)
                        /\ challenge[c].licence = l /\ challenge[c].device = d
                        /\ challenge[c].request = "active"
                     THEN [challenge[c] EXCEPT !.request = "consumed"]
                     ELSE challenge[c]]
  /\ UNCHANGED <<licence, source>>

\* deactivate_gift_device
DeactivateGiftDevice(l, d, answer) == licence[l].secret # 0 /\ Deactivate(l, d, answer)

\* Its time to live is over.
ChallengeExpires(c) ==
  /\ challenge[c].state = "open"
  /\ challenge' = [challenge EXCEPT ![c].state = "expired"]
  /\ UNCHANGED <<licence, source, activation>>

-----------------------------------------------------------------------------
AuthorityTypeOK ==
  /\ licence \in [Licenses -> Licence]
  /\ source \in [Sources -> Licenses \cup {Nil}]
  /\ activation \in [Licenses -> [Devices -> Activation]]
  /\ challenge \in [Challenges -> Challenge]

\* Seats are respected (authority.py _activate_in_transaction and the two
\* revocations): however activations, retries, deactivations and revocations
\* follow each other, no more devices are active than the licence has seats,
\* and on a revoked licence none is and no challenge is left to use.
SeatsHeld ==
  \A l \in Licenses :
    /\ Cardinality(Active(l)) <= licence[l].seats
    /\ licence[l].state = "revoked" =>
         /\ Active(l) = {}
         /\ \A c \in Challenges :
              challenge[c].licence = l => challenge[c].state = "consumed"
                                          /\ challenge[c].request # "active"

\* The request that made an activation is active while the activation is, and
\* consumed after (activation_requests.status, deactivate, the revocations).
RequestsAgree ==
  \A l \in Licenses, d \in Devices :
    LET a == activation[l][d]
    IN  a.by # Nil => /\ challenge[a.by].licence = l /\ challenge[a.by].device = d
                      /\ a.active <=> challenge[a.by].request = "active"

\* A gift's secret was rotated after the challenge was issued.
RotatedAway(c) ==
  challenge[c].flow = "gift" /\ challenge[c].secret # licence[challenge[c].licence].secret

\* A device that is active can fetch its certificate again, by the challenge
\* that activated it, until the gift's secret is rotated; once deactivated,
\* revoked or rotated it cannot, and no rotation undoes a deactivation
\* (activate_challenge's join and its look at secret_generation, deactivate,
\* recover_gift).  After a rotation the device stays active without it.
CertificateIsLive ==
  /\ RequestsAgree
  /\ \A l \in Licenses, d \in Devices :
       LET a == activation[l][d]
       IN  a.by # Nil =>
             (Retrievable(a.by, challenge[a.by].flow) <=> a.active /\ ~RotatedAway(a.by))

\* Only a challenge that was completed has a request.
UsedIsConsumed ==
  \A c \in Challenges : challenge[c].request # "none" => challenge[c].state = "consumed"

\* A challenge that was issued is for a device of a licence that exists.
ChallengeIsGrounded ==
  \A c \in Challenges :
    /\ challenge[c].state = "none" => challenge[c].licence = Nil
    /\ challenge[c].state # "none" =>
         /\ challenge[c].licence \in Licenses /\ challenge[c].device \in Devices
         /\ licence[challenge[c].licence].state # "none"

\* Devices become active one by one, on licences that exist.
ActiveIsFinite ==
  \A l \in Licenses :
    IsFiniteSet(Active(l)) /\ (licence[l].state = "none" => Active(l) = {})

\* The inductive invariant of the Authority.
AuthorityInv ==
  /\ AuthorityTypeOK
  /\ ChallengeIsGrounded
  /\ ActiveIsFinite
  /\ SeatsHeld
  /\ RequestsAgree
=============================================================================
