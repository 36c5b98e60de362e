---------------------------- MODULE SignerProofs ----------------------------
(***************************************************************************)
(* Proofs about the Authority's signing identity and about the outbox      *)
(* whose rows are bound to it.                                             *)
(*                                                                         *)
(* The signer's rotation (SignerCeremony) is proved for every number of    *)
(* generations and every set of documents.  CeremonyInv is inductive: the  *)
(* copy of the database must follow the anchor too, for it can be put      *)
(* back, and a process past the anchor must be the one the anchor names,   *)
(* for it is the one that pins and signs.  That a serving process has its  *)
(* ceremony pinned is no part of it, for the database can be restored      *)
(* under it; only a process that is signing has.                           *)
(*                                                                         *)
(* The delivery of revocations (RevocationOutbox) is proved for every set  *)
(* of orders and workers and every number of attempts and rotations.       *)
(* OutboxInv is inductive; on it rest the fence, the evidence behind a     *)
(* delivered row and the refinement of RevocationDelivery.                 *)
(***************************************************************************)
EXTENDS SignerCeremony, RevocationOutbox, TLAPS

-----------------------------------------------------------------------------
(* SignerCeremony: the anchor and the pinned ceremonies. *)

\* Both stores start with nothing pinned.
LEMMA InitCeremonyInv == CeremonyInit => CeremonyInv
<1> SUFFICES ASSUME CeremonyInit PROVE CeremonyInv
  OBVIOUS
<1>1. CeremonyTypeOK
  <2>1. anchor \in AnchorClaim /\ Unclaimed \in AnchorClaim
    BY DEF CeremonyInit, AnchorClaim
  <2>2. reviewed \subseteq Ceremony
    BY <2>1 DEF CeremonyInit, AnchorClaim
  <2>3. <<>> \in Seq(Documents)
    OBVIOUS
  <2> QED
    BY <2>1, <2>2, <2>3 DEF CeremonyInit, CeremonyTypeOK, Stages
<1>2. anchor.generation \in Nat /\ (anchor.generation = 0 => anchor = Unclaimed)
  BY CeremonyConstants, <1>1 DEF CeremonyTypeOK, AnchorClaim, Ceremony, Unclaimed
<1> QED
  BY <1>1, <1>2 DEF CeremonyInit, CeremonyInv, Follows, Unclaimed

\* A document added to the table goes to its end.
LEMMA AppendIsLast ==
  ASSUME NEW table \in Seq(Documents), NEW d \in Documents
  PROVE  /\ Append(table, d) \in Seq(Documents)
         /\ Len(Append(table, d)) = Len(table) + 1
         /\ Append(table, d)[Len(table) + 1] = d
OBVIOUS

\* The anchor is advanced only past every table that follows it.
LEMMA AdvanceKeeps == CeremonyInv /\ Advance => CeremonyInv'
<1> SUFFICES ASSUME CeremonyInv, Advance PROVE CeremonyInv'
  OBVIOUS
<1> USE CeremonyConstants
<1>1. CeremonyTypeOK /\ CeremonyTypeOK'
  BY DEF CeremonyInv, CeremonyTypeOK, Advance, Stages
<1>2. ceremony \in Ceremony /\ Follows(pinned) /\ Follows(copy)
  BY DEF CeremonyInv, Advance
<1>3. anchor = ceremony \/ (anchor # ceremony /\ anchor.generation = ceremony.generation - 1)
  BY <1>2 DEF Advance, MayClaim, Expected, Ceremony, Unclaimed
<1>4. Follows(pinned)' /\ Follows(copy)'
  BY <1>1, <1>2, <1>3 DEF Advance, Follows, CeremonyTypeOK, Ceremony, AnchorClaim, Unclaimed
<1>5. (last.generation <= anchor.generation)' /\ (last.generation = anchor.generation => last = anchor)'
  BY <1>1, <1>2, <1>3 DEF CeremonyInv, Advance, CeremonyTypeOK, Ceremony, AnchorClaim, Unclaimed
<1> QED
  BY <1>1, <1>2, <1>4, <1>5 DEF CeremonyInv, Advance

\* The pinned ceremony is the one the anchor names.
LEMMA PinKeeps == CeremonyInv /\ Pin => CeremonyInv'
<1> SUFFICES ASSUME CeremonyInv, Pin PROVE CeremonyInv'
  OBVIOUS
<1> USE CeremonyConstants
<1>1. /\ CeremonyTypeOK /\ ceremony \in Ceremony /\ Transition(ceremony)
      /\ Follows(pinned) /\ anchor = ceremony
  BY DEF CeremonyInv, Pin
<1>2. ceremony.generation \in Nat /\ Len(pinned) \in Nat /\ ceremony.document \in Documents
  BY <1>1 DEF CeremonyTypeOK, Ceremony
<1>3. /\ pinned' \in Seq(Documents)
      /\ Len(pinned') = ceremony.generation
      /\ pinned'[Len(pinned')] = ceremony.document
  <2>1. CASE ceremony.generation > Len(pinned)
    <3>1. ceremony.generation = Len(pinned) + 1
      BY <1>1, <1>2, <2>1 DEF Transition
    <3> QED
      BY <1>1, <1>2, <2>1, <3>1, AppendIsLast DEF Pin, CeremonyTypeOK
  <2>2. CASE ~(ceremony.generation > Len(pinned))
    BY <1>1, <1>2, <2>2 DEF Pin, Transition, CeremonyTypeOK
  <2> QED
    BY <2>1, <2>2
<1>4. CeremonyTypeOK'
  BY <1>1, <1>3 DEF Pin, CeremonyTypeOK, Stages
<1>5. Follows(pinned)'
  BY <1>1, <1>2, <1>3 DEF Pin, Follows
<1> QED
  BY <1>1, <1>3, <1>4, <1>5 DEF CeremonyInv, IsSigner, Pin, Follows

\* The other steps move neither store, or move a table to one that follows.
LEMMA NextKeeps == CeremonyInv /\ [CeremonyNext]_ceremonyVars => CeremonyInv'
<1> SUFFICES ASSUME CeremonyInv, [CeremonyNext]_ceremonyVars PROVE CeremonyInv'
  OBVIOUS
<1> USE CeremonyConstants DEF CeremonyInv, CeremonyTypeOK, Stages, IsSigner
<1>1. ASSUME NEW c \in Ceremony, Review(c) PROVE CeremonyInv'
  BY <1>1 DEF Review, Follows
<1>2. ASSUME NEW c \in Ceremony, Start(c) PROVE CeremonyInv'
  BY <1>2 DEF Start, CustodyFree, Follows, AnchorClaim
<1>3. CASE Advance
  BY <1>3, AdvanceKeeps
<1>4. CASE Conflict
  BY <1>4 DEF Conflict, Down, Follows, AnchorClaim
<1>5. CASE Pin
  BY <1>5, PinKeeps
<1>5a. CASE Admit
  BY <1>5a DEF Admit, Follows
<1>6. CASE BeginSign
  BY <1>6 DEF BeginSign, Follows
<1>7. CASE Sign
  BY <1>7 DEF Sign, Follows, AnchorClaim, Ceremony, Unclaimed
<1>8. CASE SignFails
  BY <1>8 DEF SignFails, Follows
<1>9. CASE End
  BY <1>9 DEF End, Down, Follows, AnchorClaim
<1>10. CASE ClearJournal
  BY <1>10 DEF ClearJournal, Follows
<1>11. CASE Backup
  BY <1>11 DEF Backup, Follows
<1>12. CASE Rollback
  BY <1>12 DEF Rollback, Follows
<1>13. CASE UNCHANGED ceremonyVars
  BY <1>13 DEF ceremonyVars, Follows
<1> QED
  BY <1>1, <1>2, <1>3, <1>4, <1>5, <1>6, <1>7, <1>8, <1>9, <1>10, <1>11, <1>12, <1>13, <1>5a DEF CeremonyNext, Construct

\* The inductive invariant of the rotation (authority.py 205-246).
THEOREM CeremonyInvariant == CeremonySpec => []CeremonyInv
BY InitCeremonyInv, NextKeeps, PTL DEF CeremonySpec

\* The database never runs ahead of the anchor nor disagrees with it, for every
\* number of rotations, crashes and rollbacks.
THEOREM DatabaseFollows == CeremonySpec => []DatabaseFollowsAnchor
<1>1. CeremonyInv => DatabaseFollowsAnchor
  BY DEF CeremonyInv, DatabaseFollowsAnchor
<1> QED
  BY <1>1, CeremonyInvariant, PTL

\* A process that signs is the one the anchor and the database name.
LEMMA SignAdvances ==
  ASSUME CeremonyInv, Sign
  PROVE  /\ last.generation <= ceremony.generation
         /\ last.generation = ceremony.generation => last = ceremony
         /\ IsSigner
BY DEF Sign, CeremonyInv

\* Signatures are made under ever higher generations, each into a database that
\* names its ceremony.
THEOREM SignaturesOnlyAdvance == CeremonySpec => SignaturesAdvance
<1> DEFINE Signed == [Sign => /\ last.generation <= ceremony.generation
                              /\ last.generation = ceremony.generation => last = ceremony
                              /\ IsSigner]_ceremonyVars
<1>1. CeremonyInv /\ [CeremonyNext]_ceremonyVars => Signed
  BY SignAdvances
<1> QED
  BY <1>1, CeremonyInvariant, PTL DEF CeremonySpec, SignaturesAdvance

-----------------------------------------------------------------------------
(* The rows a transaction writes, and the calls a worker can be in. *)

\* Every update of a row of revocation_outbox keeps its columns in range
\* (_enqueue_revocation, claim_revocation, fail_revocation).
LEMMA RowUpdates ==
  ASSUME NEW r \in Row
  PROVE  /\ \A g \in Generation : [r EXCEPT !.state = "pending", !.signer = g] \in Row
         /\ \A w \in Workers : [r EXCEPT !.state = "leased", !.owner = w, !.lease = "live",
                                         !.attempts = @ + 1, !.fence = @ + 1] \in Row
         /\ [r EXCEPT !.state = "delivered", !.owner = NoWorker, !.lease = "none"] \in Row
         /\ FailedRow(r) \in Row
         /\ [r EXCEPT !.retry = "now"] \in Row
         /\ [r EXCEPT !.fresh = FALSE] \in Row
         /\ [r EXCEPT !.lease = "expired"] \in Row
<1>1. ASSUME NEW g \in Generation PROVE [r EXCEPT !.state = "pending", !.signer = g] \in Row
  BY DEF Row
<1>2. ASSUME NEW w \in Workers
      PROVE  [r EXCEPT !.state = "leased", !.owner = w, !.lease = "live",
                       !.attempts = @ + 1, !.fence = @ + 1] \in Row
  <2>1. r.attempts + 1 \in Nat /\ r.fence + 1 \in Nat
    BY DEF Row
  <2> QED
    BY <2>1 DEF Row
<1>3. [r EXCEPT !.state = "delivered", !.owner = NoWorker, !.lease = "none"] \in Row
  BY DEF Row
<1>4. FailedRow(r) \in Row
  BY DEF Row, FailedRow
<1>5. [r EXCEPT !.retry = "now"] \in Row /\ [r EXCEPT !.lease = "expired"] \in Row
  BY DEF Row
<1>6. [r EXCEPT !.fresh = FALSE] \in Row
  BY DEF Row
<1> QED
  BY <1>1, <1>2, <1>3, <1>4, <1>5, <1>6

\* A worker's call moves from one point of deliver_revocation to the next.
LEMMA CallMoves ==
  ASSUME call \in [Workers -> Call], NEW w \in Workers,
         NEW next \in {"idle", "handshake", "revoke", "readback", "finalize", "fail"}, GoTo(w, next)
  PROVE  /\ call' \in [Workers -> Call]
         /\ call'[w].pc = next /\ call'[w].order = call[w].order
         /\ \A v \in Workers \ {w} : call'[v] = call[v]
<1>1. [call[w] EXCEPT !.pc = next] \in Call
  BY DEF Call
<1> QED
  BY <1>1 DEF GoTo, Call

-----------------------------------------------------------------------------
(* The outbox and its calls. *)

\* Every column, call and recorded generation stays in range; a call that
\* revokes has an order (CallIsBound).
LEMMA OutboxTypeKept == TypeOK /\ CallIsBound /\ [Next]_vars => TypeOK'
<1> SUFFICES ASSUME TypeOK, CallIsBound, [Next]_vars PROVE TypeOK'
  OBVIOUS
<1> USE RevocationConstants
<1>1. \A o \in Orders : row[o] \in Row
  BY DEF TypeOK
<1>2. Idle \in Call /\ \A f \in Nat, o \in Orders : [pc |-> "handshake", order |-> o, fence |-> f] \in Call
  BY DEF Idle, Call
<1>3. ASSUME NEW o \in Orders, Enqueue(o) PROVE TypeOK'
  BY <1>1, <1>3, RowUpdates DEF TypeOK, Enqueue
<1>4. ASSUME NEW o \in Orders, BackoffEnds(o) PROVE TypeOK'
  BY <1>1, <1>4, RowUpdates DEF TypeOK, BackoffEnds
<1>5. ASSUME NEW o \in Orders, DayPasses(o) PROVE TypeOK'
  BY <1>1, <1>5, RowUpdates DEF TypeOK, DayPasses
<1>6. ASSUME NEW o \in Orders, LeaseExpires(o) PROVE TypeOK'
  BY <1>1, <1>6, RowUpdates DEF TypeOK, LeaseExpires
<1>7. ASSUME NEW o \in Orders, LeaseLost(o) PROVE TypeOK'
  <2>1. row' \in [Orders -> Row]
    BY <1>1, <1>7, RowUpdates DEF TypeOK, LeaseLost
  <2> QED
    BY <1>7, <2>1 DEF TypeOK, LeaseLost
<1>8. ASSUME NEW w \in Workers, NEW o \in Orders, Claim(w, o) PROVE TypeOK'
  <2>1. row' \in [Orders -> Row]
    BY <1>1, <1>8, RowUpdates DEF TypeOK, Claim
  <2>2. call' \in [Workers -> Call]
    <3>1. row[o].fence + 1 \in Nat
      BY <1>1 DEF Row
    <3> QED
      BY <3>1, <1>2, <1>8 DEF TypeOK, Claim
  <2> QED
    BY <2>1, <2>2, <1>8 DEF TypeOK, Claim
<1>9. ASSUME NEW w \in Workers, Handshake(w) \/ Readback(w) PROVE TypeOK'
  <2>1. call' \in [Workers -> Call]
    BY <1>9, CallMoves DEF TypeOK, Handshake, Readback, Raise
  <2> QED
    BY <1>9, <2>1 DEF TypeOK, Handshake, Readback, Raise
<1>10. ASSUME NEW w \in Workers, Revoke(w) PROVE TypeOK'
  <2>1. call' \in [Workers -> Call]
    BY <1>10, CallMoves DEF TypeOK, Revoke, Raise, GoTo
  <2>2. call[w].order \in Orders
    BY <1>10 DEF CallIsBound, Revoke
  <2>3. authority' \in [Orders -> 0 .. Generations]
    BY <1>10, <2>2 DEF TypeOK, Revoke, Raise, Applied, Generation
  <2>4. inflight' \subseteq Orders \X Generation
    BY <1>10, <2>2 DEF TypeOK, Revoke, Raise
  <2> QED
    BY <2>1, <2>3, <2>4, <1>10 DEF TypeOK, Revoke, Raise
<1>11. ASSUME NEW o \in Orders, NEW g \in Generation, LateRevoke(o, g) PROVE TypeOK'
  BY <1>11 DEF TypeOK, LateRevoke, Applied, Generation
<1>12. ASSUME NEW w \in Workers, Finalize(w) PROVE TypeOK'
  <2>1. call[w].order \in Orders
    BY <1>12 DEF CallIsBound, Finalize
  <2>2. CASE Holds(w)
    <3> DEFINE o == call[w].order
               r == [row[o] EXCEPT !.state = "delivered", !.owner = NoWorker, !.lease = "none"]
    <3>0. r \in Row
      BY <1>1, <2>1, RowUpdates
    <3>1. row' \in [Orders -> Row]
      <4>1. row' = [row EXCEPT ![o] = r]
        BY <1>12, <2>2 DEF Finalize
      <4> HIDE DEF r
      <4> QED
        BY <2>1, <3>0, <4>1 DEF TypeOK
    <3> QED
      BY <1>2, <1>12, <2>2, <3>1 DEF TypeOK, Finalize
  <2>3. CASE ~Holds(w)
    BY <1>12, <2>3, CallMoves DEF TypeOK, Finalize, Raise
  <2> QED
    BY <2>2, <2>3
<1>13. ASSUME NEW w \in Workers, Fail(w) PROVE TypeOK'
  <2>1. call[w].order \in Orders
    BY <1>13 DEF CallIsBound, Fail
  <2> QED
    BY <1>1, <1>2, <1>13, <2>1, RowUpdates DEF TypeOK, Fail
<1>14. ASSUME NEW w \in Workers, Crash(w) PROVE TypeOK'
  BY <1>2, <1>14 DEF TypeOK, Crash
<1>15. CASE RotateSigner
  BY <1>15 DEF TypeOK, RotateSigner, Generation
<1>16. CASE RotateConfig
  BY <1>2, <1>16 DEF TypeOK, RotateConfig
<1>17. CASE UNCHANGED vars
  BY <1>17 DEF TypeOK, vars
<1> QED
  BY <1>3, <1>4, <1>5, <1>6, <1>7, <1>8, <1>9, <1>10, <1>11, <1>12, <1>13, <1>14, <1>15,
     <1>16, <1>17 DEF Next, Step

\* A row once written stays written and keeps the identity it is bound to, and
\* a revocation the Authority has recorded keeps its generation.
LEMMA OutboxKeeps ==
  ASSUME TypeOK, CallIsBound, [Next]_vars, NEW o \in Orders
  PROVE  /\ row[o].state # "absent" =>
              row'[o].state # "absent" /\ row'[o].signer = row[o].signer
         /\ authority[o] # 0 => authority'[o] = authority[o]
<1> DEFINE Kept == /\ row[o].state # "absent" =>
                        row'[o].state # "absent" /\ row'[o].signer = row[o].signer
                   /\ authority[o] # 0 => authority'[o] = authority[o]
<1>1. row \in [Orders -> Row] /\ authority \in [Orders -> 0 .. Generations]
  BY DEF TypeOK
<1>2. ASSUME NEW p \in Orders,
             Enqueue(p) \/ BackoffEnds(p) \/ DayPasses(p) \/ LeaseExpires(p) \/ LeaseLost(p)
      PROVE  Kept
  BY <1>1, <1>2 DEF Enqueue, BackoffEnds, DayPasses, LeaseExpires, LeaseLost, Row
<1>3. ASSUME NEW w \in Workers, NEW p \in Orders, Claim(w, p) PROVE Kept
  BY <1>1, <1>3 DEF Claim, Row
<1>4. ASSUME NEW p \in Orders, NEW g \in Generation, LateRevoke(p, g) PROVE Kept
  BY <1>1, <1>4 DEF LateRevoke, Applied
<1>5. ASSUME NEW w \in Workers, Handshake(w) \/ Readback(w) \/ Crash(w) PROVE Kept
  BY <1>5 DEF Handshake, Readback, Raise, Crash
<1>6. ASSUME NEW w \in Workers, Revoke(w) PROVE Kept
  <2>1. call[w].order \in Orders
    BY <1>6 DEF CallIsBound, Revoke
  <2> QED
    BY <1>1, <1>6, <2>1 DEF Revoke, Raise, Applied
<1>7. ASSUME NEW w \in Workers, Finalize(w) PROVE Kept
  <2>1. call[w].order \in Orders
    BY <1>7 DEF CallIsBound, Finalize
  <2> QED
    BY <1>1, <1>7, <2>1 DEF Finalize, Raise, Row
<1>8. ASSUME NEW w \in Workers, Fail(w) PROVE Kept
  <2>1. call[w].order \in Orders
    BY <1>8 DEF CallIsBound, Fail
  <2> QED
    BY <1>1, <1>8, <2>1 DEF Fail, FailedRow, Row
<1>9. CASE RotateSigner \/ RotateConfig \/ UNCHANGED vars
  BY <1>9 DEF RotateSigner, RotateConfig, vars
<1> QED
  BY <1>2, <1>3, <1>4, <1>5, <1>6, <1>7, <1>8, <1>9 DEF Next, Step

\* Calls keep what they rely on: a rotation of the configuration ends them all,
\* and one that finalizes has just read the Authority's record.
LEMMA CallStaysBound == TypeOK /\ CallIsBound /\ [Next]_vars => CallIsBound'
<1> SUFFICES ASSUME TypeOK, CallIsBound, [Next]_vars, NEW v \in Workers, call'[v].pc # "idle"
             PROVE  LET o == call'[v].order
                    IN  /\ o \in Orders
                        /\ row'[o].state # "absent"
                        /\ call'[v].pc \in {"revoke", "readback", "finalize"} =>
                             row'[o].signer = config'
                        /\ call'[v].pc = "finalize" => authority'[o] = config'
  BY DEF CallIsBound
<1> DEFINE Bound == LET o == call'[v].order
                    IN  /\ o \in Orders
                        /\ row'[o].state # "absent"
                        /\ call'[v].pc \in {"revoke", "readback", "finalize"} =>
                             row'[o].signer = config'
                        /\ call'[v].pc = "finalize" => authority'[o] = config'
<1> USE RevocationConstants
<1>1. call \in [Workers -> Call] /\ config \in Generation /\ config # 0
  BY DEF TypeOK, Generation
<1>2. ASSUME call'[v] = call[v], config' = config PROVE Bound
  <2>1. call[v].order \in Orders /\ row[call[v].order].state # "absent"
    BY <1>2 DEF CallIsBound
  <2> QED
    BY <1>1, <1>2, <2>1, OutboxKeeps DEF CallIsBound
<1>3. ASSUME NEW p \in Orders,
             Enqueue(p) \/ BackoffEnds(p) \/ DayPasses(p) \/ LeaseExpires(p) \/ LeaseLost(p)
      PROVE  Bound
  BY <1>2, <1>3 DEF Enqueue, BackoffEnds, DayPasses, LeaseExpires, LeaseLost
<1>4. ASSUME NEW w \in Workers, NEW p \in Orders, Claim(w, p) PROVE Bound
  <2>1. CASE v = w
    BY <1>1, <1>4, <2>1, OutboxKeeps DEF Claim, Claimable
  <2>2. CASE v # w
    BY <1>1, <1>2, <1>4, <2>2 DEF Claim
  <2> QED
    BY <2>1, <2>2
<1>5. ASSUME NEW p \in Orders, NEW g \in Generation, LateRevoke(p, g) PROVE Bound
  BY <1>2, <1>5 DEF LateRevoke
<1>6. ASSUME NEW w \in Workers, Step(w), v = w PROVE Bound
  <2>1. call[w].pc # "idle" /\ config' = config
    BY <1>6 DEF Step, Handshake, Revoke, Readback, Finalize, Fail, Raise
  <2>2. call[w].order \in Orders /\ row[call[w].order].state # "absent"
    BY <2>1 DEF CallIsBound
  <2>3. call'[w].order = call[w].order
    <3>1. CASE Fail(w)
      BY <1>1, <1>6, <3>1 DEF Fail, Idle
    <3>2. CASE Finalize(w)
      BY <1>1, <1>6, <3>2, CallMoves DEF Finalize, Raise, Idle
    <3>3. CASE Handshake(w) \/ Revoke(w) \/ Readback(w)
      BY <1>1, <3>3, CallMoves DEF Handshake, Revoke, Readback, Raise, GoTo
    <3> QED
      BY <1>6, <3>1, <3>2, <3>3 DEF Step
  <2>4. /\ row'[call[w].order].state # "absent"
        /\ row'[call[w].order].signer = row[call[w].order].signer
    BY <2>2, OutboxKeeps
  <2>5. call'[w].pc \in {"revoke", "readback", "finalize"} => row[call[w].order].signer = config
    BY <1>1, <1>6, <2>1, CallMoves DEF CallIsBound, Step, Handshake, Revoke, Readback, Finalize, Fail, Raise, Idle, GoTo
  <2>6. call'[w].pc = "finalize" => authority'[call[w].order] = config
    BY <1>1, <1>6, <2>1, CallMoves DEF Step, Handshake, Revoke, Readback, Finalize, Fail, Raise, Idle, GoTo
  <2> QED
    BY <1>6, <2>1, <2>2, <2>3, <2>4, <2>5, <2>6
<1>7. ASSUME NEW w \in Workers, Step(w), v # w PROVE Bound
  <2>1. call'[v] = call[v] /\ config' = config
    BY <1>1, <1>7 DEF Step, Handshake, Revoke, Readback, Finalize, Fail, Raise, GoTo
  <2> QED
    BY <1>2, <2>1
<1>8. ASSUME NEW w \in Workers, Crash(w) PROVE Bound
  BY <1>1, <1>2, <1>8 DEF Crash, Idle
<1>9. CASE RotateConfig
  BY <1>9 DEF RotateConfig, Idle
<1>10. CASE RotateSigner \/ UNCHANGED vars
  BY <1>2, <1>10 DEF RotateSigner, vars
<1> QED
  BY <1>3, <1>4, <1>5, <1>6, <1>7, <1>8, <1>9, <1>10 DEF Next

\* Only a request of a call reaches the Authority, and only a call has one on
\* its way.
LEMMA RevokedStaysAsked ==
  TypeOK /\ CallIsBound /\ RevokedWasAsked /\ [Next]_vars => RevokedWasAsked'
<1> SUFFICES ASSUME TypeOK, CallIsBound, RevokedWasAsked, [Next]_vars, NEW o \in Orders,
                    authority'[o] # 0 \/ \E g \in Generation : <<o, g>> \in inflight'
             PROVE  row'[o].state # "absent"
  BY DEF RevokedWasAsked
<1>1. CASE authority'[o] = authority[o] /\ (\A g \in Generation : <<o, g>> \in inflight' => <<o, g>> \in inflight)
  BY <1>1, OutboxKeeps DEF RevokedWasAsked
<1>2. ASSUME NEW p \in Orders, NEW g \in Generation, LateRevoke(p, g)
      PROVE  row'[o].state # "absent"
  BY <1>1, <1>2, OutboxKeeps DEF LateRevoke, Applied, RevokedWasAsked, TypeOK
<1>3. ASSUME NEW w \in Workers, Revoke(w) PROVE row'[o].state # "absent"
  <2>1. call[w].order \in Orders /\ row[call[w].order].state # "absent"
    BY <1>3 DEF CallIsBound, Revoke
  <2> QED
    BY <1>1, <1>3, <2>1, OutboxKeeps DEF Revoke, Raise, Applied, TypeOK
<1> QED
  BY <1>1, <1>2, <1>3 DEF Next, Step, Enqueue, BackoffEnds, DayPasses, LeaseExpires, LeaseLost, Claim,
     Handshake, Readback, Finalize, Fail, Raise, Crash, RotateSigner, RotateConfig, vars

\* A row becomes delivered only by the call that finalizes it.
LEMMA DeliveredStaysProven ==
  TypeOK /\ CallIsBound /\ DeliveredIsProven /\ [Next]_vars => DeliveredIsProven'
<1> SUFFICES ASSUME TypeOK, CallIsBound, DeliveredIsProven, [Next]_vars,
                    NEW o \in Orders, row'[o].state = "delivered"
             PROVE  authority'[o] = row'[o].signer
  BY DEF DeliveredIsProven
<1> USE RevocationConstants
<1>1. row \in [Orders -> Row] /\ row[o].signer # 0 /\ config # 0
  BY DEF TypeOK, Row, Generation
<1>2. CASE row[o].state = "delivered"
  BY <1>1, <1>2, OutboxKeeps DEF DeliveredIsProven
<1>3. ASSUME NEW w \in Workers, Finalize(w), row[o].state # "delivered"
      PROVE  authority'[o] = row'[o].signer
  <2>1. call[w].order \in Orders
    BY <1>3 DEF CallIsBound, Finalize
  <2>2. call[w].order = o
    BY <1>1, <1>3, <2>1 DEF Finalize, Raise
  <2>3. row[o].state # "absent" /\ row[o].signer = config /\ authority[o] = config
    BY <1>3, <2>2 DEF CallIsBound, Finalize
  <2> QED
    BY <1>1, <2>3, OutboxKeeps
<1>4. ASSUME NEW p \in Orders,
             Enqueue(p) \/ BackoffEnds(p) \/ DayPasses(p) \/ LeaseExpires(p) \/ LeaseLost(p)
      PROVE  row[o].state = "delivered"
  BY <1>1, <1>4 DEF Enqueue, BackoffEnds, DayPasses, LeaseExpires, LeaseLost, Row
<1>4a. ASSUME NEW w \in Workers, NEW p \in Orders, Claim(w, p) PROVE row[o].state = "delivered"
  BY <1>1, <1>4a DEF Claim, Row
<1>5. ASSUME NEW w \in Workers, Fail(w) PROVE row[o].state = "delivered"
  <2>1. call[w].order \in Orders
    BY <1>5 DEF CallIsBound, Fail
  <2> QED
    BY <1>1, <1>5, <2>1 DEF Fail, FailedRow, Row
<1>6. CASE UNCHANGED row
  BY <1>2, <1>6
<1> QED
  BY <1>2, <1>3, <1>4, <1>4a, <1>5, <1>6 DEF Next, Step, LateRevoke, Handshake, Revoke, Readback, Raise, Crash,
     RotateSigner, RotateConfig, vars

\* The inductive invariant of the outbox, for every set of orders and workers,
\* every number of attempts and rotations (deliver_revocation).
THEOREM OutboxInvariant == Spec => []OutboxInv
<1>1. Init => OutboxInv
  <2> SUFFICES ASSUME Init PROVE OutboxInv
    OBVIOUS
  <2>1. AbsentRow \in Row /\ Idle \in Call /\ 1 \in Generation
    BY RevocationConstants DEF AbsentRow, Row, Idle, Call, Generation
  <2>2. TypeOK
    BY <2>1, RevocationConstants DEF Init, TypeOK
  <2> QED
    BY <2>2 DEF Init, OutboxInv, CallIsBound, RevokedWasAsked, DeliveredIsProven, Idle, AbsentRow
<1>2. OutboxInv /\ [Next]_vars => OutboxInv'
  BY OutboxTypeKept, CallStaysBound, RevokedStaysAsked, DeliveredStaysProven DEF OutboxInv
<1> QED
  BY <1>1, <1>2, PTL DEF Spec

\* A delivered revocation is proven by the identity its row was bound to when
\* it was queued (deliver_claimed_revocation).
THEOREM DeliveriesAreProven == Spec => []DeliveredIsProven
<1>1. OutboxInv => DeliveredIsProven
  BY DEF OutboxInv
<1> QED
  BY <1>1, OutboxInvariant, PTL

\* The fence keeps a call that lost its lease from the row
\* (deliver_claimed_revocation, fail_revocation).
THEOREM LostLeasesAreHarmless == Spec => LostLeaseIsHarmless
<1>1. OutboxInv /\ [Next]_vars
        => [\A w \in Workers :
              call[w].pc # "idle" /\ ~Holds(w) /\ call'[w] # call[w] => UNCHANGED row]_vars
  <2> SUFFICES ASSUME TypeOK, Next, NEW w \in Workers,
                      call[w].pc # "idle", ~Holds(w), call'[w] # call[w]
               PROVE  UNCHANGED row
    BY DEF OutboxInv, vars
  <2>1. call \in [Workers -> Call]
    BY DEF TypeOK
  <2>2. ASSUME NEW v \in Workers, NEW o \in Orders, Claim(v, o) PROVE FALSE
    BY <2>1, <2>2 DEF Claim
  <2>3. ASSUME NEW v \in Workers, Step(v) PROVE v = w
    BY <2>1, <2>3 DEF Step, Handshake, Revoke, Readback, Finalize, Fail, Raise, GoTo
  <2>4. ASSUME Step(w) PROVE UNCHANGED row
    BY <2>4 DEF Step, Handshake, Revoke, Readback, Finalize, Fail, Raise
  <2> QED
    BY <2>2, <2>3, <2>4 DEF Next, Enqueue, BackoffEnds, DayPasses, LeaseExpires, LeaseLost, LateRevoke,
       Crash, RotateSigner, RotateConfig
<1> QED
  BY <1>1, OutboxInvariant, PTL DEF Spec, LostLeaseIsHarmless

-----------------------------------------------------------------------------
(* The abstract delivery. *)

\* What the abstract delivery sees of a row depends on its state alone.
LEMMA RequestOfRow ==
  ASSUME NEW r
  PROVE  /\ r.state = "absent" => Request(r) = "none"
         /\ r.state \in {"pending", "leased"} => Request(r) = "queued"
         /\ r.state = "delivered" => Request(r) = "delivered"
         /\ r.state = "quarantined" => Request(r) = "abandoned"
BY DEF Request

\* A step that changes neither the state of a row nor whether a licence is
\* revoked is a stutter of the abstract delivery.
LEMMA DeliveryStutters ==
  ASSUME \A o \in Orders : Request(row'[o]) = Request(row[o]),
         \A o \in Orders : authority'[o] # 0 <=> authority[o] # 0
  PROVE  UNCHANGED Delivery!rvars
BY DEF Delivery!rvars

\* A step that changes the state of one row changes one request.
LEMMA OneRequestChanges ==
  ASSUME NEW o \in Orders, NEW s, Request(row'[o]) = s,
         \A p \in Orders \ {o} : Request(row'[p]) = Request(row[p])
  PROVE  [p \in Orders |-> Request(row[p])]' = [[p \in Orders |-> Request(row[p])] EXCEPT ![o] = s]
<1>1. [p \in Orders |-> Request(row[p])]' = [p \in Orders |-> Request(row'[p])]
  BY DEF Request
<1>2. [p \in Orders |-> Request(row'[p])] = [[p \in Orders |-> Request(row[p])] EXCEPT ![o] = s]
  OBVIOUS
<1> QED
  BY <1>1, <1>2

\* _enqueue_revocation asks for the revocation.
LEMMA EnqueueAsks == ASSUME TypeOK, NEW o \in Orders, Enqueue(o) PROVE Delivery!Ask(o)
<1>1. row \in [Orders -> Row] /\ row[o].state = "absent" /\ row'[o].state = "pending"
  BY DEF TypeOK, Enqueue, Row
<1>2. \A p \in Orders \ {o} : row'[p] = row[p]
  BY <1>1 DEF Enqueue
<1>3. Request(row[o]) = "none" /\ Request(row'[o]) = "queued"
  BY <1>1, RequestOfRow
<1>4. authority' = authority
  BY DEF Enqueue
<1>5. [p \in Orders |-> Request(row[p])]' = [[p \in Orders |-> Request(row[p])] EXCEPT ![o] = "queued"]
  BY <1>2, <1>3, OneRequestChanges
<1> QED
  BY <1>3, <1>4, <1>5 DEF Delivery!Ask

\* A row the Authority holds evidence of is reported delivered, a row that ran
\* out of attempts is abandoned (deliver_claimed_revocation, fail_revocation).
LEMMA RowSettles ==
  ASSUME TypeOK, NEW o \in Orders, NEW s \in {"delivered", "quarantined"},
         row[o].state = "leased", row'[o].state = s, s = "delivered" => authority[o] # 0,
         \A p \in Orders \ {o} : row'[p] = row[p], authority' = authority
  PROVE  Delivery!Settle(o)
<1> DEFINE outcome == IF s = "delivered" THEN "delivered" ELSE "abandoned"
<1>1. Request(row[o]) = "queued" /\ Request(row'[o]) = outcome
  BY RequestOfRow
<1>2. [p \in Orders |-> Request(row[p])]' = [[p \in Orders |-> Request(row[p])] EXCEPT ![o] = outcome]
  BY <1>1, OneRequestChanges
<1>3. outcome \in {"abandoned"} \cup {t \in {"delivered"} : o \in {p \in Orders : authority[p] # 0}}
  OBVIOUS
<1> HIDE DEF outcome
<1> QED
  BY <1>1, <1>2, <1>3 DEF Delivery!Settle

\* The first request that the Authority accepts revokes the licence of a row
\* that exists; what it answers again changes nothing.
LEMMA AppliedRevokes ==
  ASSUME TypeOK, NEW o \in Orders, NEW g \in Generation, row[o].state # "absent",
         authority' = Applied(o, g), row' = row
  PROVE  Delivery!Next \/ UNCHANGED Delivery!rvars
<1>1. CASE authority[o] # 0
  <2>1. authority' = authority
    BY <1>1 DEF Applied, TypeOK
  <2> QED
    BY <2>1, DeliveryStutters
<1>2. CASE authority[o] = 0
  <2>1. g # 0
    BY RevocationConstants DEF Generation
  <2>2. {p \in Orders : authority'[p] # 0} = {p \in Orders : authority[p] # 0} \cup {o}
    BY <1>2, <2>1 DEF Applied, TypeOK
  <2>3. Request(row[o]) # "none"
    BY RequestOfRow DEF TypeOK, Row
  <2>4. [p \in Orders |-> Request(row[p])]' = [p \in Orders |-> Request(row[p])]
    BY DEF Request
  <2>5. Delivery!Revoke(o)
    BY <1>2, <2>2, <2>3, <2>4 DEF Delivery!Revoke
  <2> QED
    BY <2>5 DEF Delivery!Next
<1> QED
  BY <1>1, <1>2

\* Every step of the outbox is a step of the abstract delivery or none.
LEMMA OutboxStepDelivers ==
  OutboxInv /\ [Next]_vars => [Delivery!Next]_(Delivery!rvars)
<1> SUFFICES ASSUME OutboxInv, [Next]_vars PROVE Delivery!Next \/ UNCHANGED Delivery!rvars
  OBVIOUS
<1>1. TypeOK /\ row \in [Orders -> Row] /\ CallIsBound /\ RevokedWasAsked
  BY DEF OutboxInv, TypeOK
<1>2. ASSUME NEW o \in Orders, Enqueue(o) PROVE Delivery!Next
  BY <1>1, <1>2, EnqueueAsks DEF Delivery!Next
<1>3. ASSUME NEW o \in Orders,
             BackoffEnds(o) \/ DayPasses(o) \/ LeaseExpires(o) \/ LeaseLost(o)
      PROVE  UNCHANGED Delivery!rvars
  <2>1. \A p \in Orders : row'[p].state = row[p].state
    BY <1>1, <1>3 DEF BackoffEnds, DayPasses, LeaseExpires, LeaseLost, Row
  <2>2. \A p \in Orders : Request(row'[p]) = Request(row[p])
    BY <2>1 DEF Request
  <2>3. authority' = authority
    BY <1>3 DEF BackoffEnds, DayPasses, LeaseExpires, LeaseLost
  <2> QED
    BY <2>2, <2>3, DeliveryStutters
<1>4. ASSUME NEW w \in Workers, NEW o \in Orders, Claim(w, o) PROVE UNCHANGED Delivery!rvars
  <2>1. row[o].state \in {"pending", "leased"} /\ row'[o].state = "leased"
    BY <1>1, <1>4 DEF Claim, Claimable, Row
  <2>2. \A p \in Orders : Request(row'[p]) = Request(row[p])
    BY <1>1, <1>4, <2>1, RequestOfRow DEF Claim
  <2> QED
    BY <1>4, <2>2, DeliveryStutters DEF Claim
<1>5. ASSUME NEW o \in Orders, NEW g \in Generation, LateRevoke(o, g)
      PROVE  Delivery!Next \/ UNCHANGED Delivery!rvars
  <2>1. row[o].state # "absent" /\ row' = row
    BY <1>1, <1>5 DEF LateRevoke, RevokedWasAsked
  <2>2. CASE Accepts(o, g)
    BY <1>1, <1>5, <2>1, <2>2, AppliedRevokes DEF LateRevoke
  <2>3. CASE ~Accepts(o, g)
    BY <1>5, <2>1, <2>3, DeliveryStutters DEF LateRevoke
  <2> QED
    BY <2>2, <2>3
<1>6. ASSUME NEW w \in Workers, Revoke(w) PROVE Delivery!Next \/ UNCHANGED Delivery!rvars
  <2>1. call[w].order \in Orders /\ row[call[w].order].state # "absent" /\ config \in Generation
    BY <1>1, <1>6 DEF CallIsBound, Revoke, TypeOK
  <2>2. row' = row /\ (authority' = authority \/ authority' = Applied(call[w].order, config))
    BY <1>6 DEF Revoke, Raise
  <2> QED
    BY <1>1, <2>1, <2>2, AppliedRevokes, DeliveryStutters
<1>7. ASSUME NEW w \in Workers, Finalize(w) PROVE Delivery!Next \/ UNCHANGED Delivery!rvars
  <2>1. call[w].order \in Orders /\ authority[call[w].order] = config /\ config # 0
    BY <1>1, <1>7, RevocationConstants DEF CallIsBound, Finalize, TypeOK, Generation
  <2>2. CASE Holds(w)
    <3>1. /\ row[call[w].order].state = "leased" /\ row'[call[w].order].state = "delivered"
          /\ \A p \in Orders \ {call[w].order} : row'[p] = row[p]
          /\ authority' = authority
      BY <1>1, <1>7, <2>1, <2>2 DEF Finalize, Holds, Row
    <3>2. Delivery!Settle(call[w].order)
      BY <1>1, <2>1, <3>1, RowSettles
    <3> QED
      BY <2>1, <3>2 DEF Delivery!Next
  <2>3. CASE ~Holds(w)
    BY <1>7, <2>3, DeliveryStutters DEF Finalize, Raise
  <2> QED
    BY <2>2, <2>3
<1>8. ASSUME NEW w \in Workers, Fail(w) PROVE Delivery!Next \/ UNCHANGED Delivery!rvars
  <2>1. call[w].order \in Orders /\ authority' = authority
    BY <1>1, <1>8 DEF CallIsBound, Fail
  <2>2. CASE Holds(w)
    <3>1. /\ row[call[w].order].state = "leased"
          /\ row'[call[w].order].state \in {"quarantined", "pending"}
          /\ \A p \in Orders \ {call[w].order} : row'[p] = row[p]
      BY <1>1, <1>8, <2>1, <2>2 DEF Fail, FailedRow, Holds, Row
    <3>2. CASE row'[call[w].order].state = "pending"
      <4>1. \A p \in Orders : Request(row'[p]) = Request(row[p])
        BY <3>1, <3>2, RequestOfRow
      <4> QED
        BY <2>1, <4>1, DeliveryStutters
    <3>3. CASE row'[call[w].order].state = "quarantined"
      <4>1. Delivery!Settle(call[w].order)
        BY <1>1, <2>1, <3>1, <3>3, RowSettles
      <4> QED
        BY <2>1, <4>1 DEF Delivery!Next
    <3> QED
      BY <3>1, <3>2, <3>3
  <2>3. CASE ~Holds(w)
    BY <1>8, <2>1, <2>3, DeliveryStutters DEF Fail
  <2> QED
    BY <2>2, <2>3
<1>9. CASE row' = row /\ authority' = authority
  BY <1>9, DeliveryStutters
<1> QED
  BY <1>2, <1>3, <1>4, <1>5, <1>6, <1>7, <1>8, <1>9 DEF Next, Step, Handshake, Readback, Raise, Crash,
     RotateSigner, RotateConfig, vars

\* The outbox implements the abstract delivery for every set of
\* orders and workers: a revocation takes effect at most once and only when
\* asked for, is reported delivered only after that, and no report is
\* withdrawn (deliver_revocation, revoke_external_entitlement).
THEOREM OutboxImplementsDelivery == Spec => ImplementsDelivery
<1>1. Init => Delivery!Init
  BY RequestOfRow DEF Init, Delivery!Init, AbsentRow
<1> QED
  BY <1>1, OutboxStepDelivers, OutboxInvariant, PTL DEF Spec, ImplementsDelivery, Delivery!Spec
=============================================================================
