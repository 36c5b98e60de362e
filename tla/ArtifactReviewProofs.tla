------------------------- MODULE ArtifactReviewProofs -------------------------
(***************************************************************************)
(* Proofs about ArtifactReview, for any number of artifacts and requests.  *)
(***************************************************************************)
EXTENDS ArtifactReview, TLAPS

-----------------------------------------------------------------------------
(* Types. *)

\* Every step of a review request keeps the types and the owner of the writer lock.
LEMMA ReviewTypeStep ==
  ASSUME TypeOK, [Next]_vars
  PROVE  TypeOK'
<1> USE IdsAssumption
<1>1. ASSUME NEW r \in Requests, NEW a \in Artifacts \cup {NoArtifact},
             NEW expected \in Nat, NEW target \in SessionStatus,
             NEW op \in {"create", "approve", "reject", "update"},
             op = "update" <=> a = NoArtifact, Arrive(r, op, a, expected, target)
      PROVE  TypeOK'
  BY <1>1 DEF TypeOK, Request, SessionStatus, Arrive, NewRequest
<1>2. ASSUME NEW r \in Requests, ReadSession(r)
      PROVE  TypeOK'
  <2>1. req[r].op \in {"create", "update"}
    BY <1>2 DEF ReadSession, SessionAllows
  <2>2. /\ \A q \in Requests \ {r} : req'[q] = req[q]
        /\ req'[r] = [req[r] EXCEPT !.pc = "write", !.seen = session]
        /\ req' \in [Requests -> Request]
    BY <1>2 DEF ReadSession, TypeOK, Request
  <2>3. /\ req'[r].op = req[r].op /\ req'[r].pc = "write"
        /\ req'[r].artifact = req[r].artifact
    BY <2>2 DEF TypeOK, Request
  <2>4. QED
    BY <1>2, <2>1, <2>2, <2>3 DEF ReadSession, TypeOK
<1>3. ASSUME NEW r \in Requests, ReadArtifact(r)
      PROVE  TypeOK'
  BY <1>3 DEF TypeOK, Request, SessionStatus, ReadArtifact, GoTo
<1>4. ASSUME NEW r \in Requests, Refuse(r)
      PROVE  TypeOK'
  BY <1>4 DEF TypeOK, Request, SessionStatus, Refuse, Return, Idle, NewRequest
<1>5. ASSUME NEW r \in Requests, Claim(r)
      PROVE  TypeOK'
  BY <1>5 DEF TypeOK, Request, SessionStatus, Claim, GoTo, Return, Idle, NewRequest
<1>6. ASSUME NEW r \in Requests, Apply(r)
      PROVE  TypeOK'
  BY <1>6 DEF TypeOK, Request, SessionStatus, Apply, Return, Idle, NewRequest
<1>7. ASSUME NEW r \in Requests, Reject(r)
      PROVE  TypeOK'
  BY <1>7 DEF TypeOK, Request, SessionStatus, Reject, Return, Idle, NewRequest
<1>8. ASSUME NEW r \in Requests, InsertArtifact(r)
      PROVE  TypeOK'
  BY <1>8 DEF TypeOK, Request, SessionStatus, InsertArtifact, Return, Idle, NewRequest
<1>9. ASSUME NEW r \in Requests, UpdateSession(r)
      PROVE  TypeOK'
  BY <1>9 DEF TypeOK, Request, SessionStatus, UpdateSession, Return, Idle, NewRequest
<1>10. ASSUME NEW r \in Requests, BusyTimeout(r)
      PROVE  TypeOK'
  BY <1>10 DEF TypeOK, Request, SessionStatus, BusyTimeout, Return, Idle, NewRequest
<1>11. ASSUME NEW r \in Requests, NodeConflict(r)
      PROVE  TypeOK'
  BY <1>11 DEF TypeOK, Request, SessionStatus, NodeConflict, Return, Idle, NewRequest
<1>12. CASE Edit
  BY <1>12 DEF Edit, TypeOK, Request, SessionStatus
<1>13. CASE UNCHANGED vars
  BY <1>13 DEF vars, TypeOK
<1>14. ASSUME NEW r \in Requests, Arrival(r)
      PROVE  TypeOK'
  <2>1. "idle" \in SessionStatus /\ \A e \in 1..MaxRev : e \in Nat
    BY RevAssumption DEF SessionStatus
  <2>2. QED
    BY <1>1, <1>14, <2>1 DEF Arrival
<1>15. QED
  BY <1>2, <1>3, <1>4, <1>5, <1>6, <1>7, <1>8, <1>9, <1>10, <1>11,
     <1>12, <1>13, <1>14 DEF Next, Step

\* Types are kept, and the writer lock is held by the approval that claimed.
THEOREM ReviewTypes == Spec => []TypeOK
<1>1. Init => TypeOK
  BY IdsAssumption DEF Init, TypeOK, Request, SessionStatus, Idle, NewRequest
<1>2. QED
  BY <1>1, ReviewTypeStep, PTL DEF Spec

-----------------------------------------------------------------------------
(* The inductive invariant, one conjunct at a time. *)

\* An approval whose revision is current keeps an unwritten artifact.
LEMMA UnwrittenStep ==
  ASSUME TypeOK, ReviewInv, [Next]_vars
  PROVE  Unwritten'
<1> USE IdsAssumption DEF ReviewInv
<1>1. ASSUME NEW r \in Requests, NEW a \in Artifacts \cup {NoArtifact},
             NEW expected \in Nat, NEW target \in SessionStatus,
             NEW op \in {"create", "approve", "reject", "update"},
             op = "update" <=> a = NoArtifact, Arrive(r, op, a, expected, target)
      PROVE  Unwritten'
  BY <1>1 DEF TypeOK, Request, Unwritten, Reviewed, PendingIsUnwritten, Arrive, NewRequest
<1>2. ASSUME NEW r \in Requests, ReadSession(r)
      PROVE  Unwritten'
  BY <1>2 DEF TypeOK, Request, Unwritten, Reviewed, PendingIsUnwritten, ReadSession, SessionAllows
<1>3. ASSUME NEW r \in Requests, ReadArtifact(r)
      PROVE  Unwritten'
  BY <1>3 DEF TypeOK, Request, Unwritten, Reviewed, PendingIsUnwritten, ReadArtifact, GoTo
<1>4. ASSUME NEW r \in Requests, Refuse(r)
      PROVE  Unwritten'
  BY <1>4 DEF TypeOK, Request, Unwritten, Reviewed, PendingIsUnwritten, Refuse, Return, Idle, NewRequest
<1>5. ASSUME NEW r \in Requests, Claim(r)
      PROVE  Unwritten'
  BY <1>5 DEF TypeOK, Request, Unwritten, Reviewed, PendingIsUnwritten, Claim, GoTo, Return, Idle, NewRequest
<1>6. ASSUME NEW r \in Requests, Apply(r)
      PROVE  Unwritten'
  BY <1>6 DEF TypeOK, Request, Unwritten, Reviewed, PendingIsUnwritten, Apply, Return, Idle, NewRequest
<1>7. ASSUME NEW r \in Requests, Reject(r)
      PROVE  Unwritten'
  BY <1>7 DEF TypeOK, Request, Unwritten, Reviewed, PendingIsUnwritten, Reject, Return, Idle, NewRequest
<1>8. ASSUME NEW r \in Requests, InsertArtifact(r)
      PROVE  Unwritten'
  BY <1>8 DEF TypeOK, Request, Unwritten, Reviewed, PendingIsUnwritten, InsertArtifact, Return, Idle, NewRequest
<1>9. ASSUME NEW r \in Requests, UpdateSession(r)
      PROVE  Unwritten'
  BY <1>9 DEF TypeOK, Request, Unwritten, Reviewed, PendingIsUnwritten, UpdateSession, Return, Idle, NewRequest
<1>10. ASSUME NEW r \in Requests, BusyTimeout(r)
      PROVE  Unwritten'
  BY <1>10 DEF TypeOK, Request, Unwritten, Reviewed, PendingIsUnwritten, BusyTimeout, Return, Idle, NewRequest
<1>11. ASSUME NEW r \in Requests, NodeConflict(r)
      PROVE  Unwritten'
  BY <1>11 DEF TypeOK, Request, Unwritten, Reviewed, PendingIsUnwritten, NodeConflict, Return, Idle, NewRequest
<1>12. CASE Edit
  BY <1>12 DEF Edit, TypeOK, Request, Unwritten, Reviewed, PendingIsUnwritten
<1>13. CASE UNCHANGED vars
  BY <1>13 DEF vars, Unwritten
<1>14. ASSUME NEW r \in Requests, Arrival(r)
      PROVE  Unwritten'
  <2>1. "idle" \in SessionStatus /\ \A e \in 1..MaxRev : e \in Nat
    BY RevAssumption DEF SessionStatus
  <2>2. QED
    BY <1>1, <1>14, <2>1 DEF Arrival
<1>15. QED
  BY <1>2, <1>3, <1>4, <1>5, <1>6, <1>7, <1>8, <1>9, <1>10, <1>11,
     <1>12, <1>13, <1>14 DEF Next, Step

\* An artifact that is being created stays known to its creator only.
LEMMA NewbornStep ==
  ASSUME TypeOK, ReviewInv, [Next]_vars
  PROVE  Newborn'
<1> USE IdsAssumption DEF ReviewInv
<1>1. ASSUME NEW r \in Requests, NEW a \in Artifacts \cup {NoArtifact},
             NEW expected \in Nat, NEW target \in SessionStatus,
             NEW op \in {"create", "approve", "reject", "update"},
             op = "update" <=> a = NoArtifact, Arrive(r, op, a, expected, target)
      PROVE  Newborn'
  BY <1>1 DEF TypeOK, Request, Newborn, Reviewed, Arrive, NewRequest
<1>2. ASSUME NEW r \in Requests, ReadSession(r)
      PROVE  Newborn'
  BY <1>2 DEF TypeOK, Request, Newborn, Reviewed, ReadSession, SessionAllows
<1>3. ASSUME NEW r \in Requests, ReadArtifact(r)
      PROVE  Newborn'
  BY <1>3 DEF TypeOK, Request, Newborn, Reviewed, ReadArtifact, GoTo
<1>4. ASSUME NEW r \in Requests, Refuse(r)
      PROVE  Newborn'
  BY <1>4 DEF TypeOK, Request, Newborn, Reviewed, Refuse, Return, Idle, NewRequest
<1>5. ASSUME NEW r \in Requests, Claim(r)
      PROVE  Newborn'
  BY <1>5 DEF TypeOK, Request, Newborn, Reviewed, Claim, GoTo, Return, Idle, NewRequest
<1>6. ASSUME NEW r \in Requests, Apply(r)
      PROVE  Newborn'
  BY <1>6 DEF TypeOK, Request, Newborn, Reviewed, Apply, Return, Idle, NewRequest
<1>7. ASSUME NEW r \in Requests, Reject(r)
      PROVE  Newborn'
  BY <1>7 DEF TypeOK, Request, Newborn, Reviewed, Reject, Return, Idle, NewRequest
<1>8. ASSUME NEW r \in Requests, InsertArtifact(r)
      PROVE  Newborn'
  BY <1>8 DEF TypeOK, Request, Newborn, Reviewed, InsertArtifact, Return, Idle, NewRequest
<1>9. ASSUME NEW r \in Requests, UpdateSession(r)
      PROVE  Newborn'
  BY <1>9 DEF TypeOK, Request, Newborn, Reviewed, UpdateSession, Return, Idle, NewRequest
<1>10. ASSUME NEW r \in Requests, BusyTimeout(r)
      PROVE  Newborn'
  BY <1>10 DEF TypeOK, Request, Newborn, Reviewed, BusyTimeout, Return, Idle, NewRequest
<1>11. ASSUME NEW r \in Requests, NodeConflict(r)
      PROVE  Newborn'
  BY <1>11 DEF TypeOK, Request, Newborn, Reviewed, NodeConflict, Return, Idle, NewRequest
<1>12. CASE Edit
  BY <1>12 DEF Edit, TypeOK, Request, Newborn, Reviewed
<1>13. CASE UNCHANGED vars
  BY <1>13 DEF vars, Newborn
<1>14. ASSUME NEW r \in Requests, Arrival(r)
      PROVE  Newborn'
  <2>1. "idle" \in SessionStatus /\ \A e \in 1..MaxRev : e \in Nat
    BY RevAssumption DEF SessionStatus
  <2>2. QED
    BY <1>1, <1>14, <2>1 DEF Arrival
<1>15. QED
  BY <1>2, <1>3, <1>4, <1>5, <1>6, <1>7, <1>8, <1>9, <1>10, <1>11,
     <1>12, <1>13, <1>14 DEF Next, Step

\* No step leaves a review without its artifact: artifacts are never deleted.
LEMMA ReviewedStep ==
  ASSUME TypeOK, ReviewInv, [Next]_vars
  PROVE  Reviewed'
<1> USE IdsAssumption DEF ReviewInv
<1>1. ASSUME NEW r \in Requests, NEW a \in Artifacts \cup {NoArtifact},
             NEW expected \in Nat, NEW target \in SessionStatus,
             NEW op \in {"create", "approve", "reject", "update"},
             op = "update" <=> a = NoArtifact, Arrive(r, op, a, expected, target)
      PROVE  Reviewed'
  BY <1>1 DEF TypeOK, Request, Reviewed, Newborn, Arrive, NewRequest
<1>2. ASSUME NEW r \in Requests, ReadSession(r)
      PROVE  Reviewed'
  BY <1>2 DEF TypeOK, Request, Reviewed, Newborn, ReadSession, SessionAllows
<1>3. ASSUME NEW r \in Requests, ReadArtifact(r)
      PROVE  Reviewed'
  BY <1>3 DEF TypeOK, Request, Reviewed, Newborn, ReadArtifact, GoTo
<1>4. ASSUME NEW r \in Requests, Refuse(r)
      PROVE  Reviewed'
  BY <1>4 DEF TypeOK, Request, Reviewed, Newborn, Refuse, Return, Idle, NewRequest
<1>5. ASSUME NEW r \in Requests, Claim(r)
      PROVE  Reviewed'
  BY <1>5 DEF TypeOK, Request, Reviewed, Newborn, Claim, GoTo, Return, Idle, NewRequest
<1>6. ASSUME NEW r \in Requests, Apply(r)
      PROVE  Reviewed'
  BY <1>6 DEF TypeOK, Request, Reviewed, Newborn, Apply, Return, Idle, NewRequest
<1>7. ASSUME NEW r \in Requests, Reject(r)
      PROVE  Reviewed'
  BY <1>7 DEF TypeOK, Request, Reviewed, Newborn, Reject, Return, Idle, NewRequest
<1>8. ASSUME NEW r \in Requests, InsertArtifact(r)
      PROVE  Reviewed'
  BY <1>8 DEF TypeOK, Request, Reviewed, Newborn, InsertArtifact, Return, Idle, NewRequest
<1>9. ASSUME NEW r \in Requests, UpdateSession(r)
      PROVE  Reviewed'
  BY <1>9 DEF TypeOK, Request, Reviewed, Newborn, UpdateSession, Return, Idle, NewRequest
<1>10. ASSUME NEW r \in Requests, BusyTimeout(r)
      PROVE  Reviewed'
  BY <1>10 DEF TypeOK, Request, Reviewed, Newborn, BusyTimeout, Return, Idle, NewRequest
<1>11. ASSUME NEW r \in Requests, NodeConflict(r)
      PROVE  Reviewed'
  BY <1>11 DEF TypeOK, Request, Reviewed, Newborn, NodeConflict, Return, Idle, NewRequest
<1>12. CASE Edit
  BY <1>12 DEF Edit, TypeOK, Request, Reviewed, Newborn
<1>13. CASE UNCHANGED vars
  BY <1>13 DEF vars, Reviewed
<1>14. ASSUME NEW r \in Requests, Arrival(r)
      PROVE  Reviewed'
  <2>1. "idle" \in SessionStatus /\ \A e \in 1..MaxRev : e \in Nat
    BY RevAssumption DEF SessionStatus
  <2>2. QED
    BY <1>1, <1>14, <2>1 DEF Arrival
<1>15. QED
  BY <1>2, <1>3, <1>4, <1>5, <1>6, <1>7, <1>8, <1>9, <1>10, <1>11,
     <1>12, <1>13, <1>14 DEF Next, Step

\* The status of an artifact and its write change in one commit.
LEMMA PendingIsUnwrittenStep ==
  ASSUME TypeOK, ReviewInv, [Next]_vars
  PROVE  PendingIsUnwritten'
<1> USE IdsAssumption DEF ReviewInv
<1>1. ASSUME NEW r \in Requests, NEW a \in Artifacts \cup {NoArtifact},
             NEW expected \in Nat, NEW target \in SessionStatus,
             NEW op \in {"create", "approve", "reject", "update"},
             op = "update" <=> a = NoArtifact, Arrive(r, op, a, expected, target)
      PROVE  PendingIsUnwritten'
  BY <1>1 DEF TypeOK, Request, PendingIsUnwritten, Unwritten, Newborn, Reviewed, Arrive, NewRequest
<1>2. ASSUME NEW r \in Requests, ReadSession(r)
      PROVE  PendingIsUnwritten'
  BY <1>2 DEF TypeOK, Request, PendingIsUnwritten, Unwritten, Newborn, Reviewed, ReadSession, SessionAllows
<1>3. ASSUME NEW r \in Requests, ReadArtifact(r)
      PROVE  PendingIsUnwritten'
  BY <1>3 DEF TypeOK, Request, PendingIsUnwritten, Unwritten, Newborn, Reviewed, ReadArtifact, GoTo
<1>4. ASSUME NEW r \in Requests, Refuse(r)
      PROVE  PendingIsUnwritten'
  BY <1>4 DEF TypeOK, Request, PendingIsUnwritten, Unwritten, Newborn, Reviewed, Refuse, Return, Idle, NewRequest
<1>5. ASSUME NEW r \in Requests, Claim(r)
      PROVE  PendingIsUnwritten'
  BY <1>5 DEF TypeOK, Request, PendingIsUnwritten, Unwritten, Newborn, Reviewed, Claim, GoTo, Return, Idle, NewRequest
<1>6. ASSUME NEW r \in Requests, Apply(r)
      PROVE  PendingIsUnwritten'
  BY <1>6 DEF TypeOK, Request, PendingIsUnwritten, Unwritten, Newborn, Reviewed, Apply, Return, Idle, NewRequest
<1>7. ASSUME NEW r \in Requests, Reject(r)
      PROVE  PendingIsUnwritten'
  BY <1>7 DEF TypeOK, Request, PendingIsUnwritten, Unwritten, Newborn, Reviewed, Reject, Return, Idle, NewRequest
<1>8. ASSUME NEW r \in Requests, InsertArtifact(r)
      PROVE  PendingIsUnwritten'
  BY <1>8 DEF TypeOK, Request, PendingIsUnwritten, Unwritten, Newborn, Reviewed, InsertArtifact, Return, Idle, NewRequest
<1>9. ASSUME NEW r \in Requests, UpdateSession(r)
      PROVE  PendingIsUnwritten'
  BY <1>9 DEF TypeOK, Request, PendingIsUnwritten, Unwritten, Newborn, Reviewed, UpdateSession, Return, Idle, NewRequest
<1>10. ASSUME NEW r \in Requests, BusyTimeout(r)
      PROVE  PendingIsUnwritten'
  BY <1>10 DEF TypeOK, Request, PendingIsUnwritten, Unwritten, Newborn, Reviewed, BusyTimeout, Return, Idle, NewRequest
<1>11. ASSUME NEW r \in Requests, NodeConflict(r)
      PROVE  PendingIsUnwritten'
  BY <1>11 DEF TypeOK, Request, PendingIsUnwritten, Unwritten, Newborn, Reviewed, NodeConflict, Return, Idle, NewRequest
<1>12. CASE Edit
  BY <1>12 DEF Edit, TypeOK, Request, PendingIsUnwritten, Unwritten, Newborn, Reviewed
<1>13. CASE UNCHANGED vars
  BY <1>13 DEF vars, PendingIsUnwritten
<1>14. ASSUME NEW r \in Requests, Arrival(r)
      PROVE  PendingIsUnwritten'
  <2>1. "idle" \in SessionStatus /\ \A e \in 1..MaxRev : e \in Nat
    BY RevAssumption DEF SessionStatus
  <2>2. QED
    BY <1>1, <1>14, <2>1 DEF Arrival
<1>15. QED
  BY <1>2, <1>3, <1>4, <1>5, <1>6, <1>7, <1>8, <1>9, <1>10, <1>11,
     <1>12, <1>13, <1>14 DEF Next, Step

\* No step writes an artifact a second time.
LEMMA AppliedOnceStep ==
  ASSUME TypeOK, ReviewInv, [Next]_vars
  PROVE  AppliedOnce'
<1> USE IdsAssumption DEF ReviewInv
<1>1. ASSUME NEW r \in Requests, NEW a \in Artifacts \cup {NoArtifact},
             NEW expected \in Nat, NEW target \in SessionStatus,
             NEW op \in {"create", "approve", "reject", "update"},
             op = "update" <=> a = NoArtifact, Arrive(r, op, a, expected, target)
      PROVE  AppliedOnce'
  BY <1>1 DEF TypeOK, Request, AppliedOnce, Unwritten, Arrive, NewRequest
<1>2. ASSUME NEW r \in Requests, ReadSession(r)
      PROVE  AppliedOnce'
  BY <1>2 DEF TypeOK, Request, AppliedOnce, Unwritten, ReadSession, SessionAllows
<1>3. ASSUME NEW r \in Requests, ReadArtifact(r)
      PROVE  AppliedOnce'
  BY <1>3 DEF TypeOK, Request, AppliedOnce, Unwritten, ReadArtifact, GoTo
<1>4. ASSUME NEW r \in Requests, Refuse(r)
      PROVE  AppliedOnce'
  BY <1>4 DEF TypeOK, Request, AppliedOnce, Unwritten, Refuse, Return, Idle, NewRequest
<1>5. ASSUME NEW r \in Requests, Claim(r)
      PROVE  AppliedOnce'
  BY <1>5 DEF TypeOK, Request, AppliedOnce, Unwritten, Claim, GoTo, Return, Idle, NewRequest
<1>6. ASSUME NEW r \in Requests, Apply(r)
      PROVE  AppliedOnce'
  BY <1>6 DEF TypeOK, Request, AppliedOnce, Unwritten, Apply, Return, Idle, NewRequest
<1>7. ASSUME NEW r \in Requests, Reject(r)
      PROVE  AppliedOnce'
  BY <1>7 DEF TypeOK, Request, AppliedOnce, Unwritten, Reject, Return, Idle, NewRequest
<1>8. ASSUME NEW r \in Requests, InsertArtifact(r)
      PROVE  AppliedOnce'
  BY <1>8 DEF TypeOK, Request, AppliedOnce, Unwritten, InsertArtifact, Return, Idle, NewRequest
<1>9. ASSUME NEW r \in Requests, UpdateSession(r)
      PROVE  AppliedOnce'
  BY <1>9 DEF TypeOK, Request, AppliedOnce, Unwritten, UpdateSession, Return, Idle, NewRequest
<1>10. ASSUME NEW r \in Requests, BusyTimeout(r)
      PROVE  AppliedOnce'
  BY <1>10 DEF TypeOK, Request, AppliedOnce, Unwritten, BusyTimeout, Return, Idle, NewRequest
<1>11. ASSUME NEW r \in Requests, NodeConflict(r)
      PROVE  AppliedOnce'
  BY <1>11 DEF TypeOK, Request, AppliedOnce, Unwritten, NodeConflict, Return, Idle, NewRequest
<1>12. CASE Edit
  BY <1>12 DEF Edit, TypeOK, Request, AppliedOnce, Unwritten
<1>13. CASE UNCHANGED vars
  BY <1>13 DEF vars, AppliedOnce
<1>14. ASSUME NEW r \in Requests, Arrival(r)
      PROVE  AppliedOnce'
  <2>1. "idle" \in SessionStatus /\ \A e \in 1..MaxRev : e \in Nat
    BY RevAssumption DEF SessionStatus
  <2>2. QED
    BY <1>1, <1>14, <2>1 DEF Arrival
<1>15. QED
  BY <1>2, <1>3, <1>4, <1>5, <1>6, <1>7, <1>8, <1>9, <1>10, <1>11,
     <1>12, <1>13, <1>14 DEF Next, Step

\* The inductive invariant.
THEOREM ReviewInvariant == Spec => []ReviewInv
<1>1. Init => ReviewInv
  BY IdsAssumption DEF Init, ReviewInv, Unwritten, Newborn, Reviewed,
       PendingIsUnwritten, AppliedOnce, Idle, NewRequest
<1>2. TypeOK /\ ReviewInv /\ [Next]_vars => ReviewInv'
  BY UnwrittenStep, NewbornStep, ReviewedStep, PendingIsUnwrittenStep,
     AppliedOnceStep DEF ReviewInv
<1>3. QED
  BY <1>1, <1>2, ReviewTypes, PTL DEF Spec

\* Racing approvals write an artifact to the canon at most once.
THEOREM ArtifactAppliedOnce == Spec => []AppliedOnce
<1>1. ReviewInv => AppliedOnce
  BY DEF ReviewInv
<1>2. QED
  BY <1>1, ReviewInvariant, PTL

\* A pending artifact has left no trace, an applied one has been written.
THEOREM StatusTellsWrites == Spec => []PendingIsUnwritten
<1>1. ReviewInv => PendingIsUnwritten
  BY DEF ReviewInv
<1>2. QED
  BY <1>1, ReviewInvariant, PTL

\* Both together, as the run checks them.
THEOREM CanonMatches == Spec => []CanonMatchesStatus
<1>1. ReviewInv => CanonMatchesStatus
  BY DEF ReviewInv, CanonMatchesStatus
<1>2. QED
  BY <1>1, ReviewInvariant, PTL
=============================================================================
