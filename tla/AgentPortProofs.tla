--------------------------- MODULE AgentPortProofs ---------------------------
(***************************************************************************)
(* Proofs about AgentPort, for every number of grants, keys, proposals,    *)
(* nodes and concurrent requests.                                          *)
(***************************************************************************)
EXTENDS AgentPort, TLAPS

\* A request of an agent: a body that names a node, of the kind of the operation.
Sent(r) ==
  \E g \in Grants, k \in Keys \cup Proposals, p \in Proposals \cup {None},
     op \in {"batch", "propose", "record"}, body \in Body :
    /\ body.node \in Nodes /\ body.kind # "none"
    /\ op = "batch" <=> body.kind = "batch"
    /\ op = "propose" => p \in Proposals
    /\ op # "propose" => p = None
    /\ ArriveAgent(r, op, g, k, p, body)

\* Agents send nothing else.
LEMMA AgentArrivalCases ==
  ASSUME NEW r \in Requests, AgentArrival(r)
  PROVE  Sent(r)
<1> DEFINE body(kind, expected, n, nodeExpected) ==
             [kind |-> kind, expected |-> expected, node |-> n, nodeExpected |-> nodeExpected]
<1>1. ASSUME NEW kind \in {"batch", "proposal", "record"}, NEW expected \in Nat,
             NEW n \in Nodes, NEW nodeExpected \in Nat
      PROVE  /\ body(kind, expected, n, nodeExpected) \in Body
             /\ body(kind, expected, n, nodeExpected).node \in Nodes
             /\ body(kind, expected, n, nodeExpected).kind = kind
  BY DEF Body
<1>2. PICK g \in Grants, k \in Keys \cup Proposals, n \in Nodes :
        \/ ArriveAgent(r, "record", g, k, None, body("record", 0, n, 0))
        \/ \E expected, nodeExpected \in 1..MaxRev :
             \/ ArriveAgent(r, "batch", g, k, None, body("batch", expected, n, nodeExpected))
             \/ \E p \in Proposals :
                  ArriveAgent(r, "propose", g, k, p, body("proposal", expected, n, nodeExpected))
  BY DEF AgentArrival
<1> HIDE DEF body
<1>3. CASE ArriveAgent(r, "record", g, k, None, body("record", 0, n, 0))
  BY <1>1, <1>3 DEF Sent
<1>4. ASSUME NEW expected \in 1..MaxRev, NEW nodeExpected \in 1..MaxRev,
             ArriveAgent(r, "batch", g, k, None, body("batch", expected, n, nodeExpected))
      PROVE  Sent(r)
  <2>1. expected \in Nat /\ nodeExpected \in Nat
    BY RevAssumption
  <2>2. QED
    BY <1>1, <1>4, <2>1, Zenon DEF Sent
<1>5. ASSUME NEW expected \in 1..MaxRev, NEW nodeExpected \in 1..MaxRev, NEW p \in Proposals,
             ArriveAgent(r, "propose", g, k, p, body("proposal", expected, n, nodeExpected))
      PROVE  Sent(r)
  BY <1>1, <1>5, RevAssumption DEF Sent
<1>6. QED
  BY <1>2, <1>3, <1>4, <1>5

\* A request moves to a state that says which locks it has, and no other request
\* gains or loses one.
LEMMA MoveStep ==
  ASSUME TypeOK, NEW r \in Requests, NEW new \in Request, Meaningful(new),
         req' = [req EXCEPT ![r] = new],
         stripe' \in [Slots -> Requests \cup {Nobody}],
         writer' \in Requests \cup {Nobody},
         \A s \in Slots : stripe'[s] = r <=> new.pc \in Locked /\ s = <<new.grant, new.key>>,
         writer' = r <=> HoldsWriter(new),
         \A q \in Requests \ {r} :
           /\ \A s \in Slots : stripe'[s] = q <=> stripe[s] = q
           /\ writer' = q <=> writer = q
  PROVE  /\ req' \in [Requests -> Request]
         /\ \A q \in Requests : Meaningful(req'[q])
         /\ LocksMatch'
<1>1. /\ req' \in [Requests -> Request]
      /\ req'[r] = new
      /\ \A q \in Requests \ {r} : req'[q] = req[q]
  BY DEF TypeOK, Typed
<1>2. \A q \in Requests : Meaningful(req'[q])
  BY <1>1 DEF TypeOK
<1>3. ASSUME NEW q \in Requests
      PROVE  /\ \A s \in Slots : stripe'[s] = q <=> req'[q].pc \in Locked /\ s = Slot(q)'
             /\ writer' = q <=> HoldsWriter(req'[q])
  <2>1. CASE q = r
    BY <1>1, <2>1 DEF Slot
  <2>2. CASE q # r
    BY <1>1, <2>2 DEF TypeOK, LocksMatch, Slot
  <2>3. QED
    BY <2>1, <2>2
<1>4. QED
  BY <1>1, <1>2, <1>3 DEF LocksMatch

\* A handler that returns or raises gives back its locks and nothing else.
LEMMA ReturnStep ==
  ASSUME TypeOK, NEW r \in Requests, Return(r)
  PROVE  /\ req' \in [Requests -> Request]
         /\ stripe' \in [Slots -> Requests \cup {Nobody}]
         /\ writer' \in Requests \cup {Nobody}
         /\ \A q \in Requests : Meaningful(req'[q])
         /\ LocksMatch'
<1> USE RequestsAssumption
<1>1. Idle \in Request /\ Meaningful(Idle) /\ Idle.pc \notin Locked /\ ~HoldsWriter(Idle)
  BY DEF Idle, Request, Body, NoBody, Meaningful, Locked, HoldsWriter
<1>2. /\ stripe' \in [Slots -> Requests \cup {Nobody}]
      /\ writer' \in Requests \cup {Nobody}
      /\ req' = [req EXCEPT ![r] = Idle]
  BY DEF Return, TypeOK, Typed
<1>3. /\ writer' # r
      /\ \A s \in Slots : stripe'[s] # r
      /\ \A q \in Requests \ {r} :
           /\ \A s \in Slots : stripe'[s] = q <=> stripe[s] = q
           /\ writer' = q <=> writer = q
  BY DEF Return, TypeOK, Typed
<1>4. QED
  BY <1>1, <1>2, <1>3, MoveStep

\* A request goes on without taking or freeing the lock of its key.
LEMMA GoToStep ==
  ASSUME TypeOK, NEW r \in Requests, NEW pc, GoTo(r, pc), UNCHANGED stripe,
         [req[r] EXCEPT !.pc = pc] \in Request,
         Meaningful([req[r] EXCEPT !.pc = pc]),
         pc \in Locked <=> req[r].pc \in Locked,
         \/ UNCHANGED writer /\ (HoldsWriter([req[r] EXCEPT !.pc = pc]) <=> HoldsWriter(req[r]))
         \/ writer \in {Nobody, r} /\ writer' = r /\ HoldsWriter([req[r] EXCEPT !.pc = pc])
  PROVE  /\ req' \in [Requests -> Request]
         /\ writer' \in Requests \cup {Nobody}
         /\ \A q \in Requests : Meaningful(req'[q])
         /\ LocksMatch'
<1> DEFINE new == [req[r] EXCEPT !.pc = pc]
<1> USE RequestsAssumption
<1>1. req[r] \in Request /\ stripe \in [Slots -> Requests \cup {Nobody}]
  BY DEF TypeOK, Typed
<1>2. new.pc = pc /\ new.grant = req[r].grant /\ new.key = req[r].key
  BY <1>1 DEF Request
<1>3. \A s \in Slots : stripe'[s] = r <=> new.pc \in Locked /\ s = <<new.grant, new.key>>
  BY <1>2 DEF TypeOK, LocksMatch, Slot
<1>4. /\ writer' \in Requests \cup {Nobody}
      /\ writer' = r <=> HoldsWriter(new)
      /\ \A q \in Requests \ {r} : writer' = q <=> writer = q
  BY DEF TypeOK, Typed, LocksMatch
<1>5. QED
  <2> HIDE DEF new
  <2>1. req' = [req EXCEPT ![r] = new] /\ new \in Request /\ Meaningful(new)
    BY DEF new, GoTo
  <2>2. QED
    BY <1>1, <1>3, <1>4, <2>1, MoveStep

\* A request that arrives holds nothing.
LEMMA ArrivalStep ==
  ASSUME TypeOK, NEW r \in Requests, NEW new \in Request, Meaningful(new),
         new.pc \notin Locked, ~HoldsWriter(new), req[r].pc = "idle",
         req' = [req EXCEPT ![r] = new], ReviewsStored',
         UNCHANGED <<grant, proposal, receipt, applied, rev, node, stripe, writer>>
  PROVE  TypeOK'
<1>1. /\ stripe' \in [Slots -> Requests \cup {Nobody}]
      /\ writer' \in Requests \cup {Nobody}
      /\ writer' # r /\ \A s \in Slots : stripe'[s] # r
  BY DEF TypeOK, Typed, LocksMatch, Locked, HoldsWriter
<1>2. /\ req' \in [Requests -> Request] /\ LocksMatch'
      /\ \A q \in Requests : Meaningful(req'[q])
  BY <1>1, MoveStep
<1>3. QED
  BY <1>1, <1>2 DEF TypeOK, Typed, ProposalsMeaningful

\* A verdict changes the status of one stored proposal.
LEMMA VerdictStep ==
  ASSUME TypeOK, NEW p \in Proposals, NEW v \in {"approved", "rejected"},
         proposal[p].status # "none", proposal' = Verdict(p, v)
  PROVE  proposal' \in [Proposals -> Proposal] /\ ProposalsMeaningful'
  BY DEF Verdict, TypeOK, Typed, Proposal, ProposalsMeaningful

\* The end of a request leaves the other reviews with a stored proposal.
LEMMA ReturnReviews ==
  ASSUME TypeOK, NEW r \in Requests, Return(r),
         \A p \in Proposals : proposal[p].status # "none" => proposal'[p].status # "none"
  PROVE  ReviewsStored'
<1>1. /\ req'[r].pc = "idle"
      /\ \A q \in Requests \ {r} : req'[q] = req[q]
  BY DEF Return, Idle, TypeOK, Typed
<1>2. ASSUME NEW q \in Requests, req'[q].pc # "idle", req'[q].op \in {"approve", "reject"}
      PROVE  proposal'[req'[q].proposal].status # "none"
  <2>1. q # r /\ req'[q] = req[q]
    BY <1>1, <1>2
  <2>2. req[q].proposal \in Proposals /\ proposal[req[q].proposal].status # "none"
    BY <1>2, <2>1 DEF TypeOK, Meaningful, ReviewsStored
  <2>3. QED
    BY <2>1, <2>2
<1>3. QED
  BY <1>2 DEF ReviewsStored

\* So does a request that moves on without changing what it is about.
LEMMA MoveReviews ==
  ASSUME TypeOK, NEW r \in Requests, NEW new, req' = [req EXCEPT ![r] = new],
         new.op = req[r].op, new.proposal = req[r].proposal,
         req[r].pc # "idle", UNCHANGED proposal
  PROVE  ReviewsStored'
<1>1. req'[r] = new /\ \A q \in Requests \ {r} : req'[q] = req[q]
  BY DEF TypeOK, Typed
<1>2. QED
  BY <1>1 DEF TypeOK, ReviewsStored

\* The case in which only the control point changes.
LEMMA GoToReviews ==
  ASSUME TypeOK, NEW r \in Requests, NEW pc, GoTo(r, pc),
         req[r].pc # "idle", UNCHANGED proposal
  PROVE  ReviewsStored'
<1> DEFINE new == [req[r] EXCEPT !.pc = pc]
<1>1. req[r] \in Request
  BY DEF TypeOK, Typed
<1>2. new.op = req[r].op /\ new.proposal = req[r].proposal
  BY <1>1 DEF Request
<1>3. req' = [req EXCEPT ![r] = new]
  BY DEF GoTo
<1>4. QED
  <2> HIDE DEF new
  <2>1. QED
    BY <1>2, <1>3, MoveReviews

\* No step leaves a review without its proposal: proposals are never deleted.
LEMMA ReviewsStoredStep ==
  ASSUME TypeOK, [Next]_vars
  PROVE  ReviewsStored'
<1>1. ASSUME NEW r \in Requests, NEW op, NEW g, NEW k, NEW p, NEW body,
             op \in {"batch", "propose", "record"}, ArriveAgent(r, op, g, k, p, body)
      PROVE  ReviewsStored'
  BY <1>1 DEF TypeOK, Typed, ReviewsStored, ArriveAgent
<1>2. ASSUME NEW r \in Requests, NEW op, NEW p \in Proposals, NEW dirty,
             ArriveReview(r, op, p, dirty)
      PROVE  ReviewsStored'
  BY <1>2 DEF TypeOK, Typed, ReviewsStored, ArriveReview
<1>3. ASSUME NEW r \in Requests, Auth(r)
      PROVE  ReviewsStored'
  <2>1. CASE Return(r)
    BY <1>3, <2>1, ReturnReviews DEF Auth
  <2>2. CASE ~Return(r)
    <3>1. PICK pc : GoTo(r, pc)
      BY <1>3, <2>2 DEF Auth
    <3>2. UNCHANGED proposal /\ req[r].pc # "idle"
      BY <1>3 DEF Auth
    <3>3. QED
      BY <3>1, <3>2, GoToReviews
  <2>3. QED
    BY <2>1, <2>2
<1>21. ASSUME NEW r \in Requests, CheckScope(r)
      PROVE  ReviewsStored'
  <2>1. CASE Return(r)
    BY <1>21, <2>1, ReturnReviews DEF CheckScope
  <2>2. CASE ~Return(r)
    BY <1>21, <2>2, GoToReviews DEF CheckScope
  <2>3. QED
    BY <2>1, <2>2
<1>4. ASSUME NEW r \in Requests, ReadProposal(r)
      PROVE  ReviewsStored'
  <2>1. CASE Return(r)
    BY <1>4, <2>1, ReturnReviews DEF ReadProposal
  <2>2. CASE ~Return(r) /\ req[r].op = "reject"
    BY <1>4, <2>2, GoToReviews DEF ReadProposal
  <2>3. CASE ~Return(r) /\ req[r].op # "reject"
    <3> DEFINE p == req[r].proposal
    <3> DEFINE new == [req[r] EXCEPT !.pc = "grant", !.key = p,
                         !.grant = proposal[p].grant,
                         !.body = AsBatch(proposal[p].body)]
    <3>1. req' = [req EXCEPT ![r] = new] /\ UNCHANGED proposal /\ req[r].pc # "idle"
      BY <1>4, <2>3 DEF ReadProposal
    <3>2. new.op = req[r].op /\ new.proposal = req[r].proposal
      BY DEF TypeOK, Typed, Request
    <3>3. QED
      <4> HIDE DEF new
      <4>1. QED
        BY <3>1, <3>2, MoveReviews
  <2>4. QED
    BY <2>1, <2>2, <2>3
<1>5. ASSUME NEW r \in Requests, ReadGrant(r)
      PROVE  ReviewsStored'
  <2>1. CASE Return(r)
    BY <1>5, <2>1, ReturnReviews DEF ReadGrant
  <2>2. CASE ~Return(r)
    <3>1. PICK pc : GoTo(r, pc)
      BY <1>5, <2>2 DEF ReadGrant
    <3>2. UNCHANGED proposal /\ req[r].pc # "idle"
      BY <1>5 DEF ReadGrant
    <3>3. QED
      BY <3>1, <3>2, GoToReviews
  <2>3. QED
    BY <2>1, <2>2
<1>6. ASSUME NEW r \in Requests, AcquireStripe(r)
      PROVE  ReviewsStored'
  BY <1>6, GoToReviews DEF AcquireStripe
<1>7. ASSUME NEW r \in Requests, Lookup(r)
      PROVE  ReviewsStored'
  <2>1. CASE Return(r)
    BY <1>7, <2>1, ReturnReviews DEF Lookup
  <2>2. CASE ~Return(r)
    <3>1. PICK pc : GoTo(r, pc)
      BY <1>7, <2>2 DEF Lookup
    <3>2. UNCHANGED proposal /\ req[r].pc # "idle"
      BY <1>7 DEF Lookup
    <3>3. QED
      BY <3>1, <3>2, GoToReviews
  <2>3. QED
    BY <2>1, <2>2
<1>8. ASSUME NEW r \in Requests, Validate(r)
      PROVE  ReviewsStored'
  <2>1. CASE Return(r)
    BY <1>8, <2>1, ReturnReviews DEF Validate
  <2>2. CASE ~Return(r)
    <3>1. PICK pc : GoTo(r, pc)
      BY <1>8, <2>2 DEF Validate
    <3>2. UNCHANGED proposal /\ req[r].pc # "idle"
      BY <1>8 DEF Validate
    <3>3. QED
      BY <3>1, <3>2, GoToReviews
  <2>3. QED
    BY <2>1, <2>2
<1>9. ASSUME NEW r \in Requests, Claim(r)
      PROVE  ReviewsStored'
  <2>1. CASE Return(r)
    BY <1>9, <2>1, ReturnReviews DEF Claim
  <2>2. CASE ~Return(r)
    <3>1. PICK pc : GoTo(r, pc)
      BY <1>9, <2>2 DEF Claim
    <3>2. UNCHANGED proposal /\ req[r].pc # "idle"
      BY <1>9 DEF Claim
    <3>3. QED
      BY <3>1, <3>2, GoToReviews
  <2>3. QED
    BY <2>1, <2>2
<1>10. ASSUME NEW r \in Requests, Apply(r)
      PROVE  ReviewsStored'
  <2>1. \A p \in Proposals : proposal[p].status # "none" => proposal'[p].status # "none"
    BY <1>10 DEF Apply, Verdict, TypeOK, Typed, Proposal
  <2>2. QED
    BY <1>10, <2>1, ReturnReviews DEF Apply
<1>11. ASSUME NEW r \in Requests, ApplyFails(r)
      PROVE  ReviewsStored'
  BY <1>11, ReturnReviews DEF ApplyFails
<1>12. ASSUME NEW r \in Requests, Store(r)
      PROVE  ReviewsStored'
  <2>1. \A p \in Proposals : proposal[p].status # "none" => proposal'[p].status # "none"
    BY <1>12 DEF Store, TypeOK, Typed, Proposal
  <2>2. QED
    BY <1>12, <2>1, ReturnReviews DEF Store
<1>13. ASSUME NEW r \in Requests, Reject(r)
      PROVE  ReviewsStored'
  <2>1. \A p \in Proposals : proposal[p].status # "none" => proposal'[p].status # "none"
    BY <1>13 DEF Reject, Verdict, TypeOK, Typed, Proposal
  <2>2. QED
    BY <1>13, <2>1, ReturnReviews DEF Reject
<1>14. ASSUME NEW r \in Requests, BusyTimeout(r)
      PROVE  ReviewsStored'
  BY <1>14, ReturnReviews DEF BusyTimeout
<1>15. ASSUME NEW g \in Grants, CreateGrant(g) \/ Deactivate(g)
      PROVE  ReviewsStored'
  BY <1>15 DEF ReviewsStored, TypeOK, CreateGrant, Deactivate
<1>16. ASSUME NEW n \in Nodes, Edit(n)
      PROVE  ReviewsStored'
  BY <1>16 DEF ReviewsStored, TypeOK, Edit
<1>17. CASE UNCHANGED vars
  BY <1>17 DEF ReviewsStored, TypeOK, vars
<1>18. ASSUME NEW r \in Requests, AgentArrival(r)
      PROVE  ReviewsStored'
  <2>1. PICK g \in Grants, k \in Keys \cup Proposals, p \in Proposals \cup {None},
             op \in {"batch", "propose", "record"}, body \in Body :
          ArriveAgent(r, op, g, k, p, body)
    BY <1>18, AgentArrivalCases DEF Sent
  <2>2. QED
    BY <1>1, <2>1
<1>19. ASSUME NEW r \in Requests, ReviewArrival(r)
      PROVE  ReviewsStored'
  BY <1>2, <1>19 DEF ReviewArrival
<1>20. QED
  BY <1>3, <1>4, <1>5, <1>6, <1>7, <1>8, <1>9, <1>10, <1>11, <1>12, <1>13, <1>14, <1>15,
     <1>16, <1>17, <1>18, <1>19, <1>21 DEF Next, Step

\* Every step of a handler, an arrival or an administrator keeps the type invariant.
LEMMA AgentTypeStep ==
  ASSUME TypeOK, [Next]_vars
  PROVE  TypeOK'
<1> USE GrantsAssumption, KeysAssumption, RequestsAssumption, ReviewsStoredStep
<1>0. ASSUME NEW r \in Requests PROVE req[r] \in Request /\ Meaningful(req[r])
  BY DEF TypeOK, Typed
<1>1. ASSUME NEW r \in Requests, Auth(r)
      PROVE  TypeOK'
  <2>1. CASE Return(r)
    BY <1>1, <2>1, ReturnStep DEF TypeOK, Typed, ProposalsMeaningful, Auth
  <2>2. CASE ~Return(r)
    <3>1. PICK pc \in {"lock", "scope"} :
            /\ GoTo(r, pc)
            /\ pc = IF req[r].op = "batch" THEN "lock" ELSE "scope"
      BY <1>1, <2>2 DEF Auth
    <3> DEFINE new == [req[r] EXCEPT !.pc = pc]
    <3>2. new \in Request /\ Meaningful(new)
      BY <1>0, <1>1, <3>1 DEF Request, Meaningful, Locked, Auth
    <3>3. UNCHANGED writer /\ (HoldsWriter(new) <=> HoldsWriter(req[r]))
      BY <1>0, <1>1, <2>2, <3>1 DEF Request, HoldsWriter, Meaningful, Locked, Auth
    <3>4. pc \in Locked <=> req[r].pc \in Locked
      BY <1>1, <3>1 DEF Locked, Auth
    <3>5. UNCHANGED <<grant, proposal, receipt, applied, rev, node, stripe>>
      BY <1>1, <2>2 DEF Auth
    <3>6. QED
      BY <3>1, <3>2, <3>3, <3>4, <3>5, GoToStep DEF TypeOK, Typed, ProposalsMeaningful
  <2>3. QED
    BY <2>1, <2>2
<1>20. ASSUME NEW r \in Requests, CheckScope(r)
      PROVE  TypeOK'
  <2>1. CASE Return(r)
    BY <1>20, <2>1, ReturnStep DEF TypeOK, Typed, ProposalsMeaningful, CheckScope
  <2>2. CASE ~Return(r)
    <3> DEFINE new == [req[r] EXCEPT !.pc = "lock"]
    <3>1. GoTo(r, "lock") /\ UNCHANGED <<grant, proposal, receipt, applied, rev, node, stripe>>
      BY <1>20, <2>2 DEF CheckScope
    <3>2. new \in Request /\ Meaningful(new)
      BY <1>0, <1>20 DEF Request, Meaningful, Locked, CheckScope
    <3>3. UNCHANGED writer /\ (HoldsWriter(new) <=> HoldsWriter(req[r]))
      BY <1>0, <1>20, <2>2 DEF Request, HoldsWriter, Meaningful, Locked, CheckScope
    <3>4. "lock" \in Locked <=> req[r].pc \in Locked
      BY <1>20 DEF Locked, CheckScope
    <3>5. QED
      BY <3>1, <3>2, <3>3, <3>4, GoToStep DEF TypeOK, Typed, ProposalsMeaningful
  <2>3. QED
    BY <2>1, <2>2
<1>2. ASSUME NEW r \in Requests, ReadProposal(r)
      PROVE  TypeOK'
  <2>1. CASE Return(r)
    BY <1>2, <2>1, ReturnStep DEF TypeOK, Typed, ProposalsMeaningful, ReadProposal
  <2>2. CASE ~Return(r)
    <3>1. CASE req[r].op = "reject"
      <4> DEFINE new == [req[r] EXCEPT !.pc = "reject"]
      <4>1. GoTo(r, "reject") /\ UNCHANGED <<grant, proposal, receipt, applied, rev, node, stripe, writer>>
        BY <1>2, <2>2, <3>1 DEF ReadProposal
      <4>2. /\ new \in Request /\ Meaningful(new)
            /\ HoldsWriter(new) <=> HoldsWriter(req[r])
        BY <1>0, <1>2, <3>1 DEF Request, Meaningful, Locked, HoldsWriter, ReadProposal
      <4>3. "reject" \in Locked <=> req[r].pc \in Locked
        BY <1>2 DEF Locked, ReadProposal
      <4>4. QED
        BY <4>1, <4>2, <4>3, GoToStep DEF TypeOK, Typed, ProposalsMeaningful
    <3>2. CASE req[r].op # "reject"
      <4> DEFINE p == req[r].proposal
      <4> DEFINE new == [req[r] EXCEPT !.pc = "grant", !.key = p,
                           !.grant = proposal[p].grant,
                           !.body = AsBatch(proposal[p].body)]
      <4>1. /\ req' = [req EXCEPT ![r] = new] /\ proposal[p].status = "pending"
            /\ UNCHANGED <<grant, proposal, receipt, applied, rev, node, stripe, writer>>
        BY <1>2, <2>2, <3>2 DEF ReadProposal
      <4>2. p \in Proposals /\ req[r].op = "approve"
        BY <1>0, <1>2, <3>2 DEF Meaningful, Request, ReadProposal
      <4>3. /\ proposal[p].grant \in Grants /\ proposal[p].body \in Body
            /\ proposal[p].body.node \in Nodes
        BY <4>1, <4>2 DEF TypeOK, Typed, ProposalsMeaningful, Proposal
      <4>4. /\ AsBatch(proposal[p].body) \in Body
            /\ AsBatch(proposal[p].body).node \in Nodes
        BY <4>3 DEF Body, AsBatch
      <4>5. /\ new \in Request /\ Meaningful(new)
            /\ ~HoldsWriter(new) /\ ~HoldsWriter(req[r])
            /\ new.pc \notin Locked /\ req[r].pc \notin Locked
        BY <1>0, <1>2, <4>2, <4>3, <4>4 DEF Request, Meaningful, Locked, HoldsWriter, ReadProposal
      <4>6. /\ writer' # r /\ \A s \in Slots : stripe'[s] # r
            /\ stripe' \in [Slots -> Requests \cup {Nobody}]
            /\ writer' \in Requests \cup {Nobody}
        BY <4>1, <4>5 DEF TypeOK, Typed, LocksMatch
      <4>7. /\ req' \in [Requests -> Request] /\ LocksMatch'
            /\ \A q \in Requests : Meaningful(req'[q])
        <5> HIDE DEF new
        <5>1. QED
          BY <4>1, <4>5, <4>6, MoveStep
      <4>8. QED
        BY <4>1, <4>6, <4>7 DEF TypeOK, Typed, ProposalsMeaningful
    <3>3. QED
      BY <3>1, <3>2
  <2>3. QED
    BY <2>1, <2>2
<1>3. ASSUME NEW r \in Requests, ReadGrant(r)
      PROVE  TypeOK'
  <2>1. CASE Return(r)
    BY <1>3, <2>1, ReturnStep DEF TypeOK, Typed, ProposalsMeaningful, ReadGrant
  <2>2. CASE ~Return(r)
    <3> DEFINE new == [req[r] EXCEPT !.pc = "lock"]
    <3>1. GoTo(r, "lock") /\ UNCHANGED <<grant, proposal, receipt, applied, rev, node, stripe>>
      BY <1>3, <2>2 DEF ReadGrant
    <3>2. new \in Request /\ Meaningful(new)
      BY <1>0, <1>3, <2>2 DEF Request, Meaningful, Locked, ReadGrant
    <3>3. \/ UNCHANGED writer /\ (HoldsWriter(new) <=> HoldsWriter(req[r]))
          \/ writer \in {Nobody, r} /\ writer' = r /\ HoldsWriter(new)
      BY <1>0, <1>3, <2>2 DEF Request, HoldsWriter, Meaningful, Locked, ReadGrant
    <3>4. "lock" \in Locked <=> req[r].pc \in Locked
      BY <1>3 DEF Locked, ReadGrant
    <3>5. QED
      BY <3>1, <3>2, <3>3, <3>4, GoToStep DEF TypeOK, Typed, ProposalsMeaningful
  <2>3. QED
    BY <2>1, <2>2
<1>4. ASSUME NEW r \in Requests, AcquireStripe(r)
      PROVE  TypeOK'
  <2> DEFINE new == [req[r] EXCEPT !.pc = "lookup"]
  <2>1. /\ req' = [req EXCEPT ![r] = new] /\ stripe' = [stripe EXCEPT ![Slot(r)] = r]
        /\ stripe[Slot(r)] = Nobody
        /\ UNCHANGED <<grant, proposal, receipt, applied, rev, node, writer>>
    BY <1>4 DEF AcquireStripe, GoTo
  <2>2. /\ new \in Request /\ Meaningful(new) /\ new.pc \in Locked
        /\ <<new.grant, new.key>> = Slot(r) /\ Slot(r) \in Slots
        /\ req[r].pc \notin Locked /\ ~HoldsWriter(new) /\ ~HoldsWriter(req[r])
    BY <1>0, <1>4 DEF Request, Meaningful, Locked, HoldsWriter, AcquireStripe, Slot, Slots
  <2>3. /\ writer' # r /\ writer' \in Requests \cup {Nobody}
        /\ stripe' \in [Slots -> Requests \cup {Nobody}]
        /\ \A s \in Slots : stripe[s] # r
        /\ stripe \in [Slots -> Requests \cup {Nobody}]
    BY <2>1, <2>2 DEF TypeOK, Typed, LocksMatch
  <2>4. /\ \A s \in Slots : stripe'[s] = r <=> s = Slot(r)
        /\ \A q \in Requests \ {r} : \A s \in Slots : stripe'[s] = q <=> stripe[s] = q
    BY <2>1, <2>2, <2>3
  <2>5. /\ req' \in [Requests -> Request] /\ LocksMatch'
        /\ \A q \in Requests : Meaningful(req'[q])
    <3> HIDE DEF new
    <3>1. QED
      BY <2>1, <2>2, <2>3, <2>4, MoveStep
  <2>6. QED
    BY <2>1, <2>3, <2>5 DEF TypeOK, Typed, ProposalsMeaningful
<1>5. ASSUME NEW r \in Requests, Lookup(r)
      PROVE  TypeOK'
  <2>1. CASE Return(r)
    BY <1>5, <2>1, ReturnStep DEF TypeOK, Typed, ProposalsMeaningful, Lookup
  <2>2. CASE ~Return(r)
    <3>1. PICK pc \in {"store", "validate"} :
            /\ GoTo(r, pc)
            /\ pc = IF req[r].op \in {"propose", "record"} THEN "store" ELSE "validate"
      BY <1>5, <2>2 DEF Lookup
    <3> DEFINE new == [req[r] EXCEPT !.pc = pc]
    <3>2. new \in Request /\ Meaningful(new)
      BY <1>0, <1>5, <3>1 DEF Request, Meaningful, Locked, Lookup
    <3>3. \/ UNCHANGED writer /\ (HoldsWriter(new) <=> HoldsWriter(req[r]))
          \/ writer \in {Nobody, r} /\ writer' = r /\ HoldsWriter(new)
      BY <1>0, <1>5, <2>2, <3>1 DEF Request, HoldsWriter, Meaningful, Locked, Lookup
    <3>4. pc \in Locked <=> req[r].pc \in Locked
      BY <1>5 DEF Locked, Lookup
    <3>5. UNCHANGED <<grant, proposal, receipt, applied, rev, node, stripe>>
      BY <1>5, <2>2 DEF Lookup
    <3>6. QED
      BY <3>1, <3>2, <3>3, <3>4, <3>5, GoToStep DEF TypeOK, Typed, ProposalsMeaningful
  <2>3. QED
    BY <2>1, <2>2
<1>6. ASSUME NEW r \in Requests, Validate(r)
      PROVE  TypeOK'
  <2>1. CASE Return(r)
    BY <1>6, <2>1, ReturnStep DEF TypeOK, Typed, ProposalsMeaningful, Validate
  <2>2. CASE ~Return(r)
    <3> DEFINE new == [req[r] EXCEPT !.pc = "claim"]
    <3>1. GoTo(r, "claim") /\ UNCHANGED <<grant, proposal, receipt, applied, rev, node, stripe>>
      BY <1>6, <2>2 DEF Validate
    <3>2. new \in Request /\ Meaningful(new)
      BY <1>0, <1>6, <2>2 DEF Request, Meaningful, Locked, Validate
    <3>3. \/ UNCHANGED writer /\ (HoldsWriter(new) <=> HoldsWriter(req[r]))
          \/ writer \in {Nobody, r} /\ writer' = r /\ HoldsWriter(new)
      BY <1>0, <1>6, <2>2 DEF Request, HoldsWriter, Meaningful, Locked, Validate
    <3>4. "claim" \in Locked <=> req[r].pc \in Locked
      BY <1>6 DEF Locked, Validate
    <3>5. QED
      BY <3>1, <3>2, <3>3, <3>4, GoToStep DEF TypeOK, Typed, ProposalsMeaningful
  <2>3. QED
    BY <2>1, <2>2
<1>7. ASSUME NEW r \in Requests, Claim(r)
      PROVE  TypeOK'
  <2>1. CASE Return(r)
    BY <1>7, <2>1, ReturnStep DEF TypeOK, Typed, ProposalsMeaningful, Claim
  <2>2. CASE ~Return(r)
    <3> DEFINE new == [req[r] EXCEPT !.pc = "apply"]
    <3>1. GoTo(r, "apply") /\ UNCHANGED <<grant, proposal, receipt, applied, rev, node, stripe>>
      BY <1>7, <2>2 DEF Claim
    <3>2. new \in Request /\ Meaningful(new)
      BY <1>0, <1>7, <2>2 DEF Request, Meaningful, Locked, Claim
    <3>3. \/ UNCHANGED writer /\ (HoldsWriter(new) <=> HoldsWriter(req[r]))
          \/ writer \in {Nobody, r} /\ writer' = r /\ HoldsWriter(new)
      BY <1>0, <1>7, <2>2 DEF Request, HoldsWriter, Meaningful, Locked, Claim
    <3>4. "apply" \in Locked <=> req[r].pc \in Locked
      BY <1>7 DEF Locked, Claim
    <3>5. QED
      BY <3>1, <3>2, <3>3, <3>4, GoToStep DEF TypeOK, Typed, ProposalsMeaningful
  <2>3. QED
    BY <2>1, <2>2
<1>8. ASSUME NEW r \in Requests, Apply(r)
      PROVE  TypeOK'
  <2>1. /\ Slot(r) \in Slots /\ req[r].body \in Body /\ req[r].body.node \in Nodes
        /\ req[r].op = "approve" => /\ req[r].proposal \in Proposals
                                    /\ proposal[req[r].proposal].status # "none"
    BY <1>0, <1>8 DEF Apply, Request, Meaningful, Locked, Slot, Slots, TypeOK, ReviewsStored
  <2>2. /\ receipt' \in [Slots -> Body] /\ applied' \in [Slots -> Nat] /\ rev' \in Nat
        /\ node' \in [Nodes -> Nat] /\ grant' = grant
    BY <1>8, <2>1 DEF Apply, TypeOK, Typed, Body
  <2>3. proposal' \in [Proposals -> Proposal] /\ ProposalsMeaningful'
    <3>1. CASE req[r].op = "approve"
      BY <1>0, <1>8, <2>1, <3>1, VerdictStep DEF Apply
    <3>2. CASE req[r].op # "approve"
      BY <1>8, <3>2 DEF Apply, TypeOK, Typed, ProposalsMeaningful
    <3>3. QED
      BY <3>1, <3>2
  <2>4. QED
    BY <1>8, <2>2, <2>3, ReturnStep DEF Apply, TypeOK, Typed
<1>9. ASSUME NEW r \in Requests, ApplyFails(r)
      PROVE  TypeOK'
  BY <1>9, ReturnStep DEF ApplyFails, TypeOK, Typed, ProposalsMeaningful
<1>10. ASSUME NEW r \in Requests, Store(r)
      PROVE  TypeOK'
  <2>1. /\ Slot(r) \in Slots /\ req[r].body \in Body /\ req[r].body.node \in Nodes
        /\ req[r].grant \in Grants
        /\ req[r].op = "propose" => req[r].proposal \in Proposals
    BY <1>0, <1>10 DEF Store, Request, Meaningful, Locked, Slot, Slots
  <2>2. receipt' \in [Slots -> Body] /\ UNCHANGED <<grant, applied, rev, node>>
    BY <1>10, <2>1 DEF Store, TypeOK, Typed
  <2>3. proposal' \in [Proposals -> Proposal] /\ ProposalsMeaningful'
    BY <1>10, <2>1 DEF Store, TypeOK, Typed, ProposalsMeaningful, Proposal
  <2>4. QED
    BY <1>10, <2>2, <2>3, ReturnStep DEF Store, TypeOK, Typed
<1>11. ASSUME NEW r \in Requests, Reject(r)
      PROVE  TypeOK'
  <2>1. req[r].proposal \in Proposals /\ proposal[req[r].proposal].status # "none"
    BY <1>0, <1>11 DEF Reject, Meaningful, TypeOK, ReviewsStored
  <2>2. proposal' \in [Proposals -> Proposal] /\ ProposalsMeaningful'
    BY <1>11, <2>1, VerdictStep DEF Reject
  <2>3. QED
    BY <1>11, <2>2, ReturnStep DEF Reject, TypeOK, Typed
<1>12. ASSUME NEW r \in Requests, BusyTimeout(r)
      PROVE  TypeOK'
  BY <1>12, ReturnStep DEF BusyTimeout, TypeOK, Typed, ProposalsMeaningful
<1>13. ASSUME NEW r \in Requests, NEW op \in {"batch", "propose", "record"},
             NEW g \in Grants, NEW k \in Keys \cup Proposals, NEW p \in Proposals \cup {None},
             NEW body \in Body, body.node \in Nodes, op = "propose" => p \in Proposals,
             ArriveAgent(r, op, g, k, p, body)
      PROVE  TypeOK'
  <2> DEFINE new == [pc |-> "auth", op |-> op, grant |-> g, key |-> k,
                     proposal |-> p, body |-> body, dirty |-> FALSE]
  <2>1. /\ req' = [req EXCEPT ![r] = new] /\ req[r].pc = "idle"
        /\ UNCHANGED <<grant, proposal, receipt, applied, rev, node, stripe, writer>>
    BY <1>13 DEF ArriveAgent
  <2>2. new \in Request /\ Meaningful(new) /\ new.pc \notin Locked /\ ~HoldsWriter(new)
    BY <1>13 DEF Request, Meaningful, Locked, HoldsWriter
  <2>3. QED
    <3> HIDE DEF new
    <3>1. QED
      BY <2>1, <2>2, ArrivalStep
<1>14. ASSUME NEW r \in Requests, NEW op \in {"approve", "reject"}, NEW p \in Proposals,
             NEW dirty \in BOOLEAN, ArriveReview(r, op, p, op = "approve" /\ dirty)
      PROVE  TypeOK'
  <2> DEFINE new == [pc |-> "review", op |-> op, grant |-> None, key |-> None,
                     proposal |-> p, body |-> NoBody, dirty |-> op = "approve" /\ dirty]
  <2>1. /\ req' = [req EXCEPT ![r] = new] /\ req[r].pc = "idle"
        /\ UNCHANGED <<grant, proposal, receipt, applied, rev, node, stripe, writer>>
    BY <1>14 DEF ArriveReview
  <2>2. (op = "approve" /\ dirty) \in BOOLEAN /\ NoBody \in Body
    BY DEF NoBody, Body
  <2>3. new \in Request /\ Meaningful(new) /\ new.pc \notin Locked /\ ~HoldsWriter(new)
    BY <2>2 DEF Request, Meaningful, Locked, HoldsWriter
  <2>4. QED
    <3> HIDE DEF new
    <3>1. QED
      BY <2>1, <2>3, ArrivalStep
<1>15. ASSUME NEW r \in Requests, AgentArrival(r)
      PROVE  TypeOK'
  <2>1. PICK g \in Grants, k \in Keys \cup Proposals, p \in Proposals \cup {None},
             op \in {"batch", "propose", "record"}, body \in Body :
          /\ body.node \in Nodes
          /\ op = "propose" => p \in Proposals
          /\ ArriveAgent(r, op, g, k, p, body)
    BY <1>15, AgentArrivalCases DEF Sent
  <2>2. QED
    BY <1>13, <2>1
<1>16. ASSUME NEW g \in Grants, CreateGrant(g) \/ Deactivate(g)
      PROVE  TypeOK'
  BY <1>16 DEF TypeOK, Typed, ProposalsMeaningful, LocksMatch, Slot, CreateGrant, Deactivate
<1>17. ASSUME NEW n \in Nodes, Edit(n)
      PROVE  TypeOK'
  BY <1>17 DEF TypeOK, Typed, ProposalsMeaningful, LocksMatch, Slot, Edit
<1>18. CASE UNCHANGED vars
  BY <1>18 DEF TypeOK, Typed, ProposalsMeaningful, LocksMatch, Slot, vars
<1>19. QED
  BY <1>1, <1>2, <1>3, <1>4, <1>5, <1>6, <1>7, <1>8, <1>9, <1>10, <1>11, <1>12, <1>14,
     <1>15, <1>16, <1>17, <1>18, <1>20 DEF Next, ReviewArrival, Step

\* Every variable keeps its type and no path keeps a lock or frees one too early.
THEOREM AgentTypes == Spec => []TypeOK
<1>1. Init => TypeOK
  <2> SUFFICES ASSUME Init PROVE TypeOK
    OBVIOUS
  <2>1. Idle \in Request /\ Meaningful(Idle) /\ Idle.pc \notin Locked /\ ~HoldsWriter(Idle)
    BY DEF Idle, Request, Body, NoBody, Meaningful, Locked, HoldsWriter
  <2>2. NoProposal \in Proposal /\ NoBody \in Body /\ NoProposal.status = "none"
    BY DEF NoProposal, Proposal, NoBody, Body
  <2>3. Typed
    BY <2>1, <2>2 DEF Init, Typed
  <2>4. ProposalsMeaningful /\ \A r \in Requests : Meaningful(req[r])
    BY <2>1, <2>2 DEF Init, ProposalsMeaningful
  <2>5. ReviewsStored
    BY DEF Init, ReviewsStored, Idle
  <2>6. LocksMatch
    BY <2>1, RequestsAssumption DEF Init, LocksMatch
  <2>7. QED
    BY <2>3, <2>4, <2>5, <2>6 DEF TypeOK
<1>2. QED
  BY <1>1, AgentTypeStep, PTL DEF Spec

-----------------------------------------------------------------------------
(* The inductive invariant. *)

\* A request that ends leaves the invariant to the others.
LEMMA ReturnInv ==
  ASSUME TypeOK, AgentInv, NEW r \in Requests, Return(r),
         UNCHANGED <<proposal, receipt, applied, rev, node>>
  PROVE  AgentInv'
<1> USE KeysAssumption
<1>1. /\ req'[r] = Idle /\ Idle.pc = "idle" /\ Idle.proposal = None
      /\ \A q \in Requests \ {r} : req'[q] = req[q]
  BY DEF Return, Idle, TypeOK, Typed
<1>2. KeyIsFree'
  BY <1>1 DEF AgentInv, KeyIsFree, Slot
<1>3. ValidatedIsCurrent'
  BY <1>1 DEF AgentInv, ValidatedIsCurrent
<1>4. OwnProposal'
  <2> SUFFICES ASSUME NEW q \in Requests
               PROVE  OwnProposal!(q)'
    BY DEF OwnProposal
  <2>1. CASE q = r
    BY <1>1, <2>1 DEF Locked
  <2>2. CASE q # r
    <3>1. req'[q].pc # "idle" /\ req'[q].op = "propose" => req'[q].proposal \in Proposals
      BY <1>1, <2>2 DEF TypeOK, Meaningful
    <3>2. QED
      BY <1>1, <2>2, <3>1 DEF AgentInv, OwnProposal
  <2>3. QED
    BY <2>1, <2>2
<1>5. QED
  BY <1>2, <1>3, <1>4 DEF AgentInv, PastRevisions, ReceiptTellsWrites,
     OneWriterPerRevision, VerdictTellsWrites,
     ApprovedWasWritten, UnpermittedWasReviewed

\* A request that moves on knows at its new control point what it must know there.
LEMMA GoToInv ==
  ASSUME TypeOK, AgentInv, NEW r \in Requests, NEW pc, GoTo(r, pc),
         UNCHANGED <<proposal, receipt, applied, rev, node>>,
         req[r].pc # "idle",
         pc \in {"validate", "claim", "apply", "store"} => receipt[Slot(r)] = NoBody,
         pc \in {"claim", "apply"} => node[req[r].body.node] = req[r].body.nodeExpected,
         pc = "apply" => rev = req[r].body.expected,
         pc \in {"scope", "lock"} \cup Locked =>
           req[r].pc \in {"auth", "scope", "grant", "lock"} \cup Locked,
         req[r].pc = "auth" /\ req[r].op = "batch" => req[r].grant \in Writers,
         pc \notin {"auth", "grant"}
  PROVE  AgentInv'
<1>1. /\ req'[r].pc = pc /\ req'[r].op = req[r].op /\ req'[r].grant = req[r].grant
      /\ req'[r].key = req[r].key /\ req'[r].proposal = req[r].proposal
      /\ req'[r].body = req[r].body
      /\ \A q \in Requests \ {r} : req'[q] = req[q]
  BY DEF GoTo, TypeOK, Typed, Request
<1>2. \A q \in Requests : Slot(q)' = Slot(q)
  BY <1>1 DEF Slot
<1>3. KeyIsFree'
  BY <1>1, <1>2 DEF AgentInv, KeyIsFree
<1>4. ValidatedIsCurrent'
  BY <1>1 DEF AgentInv, ValidatedIsCurrent
<1>5. OwnProposal'
  <2>1. \A q \in Requests : req'[q].proposal = req[q].proposal
    BY <1>1
  <2> SUFFICES ASSUME NEW q \in Requests
               PROVE  OwnProposal!(q)'
    BY DEF OwnProposal
  <2>2. CASE q = r
    <3>1. /\ req[r].pc \in {"auth", "scope"} => req[r].op # "approve"
          /\ req[r].pc = "grant" => req[r].op = "approve"
      BY DEF TypeOK, Meaningful
    <3>2. QED
      BY <1>1, <2>1, <2>2, <3>1 DEF AgentInv, OwnProposal
  <2>3. CASE q # r
    BY <1>1, <2>1, <2>3 DEF AgentInv, OwnProposal
  <2>4. QED
    BY <2>2, <2>3
<1>6. QED
  BY <1>3, <1>4, <1>5 DEF AgentInv, PastRevisions, ReceiptTellsWrites,
     OneWriterPerRevision, VerdictTellsWrites,
     ApprovedWasWritten, UnpermittedWasReviewed

\* An approval takes grant, key and body from the proposal it has read.
LEMMA ReadProposalInv ==
  ASSUME TypeOK, AgentInv, NEW r \in Requests, ReadProposal(r)
  PROVE  AgentInv'
<1>1. CASE Return(r)
  BY <1>1, ReturnInv DEF ReadProposal
<1>2. CASE ~Return(r) /\ req[r].op = "reject"
  BY <1>2, GoToInv DEF ReadProposal, Locked
<1>3. CASE ~Return(r) /\ req[r].op # "reject"
  <2> DEFINE p == req[r].proposal
  <2>1. /\ p \in Proposals /\ req[r].op = "approve" /\ req[r].pc = "review"
        /\ UNCHANGED <<proposal, receipt, applied, rev, node>>
    BY <1>3 DEF ReadProposal, TypeOK, Meaningful
  <2>2. proposal[p] \in Proposal /\ proposal[p].body \in Body
    BY <2>1 DEF TypeOK, Typed, Proposal
  <2>3. /\ req'[r].pc = "grant" /\ req'[r].op = "approve" /\ req'[r].key = p
        /\ req'[r].grant = proposal[p].grant /\ req'[r].proposal = p
        /\ req'[r].body = AsBatch(proposal[p].body)
        /\ \A q \in Requests \ {r} : req'[q] = req[q]
    BY <1>3, <2>1 DEF ReadProposal, TypeOK, Typed, Request
  <2>4. req'[r].body.kind = "batch" /\ req'[r].body.expected = proposal[p].body.expected
    BY <2>2, <2>3 DEF Body, AsBatch
  <2>5. proposal[p].body.expected <= rev
    BY <2>1 DEF AgentInv, PastRevisions
  <2>6. KeyIsFree'
    BY <2>1, <2>3 DEF AgentInv, KeyIsFree, Slot
  <2>7. ValidatedIsCurrent'
    BY <2>1, <2>3, <2>4, <2>5 DEF AgentInv, ValidatedIsCurrent
  <2>8. OwnProposal'
    <3>1. \A q \in Requests : req'[q].proposal = req[q].proposal
      BY <2>3
    <3> SUFFICES ASSUME NEW q \in Requests
                 PROVE  OwnProposal!(q)'
      BY DEF OwnProposal
    <3>2. CASE q = r
      BY <2>1, <2>3, <2>4, <3>1, <3>2
    <3>3. CASE q # r
      BY <2>1, <2>3, <3>1, <3>3 DEF AgentInv, OwnProposal
    <3>4. QED
      BY <3>2, <3>3
  <2>9. QED
    BY <2>1, <2>6, <2>7, <2>8 DEF AgentInv, PastRevisions, ReceiptTellsWrites,
       OneWriterPerRevision, VerdictTellsWrites,
     ApprovedWasWritten, UnpermittedWasReviewed
<1>4. QED
  BY <1>1, <1>2, <1>3

\* The steps of a handler that write nothing.
LEMMA HandlerInv ==
  ASSUME TypeOK, AgentInv, NEW r \in Requests,
         \/ Auth(r) \/ CheckScope(r) \/ ReadGrant(r) \/ AcquireStripe(r) \/ Lookup(r)
         \/ Validate(r) \/ Claim(r) \/ ApplyFails(r) \/ BusyTimeout(r)
  PROVE  AgentInv'
<1>1. CASE Return(r)
  BY <1>1, ReturnInv DEF Auth, CheckScope, ReadGrant, AcquireStripe, Lookup, Validate, Claim,
     ApplyFails, BusyTimeout
<1>2. CASE ~Return(r)
  <2>1. CASE Auth(r)
    <3>1. PICK pc \in {"lock", "scope"} : GoTo(r, pc)
      BY <1>2, <2>1 DEF Auth
    <3>2. /\ req[r].pc = "auth" /\ (req[r].op = "batch" => req[r].grant \in Writers)
          /\ UNCHANGED <<proposal, receipt, applied, rev, node>>
      BY <1>2, <2>1 DEF Auth
    <3>3. QED
      BY <3>1, <3>2, GoToInv DEF Locked
  <2>2. CASE ReadGrant(r)
    BY <1>2, <2>2, GoToInv DEF ReadGrant, Locked
  <2>3. CASE AcquireStripe(r)
    BY <1>2, <2>3, GoToInv DEF AcquireStripe, Locked
  <2>4. CASE Lookup(r)
    <3>1. PICK pc \in {"store", "validate"} : GoTo(r, pc)
      BY <1>2, <2>4 DEF Lookup
    <3>2. receipt[Slot(r)] = NoBody /\ req[r].pc = "lookup"
          /\ UNCHANGED <<proposal, receipt, applied, rev, node>>
      BY <1>2, <2>4 DEF Lookup
    <3>3. QED
      BY <3>1, <3>2, GoToInv DEF Locked
  <2>5. CASE Validate(r)
    <3>1. receipt[Slot(r)] = NoBody
      BY <2>5 DEF AgentInv, KeyIsFree, Validate
    <3>2. QED
      BY <1>2, <2>5, <3>1, GoToInv DEF Validate, Locked
  <2>6. CASE Claim(r)
    <3>1. receipt[Slot(r)] = NoBody
      BY <2>6 DEF AgentInv, KeyIsFree, Claim
    <3>2. rev = req[r].body.expected /\ GoTo(r, "apply") /\ req[r].pc = "claim"
          /\ UNCHANGED <<proposal, receipt, applied, rev, node>>
      BY <1>2, <2>6 DEF Claim
    <3>3. node[req[r].body.node] = req[r].body.nodeExpected
      BY <3>2 DEF AgentInv, ValidatedIsCurrent
    <3>4. QED
      BY <3>1, <3>2, <3>3, GoToInv DEF Locked
  <2>7. CASE ApplyFails(r) \/ BusyTimeout(r)
    BY <1>2, <2>7 DEF ApplyFails, BusyTimeout
  <2>8. CASE CheckScope(r)
    BY <1>2, <2>8, GoToInv DEF CheckScope, Locked
  <2>9. QED
    BY <2>8, <2>1, <2>2, <2>3, <2>4, <2>5, <2>6, <2>7
<1>3. QED
  BY <1>1, <1>2

\* A request that arrives adds no obligation but its own.
LEMMA ArrivalInv ==
  ASSUME TypeOK, AgentInv, NEW r \in Requests, AgentArrival(r) \/ ReviewArrival(r)
  PROVE  AgentInv'
<1> USE KeysAssumption
<1>1. CASE AgentArrival(r)
  <2>1. PICK g \in Grants, k \in Keys \cup Proposals, p \in Proposals \cup {None},
             op \in {"batch", "propose", "record"}, body \in Body :
          /\ op = "batch" <=> body.kind = "batch"
          /\ op # "propose" => p = None
          /\ op = "propose" => p \in Proposals
          /\ body.kind # "none"
          /\ ArriveAgent(r, op, g, k, p, body)
    BY <1>1, AgentArrivalCases DEF Sent
  <2>2. /\ req'[r].pc = "auth" /\ req'[r].op = op /\ req'[r].key = k
        /\ req'[r].proposal = p /\ req'[r].body = body
        /\ req'[r].body.expected <= rev
        /\ \A q \in Requests \ {r} : req'[q] = req[q]
        /\ op = "propose" => /\ proposal[p].status = "none"
                             /\ \A q \in Requests : req[q].proposal # p
        /\ UNCHANGED <<proposal, receipt, applied, rev, node>>
    BY <2>1 DEF ArriveAgent, TypeOK, Typed
  <2>3. KeyIsFree' /\ ValidatedIsCurrent'
    BY <2>2 DEF AgentInv, KeyIsFree, ValidatedIsCurrent, Slot
  <2>4. OwnProposal'
    <3> SUFFICES ASSUME NEW q \in Requests
                 PROVE  OwnProposal!(q)'
      BY DEF OwnProposal
    <3>1. CASE q = r
      BY <2>1, <2>2, <3>1 DEF Locked
    <3>2. CASE q # r
      <4>1. req'[q].pc # "idle" /\ req'[q].op = "propose" => req'[q].proposal \in Proposals
        BY <2>2, <3>2 DEF TypeOK, Meaningful
      <4>2. QED
        BY <2>1, <2>2, <3>2, <4>1 DEF AgentInv, OwnProposal
    <3>3. QED
      BY <3>1, <3>2
  <2>5. QED
    BY <2>2, <2>3, <2>4 DEF AgentInv, PastRevisions, ReceiptTellsWrites,
       OneWriterPerRevision, VerdictTellsWrites,
     ApprovedWasWritten, UnpermittedWasReviewed
<1>2. CASE ReviewArrival(r)
  <2>1. PICK p \in Proposals, op \in {"approve", "reject"}, dirty \in BOOLEAN :
          ArriveReview(r, op, p, op = "approve" /\ dirty)
    BY <1>2 DEF ReviewArrival
  <2>2. /\ req'[r].pc = "review" /\ req'[r].op = op /\ req'[r].proposal = p
        /\ req'[r].body = NoBody /\ proposal[p].status # "none"
        /\ \A q \in Requests \ {r} : req'[q] = req[q]
        /\ UNCHANGED <<proposal, receipt, applied, rev, node>>
    BY <2>1 DEF ArriveReview, TypeOK, Typed
  <2>3. req'[r].body.expected <= rev
    BY <2>2 DEF NoBody, TypeOK, Typed
  <2>4. KeyIsFree' /\ ValidatedIsCurrent'
    BY <2>2, <2>3 DEF AgentInv, KeyIsFree, ValidatedIsCurrent, Slot
  <2>5. OwnProposal'
    <3> SUFFICES ASSUME NEW q \in Requests
                 PROVE  OwnProposal!(q)'
      BY DEF OwnProposal
    <3>1. CASE q = r
      BY <2>2, <3>1 DEF Locked
    <3>2. CASE q # r
      BY <2>2, <3>2 DEF AgentInv, OwnProposal
    <3>3. QED
      BY <3>1, <3>2
  <2>6. QED
    BY <2>2, <2>4, <2>5 DEF AgentInv, PastRevisions, ReceiptTellsWrites,
       OneWriterPerRevision, VerdictTellsWrites,
     ApprovedWasWritten, UnpermittedWasReviewed
<1>3. QED
  BY <1>1, <1>2

\* Two requests under the lock of a key have different keys.
LEMMA StripesDiffer ==
  ASSUME TypeOK, NEW r \in Requests, NEW q \in Requests, q # r,
         req[r].pc \in Locked, req[q].pc \in Locked
  PROVE  Slot(q) # Slot(r) /\ Slot(q) \in Slots /\ Slot(r) \in Slots
<1>1. Slot(q) \in Slots /\ Slot(r) \in Slots
  BY DEF TypeOK, Meaningful, Slot, Slots
<1>2. stripe[Slot(q)] = q /\ stripe[Slot(r)] = r
  BY <1>1 DEF TypeOK, LocksMatch
<1>3. QED
  BY <1>1, <1>2

\* The canonical write: the receipt, the verdict and the change together.
LEMMA ApplyInv ==
  ASSUME TypeOK, AgentInv, NEW r \in Requests, Apply(r)
  PROVE  AgentInv' /\ node[req[r].body.node] = req[r].body.nodeExpected
<1> USE KeysAssumption
<1> DEFINE s == Slot(r)
<1> DEFINE p == req[r].proposal
<1>0. /\ req[r].pc = "apply" /\ receipt[s] = NoBody /\ rev' = rev + 1
      /\ receipt' = [receipt EXCEPT ![s] = req[r].body]
      /\ applied' = [applied EXCEPT ![s] = applied[s] + 1]
      /\ node' = [node EXCEPT ![req[r].body.node] = req[r].body.nodeExpected + 1]
      /\ rev \in Nat
  BY DEF Apply, TypeOK, Typed
<1>1. /\ s \in Slots /\ req[r].op \in {"batch", "approve"} /\ req[r].body \in Body
      /\ req[r].body.node \in Nodes
      /\ req[r].op = "approve" => p \in Proposals
  BY <1>0 DEF TypeOK, Typed, Request, Meaningful, Locked, Slot, Slots
<1>2. /\ req[r].body.kind = "batch"
      /\ req[r].op = "batch" => req[r].grant \in Writers
      /\ req[r].op = "approve" =>
           /\ req[r].key = p /\ req[r].grant = proposal[p].grant
           /\ req[r].body = AsBatch(proposal[p].body)
  <2>1. /\ req[r].op = "batch" => req[r].grant \in Writers /\ req[r].body.kind = "batch"
        /\ req[r].op = "approve" =>
             /\ req[r].key = p /\ req[r].grant = proposal[p].grant
             /\ req[r].body = AsBatch(proposal[p].body)
    BY <1>0, <1>1 DEF AgentInv, OwnProposal, Locked
  <2>2. \A x \in Proposals : AsBatch(proposal[x].body).kind = "batch"
    BY DEF TypeOK, Typed, Proposal, Body, AsBatch
  <2>3. QED
    BY <1>1, <2>1, <2>2
<1>3. /\ rev = req[r].body.expected
      /\ node[req[r].body.node] = req[r].body.nodeExpected
  BY <1>0 DEF AgentInv, ValidatedIsCurrent
<1>4. /\ receipt'[s] = req[r].body /\ applied'[s] = 1
      /\ \A t \in Slots \ {s} : receipt'[t] = receipt[t] /\ applied'[t] = applied[t]
      /\ receipt[s].kind = "none"
  BY <1>0, <1>1 DEF AgentInv, ReceiptTellsWrites, NoBody, TypeOK, Typed
<1>5. /\ req'[r].pc = "idle" /\ req'[r].proposal = None
      /\ \A q \in Requests \ {r} : req'[q] = req[q]
  BY DEF Apply, Return, Idle, TypeOK, Typed
<1>6. \A x \in Proposals :
        /\ proposal'[x].grant = proposal[x].grant /\ proposal'[x].body = proposal[x].body
        /\ proposal'[x].status =
             IF req[r].op = "approve" /\ x = p THEN "approved" ELSE proposal[x].status
  BY <1>1 DEF Apply, Verdict, TypeOK, Typed, Proposal
<1>7. KeyIsFree'
  <2> SUFFICES ASSUME NEW q \in Requests, req'[q].pc \in {"validate", "claim", "apply", "store"}
               PROVE  receipt'[Slot(q)'] = NoBody
    BY DEF KeyIsFree
  <2>1. q # r /\ req'[q] = req[q] /\ Slot(q)' = Slot(q)
    BY <1>5 DEF Slot
  <2>2. receipt[Slot(q)] = NoBody
    BY <2>1 DEF AgentInv, KeyIsFree
  <2>3. Slot(q) # s /\ Slot(q) \in Slots
    BY <1>0, <2>1, StripesDiffer DEF Locked
  <2>4. QED
    BY <1>4, <2>1, <2>2, <2>3
<1>8. ValidatedIsCurrent'
  <2> SUFFICES ASSUME NEW q \in Requests, q # r, req'[q] = req[q]
               PROVE  ValidatedIsCurrent!(q)'
    BY <1>5 DEF ValidatedIsCurrent
  <2>1. req[q].pc # "apply"
    BY <1>0 DEF TypeOK, LocksMatch, HoldsWriter
  <2>2. req[q].body.expected \in Nat
    BY DEF TypeOK, Typed, Request, Body
  <2>3. req[q].pc # "idle" => req[q].body.expected <= rev
    BY DEF AgentInv, ValidatedIsCurrent
  <2>4. QED
    BY <1>0, <2>1, <2>2, <2>3
<1>9. PastRevisions'
  <2>1. \A t \in Slots : receipt'[t].kind = "batch" => receipt'[t].expected < rev'
    <3> SUFFICES ASSUME NEW t \in Slots, receipt'[t].kind = "batch"
                 PROVE  receipt'[t].expected < rev'
      OBVIOUS
    <3>1. CASE t = s
      BY <1>0, <1>3, <1>4, <3>1
    <3>2. CASE t # s
      <4>1. receipt[t].expected \in Nat /\ receipt[t].expected < rev
        BY <1>4, <3>2 DEF AgentInv, PastRevisions, TypeOK, Typed, Body
      <4>2. QED
        BY <1>0, <1>4, <3>2, <4>1
    <3>3. QED
      BY <3>1, <3>2
  <2>2. \A x \in Proposals : proposal'[x].body.expected <= rev'
    <3> SUFFICES ASSUME NEW x \in Proposals
                 PROVE  proposal'[x].body.expected <= rev'
      OBVIOUS
    <3>1. proposal[x].body.expected \in Nat /\ proposal[x].body.expected <= rev
      BY DEF AgentInv, PastRevisions, TypeOK, Typed, Proposal, Body
    <3>2. QED
      BY <1>0, <1>6, <3>1
  <2>3. QED
    BY <2>1, <2>2 DEF PastRevisions
<1>10. OwnProposal'
  <2> SUFFICES ASSUME NEW q \in Requests
               PROVE  OwnProposal!(q)'
    BY DEF OwnProposal
  <2>1. CASE q = r
    BY <1>5, <2>1 DEF Locked
  <2>2. CASE q # r
    <3>1. req[q].pc # "idle" /\ req[q].op \in {"propose", "approve"} =>
            req[q].proposal \in Proposals
      BY DEF TypeOK, Meaningful
    <3>2. req[q].pc # "idle" /\ req[q].op = "propose" =>
            /\ proposal[req[q].proposal].status = "none"
            /\ req[r].op = "approve" => proposal[p].status # "none"
      BY <1>0 DEF AgentInv, OwnProposal, TypeOK, ReviewsStored
    <3>3. req[q].pc # "idle" /\ req[q].op = "propose" =>
            /\ proposal'[req'[q].proposal].status = "none"
            /\ \A w \in Requests \ {q} : req'[w].proposal # req'[q].proposal
      BY <1>5, <1>6, <2>2, <3>1, <3>2 DEF AgentInv, OwnProposal
    <3>4. req[q].pc \in {"grant", "lock"} \cup Locked /\ req[q].op = "approve" =>
            /\ req[q].key = req[q].proposal
            /\ req[q].grant = proposal'[req[q].proposal].grant
            /\ req[q].body = AsBatch(proposal'[req[q].proposal].body)
      BY <1>6, <3>1 DEF AgentInv, OwnProposal, Locked
    <3>5. QED
      BY <1>5, <2>2, <3>3, <3>4 DEF AgentInv, OwnProposal
  <2>3. QED
    BY <2>1, <2>2
<1>11. ReceiptTellsWrites'
  BY <1>2, <1>4 DEF AgentInv, ReceiptTellsWrites
<1>12. OneWriterPerRevision'
  <2> SUFFICES ASSUME NEW t \in Slots, NEW u \in Slots, t # u,
                      receipt'[t].kind = "batch", receipt'[u].kind = "batch",
                      receipt'[t].expected = receipt'[u].expected
               PROVE  FALSE
    BY DEF OneWriterPerRevision
  <2>1. \A x \in Slots \ {s} : receipt'[x].kind = "batch" =>
          receipt'[x].expected \in Nat /\ receipt'[x].expected < rev
    BY <1>4 DEF AgentInv, PastRevisions, TypeOK, Typed, Body
  <2>2. receipt'[s].expected = rev
    BY <1>3, <1>4
  <2>3. t # s /\ u # s
    BY <1>0, <2>1, <2>2
  <2>4. QED
    BY <1>4, <2>3 DEF AgentInv, OneWriterPerRevision
<1>13. ApprovedWasWritten'
  <2> SUFFICES ASSUME NEW x \in Proposals, proposal'[x].status = "approved"
               PROVE  ApprovedWasWritten!(x)'
    BY DEF ApprovedWasWritten
  <2>1. CASE req[r].op = "approve" /\ x = p
    <3>1. s = <<proposal'[x].grant, x>>
      BY <1>2, <1>6, <2>1 DEF Slot
    <3>2. QED
      BY <1>2, <1>4, <1>6, <2>1, <3>1
  <2>2. CASE ~(req[r].op = "approve" /\ x = p)
    <3> DEFINE t == <<proposal[x].grant, x>>
    <3>1. proposal[x].status = "approved"
      BY <1>6, <2>2
    <3>2. t \in Slots
      BY <3>1 DEF TypeOK, ProposalsMeaningful, Slots
    <3>3. applied[t] = 1 /\ receipt[t] = AsBatch(proposal[x].body)
      BY <3>1 DEF AgentInv, VerdictTellsWrites, ApprovedWasWritten
    <3>4. receipt[t].kind = "batch"
      BY <3>2, <3>3 DEF AgentInv, ReceiptTellsWrites
    <3>5. t # s
      BY <1>4, <3>4
    <3>6. QED
      BY <1>4, <1>6, <3>2, <3>3, <3>5
  <2>3. QED
    BY <2>1, <2>2
<1>15. UnpermittedWasReviewed'
  <2> SUFFICES ASSUME NEW t \in Slots, t[1] \notin Writers, applied'[t] > 0
               PROVE  /\ t[2] \in Proposals
                      /\ proposal'[t[2]].grant = t[1]
                      /\ proposal'[t[2]].status \in {"approved", "rejected"}
    BY DEF UnpermittedWasReviewed
  <2>1. CASE t = s
    <3>1. req[r].op = "approve"
      BY <1>1, <1>2, <2>1 DEF Slot
    <3>2. t[1] = proposal[p].grant /\ t[2] = p
      BY <1>2, <2>1, <3>1 DEF Slot
    <3>3. QED
      BY <1>1, <1>6, <3>1, <3>2
  <2>2. CASE t # s
    <3>1. /\ t[2] \in Proposals
          /\ proposal[t[2]].grant = t[1]
          /\ proposal[t[2]].status \in {"approved", "rejected"}
      BY <1>4, <2>2 DEF AgentInv, VerdictTellsWrites, UnpermittedWasReviewed
    <3>2. QED
      BY <1>6, <3>1
  <2>3. QED
    BY <2>1, <2>2
<1>14. QED
  BY <1>3, <1>7, <1>8, <1>9, <1>10, <1>11, <1>12, <1>13, <1>15 DEF AgentInv, VerdictTellsWrites

\* store_once writes a receipt that is not one of a canonical write.
LEMMA StoreInv ==
  ASSUME TypeOK, AgentInv, NEW r \in Requests, Store(r)
  PROVE  AgentInv'
<1> USE KeysAssumption
<1> DEFINE s == Slot(r)
<1> DEFINE p == req[r].proposal
<1>0. /\ req[r].pc = "store" /\ receipt[s] = NoBody
      /\ receipt' = [receipt EXCEPT ![s] = req[r].body]
      /\ UNCHANGED <<applied, rev, node>>
  BY DEF Store
<1>1. /\ s \in Slots /\ req[r].op \in {"propose", "record"}
      /\ req[r].op = "propose" => p \in Proposals
  BY <1>0 DEF TypeOK, Meaningful, Locked, Slot, Slots
<1>2. req[r].body.kind # "batch" /\ req[r].body.expected <= rev
  BY <1>0, <1>1 DEF AgentInv, OwnProposal, ValidatedIsCurrent, Locked
<1>3. /\ receipt'[s] = req[r].body
      /\ \A t \in Slots \ {s} : receipt'[t] = receipt[t]
      /\ receipt[s].kind = "none"
  BY <1>0, <1>1 DEF NoBody, TypeOK, Typed
<1>4. /\ req'[r].pc = "idle" /\ req'[r].proposal = None
      /\ \A q \in Requests \ {r} : req'[q] = req[q]
  BY DEF Store, Return, Idle, TypeOK, Typed
<1>5. \A x \in Proposals :
        IF req[r].op = "propose" /\ x = p
          THEN /\ proposal'[x].status = "pending" /\ proposal[x].status = "none"
               /\ proposal'[x].body = req[r].body
          ELSE proposal'[x] = proposal[x]
  BY <1>0, <1>1 DEF Store, TypeOK, Typed, AgentInv, OwnProposal
<1>6. KeyIsFree'
  <2> SUFFICES ASSUME NEW q \in Requests, req'[q].pc \in {"validate", "claim", "apply", "store"}
               PROVE  receipt'[Slot(q)'] = NoBody
    BY DEF KeyIsFree
  <2>1. q # r /\ req'[q] = req[q] /\ Slot(q)' = Slot(q)
    BY <1>4 DEF Slot
  <2>2. receipt[Slot(q)] = NoBody
    BY <2>1 DEF AgentInv, KeyIsFree
  <2>3. Slot(q) # s /\ Slot(q) \in Slots
    BY <1>0, <2>1, StripesDiffer DEF Locked
  <2>4. QED
    BY <1>3, <2>1, <2>2, <2>3
<1>7. ValidatedIsCurrent'
  BY <1>0, <1>4 DEF AgentInv, ValidatedIsCurrent
<1>8. PastRevisions'
  BY <1>0, <1>2, <1>3, <1>5 DEF AgentInv, PastRevisions
<1>9. OwnProposal'
  <2> SUFFICES ASSUME NEW q \in Requests
               PROVE  OwnProposal!(q)'
    BY DEF OwnProposal
  <2>1. CASE q = r
    BY <1>4, <2>1 DEF Locked
  <2>2. CASE q # r
    <3>1. req[q].pc # "idle" /\ req[q].op \in {"propose", "approve"} =>
            req[q].proposal \in Proposals
      BY DEF TypeOK, Meaningful
    <3>2. req[r].op = "propose" => req[q].proposal # p
      BY <1>0, <2>2 DEF AgentInv, OwnProposal
    <3>3. req[q].pc # "idle" /\ req[q].op \in {"propose", "approve"} =>
            proposal'[req[q].proposal] = proposal[req[q].proposal]
      BY <1>5, <3>1, <3>2
    <3>4. req[q].pc # "idle" /\ req[q].op = "propose" =>
            /\ proposal'[req'[q].proposal].status = "none"
            /\ \A w \in Requests \ {q} : req'[w].proposal # req'[q].proposal
      BY <1>4, <2>2, <3>1, <3>3 DEF AgentInv, OwnProposal
    <3>5. req[q].pc \in {"grant", "lock"} \cup Locked /\ req[q].op = "approve" =>
            /\ req[q].key = req[q].proposal
            /\ req[q].grant = proposal'[req[q].proposal].grant
            /\ req[q].body = AsBatch(proposal'[req[q].proposal].body)
      BY <3>3 DEF AgentInv, OwnProposal, Locked
    <3>6. QED
      BY <1>4, <2>2, <3>4, <3>5 DEF AgentInv, OwnProposal
  <2>3. QED
    BY <2>1, <2>2
<1>10. ReceiptTellsWrites' /\ OneWriterPerRevision'
  BY <1>0, <1>2, <1>3 DEF AgentInv, ReceiptTellsWrites, OneWriterPerRevision
<1>11. ApprovedWasWritten'
  <2> SUFFICES ASSUME NEW x \in Proposals, proposal'[x].status = "approved"
               PROVE  ApprovedWasWritten!(x)'
    BY DEF ApprovedWasWritten
  <2> DEFINE t == <<proposal[x].grant, x>>
  <2>1. proposal'[x] = proposal[x] /\ proposal[x].status = "approved"
    BY <1>5
  <2>2. t \in Slots
    BY <2>1 DEF TypeOK, ProposalsMeaningful, Slots
  <2>3. applied[t] = 1 /\ receipt[t] = AsBatch(proposal[x].body)
    BY <2>1 DEF AgentInv, VerdictTellsWrites, ApprovedWasWritten
  <2>4. receipt[t].kind = "batch"
    BY <2>2, <2>3 DEF AgentInv, ReceiptTellsWrites
  <2>5. t # s
    BY <1>3, <2>4
  <2>6. QED
    BY <1>0, <1>3, <2>1, <2>2, <2>3, <2>5
<1>13. UnpermittedWasReviewed'
  BY <1>0, <1>5 DEF AgentInv, VerdictTellsWrites, UnpermittedWasReviewed
<1>12. QED
  BY <1>6, <1>7, <1>8, <1>9, <1>10, <1>11, <1>13 DEF AgentInv, VerdictTellsWrites

\* A rejection changes the status of its proposal only, even of an approved one.
LEMMA RejectInv ==
  ASSUME TypeOK, AgentInv, NEW r \in Requests, Reject(r)
  PROVE  AgentInv'
<1> USE KeysAssumption
<1> DEFINE p == req[r].proposal
<1>1. /\ p \in Proposals /\ proposal[p].status # "none"
      /\ UNCHANGED <<receipt, applied, rev, node>>
  BY DEF Reject, TypeOK, Meaningful, ReviewsStored
<1>2. /\ req'[r].pc = "idle" /\ req'[r].proposal = None
      /\ \A q \in Requests \ {r} : req'[q] = req[q]
  BY DEF Reject, Return, Idle, TypeOK, Typed
<1>3. /\ proposal'[p].status = "rejected" /\ proposal'[p].grant = proposal[p].grant
      /\ proposal'[p].body = proposal[p].body
      /\ \A x \in Proposals \ {p} : proposal'[x] = proposal[x]
  BY <1>1 DEF Reject, Verdict, TypeOK, Typed, Proposal
<1>4. KeyIsFree' /\ ValidatedIsCurrent'
  BY <1>1, <1>2 DEF AgentInv, KeyIsFree, ValidatedIsCurrent, Slot
<1>5. PastRevisions'
  BY <1>1, <1>3 DEF AgentInv, PastRevisions
<1>6. OwnProposal'
  <2> SUFFICES ASSUME NEW q \in Requests
               PROVE  OwnProposal!(q)'
    BY DEF OwnProposal
  <2>1. CASE q = r
    BY <1>2, <2>1 DEF Locked
  <2>2. CASE q # r
    <3>1. req[q].pc # "idle" /\ req[q].op \in {"propose", "approve"} =>
            req[q].proposal \in Proposals
      BY DEF TypeOK, Meaningful
    <3>2. req[q].pc # "idle" /\ req[q].op = "propose" =>
            /\ proposal'[req'[q].proposal].status = "none"
            /\ \A w \in Requests \ {q} : req'[w].proposal # req'[q].proposal
      BY <1>1, <1>2, <1>3, <2>2, <3>1 DEF AgentInv, OwnProposal
    <3>3. req[q].pc \in {"grant", "lock"} \cup Locked /\ req[q].op = "approve" =>
            /\ req[q].key = req[q].proposal
            /\ req[q].grant = proposal'[req[q].proposal].grant
            /\ req[q].body = AsBatch(proposal'[req[q].proposal].body)
      BY <1>3, <3>1 DEF AgentInv, OwnProposal, Locked
    <3>4. QED
      BY <1>2, <2>2, <3>2, <3>3 DEF AgentInv, OwnProposal
  <2>3. QED
    BY <2>1, <2>2
<1>7. ReceiptTellsWrites' /\ OneWriterPerRevision'
  BY <1>1 DEF AgentInv, ReceiptTellsWrites, OneWriterPerRevision
<1>9. ApprovedWasWritten'
  <2> SUFFICES ASSUME NEW x \in Proposals, proposal'[x].status = "approved"
               PROVE  ApprovedWasWritten!(x)'
    BY DEF ApprovedWasWritten
  <2>1. proposal'[x] = proposal[x]
    BY <1>3
  <2>2. QED
    BY <1>1, <2>1 DEF AgentInv, VerdictTellsWrites, ApprovedWasWritten
<1>10. UnpermittedWasReviewed'
  <2> SUFFICES ASSUME NEW t \in Slots, t[1] \notin Writers, applied[t] > 0
               PROVE  /\ t[2] \in Proposals
                      /\ proposal'[t[2]].grant = t[1]
                      /\ proposal'[t[2]].status \in {"approved", "rejected"}
    BY <1>1 DEF UnpermittedWasReviewed
  <2>1. /\ t[2] \in Proposals
        /\ proposal[t[2]].grant = t[1]
        /\ proposal[t[2]].status \in {"approved", "rejected"}
    BY DEF AgentInv, VerdictTellsWrites, UnpermittedWasReviewed
  <2>2. QED
    BY <1>3, <2>1
<1>8. QED
  BY <1>4, <1>5, <1>6, <1>7, <1>9, <1>10 DEF AgentInv, VerdictTellsWrites

\* An edit by the project API outdates every batch that was sent before it.
LEMMA EditInv ==
  ASSUME TypeOK, AgentInv, NEW n \in Nodes, Edit(n)
  PROVE  AgentInv'
<1>1. /\ rev \in Nat /\ rev' = rev + 1 /\ writer = Nobody
      /\ UNCHANGED <<proposal, receipt, applied, req>>
  BY DEF Edit, TypeOK, Typed
<1>2. KeyIsFree'
  BY <1>1 DEF AgentInv, KeyIsFree, Slot
<1>3. ValidatedIsCurrent'
  <2> SUFFICES ASSUME NEW q \in Requests
               PROVE  ValidatedIsCurrent!(q)'
    BY DEF ValidatedIsCurrent
  <2>1. req[q].pc # "apply"
    BY <1>1, RequestsAssumption DEF TypeOK, LocksMatch, HoldsWriter
  <2>2. req[q].body.expected \in Nat
    BY DEF TypeOK, Typed, Request, Body
  <2>3. req[q].pc # "idle" => req[q].body.expected <= rev
    BY DEF AgentInv, ValidatedIsCurrent
  <2>4. QED
    BY <1>1, <2>1, <2>2, <2>3
<1>4. PastRevisions'
  <2>1. ASSUME NEW t \in Slots, receipt[t].kind = "batch"
        PROVE  receipt[t].expected < rev'
    <3>1. receipt[t].expected \in Nat /\ receipt[t].expected < rev
      BY <2>1 DEF AgentInv, PastRevisions, TypeOK, Typed, Body
    <3>2. QED
      BY <1>1, <3>1
  <2>2. ASSUME NEW x \in Proposals
        PROVE  proposal[x].body.expected <= rev'
    <3>1. proposal[x].body.expected \in Nat /\ proposal[x].body.expected <= rev
      BY DEF AgentInv, PastRevisions, TypeOK, Typed, Proposal, Body
    <3>2. QED
      BY <1>1, <3>1
  <2>3. QED
    BY <1>1, <2>1, <2>2 DEF PastRevisions
<1>5. QED
  BY <1>1, <1>2, <1>3, <1>4 DEF AgentInv, OwnProposal, ReceiptTellsWrites,
     OneWriterPerRevision, VerdictTellsWrites,
     ApprovedWasWritten, UnpermittedWasReviewed

\* No step breaks the invariant.
LEMMA AgentInvStep ==
  ASSUME TypeOK, AgentInv, [Next]_vars
  PROVE  AgentInv'
<1>1. ASSUME NEW g \in Grants, CreateGrant(g) \/ Deactivate(g)
      PROVE  AgentInv'
  BY <1>1 DEF CreateGrant, Deactivate, AgentInv, KeyIsFree, ValidatedIsCurrent,
     PastRevisions, OwnProposal, ReceiptTellsWrites, OneWriterPerRevision,
     VerdictTellsWrites, ApprovedWasWritten, UnpermittedWasReviewed, Slot
<1>2. CASE UNCHANGED vars
  BY <1>2 DEF vars, AgentInv, KeyIsFree, ValidatedIsCurrent, PastRevisions, OwnProposal,
     ReceiptTellsWrites, OneWriterPerRevision, VerdictTellsWrites,
     ApprovedWasWritten, UnpermittedWasReviewed, Slot
<1>3. ASSUME NEW r \in Requests, Step(r)
      PROVE  AgentInv'
  BY <1>3, ReadProposalInv, HandlerInv, ApplyInv, StoreInv, RejectInv DEF Step
<1>4. QED
  BY <1>1, <1>2, <1>3, ArrivalInv, EditInv DEF Next

\* The inductive invariant holds of every reachable state.
THEOREM AgentInvariant == Spec => []AgentInv
<1>1. Init => AgentInv
  <2> SUFFICES ASSUME Init PROVE AgentInv
    OBVIOUS
  <2>1. Idle.pc = "idle" /\ NoBody.kind = "none" /\ NoProposal.status = "none"
        /\ NoProposal.body.expected = 0
    BY DEF Idle, NoBody, NoProposal
  <2>2. KeyIsFree /\ ValidatedIsCurrent /\ OwnProposal
    BY <2>1 DEF Init, KeyIsFree, ValidatedIsCurrent, OwnProposal, Locked
  <2>3. PastRevisions
    BY <2>1 DEF Init, PastRevisions
  <2>4. ReceiptTellsWrites /\ OneWriterPerRevision
    BY <2>1 DEF Init, ReceiptTellsWrites, OneWriterPerRevision
  <2>5. VerdictTellsWrites
    BY <2>1 DEF Init, VerdictTellsWrites, ApprovedWasWritten, UnpermittedWasReviewed, Slots
  <2>6. QED
    BY <2>2, <2>3, <2>4, <2>5 DEF AgentInv
<1>2. QED
  BY <1>1, AgentInvStep, AgentTypes, PTL DEF Spec

\* Idempotency of batches and approvals: at most one change per key, exactly when
\* its receipt is stored, whatever requests race or are retried.
THEOREM BatchesAreIdempotent == Spec => []ReceiptTellsWrites
<1>1. AgentInv => ReceiptTellsWrites
  BY DEF AgentInv
<1>2. QED
  BY <1>1, AgentInvariant, PTL

\* Of the agents that were shown one project revision at most one changes the canon.
THEOREM RevisionsAreWrittenOnce == Spec => []OneWriterPerRevision
<1>1. AgentInv => OneWriterPerRevision
  BY DEF AgentInv
<1>2. QED
  BY <1>1, AgentInvariant, PTL

\* An approved proposal has changed the canon once, by its own operations, and a
\* grant without permission to write by approved proposals only, whatever keys the
\* agents choose.
THEOREM VerdictsAreTrue == Spec => []VerdictTellsWrites
<1>1. AgentInv => VerdictTellsWrites
  BY DEF AgentInv
<1>2. QED
  BY <1>1, AgentInvariant, PTL

\* A canonical write advances the project and one node by one, together.
THEOREM NodesAdvanceOnce == Spec => NodeBumpedOnce
<1> DEFINE Bump == rev' # rev \/ node' # node =>
                     /\ rev' = rev + 1
                     /\ \E n \in Nodes : node' = [node EXCEPT ![n] = node[n] + 1]
<1>1. ASSUME TypeOK, AgentInv, Next
      PROVE  Bump
  <2>1. ASSUME NEW r \in Requests, Apply(r)
        PROVE  Bump
    <3>1. /\ node[req[r].body.node] = req[r].body.nodeExpected
          /\ req[r].body.node \in Nodes
      BY <1>1, <2>1, ApplyInv DEF Apply, TypeOK, Meaningful, Locked
    <3>2. QED
      BY <2>1, <3>1 DEF Apply
  <2>2. ASSUME NEW n \in Nodes, Edit(n)
        PROVE  Bump
    BY <2>2 DEF Edit
  <2>3. ASSUME NEW r \in Requests, Step(r), ~Apply(r)
        PROVE  UNCHANGED <<rev, node>>
    BY <2>3 DEF Step, Auth, CheckScope, ReadProposal, ReadGrant, AcquireStripe, Lookup,
       Validate, Claim, ApplyFails, Store, Reject, BusyTimeout
  <2>4. ASSUME NEW r \in Requests, AgentArrival(r) \/ ReviewArrival(r)
        PROVE  UNCHANGED <<rev, node>>
    BY <2>4 DEF AgentArrival, ReviewArrival, ArriveAgent, ArriveReview
  <2>5. ASSUME NEW g \in Grants, CreateGrant(g) \/ Deactivate(g)
        PROVE  UNCHANGED <<rev, node>>
    BY <2>5 DEF CreateGrant, Deactivate
  <2>6. QED
    BY <1>1, <2>1, <2>2, <2>3, <2>4, <2>5 DEF Next
<1>2. ASSUME TypeOK, AgentInv, [Next]_vars
      PROVE  [Bump]_vars
  BY <1>1, <1>2
<1>3. QED
  BY <1>2, AgentTypes, AgentInvariant, PTL DEF Spec, NodeBumpedOnce
=============================================================================
