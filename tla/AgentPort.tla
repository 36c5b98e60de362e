------------------------------ MODULE AgentPort ------------------------------
(***************************************************************************)
(* The Agent Port (src/backend/agent_port/service.py, routes.py): agents   *)
(* with a grant send batches that change the canon at once, or proposals   *)
(* that a human approves or rejects later.  Both are idempotent: a         *)
(* receipt, unique per grant and key, is written in the transaction of the *)
(* change, and a process-local lock serialises the requests of one key.    *)
(*                                                                         *)
(* A request is cut at every await that lets another one commit.  Reads    *)
(* before the first write see the committed rows of their own moment; from *)
(* the first write on the request holds SQLite's writer lock.  A batch     *)
(* stands for its operation on one existing node, the body for what        *)
(* request_digest covers.                                                  *)
(***************************************************************************)
EXTENDS Naturals

CONSTANTS Grants,     \* agent_grants
          Writers,    \* the grants with permission "write"; the others propose
          Keys,       \* idempotency keys other than those of approvals
          Proposals,  \* proposal ids, also the keys of their approvals
          Nodes,      \* canonical nodes that a batch may touch
          Requests,   \* concurrent HTTP requests
          None,       \* no grant, no key, no proposal, no node
          Nobody,     \* a lock that is free
          MaxRev      \* bound on projects.revision

ASSUME GrantsAssumption == Writers \subseteq Grants /\ None \notin Grants
ASSUME KeysAssumption == None \notin Keys \cup Proposals \cup Nodes
ASSUME RequestsAssumption == Nobody \notin Requests
ASSUME RevAssumption == MaxRev \in Nat

VARIABLES grant,     \* agent_grants: absent, active, or revoked or expired
          proposal,  \* agent_proposals
          receipt,   \* agent_receipts by grant and key
          applied,   \* how often the batch of a grant and key changed the canon
          rev,       \* projects.revision
          node,      \* nodes.revision
          req,       \* what each request is doing
          stripe,    \* idempotency_lock
          writer     \* the request that holds SQLite's writer lock

vars == <<grant, proposal, receipt, applied, rev, node, req, stripe, writer>>

-----------------------------------------------------------------------------
(* Types. *)

Slots == Grants \X (Keys \cup Proposals)

\* What the digest of a request covers; an event or a readback is a "record".
Body == [kind : {"none", "batch", "proposal", "record"}, expected : Nat,
         node : Nodes \cup {None}, nodeExpected : Nat]

NoBody == [kind |-> "none", expected |-> 0, node |-> None, nodeExpected |-> 0]

Proposal == [status : {"none", "pending", "approved", "rejected"},
             grant  : Grants \cup {None},
             body   : Body]

NoProposal == [status |-> "none", grant |-> None, body |-> NoBody]

\* dirty: the reviewer's note differs from the stored one, so that the first
\* query of apply_batch flushes the proposal row.
Request == [pc       : {"idle", "auth", "scope", "review", "grant", "lock",
                        "lookup", "validate", "claim", "apply", "store", "reject"},
            op       : {"batch", "propose", "record", "approve", "reject"},
            grant    : Grants \cup {None},
            key      : Keys \cup Proposals \cup {None},
            proposal : Proposals \cup {None},
            body     : Body,
            dirty    : BOOLEAN]

Idle == [pc |-> "idle", op |-> "batch", grant |-> None, key |-> None,
         proposal |-> None, body |-> NoBody, dirty |-> FALSE]

Init ==
  /\ grant = [g \in Grants |-> "absent"]
  /\ proposal = [p \in Proposals |-> NoProposal]
  /\ receipt = [s \in Slots |-> NoBody]
  /\ applied = [s \in Slots |-> 0]
  /\ rev = 1
  /\ node = [n \in Nodes |-> 1]
  /\ req = [r \in Requests |-> Idle]
  /\ stripe = [s \in Slots |-> Nobody]
  /\ writer = Nobody

Slot(r) == <<req[r].grant, req[r].key>>

\* agent_proposals once a verdict has been written to one of its rows
Verdict(p, status) == [proposal EXCEPT ![p] = [proposal[p] EXCEPT !.status = status]]

\* The stored proposal as the BatchRequest of its approval.
AsBatch(body) == [body EXCEPT !.kind = "batch"]

GoTo(r, pc) == req' = [req EXCEPT ![r] = [req[r] EXCEPT !.pc = pc]]

\* The handler returns or raises: the session is rolled back and the finally
\* block releases the lock of the key.
Return(r) ==
  /\ req' = [req EXCEPT ![r] = Idle]
  /\ stripe' = [s \in Slots |-> IF stripe[s] = r THEN Nobody ELSE stripe[s]]
  /\ writer' = IF writer = r THEN Nobody ELSE writer

-----------------------------------------------------------------------------
(* Arrival. *)

\* POST /batch, /proposals, /events and /readbacks, with revisions that the agent
\* has been shown; a retry repeats key and body.  Nothing keeps an agent from
\* choosing the key of an approval.
ArriveAgent(r, op, g, k, p, body) ==
  /\ req[r].pc = "idle"
  /\ grant[g] # "absent"
  /\ body.expected <= rev
  /\ body.nodeExpected <= node[body.node]
  /\ op = "propose" => /\ proposal[p].status = "none"
                       /\ \A q \in Requests : req[q].proposal # p
  /\ req' = [req EXCEPT ![r] = [pc |-> "auth", op |-> op, grant |-> g, key |-> k,
                                proposal |-> p, body |-> body, dirty |-> FALSE]]
  /\ UNCHANGED <<grant, proposal, receipt, applied, rev, node, stripe, writer>>

\* POST /proposals/{id}/approve or reject, by a human.
ArriveReview(r, op, p, dirty) ==
  /\ req[r].pc = "idle"
  /\ proposal[p].status # "none"
  /\ req' = [req EXCEPT ![r] = [pc |-> "review", op |-> op, grant |-> None,
                                key |-> None, proposal |-> p, body |-> NoBody,
                                dirty |-> dirty]]
  /\ UNCHANGED <<grant, proposal, receipt, applied, rev, node, stripe, writer>>

-----------------------------------------------------------------------------
(* Up to the lock of the key. *)

\* auth reads the grant, applies the rate limit and commits last_used_at; require
\* compares permissions.
Auth(r) ==
  /\ req[r].pc = "auth"
  /\ writer = Nobody
  /\ \/ /\ grant[req[r].grant] = "active"
        /\ req[r].op = "batch" => req[r].grant \in Writers
        /\ GoTo(r, IF req[r].op = "batch" THEN "lock" ELSE "scope")
        /\ UNCHANGED <<stripe, writer>>
     \/ Return(r)
  /\ UNCHANGED <<grant, proposal, receipt, applied, rev, node>>

\* validate_scope, and for a proposal validate_operations, before the lock.
CheckScope(r) ==
  /\ req[r].pc = "scope"
  /\ \/ /\ req[r].op = "propose" => node[req[r].body.node] = req[r].body.nodeExpected
        /\ GoTo(r, "lock")
        /\ UNCHANGED <<stripe, writer>>
     \/ Return(r)
  /\ UNCHANGED <<grant, proposal, receipt, applied, rev, node>>

\* review reads the proposal.
ReadProposal(r) ==
  LET p == req[r].proposal
  IN /\ req[r].pc = "review"
     /\ IF proposal[p].status # "pending"
          THEN Return(r)
          ELSE /\ IF req[r].op = "reject"
                    THEN GoTo(r, "reject")
                    ELSE req' = [req EXCEPT ![r] =
                                   [req[r] EXCEPT !.pc = "grant", !.key = p,
                                      !.grant = proposal[p].grant,
                                      !.body = AsBatch(proposal[p].body)]]
               /\ UNCHANGED <<stripe, writer>>
     /\ UNCHANGED <<grant, proposal, receipt, applied, rev, node>>

\* ... and, for an approval, the grant.
ReadGrant(r) ==
  /\ req[r].pc = "grant"
  /\ IF grant[req[r].grant] = "active"
       THEN GoTo(r, "lock") /\ UNCHANGED <<stripe, writer>>
       ELSE Return(r)
  /\ UNCHANGED <<grant, proposal, receipt, applied, rev, node>>

\* idempotency_lock
AcquireStripe(r) ==
  /\ req[r].pc = "lock"
  /\ stripe[Slot(r)] = Nobody
  /\ stripe' = [stripe EXCEPT ![Slot(r)] = r]
  /\ GoTo(r, "lookup")
  /\ UNCHANGED <<grant, proposal, receipt, applied, rev, node, writer>>

\* The receipt of an earlier request with the key answers this one, whether it
\* matches (the stored response) or not (409); a stale revision is refused.  A
\* changed review note is flushed by the first query.  An approval that is
\* answered so leaves its proposal as it was.
Lookup(r) ==
  /\ req[r].pc = "lookup"
  /\ req[r].dirty => writer = Nobody
  /\ IF \/ receipt[Slot(r)] # NoBody
        \/ req[r].op # "record" /\ req[r].body.expected # rev
       THEN Return(r)
       ELSE /\ GoTo(r, IF req[r].op \in {"propose", "record"} THEN "store" ELSE "validate")
            /\ writer' = IF req[r].dirty THEN r ELSE writer
            /\ UNCHANGED stripe
  /\ UNCHANGED <<grant, proposal, receipt, applied, rev, node>>

-----------------------------------------------------------------------------
(* The canonical write of apply_batch. *)

\* Mutant of Validate: the revision of the node is not compared.
ValidateUnchecked(r) ==
  /\ req[r].pc = "validate"
  /\ GoTo(r, "claim")
  /\ UNCHANGED <<grant, proposal, receipt, applied, rev, node, stripe, writer>>

\* validate_operations: the revisions of the entities the batch refers to; its
\* other checks (references, scope, branches) refuse the batch as a whole.
Validate(r) ==
  /\ req[r].pc = "validate"
  /\ \/ /\ node[req[r].body.node] = req[r].body.nodeExpected
        /\ GoTo(r, "claim")
        /\ UNCHANGED <<stripe, writer>>
     \/ Return(r)
  /\ UNCHANGED <<grant, proposal, receipt, applied, rev, node>>

\* Mutant of Claim: the project revision is not part of the UPDATE.
ClaimUnchecked(r) ==
  /\ req[r].pc = "claim"
  /\ writer \in {Nobody, r}
  /\ writer' = r /\ GoTo(r, "apply") /\ UNCHANGED stripe
  /\ UNCHANGED <<grant, proposal, receipt, applied, rev, node>>

\* UPDATE projects SET revision=expected+1 WHERE revision=expected
Claim(r) ==
  /\ req[r].pc = "claim"
  /\ writer \in {Nobody, r}
  /\ IF rev = req[r].body.expected
       THEN writer' = r /\ GoTo(r, "apply") /\ UNCHANGED stripe
       ELSE Return(r)
  /\ UNCHANGED <<grant, proposal, receipt, applied, rev, node>>

\* Mutant of Apply: no receipt is written with the change.
ApplyWithoutReceipt(r) ==
  /\ req[r].pc = "apply"
  /\ rev' = rev + 1
  /\ node' = [node EXCEPT ![req[r].body.node] = req[r].body.nodeExpected + 1]
  /\ applied' = [applied EXCEPT ![Slot(r)] = applied[Slot(r)] + 1]
  /\ proposal' = IF req[r].op = "approve"
                   THEN Verdict(req[r].proposal, "approved")
                   ELSE proposal
  /\ Return(r)
  /\ UNCHANGED <<grant, receipt>>

\* Mutant of Apply: the proposal is not marked.
ApplyWithoutVerdict(r) ==
  /\ req[r].pc = "apply"
  /\ receipt[Slot(r)] = NoBody
  /\ rev' = rev + 1
  /\ node' = [node EXCEPT ![req[r].body.node] = req[r].body.nodeExpected + 1]
  /\ receipt' = [receipt EXCEPT ![Slot(r)] = req[r].body]
  /\ applied' = [applied EXCEPT ![Slot(r)] = applied[Slot(r)] + 1]
  /\ Return(r)
  /\ UNCHANGED <<grant, proposal>>

\* The operation, the bump of the touched node from the row that was validated,
\* the receipt and the verdict of the proposal, in one commit.
Apply(r) ==
  /\ req[r].pc = "apply"
  /\ receipt[Slot(r)] = NoBody
  /\ rev' = rev + 1
  /\ node' = [node EXCEPT ![req[r].body.node] = req[r].body.nodeExpected + 1]
  /\ receipt' = [receipt EXCEPT ![Slot(r)] = req[r].body]
  /\ applied' = [applied EXCEPT ![Slot(r)] = applied[Slot(r)] + 1]
  /\ proposal' = IF req[r].op = "approve"
                   THEN Verdict(req[r].proposal, "approved")
                   ELSE proposal
  /\ Return(r)
  /\ UNCHANGED grant

\* The unique index of receipts, another constraint or the flush fails: the
\* transaction is rolled back and the winner's receipt, if any, is the answer.
ApplyFails(r) ==
  /\ req[r].pc = "apply"
  /\ Return(r)
  /\ UNCHANGED <<grant, proposal, receipt, applied, rev, node>>

-----------------------------------------------------------------------------
(* The other writes. *)

\* store_once: the proposal, if it is one, and the receipt of the request.
Store(r) ==
  /\ req[r].pc = "store"
  /\ writer = Nobody
  /\ receipt[Slot(r)] = NoBody
  /\ receipt' = [receipt EXCEPT ![Slot(r)] = req[r].body]
  /\ proposal' = IF req[r].op = "propose"
                   THEN [proposal EXCEPT ![req[r].proposal] =
                           [status |-> "pending", grant |-> req[r].grant,
                            body |-> req[r].body]]
                   ELSE proposal
  /\ Return(r)
  /\ UNCHANGED <<grant, applied, rev, node>>

Reject(r) ==
  /\ req[r].pc = "reject"
  /\ writer = Nobody
  /\ proposal' = Verdict(req[r].proposal, "rejected")
  /\ Return(r)
  /\ UNCHANGED <<grant, receipt, applied, rev, node>>

\* "database is locked"
BusyTimeout(r) ==
  /\ \/ req[r].pc \in {"auth", "claim", "store", "reject"}
     \/ req[r].pc = "lookup" /\ req[r].dirty
  /\ writer \notin {Nobody, r}
  /\ Return(r)
  /\ UNCHANGED <<grant, proposal, receipt, applied, rev, node>>

CreateGrant(g) ==
  /\ writer = Nobody
  /\ grant[g] = "absent"
  /\ grant' = [grant EXCEPT ![g] = "active"]
  /\ UNCHANGED <<proposal, receipt, applied, rev, node, req, stripe, writer>>

\* revoke, or the expiry of the grant
Deactivate(g) ==
  /\ writer = Nobody
  /\ grant[g] = "active"
  /\ grant' = [grant EXCEPT ![g] = "inactive"]
  /\ UNCHANGED <<proposal, receipt, applied, rev, node, req, stripe, writer>>

\* update_node through the project API
Edit(n) ==
  /\ writer = Nobody
  /\ rev < MaxRev
  /\ rev' = rev + 1
  /\ node' = [node EXCEPT ![n] = node[n] + 1]
  /\ UNCHANGED <<grant, proposal, receipt, applied, req, stripe, writer>>

-----------------------------------------------------------------------------
Step(r) ==
  \/ Auth(r) \/ CheckScope(r) \/ ReadProposal(r) \/ ReadGrant(r) \/ AcquireStripe(r)
  \/ Lookup(r)
  \/ Validate(r) \/ Claim(r) \/ Apply(r) \/ ApplyFails(r)
  \/ Store(r) \/ Reject(r) \/ BusyTimeout(r)

\* Events and readbacks carry no revisions.
AgentArrival(r) ==
  \E g \in Grants, k \in Keys \cup Proposals, n \in Nodes :
    LET body(kind, expected, nodeExpected) ==
          [kind |-> kind, expected |-> expected, node |-> n, nodeExpected |-> nodeExpected]
    IN \/ ArriveAgent(r, "record", g, k, None, body("record", 0, 0))
       \/ \E expected, nodeExpected \in 1..MaxRev :
            \/ ArriveAgent(r, "batch", g, k, None, body("batch", expected, nodeExpected))
            \/ \E p \in Proposals :
                 ArriveAgent(r, "propose", g, k, p, body("proposal", expected, nodeExpected))

ReviewArrival(r) ==
  \E p \in Proposals, op \in {"approve", "reject"}, dirty \in BOOLEAN :
    ArriveReview(r, op, p, op = "approve" /\ dirty)

Next ==
  \/ \E r \in Requests : AgentArrival(r) \/ ReviewArrival(r) \/ Step(r)
  \/ \E g \in Grants : CreateGrant(g) \/ Deactivate(g)
  \/ \E n \in Nodes : Edit(n)

Spec == Init /\ [][Next]_vars

-----------------------------------------------------------------------------
(* Properties. *)

\* The control points at which a request has the lock of its key.
Locked == {"lookup", "validate", "claim", "apply", "store"}

Typed ==
  /\ grant \in [Grants -> {"absent", "active", "inactive"}]
  /\ proposal \in [Proposals -> Proposal]
  /\ receipt \in [Slots -> Body]
  /\ applied \in [Slots -> Nat]
  /\ rev \in Nat
  /\ node \in [Nodes -> Nat]
  /\ req \in [Requests -> Request]
  /\ stripe \in [Slots -> Requests \cup {Nobody}]
  /\ writer \in Requests \cup {Nobody}

\* A stored proposal has a grant and a node.
ProposalsMeaningful ==
  \A p \in Proposals :
    proposal[p].status # "none" =>
      proposal[p].grant \in Grants /\ proposal[p].body.node \in Nodes

\* A request knows what it is about from the moment it needs it.
Meaningful(q) ==
  /\ q.pc \in {"auth", "scope", "grant", "lock"} \cup Locked =>
       /\ q.op # "reject"
       /\ q.grant \in Grants
       /\ q.key \in Keys \cup Proposals
       /\ q.body.node \in Nodes
  /\ q.pc # "idle" /\ q.op \in {"propose", "approve", "reject"} =>
       q.proposal \in Proposals
  /\ q.pc \in {"validate", "claim", "apply"} => q.op \in {"batch", "approve"}
  /\ q.pc = "store" => q.op \in {"propose", "record"}
  /\ q.pc = "review" => q.op \in {"approve", "reject"}
  /\ q.pc = "reject" => q.op = "reject"
  /\ q.pc = "grant" => q.op = "approve"
  /\ q.pc \in {"auth", "scope"} => q.op # "approve"
  /\ q.dirty => q.op = "approve"

\* A review is about a proposal that has been stored.
ReviewsStored ==
  \A r \in Requests :
    req[r].pc # "idle" /\ req[r].op \in {"approve", "reject"} =>
      proposal[req[r].proposal].status # "none"

HoldsWriter(q) == q.pc = "apply" \/ (q.dirty /\ q.pc \in {"validate", "claim"})

\* Where a request is tells which locks it has.
LocksMatch ==
  \A r \in Requests :
    /\ \A s \in Slots : stripe[s] = r <=> req[r].pc \in Locked /\ s = Slot(r)
    /\ writer = r <=> HoldsWriter(req[r])

\* Every variable has its type, a request knows what it is about, and no path
\* keeps a lock or frees one too early: the finally blocks of apply_batch and
\* store_once and the end of the session free exactly what was taken.
TypeOK ==
  /\ Typed
  /\ ProposalsMeaningful
  /\ \A r \in Requests : Meaningful(req[r])
  /\ ReviewsStored
  /\ LocksMatch

\* Idempotency: a batch or an approval changes the canon at most once for its
\* key, and exactly when its receipt is there to answer a retry.
ReceiptTellsWrites ==
  \A s \in Slots : applied[s] = IF receipt[s].kind = "batch" THEN 1 ELSE 0

\* Two writers that were shown the same project revision: exactly one of them
\* changes the canon.
OneWriterPerRevision ==
  \A s, t \in Slots :
    receipt[s].kind = "batch" /\ receipt[t].kind = "batch"
      /\ receipt[s].expected = receipt[t].expected => s = t

\* Behind an approved proposal is one change, of exactly its operations, under its
\* key ...
ApprovedWasWritten ==
  \A p \in Proposals :
    proposal[p].status = "approved" =>
      /\ applied[<<proposal[p].grant, p>>] = 1
      /\ receipt[<<proposal[p].grant, p>>] = AsBatch(proposal[p].body)

\* ... and a grant without permission to write has changed the canon only by
\* proposals of its own that were approved; a rejection that came late may have
\* overwritten the verdict.
UnpermittedWasReviewed ==
  \A s \in Slots :
    s[1] \notin Writers /\ applied[s] > 0 =>
      /\ s[2] \in Proposals
      /\ proposal[s[2]].grant = s[1]
      /\ proposal[s[2]].status \in {"approved", "rejected"}

\* What a human let through is what was written, although an agent may choose the
\* key of an approval for a request of its own: a writer may spend it on a batch,
\* and the approval is then answered from that receipt and the proposal stays
\* pending.
VerdictTellsWrites == ApprovedWasWritten /\ UnpermittedWasReviewed

\* A canonical write advances the project and the node it touches by one, together,
\* and the node from the revision it has, never from the older one that the batch
\* was validated against.
NodeBumpedOnce ==
  [][rev' # rev \/ node' # node =>
       /\ rev' = rev + 1
       /\ \E n \in Nodes : node' = [node EXCEPT ![n] = node[n] + 1]]_vars

-----------------------------------------------------------------------------
(* The inductive invariant. *)

\* A request that looked its key up has it for itself ...
KeyIsFree ==
  \A r \in Requests :
    req[r].pc \in {"validate", "claim", "apply", "store"} => receipt[Slot(r)] = NoBody

\* ... what it validated is outdated only if the revision it was sent is ...
ValidatedIsCurrent ==
  \A r \in Requests :
    /\ req[r].pc # "idle" => req[r].body.expected <= rev
    /\ \/ req[r].pc = "claim" /\ rev = req[r].body.expected
       \/ req[r].pc = "apply"
       => node[req[r].body.node] = req[r].body.nodeExpected
    /\ req[r].pc = "apply" => rev = req[r].body.expected

\* ... a change was made at a revision that has passed ...
PastRevisions ==
  /\ \A s \in Slots : receipt[s].kind = "batch" => receipt[s].expected < rev
  /\ \A p \in Proposals : proposal[p].body.expected <= rev

\* ... a proposal that is being stored is nobody else's, an approval is about the
\* stored one, and a batch comes from a writer.
OwnProposal ==
  \A r \in Requests :
    /\ req[r].pc # "idle" /\ req[r].op = "propose" =>
         /\ proposal[req[r].proposal].status = "none"
         /\ \A q \in Requests \ {r} : req[q].proposal # req[r].proposal
    /\ req[r].pc \in {"grant", "lock"} \cup Locked /\ req[r].op = "approve" =>
         /\ req[r].key = req[r].proposal
         /\ req[r].grant = proposal[req[r].proposal].grant
         /\ req[r].body = AsBatch(proposal[req[r].proposal].body)
    /\ req[r].pc \in {"auth", "scope", "lock"} \cup Locked /\ req[r].op # "approve" =>
         /\ req[r].op = "batch" <=> req[r].body.kind = "batch"
         /\ req[r].body.kind # "none"
    /\ req[r].pc \in {"scope", "lock"} \cup Locked /\ req[r].op = "batch" =>
         req[r].grant \in Writers

AgentInv ==
  /\ KeyIsFree /\ ValidatedIsCurrent /\ PastRevisions /\ OwnProposal
  /\ ReceiptTellsWrites /\ OneWriterPerRevision /\ VerdictTellsWrites
=============================================================================
