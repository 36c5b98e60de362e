--------------------------- MODULE ArtifactReview ---------------------------
(***************************************************************************)
(* Agent work sessions and the review of the artifacts proposed in them    *)
(* (src/backend/api/routes.py): concurrent requests read the row they      *)
(* decide on, and write it in a later transaction.  approve_agent_artifact *)
(* claims the project revision before it writes; reject_agent_artifact,    *)
(* create_agent_artifact and update_agent_session claim nothing.           *)
(***************************************************************************)
EXTENDS Naturals

CONSTANTS Artifacts,   \* artifact ids
          Requests,    \* concurrent HTTP requests
          NoArtifact,  \* the artifact of a request about the session itself
          Nobody,      \* SQLite's writer lock is free
          MaxRev       \* bound on projects.revision

ASSUME IdsAssumption == NoArtifact \notin Artifacts /\ Nobody \notin Requests
ASSUME RevAssumption == MaxRev \in Nat

VARIABLES session,   \* agent_sessions.status
          artifact,  \* agent_artifacts.status, "none" before the artifact exists
          writes,    \* how often the artifact's change was written to the canon
          rev,       \* projects.revision
          req,       \* what each request is doing
          writer     \* the request that holds SQLite's writer lock

vars == <<session, artifact, writes, rev, req, writer>>

SessionStatus == {"idle", "active", "waiting_review", "completed", "cancelled"}

\* AGENT_SESSION_TRANSITIONS
Transitions ==
  [idle           |-> {"active", "cancelled"},
   active         |-> {"waiting_review", "completed", "cancelled"},
   waiting_review |-> {"active", "completed", "cancelled"},
   completed      |-> {},
   cancelled      |-> {}]

\* expected is the project revision that an approval is sent; seen is the
\* session status that an update read, target the one it asks for.
Request == [pc       : {"idle", "read", "claim", "write"},
            op       : {"create", "approve", "reject", "update"},
            artifact : Artifacts \cup {NoArtifact},
            expected : Nat,
            seen     : SessionStatus,
            target   : SessionStatus]

NewRequest(op, a, expected, target) ==
  [pc |-> "read", op |-> op, artifact |-> a, expected |-> expected,
   seen |-> "idle", target |-> target]

Idle == [NewRequest("update", NoArtifact, 0, "idle") EXCEPT !.pc = "idle"]

Init ==
  /\ session = "idle"
  /\ artifact = [a \in Artifacts |-> "none"]
  /\ writes = [a \in Artifacts |-> 0]
  /\ rev = 1
  /\ req = [r \in Requests |-> Idle]
  /\ writer = Nobody

GoTo(r, pc) == req' = [req EXCEPT ![r].pc = pc]

Return(r) == req' = [req EXCEPT ![r] = Idle]

-----------------------------------------------------------------------------
(* Arrival, and what each handler reads first. *)

\* A new artifact has a fresh id; an approval carries a revision that the
\* client has been shown.
Arrive(r, op, a, expected, target) ==
  /\ req[r].pc = "idle"
  /\ op = "create" => artifact[a] = "none" /\ \A q \in Requests : req[q].artifact # a
  /\ op \in {"approve", "reject"} => artifact[a] # "none"
  /\ op = "approve" => expected <= rev
  /\ req' = [req EXCEPT ![r] = NewRequest(op, a, expected, target)]
  /\ UNCHANGED <<session, artifact, writes, rev, writer>>

SessionAllows(q) ==
  \/ q.op = "create" /\ session \in {"active", "waiting_review"}
  \/ q.op = "update" /\ q.target \in Transitions[session] \cup {session}

ReadSession(r) ==
  /\ req[r].pc = "read"
  /\ SessionAllows(req[r])
  /\ req' = [req EXCEPT ![r] = [req[r] EXCEPT !.pc = "write", !.seen = session]]
  /\ UNCHANGED <<session, artifact, writes, rev, writer>>

ReadArtifact(r) ==
  /\ req[r].pc = "read"
  /\ req[r].op \in {"approve", "reject"}
  /\ artifact[req[r].artifact] = "pending"
  /\ GoTo(r, IF req[r].op = "approve" THEN "claim" ELSE "write")
  /\ UNCHANGED <<session, artifact, writes, rev, writer>>

\* 400 or 422: the session is closed, the transition is not allowed, the artifact
\* has already been reviewed, or a part of the request that is abstracted here
\* (payload, scope, target node, result summary) is not acceptable.
Refuse(r) ==
  /\ req[r].pc = "read"
  /\ req[r].op = "reject" => artifact[req[r].artifact] # "pending"
  /\ Return(r)
  /\ UNCHANGED <<session, artifact, writes, rev, writer>>

-----------------------------------------------------------------------------
(* Approval: the claim holds the writer lock until the commit. *)

\* Mutant of Claim: the expected revision is not compared.
ClaimUnchecked(r) ==
  /\ req[r].pc = "claim"
  /\ writer = Nobody
  /\ writer' = r
  /\ GoTo(r, "write")
  /\ UNCHANGED <<session, artifact, writes, rev>>

Claim(r) ==
  /\ req[r].pc = "claim"
  /\ writer = Nobody
  /\ IF rev = req[r].expected
       THEN writer' = r /\ GoTo(r, "write")
       ELSE UNCHANGED writer /\ Return(r)
  /\ UNCHANGED <<session, artifact, writes, rev>>

Apply(r) ==
  /\ req[r].pc = "write"
  /\ req[r].op = "approve"
  /\ writes' = [writes EXCEPT ![req[r].artifact] = writes[req[r].artifact] + 1]
  /\ artifact' = [artifact EXCEPT ![req[r].artifact] = "applied"]
  /\ rev' = rev + 1
  /\ writer' = Nobody
  /\ Return(r)
  /\ UNCHANGED session

\* check_entity_revision: the node revision that came with a valid project
\* revision is not the node's; the claim is rolled back.
NodeConflict(r) ==
  /\ req[r].pc = "write"
  /\ req[r].op = "approve"
  /\ writer' = Nobody
  /\ Return(r)
  /\ UNCHANGED <<session, artifact, writes, rev>>

-----------------------------------------------------------------------------
(* The handlers whose first write is also their commit. *)

Reject(r) ==
  /\ req[r].pc = "write"
  /\ req[r].op = "reject"
  /\ writer = Nobody
  /\ artifact' = [artifact EXCEPT ![req[r].artifact] = "rejected"]
  /\ Return(r)
  /\ UNCHANGED <<session, writes, rev, writer>>

InsertArtifact(r) ==
  /\ req[r].pc = "write"
  /\ req[r].op = "create"
  /\ writer = Nobody
  /\ artifact' = [artifact EXCEPT ![req[r].artifact] = "pending"]
  /\ Return(r)
  /\ UNCHANGED <<session, writes, rev, writer>>

\* The ORM writes the column only if the handler changed what it had read.
UpdateSession(r) ==
  /\ req[r].pc = "write"
  /\ req[r].op = "update"
  /\ writer = Nobody
  /\ session' = IF req[r].target = req[r].seen THEN session ELSE req[r].target
  /\ Return(r)
  /\ UNCHANGED <<artifact, writes, rev, writer>>

\* "database is locked"
BusyTimeout(r) ==
  /\ \/ req[r].pc = "claim"
     \/ req[r].pc = "write" /\ req[r].op # "approve"
  /\ writer # Nobody
  /\ Return(r)
  /\ UNCHANGED <<session, artifact, writes, rev, writer>>

\* Any other canonical mutation of the project.
Edit ==
  /\ writer = Nobody
  /\ rev < MaxRev
  /\ rev' = rev + 1
  /\ UNCHANGED <<session, artifact, writes, req, writer>>

-----------------------------------------------------------------------------
Step(r) ==
  \/ ReadSession(r) \/ ReadArtifact(r) \/ Refuse(r) \/ Claim(r) \/ Apply(r)
  \/ NodeConflict(r) \/ Reject(r) \/ InsertArtifact(r) \/ UpdateSession(r) \/ BusyTimeout(r)

Arrival(r) ==
  \/ \E target \in SessionStatus : Arrive(r, "update", NoArtifact, 0, target)
  \/ \E a \in Artifacts, op \in {"create", "reject"} : Arrive(r, op, a, 0, "idle")
  \/ \E a \in Artifacts, expected \in 1..MaxRev : Arrive(r, "approve", a, expected, "idle")

Next == Edit \/ \E r \in Requests : Arrival(r) \/ Step(r)

Spec == Init /\ [][Next]_vars

-----------------------------------------------------------------------------
(* Properties. *)

\* Every variable has its type, and only an approval holds the writer lock
\* across two steps.
TypeOK ==
  /\ session \in SessionStatus
  /\ artifact \in [Artifacts -> {"none", "pending", "applied", "rejected"}]
  /\ writes \in [Artifacts -> Nat]
  /\ rev \in Nat
  /\ req \in [Requests -> Request]
  /\ writer \in Requests \cup {Nobody}
  /\ \A r \in Requests :
       req[r].pc # "idle" /\ req[r].op # "update" => req[r].artifact \in Artifacts
  /\ \A r \in Requests : req[r].pc = "claim" => req[r].op = "approve"
  /\ \A r \in Requests : writer = r <=> req[r].pc = "write" /\ req[r].op = "approve"

\* The change of an artifact reaches the canon at most once, although racing
\* approvals may all have read the artifact while it was pending: the first to
\* commit advances the revision that the others were sent.
AppliedOnce == \A a \in Artifacts : writes[a] <= 1

\* An artifact that is still pending, or that no approval has written, has left
\* no trace in the canon; one that reads "applied" has been written.
PendingIsUnwritten ==
  \A a \in Artifacts :
    /\ artifact[a] \in {"none", "pending"} => writes[a] = 0
    /\ artifact[a] = "applied" => writes[a] = 1

\* Whatever order the reviews of an artifact commit in, what its status says is
\* what the canon has: nothing for an unreviewed artifact, its change once for an
\* applied one, and never its change twice (approve_agent_artifact).
CanonMatchesStatus == AppliedOnce /\ PendingIsUnwritten

\* The inductive invariant: an approval that holds, or can still get, the
\* revision it was sent is for an artifact that nobody has written.
Unwritten ==
  \A r \in Requests :
    req[r].op = "approve" =>
      /\ req[r].pc \in {"read", "claim", "write"} => req[r].expected <= rev
      /\ req[r].pc = "claim" /\ rev = req[r].expected => writes[req[r].artifact] = 0
      /\ req[r].pc = "write" =>
           rev = req[r].expected /\ writes[req[r].artifact] = 0

\* An artifact that is being created is known to its creator only.
Newborn ==
  \A r \in Requests :
    req[r].pc # "idle" /\ req[r].op = "create" =>
      /\ artifact[req[r].artifact] = "none"
      /\ \A q \in Requests \ {r} : req[q].artifact # req[r].artifact

\* A review is only ever about an artifact that exists.
Reviewed ==
  \A r \in Requests :
    req[r].pc # "idle" /\ req[r].op \in {"approve", "reject"} =>
      artifact[req[r].artifact] # "none"

ReviewInv == Unwritten /\ Newborn /\ Reviewed /\ PendingIsUnwritten /\ AppliedOnce
=============================================================================
