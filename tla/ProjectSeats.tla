---------------------------- MODULE ProjectSeats ----------------------------
(***************************************************************************)
(* Concurrent requests that create, import, update and delete projects     *)
(* (src/backend/api/routes.py, api/revisions.py).  Three mechanisms meet:  *)
(* the compare-and-swap on projects.revision, the writer lock that SQLite  *)
(* keeps from the first write of a transaction to its end, and the         *)
(* asyncio lock that serialises the seat check of the free desktop         *)
(* edition.  A request is cut at every await between them: statements      *)
(* before the first write see the committed database of their own moment.  *)
(***************************************************************************)
EXTENDS Naturals, FiniteSets

CONSTANTS Projects,   \* project ids, never reused
          Requests,   \* concurrent HTTP requests
          NoProject,  \* the project of an idle request
          Nobody,     \* a lock that is free
          Limit,      \* entitlement.max_active_projects
          MaxRev      \* bound on projects.revision

ASSUME ProjectsAssumption == IsFiniteSet(Projects) /\ NoProject \notin Projects
ASSUME RequestsAssumption == Nobody \notin Requests
ASSUME BoundsAssumption == Limit \in Nat /\ MaxRev \in Nat

VARIABLES status,  \* projects.status
          rev,     \* projects.revision, 0 before the project exists
          req,     \* what each request is doing
          writer,  \* the request that holds SQLite's writer lock
          seat     \* the request that holds _project_seat_lock

vars == <<status, rev, req, writer, seat>>

Status == {"none", "active", "archived", "deleted"}

\* expected is the revision the client sends, 0 for create_project and
\* import_project_json; seen is the status the handler read; target is what it
\* writes, "keep" for an update without a status.
Request == [pc       : {"idle", "read", "claim", "seat", "count", "insert", "write",
                        "release"},
            project  : Projects \cup {NoProject},
            expected : Nat,
            seen     : Status,
            target   : {"active", "archived", "keep", "deleted"}]

Idle == [pc |-> "idle", project |-> NoProject, expected |-> 0, seen |-> "none",
         target |-> "keep"]

Init ==
  /\ status = [p \in Projects |-> "none"]
  /\ rev = [p \in Projects |-> 0]
  /\ req = [r \in Requests |-> Idle]
  /\ writer = Nobody
  /\ seat = Nobody

Active == {p \in Projects : status[p] = "active"}

\* The request needs a seat: it turns a project that is not active active.
Activates(q) == q.target = "active" /\ q.seen # "active"

GoTo(r, pc) == req' = [req EXCEPT ![r].pc = pc]

Freed(lock, r) == IF lock = r THEN Nobody ELSE lock

\* The handler returns or raises: the session rolls back what it has not
\* committed and the async with block releases the seat lock.
Return(r) ==
  /\ req' = [req EXCEPT ![r] = Idle]
  /\ writer' = Freed(writer, r)
  /\ seat' = Freed(seat, r)

-----------------------------------------------------------------------------
(* Arrival. *)

\* create_project, or import_project_json with the status of the exported
\* project; only an active one asks for the seat lock.
ArriveNew(r, p, target) ==
  /\ req[r].pc = "idle"
  /\ status[p] = "none"
  /\ \A q \in Requests : req[q].project # p
  /\ req' = [req EXCEPT ![r] =
               [pc |-> IF target = "active" THEN "seat" ELSE "insert", project |-> p,
                expected |-> 0, seen |-> "none", target |-> target]]
  /\ UNCHANGED <<status, rev, writer, seat>>

\* update_project or delete_project, with a revision the client has been shown.
Arrive(r, p, expected, target) ==
  /\ req[r].pc = "idle"
  /\ expected \in 1..rev[p]
  /\ rev[p] < MaxRev
  /\ req' = [req EXCEPT ![r] =
               [pc |-> "read", project |-> p, expected |-> expected,
                seen |-> "none", target |-> target]]
  /\ UNCHANGED <<status, rev, writer, seat>>

-----------------------------------------------------------------------------
(* update_project and delete_project up to the claim. *)

Read(r) ==
  LET p == req[r].project
  IN /\ req[r].pc = "read"
     /\ IF status[p] = "deleted"
          THEN Return(r)
          ELSE /\ req' = [req EXCEPT ![r].pc = "claim", ![r].seen = status[p]]
               /\ UNCHANGED <<writer, seat>>
     /\ UNCHANGED <<status, rev>>

\* Mutant of Claim: the row count of the UPDATE is not looked at.
ClaimUnchecked(r) ==
  /\ req[r].pc = "claim"
  /\ writer = Nobody
  /\ writer' = r
  /\ GoTo(r, IF Activates(req[r]) THEN "seat" ELSE "write")
  /\ UNCHANGED <<status, rev, seat>>

\* claim_project_revision: no row matches once another request has committed.
Claim(r) ==
  /\ req[r].pc = "claim"
  /\ writer = Nobody
  /\ IF /\ status[req[r].project] # "deleted"
        /\ rev[req[r].project] = req[r].expected
       THEN /\ writer' = r
            /\ GoTo(r, IF Activates(req[r]) THEN "seat" ELSE "write")
            /\ UNCHANGED seat
       ELSE Return(r)
  /\ UNCHANGED <<status, rev>>

-----------------------------------------------------------------------------
(* The seat, the write and the commit. *)

\* Mutant of AcquireSeat: the seat check is not serialised.
AcquireSeatUnlocked(r) ==
  /\ req[r].pc = "seat"
  /\ GoTo(r, "count")
  /\ UNCHANGED <<status, rev, writer, seat>>

AcquireSeat(r) ==
  /\ req[r].pc = "seat"
  /\ seat = Nobody
  /\ seat' = r
  /\ GoTo(r, "count")
  /\ UNCHANGED <<status, rev, writer>>

\* _require_active_project_seat
Count(r) ==
  /\ req[r].pc = "count"
  /\ IF Cardinality(Active) >= Limit
       THEN Return(r)
       ELSE /\ GoTo(r, IF req[r].expected = 0 THEN "insert" ELSE "write")
            /\ UNCHANGED <<writer, seat>>
  /\ UNCHANGED <<status, rev>>

\* The first flush of a new project.
Insert(r) ==
  /\ req[r].pc = "insert"
  /\ writer = Nobody
  /\ writer' = r
  /\ GoTo(r, "write")
  /\ UNCHANGED <<status, rev, seat>>

\* Mutant of BusyTimeout: a writer waits without limit.
NeverTimesOut(r) == FALSE /\ UNCHANGED vars

\* "database is locked": SQLite gives up waiting for the writer lock.
BusyTimeout(r) ==
  /\ req[r].pc \in {"claim", "insert"}
  /\ writer # Nobody
  /\ Return(r)
  /\ UNCHANGED <<status, rev>>

\* Mutant of Commit: the revision of the project is not advanced.
CommitWithoutBump(r) ==
  LET p == req[r].project
  IN /\ req[r].pc = "write"
     /\ status' = [status EXCEPT ![p] =
                     IF req[r].target = "keep" THEN status[p] ELSE req[r].target]
     /\ rev' = [rev EXCEPT ![p] = IF req[r].expected = 0 THEN 1 ELSE rev[p]]
     /\ writer' = Nobody
     /\ GoTo(r, "release")
     /\ UNCHANGED seat

Commit(r) ==
  LET p == req[r].project
  IN /\ req[r].pc = "write"
     /\ status' = [status EXCEPT ![p] =
                     IF req[r].target = "keep" THEN status[p] ELSE req[r].target]
     /\ rev' = [rev EXCEPT ![p] = rev[p] + 1]
     /\ writer' = Nobody
     /\ GoTo(r, "release")
     /\ UNCHANGED seat

\* After the refresh of the committed row.
Release(r) ==
  /\ req[r].pc = "release"
  /\ Return(r)
  /\ UNCHANGED <<status, rev>>

-----------------------------------------------------------------------------
Step(r) ==
  \/ Read(r) \/ Claim(r) \/ Count(r) \/ Insert(r) \/ BusyTimeout(r)
  \/ Commit(r) \/ Release(r)

Arrival(r) ==
  \E p \in Projects :
    \/ \E target \in {"active", "archived"} : ArriveNew(r, p, target)
    \/ \E expected \in 1..MaxRev, target \in {"active", "archived", "keep", "deleted"} :
         Arrive(r, p, expected, target)

Next == \E r \in Requests : Arrival(r) \/ Step(r) \/ AcquireSeat(r)

Spec == Init /\ [][Next]_vars

\* A request runs to its end, a wait for the writer lock ends with the lock or
\* with the busy timeout, and asyncio.Lock serves its waiters first come, first
\* served.
FairSpec ==
  /\ Spec
  /\ \A r \in Requests : WF_vars(Step(r)) /\ SF_vars(AcquireSeat(r))

-----------------------------------------------------------------------------
(* Properties. *)

\* Every variable has its type; a lock belongs to a request that is executing.
TypeOK ==
  /\ status \in [Projects -> Status]
  /\ rev \in [Projects -> Nat]
  /\ req \in [Requests -> Request]
  /\ writer \in Requests \cup {Nobody}
  /\ seat \in Requests \cup {Nobody}
  /\ \A r \in Requests : req[r].pc # "idle" => req[r].project \in Projects
  /\ \A r \in Requests : req[r].pc = "idle" => r \notin {writer, seat}

\* Concurrent create, restore and import activations never exceed the limit of
\* active projects: nobody else can activate between a count and its commit.
SeatsRespected == Cardinality(Active) <= Limit

\* What a handler read before it claimed the revision is still true whenever it
\* holds the writer lock: the status it decides on is the status it replaces.
ReadStillTrue ==
  \A r \in Requests : writer = r => status[req[r].project] = req[r].seen

\* A request that lost its race changes nothing: a project changes only in a
\* commit that was sent the revision it replaces, and every such commit
\* publishes a new one, so that no revision is used twice.
NoLostUpdate ==
  [][\A p \in Projects :
       status'[p] # status[p] \/ rev'[p] # rev[p] =>
         /\ rev'[p] = rev[p] + 1
         /\ \E r \in Requests : writer = r /\ req[r].project = p
                                  /\ req[r].expected = rev[p]]_vars

\* The inductive invariant behind the three properties above.  Where a request
\* is tells which locks it has ...
HoldsWriter(q) == q.pc = "write" \/ (q.expected # 0 /\ q.pc \in {"seat", "count"})

HoldsSeat(q) ==
  q.pc = "count" \/ (Activates(q) /\ q.pc \in {"insert", "write", "release"})

LocksMatch ==
  \A r \in Requests :
    /\ writer = r <=> HoldsWriter(req[r])
    /\ seat = r <=> HoldsSeat(req[r])
    /\ req[r].pc \in {"seat", "count"} => Activates(req[r])
    /\ req[r].pc \in {"read", "claim"} => req[r].expected # 0
    /\ req[r].pc = "insert" => req[r].expected = 0

\* ... a project that is being created is known to its creator only ...
Fresh ==
  /\ \A p \in Projects : status[p] = "none" => rev[p] = 0
  /\ \A r \in Requests :
       req[r].expected = 0 /\ req[r].pc \in {"seat", "count", "insert", "write"} =>
         /\ req[r].seen = "none" /\ req[r].target # "keep"
         /\ status[req[r].project] = "none"
         /\ \A q \in Requests \ {r} : req[q].project # req[r].project

\* ... what a request read can be outdated only if the revision it was sent is
\* outdated too ...
Current ==
  \A r \in Requests :
    req[r].expected # 0 =>
      /\ rev[req[r].project] >= req[r].expected
      /\ \/ req[r].pc = "claim" /\ rev[req[r].project] = req[r].expected
         \/ writer = r
         => status[req[r].project] = req[r].seen
      /\ writer = r => rev[req[r].project] = req[r].expected

\* ... and a request that passed the seat check still has its seat.
Seated ==
  \A r \in Requests :
    Activates(req[r]) /\ req[r].pc \in {"insert", "write"} =>
      Cardinality(Active) < Limit

SeatInv == LocksMatch /\ Fresh /\ Current /\ Seated

\* Every request is answered, although a restore takes the writer lock before
\* the seat lock and a creation takes them in the opposite order.
EveryRequestEnds == \A r \in Requests : req[r].pc # "idle" ~> req[r].pc = "idle"
=============================================================================
