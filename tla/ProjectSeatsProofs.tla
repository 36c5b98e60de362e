-------------------------- MODULE ProjectSeatsProofs --------------------------
(***************************************************************************)
(* Proofs about ProjectSeats, for any number of projects and requests and  *)
(* any seat limit.                                                         *)
(***************************************************************************)
EXTENDS ProjectSeats, FiniteSetTheorems, TLAPS

-----------------------------------------------------------------------------
(* Types. *)

\* Every step of a project request keeps the types and the owners of the locks.
LEMMA SeatTypeStep ==
  ASSUME TypeOK, [Next]_vars
  PROVE  TypeOK'
<1> USE RequestsAssumption, ProjectsAssumption
<1>1. ASSUME NEW r \in Requests, NEW p \in Projects, NEW target \in {"active", "archived"}, ArriveNew(r, p, target)
      PROVE  TypeOK'
  BY <1>1 DEF TypeOK, Request, Status, ArriveNew
<1>2. ASSUME NEW r \in Requests, NEW p \in Projects, NEW expected \in 1..MaxRev,
             NEW target \in {"active", "archived", "keep", "deleted"},
             Arrive(r, p, expected, target)
      PROVE  TypeOK'
  BY <1>2 DEF TypeOK, Request, Status, Arrive
<1>3. ASSUME NEW r \in Requests, Read(r)
      PROVE  TypeOK'
  BY <1>3 DEF TypeOK, Request, Status, Read, Return, Freed, Idle
<1>4. ASSUME NEW r \in Requests, Claim(r)
      PROVE  TypeOK'
  BY <1>4 DEF TypeOK, Request, Status, Claim, Return, Freed, Idle, GoTo
<1>5. ASSUME NEW r \in Requests, AcquireSeat(r)
      PROVE  TypeOK'
  BY <1>5 DEF TypeOK, Request, Status, AcquireSeat, GoTo
<1>6. ASSUME NEW r \in Requests, Count(r)
      PROVE  TypeOK'
  BY <1>6 DEF TypeOK, Request, Status, Count, Return, Freed, Idle, GoTo
<1>7. ASSUME NEW r \in Requests, Insert(r)
      PROVE  TypeOK'
  BY <1>7 DEF TypeOK, Request, Status, Insert, GoTo
<1>8. ASSUME NEW r \in Requests, BusyTimeout(r)
      PROVE  TypeOK'
  BY <1>8 DEF TypeOK, Request, Status, BusyTimeout, Return, Freed, Idle
<1>9. ASSUME NEW r \in Requests, Commit(r)
      PROVE  TypeOK'
  BY <1>9 DEF TypeOK, Request, Status, Commit, GoTo
<1>10. ASSUME NEW r \in Requests, Release(r)
      PROVE  TypeOK'
  BY <1>10 DEF TypeOK, Request, Status, Release, Return, Freed, Idle
<1>11. CASE UNCHANGED vars
  BY <1>11 DEF vars, TypeOK
<1>12. QED
  BY <1>1, <1>2, <1>3, <1>4, <1>5, <1>6, <1>7, <1>8, <1>9, <1>10, <1>11
     DEF Next, Arrival, Step

\* Types are kept and a request that is over holds no lock.
THEOREM SeatTypes == Spec => []TypeOK
<1>1. Init => TypeOK
  BY ProjectsAssumption, RequestsAssumption DEF Init, TypeOK, Request, Status, Idle
<1>2. QED
  BY <1>1, SeatTypeStep, PTL DEF Spec

-----------------------------------------------------------------------------
(* Seats are counted in a finite set. *)

\* The set of active projects is finite, so that counting it means something.
LEMMA ActiveFinite ==
  IsFiniteSet(Active) /\ Cardinality(Active) \in Nat
<1>1. Active \subseteq Projects
  BY DEF Active
<1>2. IsFiniteSet(Active)
  BY <1>1, ProjectsAssumption, FS_Subset
<1>3. QED
  BY <1>2, FS_CardinalityType

\* Leaving the active status does not raise the count.
LEMMA FewerActive ==
  ASSUME Active' \subseteq Active
  PROVE  Cardinality(Active') <= Cardinality(Active) /\ Cardinality(Active') \in Nat
BY ActiveFinite, FS_Subset, FS_CardinalityType

\* One activation raises the count by at most one.
LEMMA OneMoreActive ==
  ASSUME NEW p, Active' \subseteq Active \cup {p}
  PROVE  Cardinality(Active') <= Cardinality(Active) + 1 /\ Cardinality(Active') \in Nat
<1>1. IsFiniteSet(Active \cup {p}) /\ Cardinality(Active \cup {p}) <= Cardinality(Active) + 1
  BY ActiveFinite, FS_AddElement
<1>2. QED
  BY <1>1, ActiveFinite, FS_Subset, FS_CardinalityType

-----------------------------------------------------------------------------
(* The inductive invariant, one conjunct at a time. *)

\* The control point of a request goes on telling which locks it has.
LEMMA LocksMatchStep ==
  ASSUME TypeOK, SeatInv, [Next]_vars
  PROVE  LocksMatch'
<1> USE RequestsAssumption, ProjectsAssumption DEF SeatInv
<1>1. ASSUME NEW r \in Requests, NEW p \in Projects, NEW target \in {"active", "archived"},
             ArriveNew(r, p, target)
      PROVE  LocksMatch'
  BY <1>1 DEF TypeOK, Request, LocksMatch, HoldsWriter, HoldsSeat, Activates, ArriveNew
<1>2. ASSUME NEW r \in Requests, NEW p \in Projects, NEW expected \in 1..MaxRev,
             NEW target \in {"active", "archived", "keep", "deleted"},
             Arrive(r, p, expected, target)
      PROVE  LocksMatch'
  BY <1>2 DEF TypeOK, Request, LocksMatch, HoldsWriter, HoldsSeat, Activates, Arrive
<1>3. ASSUME NEW r \in Requests, Read(r)
      PROVE  LocksMatch'
  BY <1>3 DEF TypeOK, Request, LocksMatch, HoldsWriter, HoldsSeat, Activates, Read, Return, Freed, Idle
<1>4. ASSUME NEW r \in Requests, Claim(r)
      PROVE  LocksMatch'
  BY <1>4 DEF TypeOK, Request, LocksMatch, HoldsWriter, HoldsSeat, Activates, Claim, Return, Freed, Idle, GoTo
<1>5. ASSUME NEW r \in Requests, AcquireSeat(r)
      PROVE  LocksMatch'
  BY <1>5 DEF TypeOK, Request, LocksMatch, HoldsWriter, HoldsSeat, Activates, AcquireSeat, GoTo
<1>6. ASSUME NEW r \in Requests, Count(r)
      PROVE  LocksMatch'
  BY <1>6 DEF TypeOK, Request, LocksMatch, HoldsWriter, HoldsSeat, Activates, Count, Return, Freed, Idle, GoTo
<1>7. ASSUME NEW r \in Requests, Insert(r)
      PROVE  LocksMatch'
  BY <1>7 DEF TypeOK, Request, LocksMatch, HoldsWriter, HoldsSeat, Activates, Insert, GoTo
<1>8. ASSUME NEW r \in Requests, BusyTimeout(r)
      PROVE  LocksMatch'
  BY <1>8 DEF TypeOK, Request, LocksMatch, HoldsWriter, HoldsSeat, Activates, BusyTimeout, Return, Freed, Idle
<1>9. ASSUME NEW r \in Requests, Commit(r)
      PROVE  LocksMatch'
  BY <1>9 DEF TypeOK, Request, LocksMatch, HoldsWriter, HoldsSeat, Activates, Commit, GoTo
<1>10. ASSUME NEW r \in Requests, Release(r)
      PROVE  LocksMatch'
  BY <1>10 DEF TypeOK, Request, LocksMatch, HoldsWriter, HoldsSeat, Activates, Release, Return, Freed, Idle
<1>11. CASE UNCHANGED vars
  BY <1>11 DEF vars, LocksMatch
<1>12. QED
  BY <1>1, <1>2, <1>3, <1>4, <1>5, <1>6, <1>7, <1>8, <1>9, <1>10, <1>11
     DEF Next, Arrival, Step

\* A project that is being created stays known to its creator only.
LEMMA FreshStep ==
  ASSUME TypeOK, SeatInv, [Next]_vars
  PROVE  Fresh'
<1> USE RequestsAssumption, ProjectsAssumption DEF SeatInv
<1>1. ASSUME NEW r \in Requests, NEW p \in Projects, NEW target \in {"active", "archived"},
             ArriveNew(r, p, target)
      PROVE  Fresh'
  BY <1>1 DEF TypeOK, Request, Fresh, Current, LocksMatch, HoldsWriter, Activates, ArriveNew
<1>2. ASSUME NEW r \in Requests, NEW p \in Projects, NEW expected \in 1..MaxRev,
             NEW target \in {"active", "archived", "keep", "deleted"},
             Arrive(r, p, expected, target)
      PROVE  Fresh'
  BY <1>2 DEF TypeOK, Request, Fresh, Current, LocksMatch, HoldsWriter, Activates, Arrive
<1>3. ASSUME NEW r \in Requests, Read(r)
      PROVE  Fresh'
  BY <1>3 DEF TypeOK, Request, Fresh, Current, LocksMatch, HoldsWriter, Activates, Read, Return, Freed, Idle
<1>4. ASSUME NEW r \in Requests, Claim(r)
      PROVE  Fresh'
  BY <1>4 DEF TypeOK, Request, Fresh, Current, LocksMatch, HoldsWriter, Activates, Claim, Return, Freed, Idle, GoTo
<1>5. ASSUME NEW r \in Requests, AcquireSeat(r)
      PROVE  Fresh'
  BY <1>5 DEF TypeOK, Request, Fresh, Current, LocksMatch, HoldsWriter, Activates, AcquireSeat, GoTo
<1>6. ASSUME NEW r \in Requests, Count(r)
      PROVE  Fresh'
  BY <1>6 DEF TypeOK, Request, Fresh, Current, LocksMatch, HoldsWriter, Activates, Count, Return, Freed, Idle, GoTo
<1>7. ASSUME NEW r \in Requests, Insert(r)
      PROVE  Fresh'
  BY <1>7 DEF TypeOK, Request, Fresh, Current, LocksMatch, HoldsWriter, Activates, Insert, GoTo
<1>8. ASSUME NEW r \in Requests, BusyTimeout(r)
      PROVE  Fresh'
  BY <1>8 DEF TypeOK, Request, Fresh, Current, LocksMatch, HoldsWriter, Activates, BusyTimeout, Return, Freed, Idle
<1>9. ASSUME NEW r \in Requests, Commit(r)
      PROVE  Fresh'
  <2>1. writer = r /\ req[r].project \in Projects
    BY <1>9 DEF Commit, LocksMatch, HoldsWriter, TypeOK
  <2>2. req[r].expected # 0 => status[req[r].project] # "none"
    BY <2>1 DEF Current, Fresh, TypeOK, Request
  <2>3. req[r].target # "none"
    BY DEF TypeOK, Request
  <2>4. \A p \in Projects : status'[p] = "none" => status[p] = "none" /\ p # req[r].project
    BY <1>9, <2>1, <2>2, <2>3 DEF Commit, Fresh, TypeOK
  <2>5. \A p \in Projects : status'[p] = "none" => rev'[p] = 0
    BY <1>9, <2>4 DEF Commit, Fresh, TypeOK
  <2>6. QED
    BY <1>9, <2>1, <2>5 DEF Commit, GoTo, Fresh, TypeOK, Request
<1>10. ASSUME NEW r \in Requests, Release(r)
      PROVE  Fresh'
  BY <1>10 DEF TypeOK, Request, Fresh, Current, LocksMatch, HoldsWriter, Activates, Release, Return, Freed, Idle
<1>11. CASE UNCHANGED vars
  BY <1>11 DEF vars, Fresh
<1>12. QED
  BY <1>1, <1>2, <1>3, <1>4, <1>5, <1>6, <1>7, <1>8, <1>9, <1>10, <1>11
     DEF Next, Arrival, Step

\* What the holder of the writer lock has read stays current.
LEMMA CurrentStep ==
  ASSUME TypeOK, SeatInv, [Next]_vars
  PROVE  Current'
<1> USE RequestsAssumption, ProjectsAssumption DEF SeatInv
<1>1. ASSUME NEW r \in Requests, NEW p \in Projects, NEW target \in {"active", "archived"},
             ArriveNew(r, p, target)
      PROVE  Current'
  BY <1>1 DEF TypeOK, Request, Current, Fresh, LocksMatch, HoldsWriter, ArriveNew
<1>2. ASSUME NEW r \in Requests, NEW p \in Projects, NEW expected \in 1..MaxRev,
             NEW target \in {"active", "archived", "keep", "deleted"},
             Arrive(r, p, expected, target)
      PROVE  Current'
  BY <1>2 DEF TypeOK, Request, Current, Fresh, LocksMatch, HoldsWriter, Arrive
<1>3. ASSUME NEW r \in Requests, Read(r)
      PROVE  Current'
  BY <1>3 DEF TypeOK, Request, Current, Fresh, LocksMatch, HoldsWriter, Read, Return, Freed, Idle
<1>4. ASSUME NEW r \in Requests, Claim(r)
      PROVE  Current'
  BY <1>4 DEF TypeOK, Request, Current, Fresh, LocksMatch, HoldsWriter, Claim, Return, Freed, Idle, GoTo
<1>5. ASSUME NEW r \in Requests, AcquireSeat(r)
      PROVE  Current'
  BY <1>5 DEF TypeOK, Request, Current, Fresh, LocksMatch, HoldsWriter, AcquireSeat, GoTo
<1>6. ASSUME NEW r \in Requests, Count(r)
      PROVE  Current'
  BY <1>6 DEF TypeOK, Request, Current, Fresh, LocksMatch, HoldsWriter, Count, Return, Freed, Idle, GoTo
<1>7. ASSUME NEW r \in Requests, Insert(r)
      PROVE  Current'
  BY <1>7 DEF TypeOK, Request, Current, Fresh, LocksMatch, HoldsWriter, Insert, GoTo
<1>8. ASSUME NEW r \in Requests, BusyTimeout(r)
      PROVE  Current'
  BY <1>8 DEF TypeOK, Request, Current, Fresh, LocksMatch, HoldsWriter, BusyTimeout, Return, Freed, Idle
<1>9. ASSUME NEW r \in Requests, Commit(r)
      PROVE  Current'
  BY <1>9 DEF TypeOK, Request, Current, Fresh, LocksMatch, HoldsWriter, Commit, GoTo
<1>10. ASSUME NEW r \in Requests, Release(r)
      PROVE  Current'
  BY <1>10 DEF TypeOK, Request, Current, Fresh, LocksMatch, HoldsWriter, Release, Return, Freed, Idle
<1>11. CASE UNCHANGED vars
  BY <1>11 DEF vars, Current
<1>12. QED
  BY <1>1, <1>2, <1>3, <1>4, <1>5, <1>6, <1>7, <1>8, <1>9, <1>10, <1>11
     DEF Next, Arrival, Step


\* Only a commit changes a project's status, and only an activation adds to the
\* active projects.
LEMMA ActiveChange ==
  ASSUME TypeOK, SeatInv, NEW r \in Requests, Commit(r)
  PROVE  /\ Active' \subseteq Active \cup {req[r].project}
         /\ ~Activates(req[r]) => Active' \subseteq Active
<1>1. writer = r /\ req[r].project \in Projects
  BY DEF Commit, SeatInv, LocksMatch, HoldsWriter, TypeOK
<1>2. status[req[r].project] = req[r].seen
  BY <1>1 DEF Commit, SeatInv, Fresh, Current
<1>3. \A p \in Projects : p # req[r].project => status'[p] = status[p]
  BY DEF Commit, TypeOK
<1>4. status'[req[r].project] \in {status[req[r].project], req[r].target}
  BY <1>1 DEF Commit, TypeOK
<1>5. Active' \subseteq Active \cup {req[r].project}
  BY <1>3 DEF Active
<1>6. ASSUME ~Activates(req[r])
      PROVE  Active' \subseteq Active
  BY <1>2, <1>3, <1>4, <1>6 DEF Active, Activates
<1>7. QED
  BY <1>5, <1>6

\* A step that commits nothing leaves every status alone.
LEMMA StatusUnchanged ==
  ASSUME [Next]_vars, \A r \in Requests : ~Commit(r)
  PROVE  Active' = Active
BY DEF Next, Arrival, Step, ArriveNew, Arrive, Read, Claim, AcquireSeat, Count,
       Insert, BusyTimeout, Release, Active, vars

\* Who newly reaches the write has passed Count.
LEMMA PassedTheCount ==
  ASSUME TypeOK, SeatInv, [Next]_vars, \A q \in Requests : ~Commit(q),
         NEW r \in Requests, Activates(req'[r]), req'[r].pc \in {"insert", "write"}
  PROVE  Cardinality(Active) < Limit
<1> USE RequestsAssumption
<1>1. CASE Activates(req[r]) /\ req[r].pc \in {"insert", "write"}
  BY <1>1 DEF SeatInv, Seated
<1>2. CASE ~(Activates(req[r]) /\ req[r].pc \in {"insert", "write"})
  <2>1. ASSUME NEW q \in Requests, Arrival(q) \/ Read(q) \/ Claim(q)
                 \/ AcquireSeat(q) \/ Insert(q) \/ BusyTimeout(q) \/ Release(q)
        PROVE  FALSE
    <3>1. CASE q # r
      <4>1. req'[r] = req[r]
        BY <2>1, <3>1 DEF Arrival, ArriveNew, Arrive, Read, Claim, AcquireSeat, Insert,
                          BusyTimeout, Release, Return, GoTo, TypeOK
      <4>2. QED
        BY <1>2, <4>1
    <3>2. CASE q = r
      BY <1>2, <2>1, <3>2 DEF Arrival, ArriveNew, Arrive, Read, Claim, AcquireSeat, Insert,
                  BusyTimeout, Release, Return, GoTo, TypeOK, Request, Idle, Activates
    <3>3. QED
      BY <3>1, <3>2
  <2>2. ASSUME NEW q \in Requests, Count(q)
        PROVE  Cardinality(Active) < Limit
    <3>1. q = r
      BY <1>2, <2>2 DEF Count, Return, GoTo, TypeOK
    <3>2. ~(Cardinality(Active) >= Limit)
      BY <2>2, <3>1 DEF Count, Return, Idle, TypeOK
    <3>3. QED
      BY <3>2, ActiveFinite, BoundsAssumption
  <2>3. CASE UNCHANGED vars
    BY <1>2, <2>3 DEF vars
  <2>4. QED
    BY <2>1, <2>2, <2>3 DEF Next, Step
<1>3. QED
  BY <1>1, <1>2

\* No step takes the count of active projects over the limit.
LEMMA SeatedStep ==
  ASSUME TypeOK, SeatInv, SeatsRespected, [Next]_vars
  PROVE  Seated' /\ SeatsRespected'
<1> USE BoundsAssumption, RequestsAssumption
<1>1. CASE \A q \in Requests : ~Commit(q)
  BY <1>1, StatusUnchanged, PassedTheCount DEF Seated, SeatsRespected
<1>2. ASSUME NEW q \in Requests, Commit(q)
      PROVE  Seated' /\ SeatsRespected'
  <2>1. \A r \in Requests \ {q} : req'[r] = req[r]
    BY <1>2 DEF Commit, GoTo, TypeOK
  <2>2. req'[q].pc = "release"
    BY <1>2 DEF Commit, GoTo, TypeOK, Request
  <2>3. CASE ~Activates(req[q])
    <3>1. Cardinality(Active') <= Cardinality(Active) /\ Cardinality(Active') \in Nat
      BY <1>2, <2>3, ActiveChange, FewerActive
    <3>2. SeatsRespected'
      BY <3>1, ActiveFinite DEF SeatsRespected
    <3>3. Seated'
      BY <2>1, <2>2, <3>1, ActiveFinite DEF SeatInv, Seated
    <3>4. QED
      BY <3>2, <3>3
  <2>4. CASE Activates(req[q])
    <3>1. Cardinality(Active) < Limit /\ seat = q
      BY <1>2, <2>4 DEF Commit, SeatInv, Seated, LocksMatch, HoldsSeat
    <3>2. Cardinality(Active') <= Cardinality(Active) + 1 /\ Cardinality(Active') \in Nat
      BY <1>2, ActiveChange, OneMoreActive
    <3>3. SeatsRespected'
      BY <3>1, <3>2, ActiveFinite DEF SeatsRespected
    <3>4. \A r \in Requests \ {q} :
            ~(Activates(req[r]) /\ req[r].pc \in {"insert", "write"})
      BY <3>1 DEF SeatInv, LocksMatch, HoldsSeat
    <3>5. Seated'
      BY <2>1, <2>2, <3>4 DEF Seated
    <3>6. QED
      BY <3>3, <3>5
  <2>5. QED
    BY <2>3, <2>4
<1>3. QED
  BY <1>1, <1>2

-----------------------------------------------------------------------------
(* Theorems. *)

\* The inductive invariant.
THEOREM SeatInvariant == Spec => [](SeatInv /\ SeatsRespected)
<1>1. Init => SeatInv /\ SeatsRespected
  <2>1. ASSUME Init
        PROVE  Active = {}
    BY <2>1 DEF Init, Active
  <2>2. Init => SeatsRespected
    BY <2>1, FS_EmptySet, BoundsAssumption DEF SeatsRespected
  <2>3. Init => SeatInv
    BY RequestsAssumption DEF Init, SeatInv, LocksMatch, HoldsWriter, HoldsSeat, Fresh,
         Current, Seated, Activates, Idle
  <2>4. QED
    BY <2>2, <2>3
<1>2. TypeOK /\ SeatInv /\ SeatsRespected /\ [Next]_vars
        => SeatInv' /\ SeatsRespected'
  BY LocksMatchStep, FreshStep, CurrentStep, SeatedStep DEF SeatInv
<1>3. QED
  BY <1>1, <1>2, SeatTypes, PTL DEF Spec

\* Racing activations never exceed the limit of active projects.
THEOREM SeatLimit == Spec => []SeatsRespected
BY SeatInvariant, PTL

\* Decisions taken on what was read before the claim are taken on the truth.
THEOREM ReadsAreCurrent == Spec => []ReadStillTrue
<1>1. TypeOK /\ SeatInv => ReadStillTrue
  BY DEF TypeOK, SeatInv, LocksMatch, HoldsWriter, Fresh, Current, ReadStillTrue
<1>2. QED
  BY <1>1, SeatTypes, SeatInvariant, PTL

\* The action that NoLostUpdate allows.
Serialised ==
  \A p \in Projects :
    status'[p] # status[p] \/ rev'[p] # rev[p] =>
      /\ rev'[p] = rev[p] + 1
      /\ \E r \in Requests : writer = r /\ req[r].project = p
                               /\ req[r].expected = rev[p]

\* A commit replaces the revision that its client was shown.
LEMMA SerialisedStep ==
  ASSUME TypeOK, SeatInv, [Next]_vars
  PROVE  Serialised
<1>1. ASSUME NEW r \in Requests, Commit(r)
      PROVE  Serialised
  <2>1. writer = r /\ req[r].project \in Projects
    BY <1>1 DEF Commit, SeatInv, LocksMatch, HoldsWriter, TypeOK
  <2>2. req[r].expected = rev[req[r].project]
    BY <1>1, <2>1 DEF Commit, SeatInv, Fresh, Current, TypeOK
  <2>3. QED
    BY <1>1, <2>1, <2>2 DEF Commit, Serialised, TypeOK
<1>2. ASSUME \A r \in Requests : ~Commit(r)
      PROVE  status' = status /\ rev' = rev
  BY <1>2 DEF Next, Arrival, Step, ArriveNew, Arrive, Read, Claim, AcquireSeat, Count,
       Insert, BusyTimeout, Release, vars
<1>3. QED
  BY <1>1, <1>2 DEF Serialised

\* Every change of a project is a commit that was sent the revision it replaces.
THEOREM UpdatesSerialised == Spec => NoLostUpdate
<1>1. TypeOK /\ SeatInv /\ [Next]_vars => [Serialised]_vars
  BY SerialisedStep
<1>2. Spec => [][Serialised]_vars
  BY <1>1, SeatTypes, SeatInvariant, PTL DEF Spec
<1>3. QED
  BY <1>2 DEF Serialised, NoLostUpdate
=============================================================================
