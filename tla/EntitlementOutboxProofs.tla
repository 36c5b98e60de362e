---------------------- MODULE EntitlementOutboxProofs ----------------------
(***************************************************************************)
(* Proofs about EntitlementOutbox, for every set of orders and workers and *)
(* every value of MaxAttempts and MaxFaults.                               *)
(***************************************************************************)
EXTENDS EntitlementOutbox, TLAPS

USE NullAssumption, AttemptsAssumption, FaultsAssumption
USE DEF Reversed

-----------------------------------------------------------------------------
(* What the transactions write into a row. *)

GoodRow == {row \in Row : WellLeased(row)}

Delivered(row) ==
  [row EXCEPT !.state = "delivered", !.owner = NoWorker, !.lease = "none"]

\* The row a reversal writes (admin_transition, _apply_whop_business_locked).
LEMMA CancelledRowType ==
  ASSUME NEW row \in Row
  PROVE  /\ CancelledRow(row) \in GoodRow
         /\ CancelledRow(row).state = "quarantined"
         /\ CancelledRow(row).phase \in {"none", "readback_only"}
         /\ row.phase \in Crossed => CancelledRow(row).phase = "readback_only"
<1>1. row.fence + 1 \in Nat
  BY DEF Row
<1>2. (IF row.phase \in {"none", "crossing_prepared"}
         THEN "none" ELSE "readback_only") \in Phase
  BY DEF Phase
<1>3. (IF row.phase = "none" THEN row.retry ELSE "later") \in {"now", "later"}
  BY DEF Row
<1>4. CancelledRow(row) \in Row
  BY <1>1, <1>2, <1>3 DEF CancelledRow, Row
<1>5. /\ CancelledRow(row).state = "quarantined"
      /\ CancelledRow(row).owner = NoWorker
      /\ CancelledRow(row).lease = "none"
      /\ CancelledRow(row).phase = IF row.phase \in {"none", "crossing_prepared"}
                                     THEN "none" ELSE "readback_only"
  BY DEF CancelledRow, Row
<1>6. QED
  BY <1>4, <1>5 DEF GoodRow, WellLeased, Crossed

\* The row the recovery of a prepared crash writes (claim_outbox).
LEMMA RecoveredType ==
  ASSUME NEW row \in GoodRow
  PROVE  /\ Recovered(row) \in GoodRow
         /\ Recovered(row).state \in {row.state, "quarantined"}
         /\ Recovered(row).phase = row.phase \/ Recovered(row).phase = "none"
         /\ row.phase \in Crossed => Recovered(row) = row
<1> DEFINE reset == [row EXCEPT !.state = "quarantined", !.phase = "none",
                       !.owner = NoWorker, !.lease = "none",
                       !.fence = row.fence + 1, !.retry = "now"]
<1>1. row.fence + 1 \in Nat
  BY DEF Row, GoodRow
<1>2. reset \in Row
  BY <1>1 DEF Row, Phase, GoodRow
<1>3. /\ reset.state = "quarantined" /\ reset.owner = NoWorker
      /\ reset.lease = "none" /\ reset.phase = "none"
  BY DEF Row, GoodRow
<1>4. reset \in GoodRow
  BY <1>2, <1>3 DEF GoodRow, WellLeased
<1>5. CASE row.state = "leased" /\ row.phase = "crossing_prepared"
  <2>1. Recovered(row) = reset
    BY <1>5 DEF Recovered
  <2>2. QED
    BY <1>3, <1>4, <1>5, <2>1 DEF Crossed
<1>6. CASE ~(row.state = "leased" /\ row.phase = "crossing_prepared")
  <2>1. Recovered(row) = row
    BY <1>6 DEF Recovered
  <2>2. QED
    BY <2>1
<1>7. QED
  BY <1>5, <1>6

\* The row a claim writes (claim_outbox).
LEMMA LeasedRowType ==
  ASSUME NEW row \in GoodRow, NEW w \in Workers
  PROVE  /\ LeasedRow(row, w) \in GoodRow
         /\ LeasedRow(row, w).state = "leased"
         /\ LeasedRow(row, w).phase =
              IF row.phase \in {"crossing_authorized", "readback_only"}
                THEN "readback_only" ELSE row.phase
<1>1. row.fence + 1 \in Nat /\ row.attempts + 1 \in Nat
  BY DEF Row, GoodRow
<1>2. (IF row.phase \in {"crossing_authorized", "readback_only"}
         THEN "readback_only" ELSE row.phase) \in Phase
  BY DEF Row, GoodRow, Phase
<1>3. LeasedRow(row, w) \in Row
  BY <1>1, <1>2 DEF LeasedRow, Row, GoodRow
<1>4. /\ LeasedRow(row, w).state = "leased"
      /\ LeasedRow(row, w).owner = w
      /\ LeasedRow(row, w).lease = "live"
      /\ LeasedRow(row, w).phase =
           IF row.phase \in {"crossing_authorized", "readback_only"}
             THEN "readback_only" ELSE row.phase
  BY DEF LeasedRow, Row, GoodRow
<1>5. QED
  BY <1>3, <1>4 DEF GoodRow, WellLeased

\* The row a failed readback writes (_requeue_reconciliation_failure).
LEMMA RequeuedRowType ==
  ASSUME NEW row \in Row
  PROVE  /\ RequeuedRow(row) \in GoodRow
         /\ RequeuedRow(row).state = "quarantined"
         /\ RequeuedRow(row).phase \in {"manual_review", "readback_only"}
BY DEF RequeuedRow, Row, Phase, GoodRow, WellLeased

\* The row a failure before the crossing writes (fail_outbox).
LEMMA FailedRowType ==
  ASSUME NEW row \in Row
  PROVE  /\ FailedRow(row) \in GoodRow
         /\ FailedRow(row).state \in {"quarantined", "pending"}
         /\ FailedRow(row).phase = row.phase
BY DEF FailedRow, Row, GoodRow, WellLeased

\* The row a successful delivery writes (deliver_claimed_outbox).
LEMMA DeliveredType ==
  ASSUME NEW row \in Row
  PROVE  /\ Delivered(row) \in GoodRow
         /\ Delivered(row).state = "delivered"
         /\ Delivered(row).phase = row.phase
BY DEF Delivered, Row, GoodRow, WellLeased

\* The rows Prepare and Authorize write: the phase alone changes.
LEMMA PhasedType ==
  ASSUME NEW row \in GoodRow, NEW ph \in Phase
  PROVE  /\ [row EXCEPT !.phase = ph] \in GoodRow
         /\ [row EXCEPT !.phase = ph].phase = ph
         /\ [row EXCEPT !.phase = ph].state = row.state
BY DEF Row, Phase, GoodRow, WellLeased

-----------------------------------------------------------------------------
(* Type correctness. *)

\* The variables have their types in every initial state.
LEMMA InitType == Init => TypeOK
BY DEF Init, TypeOK, OrderState, Row, Phase, WorkerState, Pc, Idle, AbsentRow,
       WellLeased

OutboxOK == outbox \in [Orders -> GoodRow]

WorkersOK ==
  /\ worker \in [Workers -> WorkerState]
  /\ \A w \in Workers : worker[w].pc # "idle" => worker[w].order \in Orders

LedgerOK ==
  /\ order \in [Orders -> OrderState]
  /\ revocations \subseteq Orders
  /\ inflight \subseteq Orders
  /\ licensed \subseteq Orders
  /\ calls \in [Orders -> Nat]
  /\ faults \in 0..MaxFaults

\* TypeOK is what it says of the rows, the workers and the other variables.
LEMMA TypeParts ==
  /\ TypeOK => OutboxOK /\ WorkersOK /\ LedgerOK
  /\ OutboxOK' /\ WorkersOK' /\ LedgerOK' => TypeOK'
BY DEF TypeOK, OutboxOK, WorkersOK, LedgerOK, GoodRow

\* A worker that moves on within its call stays well typed.
LEMMA GoToType ==
  ASSUME WorkersOK, NEW w \in Workers, worker[w].pc # "idle",
         NEW pc \in Pc, GoTo(w, pc)
  PROVE  WorkersOK'
BY DEF WorkersOK, WorkerState, GoTo

\* A worker that returns stays well typed.
LEMMA ReturnType ==
  ASSUME WorkersOK, NEW w \in Workers, Return(w)
  PROVE  WorkersOK'
BY DEF WorkersOK, WorkerState, Return, Idle, Pc, Phase

\* Writing a well-typed row keeps the table well typed.
LEMMA OutboxUpdate ==
  ASSUME OutboxOK, NEW o \in Orders, NEW new \in GoodRow,
         outbox' = [outbox EXCEPT ![o] = new]
  PROVE  OutboxOK'
BY DEF OutboxOK

\* Every step of a worker preserves the types.
LEMMA WorkerType ==
  ASSUME TypeOK, NEW w \in Workers, WorkerStep(w)
  PROVE  TypeOK'
<1> SUFFICES OutboxOK' /\ WorkersOK' /\ LedgerOK'
  BY TypeParts
<1>0. OutboxOK /\ WorkersOK /\ LedgerOK
  BY TypeParts
<1> USE <1>0
<1> DEFINE o == Mine(w)
<1>a. worker[w].pc # "idle"
  BY DEF WorkerStep, Revalidate, Prepare, Authorize, Create, ReadAcknowledgement,
         ReadbackFails, AuthorityFault, Finalize, Requeue, Fail
<1>b. o \in Orders /\ outbox[o] \in GoodRow /\ outbox[o] \in Row
  BY <1>a DEF WorkersOK, Mine, OutboxOK, GoodRow
<1> HIDE DEF o
<1> USE <1>a, <1>b
<1>1. CASE Revalidate(w)
  BY <1>1, GoToType DEF Revalidate, Pc, OutboxOK, LedgerOK
<1>2. CASE Prepare(w)
  BY <1>2, GoToType, OutboxUpdate, PhasedType DEF Prepare, Pc, Phase, o, OutboxOK, LedgerOK
<1>3. CASE Authorize(w)
  BY <1>3, GoToType, OutboxUpdate, PhasedType DEF Authorize, Pc, Phase, o, OutboxOK, LedgerOK
<1>4. CASE Create(w)
  BY <1>4, GoToType DEF Create, Pc, o, OutboxOK, LedgerOK
<1>5. CASE ReadAcknowledgement(w)
  BY <1>5, GoToType DEF ReadAcknowledgement, Pc, OutboxOK, LedgerOK
<1>6. CASE ReadbackFails(w)
  BY <1>6, GoToType DEF ReadbackFails, Pc, OutboxOK, LedgerOK
<1>7. CASE AuthorityFault(w)
  BY <1>7, GoToType DEF AuthorityFault, Pc, OutboxOK, LedgerOK
<1>8. CASE Finalize(w)
  <2>1. WorkersOK'
    BY <1>8, GoToType, ReturnType DEF Finalize, Pc
  <2>2. OutboxOK'
    BY <1>8, OutboxUpdate, DeliveredType DEF Finalize, Delivered, o, OutboxOK
  <2>3. LedgerOK'
    BY <1>8 DEF Finalize, o, LedgerOK, OrderState
  <2>4. QED
    BY <2>1, <2>2, <2>3
<1>9. CASE Requeue(w)
  BY <1>9, GoToType, ReturnType, OutboxUpdate, RequeuedRowType
  DEF Requeue, Pc, o, OutboxOK, LedgerOK
<1>10. CASE Fail(w)
  BY <1>10, ReturnType, OutboxUpdate, RequeuedRowType, FailedRowType
  DEF Fail, Pc, o, OutboxOK, LedgerOK
<1>11. QED
  BY <1>1, <1>2, <1>3, <1>4, <1>5, <1>6, <1>7, <1>8, <1>9, <1>10 DEF WorkerStep

\* Every step of the ledger, of the Authority and of the clock preserves the
\* types.
LEMMA OrderType ==
  ASSUME TypeOK, NEW o \in Orders,
         LedgerStep(o) \/ AuthorityCreate(o) \/ LeaseExpires(o) \/ RetryDue(o)
  PROVE  TypeOK'
<1> SUFFICES OutboxOK' /\ WorkersOK' /\ LedgerOK'
  BY TypeParts
<1>0. OutboxOK /\ WorkersOK /\ LedgerOK
  BY TypeParts
<1>a. outbox[o] \in GoodRow /\ outbox[o] \in Row
  BY <1>0 DEF OutboxOK, GoodRow
<1> USE <1>0, <1>a
<1>1. ASSUME NEW target \in Reversed, Reverse(o, target)
      PROVE  OutboxOK' /\ WorkersOK' /\ LedgerOK'
  <2>1. OutboxOK'
    BY <1>1, OutboxUpdate, CancelledRowType DEF Reverse, Update, OutboxOK
  <2>2. WorkersOK' /\ LedgerOK'
    BY <1>1 DEF Reverse, WorkersOK, LedgerOK, OrderState
  <2>3. QED
    BY <2>1, <2>2
<1>2. CASE LedgerStep(o)
  <2>1. CASE Issue(o)
    <3>1. [AbsentRow EXCEPT !.state = "pending"] \in GoodRow
      BY DEF AbsentRow, GoodRow, Row, Phase, WellLeased
    <3>2. QED
      BY <2>1, <3>1, OutboxUpdate DEF Issue, WorkersOK, LedgerOK, OrderState
  <2>2. CASE AdminRefund(o)
    BY <2>2, <1>1 DEF AdminRefund
  <2>3. CASE AdminRevoke(o)
    BY <2>3 DEF AdminRevoke, OutboxOK, WorkersOK, LedgerOK, OrderState
  <2>4. CASE \E target \in Reversed : WhopReversal(o, target)
    BY <2>4, <1>1 DEF WhopReversal
  <2>5. QED
    BY <1>2, <2>1, <2>2, <2>3, <2>4 DEF LedgerStep
<1>3. CASE AuthorityCreate(o)
  BY <1>3 DEF AuthorityCreate, OutboxOK, WorkersOK, LedgerOK
<1>4. CASE LeaseExpires(o)
  <2>1. [outbox[o] EXCEPT !.lease = "expired"] \in GoodRow
    BY <1>4 DEF LeaseExpires, GoodRow, Row, WellLeased
  <2>2. outbox' = [outbox EXCEPT ![o] = [outbox[o] EXCEPT !.lease = "expired"]]
    BY <1>4 DEF LeaseExpires
  <2>3. faults' \in 0..MaxFaults
    BY <1>4 DEF LeaseExpires, LedgerOK
  <2>4. QED
    BY <1>4, <2>1, <2>2, <2>3, OutboxUpdate DEF LeaseExpires, WorkersOK, LedgerOK
<1>5. CASE RetryDue(o)
  <2>1. [outbox[o] EXCEPT !.retry = "now"] \in GoodRow
    BY DEF GoodRow, Row, WellLeased
  <2>2. QED
    BY <1>5, <2>1, OutboxUpdate DEF RetryDue, WorkersOK, LedgerOK
<1>6. QED
  BY <1>2, <1>3, <1>4, <1>5

\* A claim and a crash preserve the types.
LEMMA ClaimType ==
  ASSUME TypeOK, NEW w \in Workers,
         Crash(w) \/ \E o \in Orders : Claim(w, o)
  PROVE  TypeOK'
<1> SUFFICES OutboxOK' /\ WorkersOK' /\ LedgerOK'
  BY TypeParts
<1>0. OutboxOK /\ WorkersOK /\ LedgerOK
  BY TypeParts
<1> USE <1>0
<1>1. ASSUME NEW o \in Orders, Claim(w, o)
      PROVE  OutboxOK' /\ WorkersOK' /\ LedgerOK'
  <2> DEFINE row == Recovered(outbox[o])
             leased == LeasedRow(row, w)
  <2>1. row \in GoodRow /\ leased \in GoodRow
    BY RecoveredType, LeasedRowType DEF OutboxOK
  <2>2. OutboxOK'
    BY <1>1, <2>1, OutboxUpdate DEF Claim
  <2>3. leased.fence \in Nat /\ leased.phase \in Phase
    BY <2>1 DEF GoodRow, Row
  <2> HIDE DEF leased, row
  <2>4. \/ UNCHANGED worker
        \/ worker' = [worker EXCEPT ![w] = [pc |-> "claimed", order |-> o,
                        fence |-> leased.fence, phase |-> leased.phase]]
    BY <1>1 DEF Claim, leased, row
  <2>5. WorkersOK'
    BY <2>3, <2>4 DEF WorkersOK, WorkerState, Pc
  <2>6. QED
    BY <1>1, <2>2, <2>5 DEF Claim, LedgerOK
<1>2. CASE Crash(w)
  BY <1>2, ReturnType DEF Crash, OutboxOK, LedgerOK
<1>3. QED
  BY <1>1, <1>2

\* Every variable keeps its type and every row keeps owner, expiry and state
\* consistent, whatever the workers, the operator and the provider do.
THEOREM TypeCorrect == Spec => []TypeOK
<1>1. TypeOK /\ [Next]_vars => TypeOK'
  <2> SUFFICES ASSUME TypeOK, [Next]_vars
               PROVE  TypeOK'
    OBVIOUS
  <2>1. CASE \E w \in Workers : WorkerStep(w)
    BY <2>1, WorkerType
  <2>2. CASE \E w \in Workers : Crash(w)
    BY <2>2, ClaimType
  <2>3. CASE \E w \in Workers, o \in Orders : Claim(w, o)
    BY <2>3, ClaimType
  <2>4. ASSUME NEW o \in Orders,
               LedgerStep(o) \/ AuthorityCreate(o) \/ LeaseExpires(o) \/ RetryDue(o)
        PROVE  TypeOK'
    BY <2>4, OrderType
  <2>5. CASE UNCHANGED vars
    BY <2>5 DEF vars, TypeOK
  <2>6. QED
    BY <2>1, <2>2, <2>3, <2>4, <2>5 DEF Next
<1>2. QED
  BY InitType, <1>1, PTL DEF Spec

-----------------------------------------------------------------------------
(* At most one crossing. *)

CrossInv == OneCrossing /\ CreatorIsAlone

\* A step that calls nobody, forgets no crossing and lets no worker reach the
\* create call preserves the crossing part of the invariant.
LEMMA QuietCross ==
  ASSUME TypeOK, CrossInv, calls' = calls,
         inflight' \cup licensed' \subseteq inflight \cup licensed,
         \A p \in Orders : outbox[p].phase \in Crossed => outbox'[p].phase \in Crossed,
         \A v \in Workers : worker'[v].pc = "create" => worker'[v] = worker[v]
  PROVE  CrossInv'
<1>1. OneCrossing'
  BY DEF CrossInv, OneCrossing
<1>2. CreatorIsAlone'
  BY DEF CrossInv, CreatorIsAlone, Mine, TypeOK, WorkerState
<1>3. QED
  BY <1>1, <1>2 DEF CrossInv

\* Writing one row that remembers its crossing forgets no crossing.
LEMMA RowKeepsCrossing ==
  ASSUME TypeOK, NEW o \in Orders, NEW new,
         outbox' = [outbox EXCEPT ![o] = new],
         outbox[o].phase \in Crossed => new.phase \in Crossed
  PROVE  \A p \in Orders : outbox[p].phase \in Crossed => outbox'[p].phase \in Crossed
BY DEF TypeOK

\* A worker that moves to another control point, or returns, is not a creator.
LEMMA NoNewCreator ==
  ASSUME TypeOK, NEW w \in Workers,
         \/ Return(w)
         \/ \E pc \in Pc \ {"create"} : GoTo(w, pc)
  PROVE  \A v \in Workers : worker'[v].pc = "create" => worker'[v] = worker[v]
BY DEF TypeOK, WorkerState, Return, GoTo, Idle

\* Every step of a worker preserves the crossing part of the invariant.
LEMMA WorkerCross ==
  ASSUME TypeOK, CrossInv, NEW w \in Workers, WorkerStep(w)
  PROVE  CrossInv'
<1> DEFINE o == Mine(w)
<1>a. worker[w].pc # "idle"
  BY DEF WorkerStep, Revalidate, Prepare, Authorize, Create, ReadAcknowledgement,
         ReadbackFails, AuthorityFault, Finalize, Requeue, Fail
<1>b. o \in Orders /\ outbox[o] \in Row /\ outbox[o] \in GoodRow
  BY <1>a DEF TypeOK, Mine, GoodRow
<1> HIDE DEF o
<1>1. CASE Revalidate(w)
  BY <1>1, QuietCross, NoNewCreator DEF Revalidate, Pc
<1>2. CASE Prepare(w)
  <2>1. \A p \in Orders : outbox[p].phase \in Crossed => outbox'[p].phase \in Crossed
    BY <1>2, <1>b, RowKeepsCrossing DEF Prepare, o, Crossed
  <2>2. QED
    BY <1>2, <2>1, QuietCross, NoNewCreator DEF Prepare, Pc
<1>3. CASE Authorize(w)
  <2> DEFINE new == [outbox[o] EXCEPT !.phase = "crossing_authorized"]
  <2>1. CASE outbox[o].phase = "crossing_prepared" /\ GoTo(w, "create")
             /\ outbox' = [outbox EXCEPT ![o] = new]
    <3>1. calls' = calls /\ inflight' = inflight /\ licensed' = licensed
      BY <1>3 DEF Authorize
    <3>2. new.phase = "crossing_authorized"
      BY <1>b DEF Row
    <3>3. outbox[o].phase \notin Crossed /\ calls[o] = 0
      BY <1>b, <2>1 DEF CrossInv, OneCrossing, Crossed
    <3>4. \A p \in Orders : outbox[p].phase \in Crossed => outbox'[p].phase \in Crossed
      BY <1>b, <2>1, <3>3, RowKeepsCrossing
    <3>5. outbox'[o].phase \in Crossed
      BY <1>b, <2>1, <3>2 DEF TypeOK, Crossed
    <3>6. OneCrossing'
      BY <3>1, <3>4 DEF CrossInv, OneCrossing
    <3>7. /\ \A v \in Workers \ {w} : worker'[v] = worker[v]
          /\ worker'[w].order = o
      BY <2>1 DEF GoTo, TypeOK, WorkerState, Mine, o
    <3>8. \A v \in Workers \ {w} : worker[v].pc = "create" => worker[v].order # o
      BY <3>3 DEF CrossInv, CreatorIsAlone, Mine
    <3>9. CreatorIsAlone'
      <4>1. ASSUME NEW v \in Workers, worker'[v].pc = "create"
            PROVE  outbox'[worker'[v].order].phase \in Crossed
                   /\ calls'[worker'[v].order] = 0
        <5>1. CASE v = w
          BY <5>1, <3>1, <3>3, <3>5, <3>7
        <5>2. CASE v # w
          <6>1. worker[v].pc = "create" /\ worker'[v] = worker[v]
            BY <4>1, <5>2, <3>7
          <6>2. worker[v].order \in Orders
            BY <6>1 DEF TypeOK
          <6>3. QED
            BY <6>1, <6>2, <3>1, <3>4 DEF CrossInv, CreatorIsAlone, Mine
        <5>3. QED
          BY <5>1, <5>2
      <4>2. ASSUME NEW u \in Workers, NEW v \in Workers,
                   worker'[u].pc = "create", worker'[v].pc = "create",
                   worker'[u].order = worker'[v].order
            PROVE  u = v
        BY <4>2, <3>7, <3>8 DEF CrossInv, CreatorIsAlone, Mine
      <4>3. QED
        BY <4>1, <4>2 DEF CreatorIsAlone, Mine
    <3>10. QED
      BY <3>6, <3>9 DEF CrossInv
  <2>2. CASE UNCHANGED outbox /\ GoTo(w, "failing")
    BY <1>3, <2>2, QuietCross, NoNewCreator DEF Authorize, Pc
  <2>3. QED
    BY <1>3, <2>1, <2>2 DEF Authorize, o
<1>4. CASE Create(w)
  <2>1. /\ calls' = [calls EXCEPT ![o] = calls[o] + 1]
        /\ inflight' \subseteq inflight \cup {o}
        /\ licensed' = licensed /\ outbox' = outbox
        /\ worker[w].pc = "create"
    BY <1>4 DEF Create, o
  <2>2. calls[o] = 0 /\ outbox[o].phase \in Crossed
    BY <2>1 DEF CrossInv, CreatorIsAlone, o
  <2>3. calls'[o] = 1 /\ \A p \in Orders \ {o} : calls'[p] = calls[p]
    BY <1>b, <2>1, <2>2 DEF TypeOK
  <2>4. OneCrossing'
    BY <2>1, <2>2, <2>3 DEF CrossInv, OneCrossing
  <2>5. /\ worker'[w].pc = "readback"
        /\ \A v \in Workers \ {w} : worker'[v] = worker[v]
    BY <1>4 DEF Create, GoTo, TypeOK, WorkerState
  <2>6. \A v \in Workers : worker'[v].pc = "create" =>
          /\ worker'[v] = worker[v]
          /\ worker[v].order # o
          /\ worker[v].order \in Orders
    BY <2>1, <2>5 DEF CrossInv, CreatorIsAlone, Mine, TypeOK, o
  <2>7. CreatorIsAlone'
    BY <2>1, <2>3, <2>6 DEF CrossInv, CreatorIsAlone, Mine
  <2>8. QED
    BY <2>4, <2>7 DEF CrossInv
<1>5. CASE ReadAcknowledgement(w)
  BY <1>5, QuietCross, NoNewCreator DEF ReadAcknowledgement, Pc
<1>6. CASE ReadbackFails(w)
  BY <1>6, QuietCross, NoNewCreator DEF ReadbackFails, Pc
<1>7. CASE AuthorityFault(w)
  BY <1>7, QuietCross, NoNewCreator DEF AuthorityFault, Pc
<1>8. CASE Finalize(w)
  <2>1. \A p \in Orders : outbox[p].phase \in Crossed => outbox'[p].phase \in Crossed
    BY <1>8, <1>b, RowKeepsCrossing, DeliveredType DEF Finalize, Delivered, o
  <2>2. \A v \in Workers : worker'[v].pc = "create" => worker'[v] = worker[v]
    BY <1>8, NoNewCreator DEF Finalize, Pc
  <2>3. QED
    BY <1>8, <2>1, <2>2, QuietCross DEF Finalize
<1>9. CASE Requeue(w)
  <2>1. \A p \in Orders : outbox[p].phase \in Crossed => outbox'[p].phase \in Crossed
    BY <1>9, <1>b, RowKeepsCrossing, RequeuedRowType DEF Requeue, o, Crossed
  <2>2. \A v \in Workers : worker'[v].pc = "create" => worker'[v] = worker[v]
    BY <1>9, NoNewCreator DEF Requeue, Pc
  <2>3. QED
    BY <1>9, <2>1, <2>2, QuietCross DEF Requeue
<1>10. CASE Fail(w)
  <2>1. \A p \in Orders : outbox[p].phase \in Crossed => outbox'[p].phase \in Crossed
    BY <1>10, <1>b, RowKeepsCrossing, RequeuedRowType, FailedRowType
    DEF Fail, o, Crossed
  <2>2. QED
    BY <1>10, <2>1, QuietCross, NoNewCreator DEF Fail
<1>11. QED
  BY <1>1, <1>2, <1>3, <1>4, <1>5, <1>6, <1>7, <1>8, <1>9, <1>10 DEF WorkerStep

\* Every other step preserves the crossing part of the invariant.
LEMMA OtherCross ==
  ASSUME TypeOK, CrossInv,
         \/ \E o \in Orders : \/ LedgerStep(o) \/ AuthorityCreate(o)
                              \/ LeaseExpires(o) \/ RetryDue(o)
         \/ \E w \in Workers : Crash(w) \/ \E o \in Orders : Claim(w, o),
         \A o \in Orders : outbox[o].state = "absent" => outbox[o].phase = "none"
  PROVE  CrossInv'
<1>0. \A p \in Orders : outbox[p] \in GoodRow /\ outbox[p] \in Row
  BY DEF TypeOK, GoodRow
<1>1. ASSUME NEW o \in Orders, NEW target \in Reversed, Reverse(o, target)
      PROVE  CrossInv'
  <2>1. \A p \in Orders : outbox[p].phase \in Crossed => outbox'[p].phase \in Crossed
    BY <1>0, <1>1, RowKeepsCrossing, CancelledRowType DEF Reverse, Update, Crossed
  <2>2. QED
    BY <1>1, <2>1, QuietCross DEF Reverse
<1>2. ASSUME NEW o \in Orders, LedgerStep(o)
      PROVE  CrossInv'
  <2>1. CASE Issue(o)
    <3>1. \A p \in Orders : outbox[p].phase \in Crossed => outbox'[p].phase \in Crossed
      BY <2>1, RowKeepsCrossing DEF Issue, Crossed
    <3>2. QED
      BY <2>1, <3>1, QuietCross DEF Issue
  <2>2. CASE AdminRefund(o)
    BY <2>2, <1>1 DEF AdminRefund
  <2>3. CASE AdminRevoke(o)
    BY <2>3, QuietCross DEF AdminRevoke
  <2>4. CASE \E target \in Reversed : WhopReversal(o, target)
    BY <2>4, <1>1 DEF WhopReversal
  <2>5. QED
    BY <1>2, <2>1, <2>2, <2>3, <2>4 DEF LedgerStep
<1>3. ASSUME NEW o \in Orders, AuthorityCreate(o)
      PROVE  CrossInv'
  BY <1>3, QuietCross DEF AuthorityCreate
<1>4. ASSUME NEW o \in Orders, LeaseExpires(o)
      PROVE  CrossInv'
  <2>1. \A p \in Orders : outbox'[p].phase = outbox[p].phase
    BY <1>0, <1>4 DEF LeaseExpires, Row, TypeOK
  <2>2. QED
    BY <1>4, <2>1, QuietCross DEF LeaseExpires
<1>5. ASSUME NEW o \in Orders, RetryDue(o)
      PROVE  CrossInv'
  <2>1. \A p \in Orders : outbox'[p].phase = outbox[p].phase
    BY <1>0, <1>5 DEF RetryDue, Row, TypeOK
  <2>2. QED
    BY <1>5, <2>1, QuietCross DEF RetryDue
<1>6. ASSUME NEW w \in Workers, NEW o \in Orders, Claim(w, o)
      PROVE  CrossInv'
  <2> DEFINE row == Recovered(outbox[o])
             leased == LeasedRow(row, w)
  <2>1. row \in GoodRow /\ (outbox[o].phase \in Crossed => row.phase \in Crossed)
    BY <1>0, RecoveredType
  <2>2. row.phase \in Crossed => leased.phase \in Crossed
    BY <2>1, LeasedRowType DEF Crossed
  <2> HIDE DEF leased, row
  <2>3. \A p \in Orders : outbox[p].phase \in Crossed => outbox'[p].phase \in Crossed
    BY <1>6, <2>1, <2>2, RowKeepsCrossing DEF Claim, leased, row
  <2>4. \A v \in Workers : worker'[v].pc = "create" => worker'[v] = worker[v]
    BY <1>6 DEF Claim, TypeOK, WorkerState
  <2>5. QED
    BY <1>6, <2>3, <2>4, QuietCross DEF Claim
<1>7. ASSUME NEW w \in Workers, Crash(w)
      PROVE  CrossInv'
  BY <1>7, QuietCross, NoNewCreator DEF Crash
<1>8. QED
  BY <1>2, <1>3, <1>4, <1>5, <1>6, <1>7

-----------------------------------------------------------------------------
(* Ledger, outbox and Authority agree. *)

BackInv == (\A o \in Orders : Backed(o)) /\ AckIsGenuine

\* A step that writes at most one row, one order state and one revocation
\* preserves Backed of every other order; licences are never withdrawn.
LEMMA LocalBack ==
  ASSUME TypeOK, BackInv, NEW o \in Orders, licensed \subseteq licensed',
         \A p \in Orders \ {o} : /\ outbox'[p] = outbox[p]
                                 /\ order'[p] = order[p]
                                 /\ p \in revocations' <=> p \in revocations,
         Backed(o)'
  PROVE  \A p \in Orders : Backed(p)'
<1> SUFFICES ASSUME NEW p \in Orders, p # o PROVE Backed(p)'
  OBVIOUS
<1>1. Backed(p)
  BY DEF BackInv
<1>2. QED
  BY <1>1 DEF Backed

\* A worker that moves on or returns without having read an acknowledgement
\* keeps every acknowledgement genuine.
LEMMA NoNewAck ==
  ASSUME TypeOK, BackInv, licensed \subseteq licensed', NEW w \in Workers,
         \/ Return(w)
         \/ \E pc \in Pc \ {"acked"} : GoTo(w, pc)
  PROVE  AckIsGenuine'
BY DEF TypeOK, WorkerState, Return, GoTo, Idle, BackInv, AckIsGenuine, Mine

\* Every step of a worker keeps the ledger, the outbox and the Authority in
\* agreement.
LEMMA WorkerBack ==
  ASSUME TypeOK, BackInv, NEW w \in Workers, WorkerStep(w)
  PROVE  BackInv'
<1>a. worker[w].pc # "idle"
  BY DEF WorkerStep, Revalidate, Prepare, Authorize, Create, ReadAcknowledgement,
         ReadbackFails, AuthorityFault, Finalize, Requeue, Fail
<1>b. PICK o \in Orders : o = Mine(w) /\ outbox[o] \in Row /\ outbox[o] \in GoodRow
  BY <1>a DEF TypeOK, Mine, GoodRow
<1>c. Backed(o)
  BY <1>b DEF BackInv
<1>d. ASSUME UNCHANGED <<order, outbox, revocations, licensed>>
      PROVE  \A p \in Orders : Backed(p)'
  BY <1>d DEF BackInv, Backed
<1>1. CASE Revalidate(w)
  BY <1>1, <1>d, NoNewAck DEF Revalidate, Pc, BackInv
<1>2. CASE Prepare(w)
  <2>1. AckIsGenuine'
    BY <1>2, NoNewAck DEF Prepare, Pc
  <2>2. CASE outbox' = [outbox EXCEPT ![o] =
                          [outbox[o] EXCEPT !.phase = "crossing_prepared"]]
             /\ Holds(w)
    <3>1. /\ outbox'[o].phase = "crossing_prepared"
          /\ outbox'[o].state = outbox[o].state
          /\ outbox[o].state = "leased"
      BY <1>b, <2>2 DEF Row, TypeOK, Holds
    <3>2. Backed(o)'
      BY <1>2, <1>c, <3>1 DEF Prepare, Backed
    <3>3. QED
      BY <1>2, <1>b, <2>1, <2>2, <3>2, LocalBack DEF Prepare, BackInv, TypeOK
  <2>3. CASE UNCHANGED outbox
    BY <1>2, <2>1, <2>3, <1>d DEF Prepare, BackInv
  <2>4. QED
    BY <1>2, <1>b, <2>2, <2>3 DEF Prepare
<1>3. CASE Authorize(w)
  <2>1. AckIsGenuine'
    BY <1>3, NoNewAck DEF Authorize, Pc
  <2>2. CASE /\ outbox' = [outbox EXCEPT ![o] =
                             [outbox[o] EXCEPT !.phase = "crossing_authorized"]]
             /\ Holds(w)
             /\ order[o] = "payment_confirmed"
    <3>1. /\ outbox'[o].state = outbox[o].state
          /\ outbox[o].state = "leased"
      BY <1>b, <2>2 DEF Row, TypeOK, Holds
    <3>2. Backed(o)'
      BY <1>3, <1>c, <2>2, <3>1 DEF Authorize, Backed
    <3>3. QED
      BY <1>3, <1>b, <2>1, <2>2, <3>2, LocalBack DEF Authorize, BackInv, TypeOK
  <2>3. CASE UNCHANGED outbox
    BY <1>3, <2>1, <2>3, <1>d DEF Authorize, BackInv
  <2>4. QED
    BY <1>3, <1>b, <2>2, <2>3 DEF Authorize
<1>4. CASE Create(w)
  BY <1>4, <1>d, NoNewAck DEF Create, Pc, BackInv
<1>5. CASE ReadAcknowledgement(w)
  <2>1. AckIsGenuine'
    BY <1>5 DEF ReadAcknowledgement, GoTo, TypeOK, WorkerState, AckIsGenuine,
                BackInv, Mine
  <2>2. QED
    BY <1>5, <1>d, <2>1 DEF ReadAcknowledgement, BackInv
<1>6. CASE ReadbackFails(w)
  BY <1>6, <1>d, NoNewAck DEF ReadbackFails, Pc, BackInv
<1>7. CASE AuthorityFault(w)
  BY <1>7, <1>d, NoNewAck DEF AuthorityFault, Pc, BackInv
<1>8. CASE Finalize(w)
  <2>1. AckIsGenuine'
    BY <1>8, NoNewAck DEF Finalize, Pc
  <2>2. o \in licensed
    BY <1>8, <1>b DEF Finalize, BackInv, AckIsGenuine
  <2>3. CASE UNCHANGED <<order, outbox, revocations>>
    BY <1>8, <2>1, <2>3, <1>d DEF Finalize, BackInv
  <2>4. CASE /\ outbox' = [outbox EXCEPT ![o] = Delivered(outbox[o])]
             /\ \/ /\ order[o] = "payment_confirmed"
                   /\ order' = [order EXCEPT ![o] = "license_issued"]
                   /\ revocations' = revocations
                \/ /\ order[o] \in Reversed
                   /\ order' = order
                   /\ revocations' = revocations \cup {o}
    <3>1. outbox'[o].state = "delivered"
      BY <1>b, <2>4, DeliveredType DEF TypeOK
    <3>2. Backed(o)'
      BY <1>8, <1>b, <1>c, <2>2, <2>4, <3>1 DEF Finalize, Backed, TypeOK
    <3>3. QED
      BY <1>8, <1>b, <2>1, <2>4, <3>2, LocalBack DEF Finalize, BackInv, TypeOK
  <2>5. QED
    BY <1>8, <1>b, <2>3, <2>4 DEF Finalize, Delivered
<1>9. CASE Requeue(w)
  <2>1. AckIsGenuine'
    BY <1>9, NoNewAck DEF Requeue, Pc
  <2>2. CASE outbox' = [outbox EXCEPT ![o] = RequeuedRow(outbox[o])] /\ Holds(w)
    <3>1. /\ outbox'[o].state = "quarantined"
          /\ outbox'[o].phase # "crossing_authorized"
          /\ outbox[o].state = "leased"
      BY <1>b, <2>2, RequeuedRowType DEF TypeOK, Holds
    <3>2. Backed(o)'
      BY <1>9, <1>c, <3>1 DEF Requeue, Backed
    <3>3. QED
      BY <1>9, <1>b, <2>1, <2>2, <3>2, LocalBack DEF Requeue, BackInv, TypeOK
  <2>3. CASE UNCHANGED outbox
    BY <1>9, <2>1, <2>3, <1>d DEF Requeue, BackInv
  <2>4. QED
    BY <1>9, <1>b, <2>2, <2>3 DEF Requeue
<1>10. CASE Fail(w)
  <2>1. AckIsGenuine'
    BY <1>10, NoNewAck DEF Fail, Pc
  <2>2. ASSUME NEW new \in {RequeuedRow(outbox[o]), FailedRow(outbox[o])},
               outbox' = [outbox EXCEPT ![o] = new], Holds(w)
        PROVE  BackInv'
    <3>1. /\ outbox'[o].state \in {"quarantined", "pending"}
          /\ outbox'[o].phase = "crossing_authorized" =>
               outbox[o].phase = "crossing_authorized"
          /\ outbox[o].state = "leased"
      BY <1>b, <2>2, RequeuedRowType, FailedRowType DEF TypeOK, Holds
    <3>2. Backed(o)'
      BY <1>10, <1>c, <3>1 DEF Fail, Backed
    <3>3. QED
      BY <1>10, <1>b, <2>1, <2>2, <3>2, LocalBack DEF Fail, BackInv, TypeOK
  <2>3. CASE UNCHANGED outbox
    BY <1>10, <2>1, <2>3, <1>d DEF Fail, BackInv
  <2>4. QED
    BY <1>10, <1>b, <2>2, <2>3 DEF Fail
<1>11. QED
  BY <1>1, <1>2, <1>3, <1>4, <1>5, <1>6, <1>7, <1>8, <1>9, <1>10 DEF WorkerStep

\* Every other step keeps the ledger, the outbox and the Authority in agreement.
LEMMA OtherBack ==
  ASSUME TypeOK, BackInv,
         \/ \E o \in Orders : \/ LedgerStep(o) \/ AuthorityCreate(o)
                              \/ LeaseExpires(o) \/ RetryDue(o)
         \/ \E w \in Workers : Crash(w) \/ \E o \in Orders : Claim(w, o)
  PROVE  BackInv'
<1>0. \A p \in Orders : outbox[p] \in GoodRow /\ outbox[p] \in Row /\ Backed(p)
  BY DEF TypeOK, GoodRow, BackInv
<1>1. ASSUME UNCHANGED worker, licensed \subseteq licensed'
      PROVE  AckIsGenuine'
  BY <1>1 DEF BackInv, AckIsGenuine, Mine
<1>2. ASSUME NEW o \in Orders, NEW target \in Reversed, Reverse(o, target),
             order[o] # "license_issued" \/ outbox[o].state = "delivered"
      PROVE  BackInv'
  <2>1. Backed(o)'
    <3>1. CASE outbox[o].state \in {"delivered", "absent"}
      BY <1>0, <1>2, <3>1 DEF Reverse, Backed, TypeOK
    <3>2. CASE outbox[o].state \notin {"delivered", "absent"}
      <4>1. outbox'[o] = CancelledRow(outbox[o])
        BY <1>2, <3>2 DEF Reverse, Update, TypeOK
      <4>2. QED
        BY <1>0, <1>2, <3>2, <4>1, CancelledRowType DEF Reverse, Backed, TypeOK
    <3>3. QED
      BY <3>1, <3>2
  <2>2. QED
    BY <1>1, <1>2, <2>1, LocalBack DEF Reverse, Update, BackInv, TypeOK
<1>3. ASSUME NEW o \in Orders, LedgerStep(o)
      PROVE  BackInv'
  <2>1. CASE Issue(o)
    <3>1. outbox'[o].state = "pending" /\ outbox'[o].phase = "none"
      BY <2>1 DEF Issue, AbsentRow, TypeOK
    <3>2. Backed(o)'
      BY <1>0, <2>1, <3>1 DEF Issue, Backed, TypeOK
    <3>3. QED
      BY <1>1, <2>1, <3>2, LocalBack DEF Issue, BackInv, TypeOK
  <2>2. CASE AdminRefund(o)
    BY <1>0, <1>2, <2>2 DEF AdminRefund, Backed
  <2>3. CASE AdminRevoke(o)
    <3>1. Backed(o)'
      BY <1>0, <2>3 DEF AdminRevoke, Backed, TypeOK
    <3>2. QED
      BY <1>1, <2>3, <3>1, LocalBack DEF AdminRevoke, BackInv, TypeOK
  <2>4. CASE \E target \in Reversed : WhopReversal(o, target)
    BY <1>0, <1>2, <2>4 DEF WhopReversal, Backed
  <2>5. QED
    BY <1>3, <2>1, <2>2, <2>3, <2>4 DEF LedgerStep
<1>4. ASSUME NEW o \in Orders, AuthorityCreate(o)
      PROVE  BackInv'
  BY <1>0, <1>1, <1>4 DEF AuthorityCreate, BackInv, Backed
<1>5. ASSUME NEW o \in Orders, LeaseExpires(o) \/ RetryDue(o)
      PROVE  BackInv'
  <2>1. \A p \in Orders : /\ outbox'[p].phase = outbox[p].phase
                          /\ outbox'[p].state = outbox[p].state
    BY <1>0, <1>5 DEF LeaseExpires, RetryDue, Row, TypeOK
  <2>2. UNCHANGED <<order, revocations, licensed, worker>>
    BY <1>5 DEF LeaseExpires, RetryDue
  <2>3. QED
    BY <1>0, <1>1, <2>1, <2>2 DEF BackInv, Backed
<1>6. ASSUME NEW w \in Workers, NEW o \in Orders, Claim(w, o)
      PROVE  BackInv'
  <2> DEFINE row == Recovered(outbox[o])
             leased == LeasedRow(row, w)
  <2>1. /\ row \in GoodRow
        /\ row.state \in {outbox[o].state, "quarantined"}
        /\ row.phase \in {outbox[o].phase, "none"}
    BY <1>0, RecoveredType
  <2>2. leased.state = "leased" /\ leased.phase # "crossing_authorized"
    BY <2>1, LeasedRowType
  <2>3. outbox[o].state \notin {"absent", "delivered"}
    BY <1>6 DEF Claim, Eligible
  <2> HIDE DEF leased, row
  <2>4. PICK new \in {row, leased} : outbox' = [outbox EXCEPT ![o] = new]
    BY <1>6 DEF Claim, leased, row
  <2>5. /\ outbox'[o].state \notin {"absent", "delivered"}
        /\ outbox'[o].phase = "crossing_authorized" =>
             outbox[o].phase = "crossing_authorized"
    BY <2>1, <2>2, <2>3, <2>4 DEF TypeOK
  <2>6. Backed(o)'
    BY <1>0, <1>6, <2>3, <2>5 DEF Claim, Backed
  <2>7. AckIsGenuine'
    BY <1>6 DEF Claim, TypeOK, WorkerState, BackInv, AckIsGenuine, Mine
  <2>8. QED
    BY <1>6, <2>4, <2>6, <2>7, LocalBack DEF Claim, BackInv, TypeOK
<1>7. ASSUME NEW w \in Workers, Crash(w)
      PROVE  BackInv'
  BY <1>0, <1>7, NoNewAck DEF Crash, BackInv, Backed
<1>8. QED
  BY <1>3, <1>4, <1>5, <1>6, <1>7

-----------------------------------------------------------------------------
(* The theorems. *)

\* The inductive invariant of the delivery protocol.
THEOREM DeliveryInvariant == Spec => []DeliveryInv
<1>1. Init => DeliveryInv
  BY DEF Init, DeliveryInv, OneCrossing, CreatorIsAlone, Backed, AckIsGenuine,
         Idle, AbsentRow
<1>2. TypeOK /\ DeliveryInv /\ [Next]_vars => DeliveryInv'
  <2> SUFFICES ASSUME TypeOK, DeliveryInv, [Next]_vars
               PROVE  CrossInv' /\ BackInv'
    BY DEF DeliveryInv, CrossInv, BackInv
  <2>1. CrossInv /\ BackInv
    BY DEF DeliveryInv, CrossInv, BackInv
  <2>2. \A o \in Orders : outbox[o].state = "absent" => outbox[o].phase = "none"
    BY <2>1 DEF BackInv, Backed
  <2>3. CASE \E w \in Workers : WorkerStep(w)
    BY <2>1, <2>3, WorkerCross, WorkerBack
  <2>4. CASE \/ \E o \in Orders : \/ LedgerStep(o) \/ AuthorityCreate(o)
                                  \/ LeaseExpires(o) \/ RetryDue(o)
             \/ \E w \in Workers : Crash(w) \/ \E o \in Orders : Claim(w, o)
    BY <2>1, <2>2, <2>4, OtherCross, OtherBack
  <2>5. CASE UNCHANGED vars
    BY <2>1, <2>5 DEF vars, CrossInv, OneCrossing, CreatorIsAlone, BackInv, Backed,
                      AckIsGenuine, Mine
  <2>6. QED
    BY <2>3, <2>4, <2>5 DEF Next
<1>3. QED
  BY <1>1, <1>2, TypeCorrect, PTL DEF Spec

\* create_external_entitlement is called at most once per order.
THEOREM AtMostOneCreate == Spec => []CreateAtMostOnce
<1>1. DeliveryInv => CreateAtMostOnce
  <2> SUFFICES ASSUME DeliveryInv, NEW o \in Orders
               PROVE  calls[o] <= 1
    BY DEF CreateAtMostOnce
  <2>1. calls[o] = 0 \/ calls[o] = 1
    BY DEF DeliveryInv, OneCrossing
  <2>2. QED
    BY <2>1
<1>2. QED
  BY <1>1, DeliveryInvariant, PTL

\* A licence of a reversed order is revoked, or its row still leads to it.
THEOREM LicenseNeverForgotten == Spec => []NoForgottenLicense
<1>1. DeliveryInv => NoForgottenLicense
  BY DEF DeliveryInv, OneCrossing, Backed, Crossed, NoForgottenLicense
<1>2. QED
  BY <1>1, DeliveryInvariant, PTL

\* Revocations are queued for reversed and delivered orders only.
THEOREM RevocationsJustified == Spec => []RevocationIsJustified
<1>1. TypeOK /\ DeliveryInv => RevocationIsJustified
  BY DEF DeliveryInv, Backed, RevocationIsJustified, TypeOK
<1>2. QED
  BY <1>1, TypeCorrect, DeliveryInvariant, PTL

\* The ledger calls an order issued exactly when the Authority has its licence
\* and the row is delivered.
THEOREM LedgerAgreesWithAuthority == Spec => []IssuedIsBacked
<1>1. DeliveryInv => IssuedIsBacked
  BY DEF DeliveryInv, Backed, IssuedIsBacked
<1>2. QED
  BY <1>1, DeliveryInvariant, PTL

\* An order that was reversed before its row was authorized is never asked for
\* at the Authority: only Create counts a call, and its phase has crossed.
THEOREM CancelledStaysHome == Spec => CancelledNeverCrosses
<1> DEFINE Quiet == \A o \in Orders :
       order[o] \in Reversed /\ outbox[o].phase = "none" => calls'[o] = calls[o]
<1>1. TypeOK /\ DeliveryInv /\ [Next]_vars => Quiet
  <2> SUFFICES ASSUME TypeOK, DeliveryInv, [Next]_vars,
                      NEW o \in Orders, outbox[o].phase = "none"
               PROVE  calls'[o] = calls[o]
    OBVIOUS
  <2>1. ASSUME NEW w \in Workers, Create(w)
        PROVE  calls'[o] = calls[o]
    <3>1. Mine(w) # o
      BY <2>1 DEF Create, DeliveryInv, CreatorIsAlone, Crossed
    <3>2. QED
      BY <2>1, <3>1 DEF Create, TypeOK
  <2>2. CASE UNCHANGED calls
    BY <2>2
  <2>3. ASSUME NEW w \in Workers, WorkerStep(w)
        PROVE  UNCHANGED calls \/ Create(w)
    BY <2>3 DEF WorkerStep, Revalidate, Prepare, Authorize, ReadAcknowledgement,
               ReadbackFails, AuthorityFault, Finalize, Requeue, Fail
  <2>4. ASSUME NEW p \in Orders,
               LedgerStep(p) \/ AuthorityCreate(p) \/ LeaseExpires(p) \/ RetryDue(p)
        PROVE  UNCHANGED calls
    BY <2>4 DEF LedgerStep, Issue, AdminRefund, AdminRevoke, WhopReversal, Reverse,
               AuthorityCreate, LeaseExpires, RetryDue
  <2>5. ASSUME NEW w \in Workers, Crash(w) \/ \E p \in Orders : Claim(w, p)
        PROVE  UNCHANGED calls
    BY <2>5 DEF Crash, Claim
  <2>6. QED
    BY <2>1, <2>2, <2>3, <2>4, <2>5 DEF Next, vars
<1>2. QED
  BY <1>1, TypeCorrect, DeliveryInvariant, PTL DEF Spec, CancelledNeverCrosses

\* A worker that lost its lease or its fence changes a row only to record the
\* evidence of a reversed order, together with its revocation.
THEOREM FencingIsSound == Spec => FencedWorkerIsHarmless
<1> DEFINE Harmless(w) ==
      LET o == worker[w].order
      IN /\ worker[w].pc # "idle"
         /\ worker'[w] # worker[w]
         /\ \/ outbox[o].state # "leased"
            \/ outbox[o].owner # w
            \/ outbox[o].fence # worker[w].fence
         /\ outbox'[o] # outbox[o]
         => /\ order[o] \in Reversed
            /\ outbox'[o].state = "delivered"
            /\ o \in revocations'
<1>1. TypeOK /\ [Next]_vars => \A w \in Workers : Harmless(w)
  <2> SUFFICES ASSUME TypeOK, [Next]_vars, NEW w \in Workers,
                      worker[w].pc # "idle", worker'[w] # worker[w], ~Holds(w),
                      outbox'[Mine(w)] # outbox[Mine(w)]
               PROVE  /\ order[Mine(w)] \in Reversed
                      /\ outbox'[Mine(w)].state = "delivered"
                      /\ Mine(w) \in revocations'
    BY DEF Mine, Holds
  <2>1. ASSUME NEW v \in Workers, WorkerStep(v) \/ Crash(v)
        PROVE  v = w
    <3>1. worker' = [worker EXCEPT ![v] = worker'[v]]
      BY <2>1 DEF WorkerStep, Revalidate, Prepare, Authorize, Create,
                  ReadAcknowledgement, ReadbackFails, AuthorityFault, Finalize,
                  Requeue, Fail, Crash, GoTo, Return, TypeOK
    <3>2. QED
      BY <3>1 DEF TypeOK
  <2>2. ~ \E v \in Workers, o \in Orders : Claim(v, o)
    BY DEF Claim, TypeOK
  <2>3. ~ UNCHANGED worker
    OBVIOUS
  <2>4. ~ \E o \in Orders : \/ LedgerStep(o) \/ AuthorityCreate(o)
                            \/ LeaseExpires(o) \/ RetryDue(o)
    BY <2>3 DEF LedgerStep, Issue, AdminRefund, AdminRevoke, WhopReversal, Reverse,
                AuthorityCreate, LeaseExpires, RetryDue
  <2>5. WorkerStep(w) \/ Crash(w)
    BY <2>1, <2>2, <2>3, <2>4 DEF Next, vars
  <2>6. Finalize(w)
    BY <2>5 DEF WorkerStep, Revalidate, Prepare, Authorize, Create,
                ReadAcknowledgement, ReadbackFails, AuthorityFault, Requeue, Fail,
                Crash
  <2>7. PICK o \in Orders : o = Mine(w) /\ outbox[o] \in Row
    BY DEF TypeOK, Mine
  <2>8. /\ order[o] \in Reversed
        /\ outbox' = [outbox EXCEPT ![o] = Delivered(outbox[o])]
        /\ revocations' = revocations \cup {o}
    BY <2>6, <2>7 DEF Finalize, Delivered, Reversed
  <2>9. QED
    BY <2>7, <2>8 DEF Delivered, Row, TypeOK
<1>2. QED
  BY <1>1, TypeCorrect, PTL DEF Spec, FencedWorkerIsHarmless
=============================================================================
