# GrowthMap verification

TLA+ models of GrowthMap (`nerv00kaworu/growthmap`), the TLC configurations that
check them on small instances, and TLAPS proofs of their main properties for
every value of the constants. Paths below are relative to the repository root.

- [1. The system](#1-the-system)
- [2. Modules and the code they model](#2-modules-and-the-code-they-model)
- [3. Runs, bounds and results](#3-runs-bounds-and-results)
- [4. Fairness](#4-fairness)
- [5. What is proved](#5-what-is-proved)
- [6. What is only model-checked](#6-what-is-only-model-checked)
- [7. Disagreements between the code and its
  documents](#7-disagreements-between-the-code-and-its-documents)
- [8. Abstractions](#8-abstractions)
- [9. Plan](#9-plan)
- [10. Not modelled](#10-not-modelled)

## 1. The system

GrowthMap is a local-first project map (a FastAPI backend over SQLite with a web
frontend, packaged by Electron), sold through a separate payment service that
asks a licence Authority to issue licences. Three processes keep durable state of
their own: the project backend, the payment ledger and the Authority. Purchases made
through Whop have a worker with a database of its own.

### Components

| Component | Where | State it keeps | Operations |
| --- | --- | --- | --- |
| Project tree | `src/backend/api/routes.py`, `branching.py` | `nodes`, `edges` (`child_of`, mainline flag), `branches` | import, create, delete, move, reparent, promote, create edge; branch copy, merge, archive; the same by an agent's batch or approved proposal |
| Project lifecycle and seats | `api/routes.py`, `api/revisions.py` | `projects.status`, `projects.revision`, the in-process seat lock | create, import, update, archive, restore, delete |
| Agent sessions and artifacts | `api/routes.py` | `agent_sessions.status`, `agent_artifacts.status` | update session; create, approve, reject artifact |
| Agent Port | `agent_port/service.py`, `routes.py` | grants, proposals, receipts, striped key locks | auth, batch, propose, event, readback, review, create and revoke grant |
| Node content | `api/routes.py` | content blocks and their order, maturity | add, edit, reorder, delete; maturity advance; search; exports |
| Entitlement delivery | `services/payments/growthmap_payments/service.py`, `migrations/*.sql` | `entitlement_outbox`, `revocation_outbox`, `orders.state` | claim, prepare, authorize, create, read back, finalize, requeue, fail, refund, revoke, reverse |
| Sale ledger | `service.py`, `api.py` | `orders`, `settlement_intents`, `settlement_candidates`, `external_events`, `whop_webhook_inbox` | order, challenge, prepare, settle, record, finalize, cancel, PayPal submit and confirm, admin transitions, Whop events, recovery |
| Revocation delivery | `service.py` | `revocation_outbox` with leases, fences, attempts and the signer identity of a row | enqueue, claim, deliver, fail, quarantine |
| Issuance checkpoint | `service.py`, `ops.py` | a file that authenticates the whole ledger, its sequence number, backup bundles | verify, publish and commit, migrate, back up, restore |
| Whop checkout and fulfilment | `whop.py`, `whop_fulfillment.py`, `whop_buyer_api.py` | ingress inbox, `whop_fulfillments`, attempts | receive, select, grant, revoke, finish, fail; buyer challenge |
| On-chain settlement, transports | `finality.py`, `base_finality.py`, `facilitator.py`, `authority_http.py`, ... | none that outlives a call | verify, settle, prove final |
| Licence Authority | `src/backend/licensing/authority.py`, `gift_service.py`, `authority_composition.py` | licences, external entitlements, gifts, challenges, activations, revocations; the request journal | create, read back, challenge, activate, deactivate, recover, revoke; execute and replay requests |
| Authority signer | `licensing/authority.py`, `authority_service.py`, `signer_ceremony.py`, `pem_signer.py` | `signer_ceremonies`, the external anchor, the custody lock | review, claim, pin, sign |
| Database layer | `db/database.py`, `models/models.py` | the SQLite file and its schema contract | sessions, schema verification, backup |
| Desktop backend, Electron shell | `src/backend/desktop/`, `desktop/*.js` | trial, freshness, revocation and device stores; update recovery journal | startup, migration, update, restore |
| AI assistance | `src/backend/ai/` | none | build context, call a provider |
| Web frontend | `src/frontend/` | view state | calls of the project API |

### How they interact

- The frontend and the Agent Port change the same rows. They meet in one
  compare-and-swap: `UPDATE projects SET revision=expected+1 WHERE
  revision=expected`. Handlers are coroutines; every `await` is a point at which
  another handler may commit, and SQLite admits one writer at a time.
- Two process-local locks complement the database: the seat lock of
  `create_project`/`update_project`, and one lock per idempotency key.
- The payment ledger and the Authority are separate databases. The ledger's
  outbox worker crosses from one to the other with leases, fences and a
  reconciliation phase that the schema's triggers police. Webhooks and operators
  reverse orders at any moment.
- Every trusted commit of the ledger is preceded by the replacement of the
  checkpoint file: two stores that cannot be written together. The Authority has
  the same problem twice: its request journal and its signer anchor are stores
  apart from its database.
- The Whop worker calls the Authority inside a transaction of its own database,
  so that a rollback can undo its row and not the licence.

### What is hard, and what makes it correct

| Component | Hard behaviour | Correct means |
| --- | --- | --- |
| Entitlement delivery | crash or lost answer between two databases; a lease that expires under a live worker; a refund at any point | one create call per order; a licence of a reversed order is never forgotten; only reversed orders are revoked; no row is stranded where no claim takes it |
| Project tree | long sequences of legal calls by the frontend, other clients and agents; imported graphs | no dangling edge, one mainline child, merged branches are empty, a deletion removes one subtree; a forest, walks that end and grants that can be read are lost only by the steps that no handler checks |
| Seats | count-then-insert; two locks taken in both orders | never more active projects than allowed; no lost update; every request ends |
| Artifacts, Agent Port | rows read before an `await` and written after it; retries of a request that is still running | a change is applied once; statuses, receipts and verdicts tell the truth about the canon; what was approved is what was written |
| Sale ledger | answers of facilitator, chain, operator and provider in any order; reservations that expire or settle late; crashes between evidence and sale | an ordinal is held by one order at its price; a sold order was paid and a final payment leads to a sale; a sale only advances; recorded evidence is kept until it is a sale |
| Issuance checkpoint | a crash between the two halves of a commit; two processes; a backup taken meanwhile | what was acknowledged is authenticated; no service on the current schema writes over a mismatch; a bundle is one commit |
| Revocation delivery | leases lost under a call; calls applied late; the 24-hour window; a rotated signer | delivered means revoked by the identity the row is bound to; at most once; delivered or quarantined is final |
| Whop fulfilment | webhooks in any order, two workers, calls that fail after they took effect | a granted row has its licence; places are not oversold; a processed reversal has revoked |
| Licence Authority | requests executed again after a crash; certificates fetched again; last seats | seats hold; one answer per request; a challenge activates once; a device can fetch its certificate exactly while it is active under the current secret |
| Authority signer | a crash between anchor and database; a database put back, also under the running process; two records of one generation | the database follows the anchor; no signature under an earlier generation than the one before, or into a database that names another ceremony |

`PROJECT.json` lists the hazards at their lines with the properties that watch
them.

## 2. Modules and the code they model

Each component has a module with the specification and an `MC` module for TLC. The
proofs are in eight `Proofs` modules: one for each component of the project backend and
for the entitlement outbox, `LedgerProofs` for `SaleLedger` and `IssuanceCheckpoint`,
`AuthorityProofs` for `AuthorityService` and `WhopFulfillment`, `SignerProofs` for
`SignerCeremony` and `RevocationOutbox`. Where two components are proved about in one
module, one of them prefixes its specification (`CheckpointSpec`, `ServiceSpec`,
`CeremonySpec`). Mutants, plausible bugs of one definition, stand next to the definition
they alter. `PROJECT.json` maps every definition to its lines.

### `EntitlementOutbox`

State: `order` (`orders.state`), `outbox` (one `entitlement_outbox` row per
order: state, phase, lease owner, fence, attempts, retry time as a flag),
`revocations` (`revocation_outbox`), `worker` (what each running
`deliver_entitlement` has read), `inflight` and `licensed` (the Authority call
and its idempotent inbox), and the history variable `calls`.

One action per `BEGIN IMMEDIATE` transaction: `Claim` (with the reclaiming of
expired leases and the recovery of uncertain rows), `Revalidate`, `Prepare`,
`Authorize`, `Create` (the call leaves), `AuthorityCreate` (it is applied, perhaps
after the sender gave up), `ReadAcknowledgement`, `ReadbackFails`,
`AuthorityFault`, `Finalize`, `Requeue`, `Fail`; `AdminRefund`, `AdminRevoke` and
`WhopReversal`; and the environment's `LeaseExpires`, `RetryDue`, `Crash`. Every
row change passes `Protocol`, the triggers of migrations 006 to 011.

### `ProjectTree`

State: `live`, `child` (the pairs of `child_of` edges), `doubled` (the pairs that
more than one row holds), `mainline`, `home` (the branch of a node) and the branch
states. One action per handler; each handler is one transaction behind the revision
claim, so interleavings cannot matter and the difficulty is in the sequences. `Init`
is a new project or one that `import_project_json` made of any graph in `Imports`.
`Next` allows every call of the API, approved artifacts (`ApproveCreateChild`) and
what a batch or an approved proposal of the Agent Port does to the tree
(`AgentCreateNode`, `AgentCreateEdge`, `CreateBranch`); which of these the bundled
frontend uses makes no difference. A batch of several operations is those steps in a
row.

Some steps change the shape of the tree and no handler looks at it: a `child_of`
edge drawn by a client or an agent (`Drawn`; neither cycles nor second parents are
looked for), a node put below a node of another branch (`Crosses`), a node moved into
itself (`MovedIntoItself`). The structural properties say that there are no others:
from a forest every step of another kind leads to a forest (`ForestIsKept`) in which
the grants can be read (`GrantsStayReadable`), and from an acyclic graph to an acyclic
one in which the mainline walk ends (`WalksStayFinite`, which tolerates second parents
and has `MergeBelowItself` as one more exception).

The reads that depend on the shape of the tree are operators: `MainlineReach` (the
walk of `get_mainline_path`), `ValidatedScope` and `AllowedNodes` (what the Agent
Port's `validated_scoped_graph` and `allowed_nodes` make of a grant's scope) and
`ContextEnds` (the walk to the ancestors, which keeps no set of visited nodes).
They are where edits of the tree meet the Agent Port.

### `ProjectSeats`

State: `status` and `rev` of each project, `req` (the control point, target and
reads of each request), `seat` and `writer` (the two locks). A handler is cut at
its awaits: `Read`, `Claim`, `AcquireSeat`, `Count`, `Insert`, `Commit`,
`Release`; `BusyTimeout` is SQLite's answer to a writer that waits too long.
`create_project` takes the seat lock and then the writer lock, a restore in
`update_project` the other way round.

### `ArtifactReview`

State: `artifact` (status), `writes` (how often it changed the canon), `session`,
`rev`, `req`, `writer`. Approvals read, claim the revision and write the change
and the status in one commit (`Apply`); `NodeConflict` is the entity-revision
failure after the claim. Rejections and session updates read and write without a
claim, as in the code.

### `AgentPort`

State: `grant`, `proposal`, `receipt` (per grant and key), `applied` (how often
the batch of a grant and key changed the canon), `rev`, `node` (revisions), `req`,
`stripe` (the locks of keys), `writer`. Agents pass `Auth` and, except for
batches, `CheckScope`; reviews pass `ReadProposal` and `ReadGrant`. Both then run
`AcquireStripe` and `Lookup`, and either `Validate`, `Claim`, `Apply` (or
`ApplyFails`) or `Store`. `Reject` writes its row directly. `Edit` is the GUI.
The key of a proposal's approval, `proposal:<id>`, is the proposal; an agent may
choose any key, that of an approval included, as `agent_port/schemas.py` does not
tell them apart. `VerdictTellsWrites` has two halves: behind an approved proposal is
one change of exactly its operations (`ApprovedWasWritten`), and a grant without
permission to write has changed the canon only by its own reviewed proposals
(`UnpermittedWasReviewed`).

### `SaleLedger`

State: `order` (state, rail, quoted tier, `sale_ordinal`, PayPal reference), `intent`
(the order's settlement intent with its reserved ordinal and candidate), `chain` (the
fate of the signed authorization), `buyer` (how far the purchase route of `api.py` has
come), `claims`, `inbox` (the ledger's Whop inbox), `calls` (whose
`finalize_x402_intent` is still to return) and `service`. One action per transaction or
outside call: `CreateOrder`, `Challenge`, `Verify`, `PrepareIntent`, `Settle`,
`RecordCandidate`, `MarkIntentAmbiguous`, `RecordSettlement`, `FinalizeIntent`,
`FinalizeFails` (it raises: a running service forgets the call, a starting one ends),
`CancelUnpaid`, `PayPalSubmit`, `PayPalConfirm`, `Deliver` (the success of
`EntitlementOutbox`), `AdminTransition`, `ReceiveEvent`, `ApplyEvent`, `EventFails`,
`Crash`, `Start`, `Recover`; `ChainDecides` is the outside world. `FreeOrdinal` is the
numbering of sales that `prepare_x402_intent` and `_confirm_payment_locked` share.

### `IssuanceCheckpoint`

State: `db` (sequence and rows of the committed ledger), `doc` (the snapshot that the
checkpoint file authenticates), `schema` (version 5, another older one, current),
`writer`, what each process is doing and whether it closed itself, `acked` (what callers
were told), the running backup and the published bundle. `Begin` verifies under the
writer lock, `Publish` replaces the file, `Commit` commits; `Rollback` is either half
failing, after which `_apply_whop_event` alone goes on (`NoteFailure`, `Republish`).
`CheckpointInit` allows a new ledger and one that an older release left, with rows, and
with no checkpoint file, the matching one or that of an unfinished commit. `Migrate` and
`Adopt` are `_init` on an older schema (`LegacyVerified`: only version 5 has its
checkpoint verified), `StartVerified` on the current one; `ProcessDies` is a crash
anywhere. `BeginBackup`, `CopyDatabase`, `PublishBundle`, `RetryBackup`, `Restore` are
`ops.py`.

### `RevocationDelivery` and `RevocationOutbox`

`RevocationDelivery` is the promise: asked, revoked at most once, settled as
delivered (only once revoked) or abandoned, and settled for good. It promises no
progress: nothing in the repository calls `claim_revocation` or `deliver_revocation`.
`RevocationOutbox` is the code: `revocation_outbox` rows with lease, fence,
attempts, retry time and the signer identity they are bound to; the stages of each
`deliver_revocation` (`Handshake`, `Revoke`, `Readback`, `Finalize`, `Fail`); the
Authority's record; requests in flight (`LateRevoke`); the 24-hour window
(`DayPasses`); `RotateSigner` and `RotateConfig`. `ImplementsDelivery` is the
refinement: pending and leased rows are queued requests, quarantined ones are
abandoned.

### `WhopFulfillment`

State: `inbox` (webhooks with their attempts), `row` (`whop_fulfillments` with the
tier they were granted for),
`authority` (which webhook a licence and a revocation is bound to), `lock` (SQLite's
writer lock, held across the Authority calls), `worker`, `buyer`. `Receive` is
the ingress that stores verified webhooks, which is not in the repository. `Select`
reads a webhook, `BeginGrant`/`BeginRevoke` open the transaction with all its early
returns, `Create`/`Acknowledge` and `Revoke`/`AcknowledgeRevocation` are the calls,
`Finish` and `Fail` the webhook's own transaction, `LockTimeout` SQLite's answer to
a writer that waits too long. A second payment event must agree with the whole
commercial digest of the row (`SameDigest`), a reversal with its product and plan only
(`SamePlan`). Webhooks of a batch are workers of their own, which
allows more interleavings than the loop has.

### `LicenseAuthority` and `AuthorityService`

`LicenseAuthority` has the operations of the Authority as actions over `licence`,
`source`, `activation` and `challenge`, each with what it returns. A completed
challenge answers again (`Retrievable`) while its activation is the current one and,
for a gift, while the secret it was issued under is: `recover_gift` leaves the devices
active and takes that from them. `AuthorityService`
extends it with the request journal of `authority_composition.py`: `Accept`,
`Effect`, `Commit` are three commits in two databases, `LoseResponse` falls between
the last two, `Reaccept` executes a request again after its lease, `Replay` answers
from the journal, `RequestEnds` is the end of a signature's permitted age.

### `SignerCeremony`

State: `anchor` (generation and digest outside the database), `pinned`
(`signer_ceremonies`), an older `copy` of it, `reviewed` records, the process `pc`
with its `ceremony`, `hot` (a journal left behind), and the history variable
`last`. `Start`, `Advance`, `Conflict`, `Pin` are `_construct`; `Admit`,
`BeginSign`, `Sign`, `SignFails` one signed operation; `End`, `ClearJournal`,
`Backup`, `Rollback` what happens to process and files. A copy can be restored into
the database file under the running process, whose custody check compares the file's
identity and not its content; `BeginSign` then finds another ceremony than its own
(`IsSigner`) and refuses.

## 3. Runs, bounds and results

Every run but `checkpoint_docs` passes: TLC explores the whole instance and finds no
violation.

| Run | Checks | Instance |
| --- | --- | --- |
| `entitlement_outbox` | `CreateAtMostOnce`, `NoForgottenLicense`, `RevocationIsJustified`, `IssuedIsBacked`, `CancelledNeverCrosses`, `FencedWorkerIsHarmless`, `RowIsNeverStranded` | one order, two workers, two attempts, two faults, fair |
| `project_tree` | `OneMainline`, `ClosedBranchIsEmpty`, `DeletionIsContained`, `ForestIsKept`, `WalksStayFinite`, `GrantsStayReadable` | four nodes, one branch, imported files with a cycle through the root and with a second parent, any client and agent |
| `project_seats` | `SeatsRespected`, `NoLostUpdate`, `EveryRequestEnds` | three projects, one seat, two requests, fair |
| `artifact_review` | `CanonMatchesStatus` | two artifacts, three requests |
| `agent_port` | `ReceiptTellsWrites`, `OneWriterPerRevision`, `VerdictTellsWrites`, `NodeBumpedOnce` | two grants, one of them a writer's, one key beside the approval's, one proposal, one node, two requests |
| `sale_ledger` | `EarlyPlaces`, `PaymentBacked`, `SaleOnlyAdvances`, `SettledIsKept` | two orders, one early place, one PayPal transaction, one Whop event, two attempts, one crash |
| `issuance_checkpoint` | `AckedIsCheckpointed`, `BundleIsOneCommit`, `FailClosed` | two processes, one of them the API, two transactions and a webhook, two backup attempts, three faults |
| `checkpoint_docs` | `MismatchFailsClosed`, violated (section 7) | the same |
| `revocation_outbox` | `DeliveredIsProven`, `LostLeaseIsHarmless`, `ImplementsDelivery` | one order, two workers, three attempts, two signer generations, three faults |
| `whop_fulfillment` | `GrantIsBacked`, `EarlyAllocation`, `ReversalTakesEffect` | three webhooks, two payments of either tier, one early place, two workers, two attempts, one fault |
| `authority_service` | `SeatsHeld`, `CertificateIsLive`, `OneAnswer`, `ChallengeUsedOnce` | one licence, two devices, two challenges, one source, two requests, two secrets |
| `signer_ceremony` | `DatabaseFollowsAnchor`, `SignaturesAdvance` | three generations, two documents for each |

Why the bounds are enough for the cases that matter:

- Orders do not share rows, locks or workers' state in the delivery protocols, so
  one order with two workers has every race over a row: a stale worker, its
  successor and a reversal. Two attempts let a row be retried once and then
  exhaust `MaxAttempts`; the faults allow a crash during the recovery from a
  crash or a lost lease. For revocations the third attempt lets a row be retried
  after a rotation as well.
- Four nodes are a root, a subtree of two levels and a place to move it to; a
  branch copy of a node with a child fits as well. `FewEdges` bounds the rows of
  `child_of`: four have a diamond, a cycle below the root and a second parent.
- Three requests on artifacts are two that race and a third that changes what they
  read. Two requests of the Agent Port race for a key or for a revision while
  grants and nodes change around them; the proposal's key lets a batch race the
  approval of the proposal, under its own key or under another, and the second grant
  has no permission to write. The seat run has liveness and therefore no symmetry: two
  requests suffice for every race over the one seat and for the embrace of the two
  locks, three projects allow an activation after a failed one. `MaxRev` lets
  revisions go stale.
- In the sale ledger orders meet in the numbering only: two orders and one early
  place have one at each price and a place that is reserved, given up and taken by
  the other. One event on top of the operator's transitions is a reversal from
  outside; a crash falls between any two transactions.
- Two processes on the ledger are one that fails between the halves of its commit
  and one that must notice. Two transactions put one acknowledged change before
  the failure and one after it.
- Three webhooks are a payment, its repetition or a contradicting one, and a
  refund; the second payment competes for the place.
- Two requests at the Authority are one that is executed again after a crash and
  one that changes what it finds. One licence suffices because licences share
  nothing; seat limits of one and two are both tried.
- Three generations are a rotation, and a database put back to before it.
- Symmetry is declared on sets whose members no definition tells apart, and only
  in runs without liveness properties.

Deadlock is checked in `project_tree`, `artifact_review`, `agent_port` and
`signer_ceremony`. Elsewhere the system may stop: a settled row
has nothing left to do, project ids and revisions run out, a ledger apart from its
checkpoint is closed, challenges and journal rows are used up; those configurations
say `CHECK_DEADLOCK FALSE`.

## 4. Fairness

Two runs have liveness properties. No fairness is assumed of anybody who would have
to call the service again: `docs/PAYMENTS-v1.md` 99 and `services/payments/README.md`
98 speak of workers that replay pending rows, and the repository contains none (the
purchase route calls `deliver_entitlement` once, `pending_outbox_orders`,
`claim_revocation` and `deliver_revocation` have no caller).

- `EntitlementOutbox!FairSpec`: a call of `deliver_entitlement` that has started runs
  to its end unless it crashes (its requests have timeouts), and time passes
  (`LeaseExpires`, `RetryDue`). `RowIsNeverStranded` says that this alone brings a row
  to where the next claim takes it; `Claim` itself is never required. Crashes are
  bounded by `MaxFaults`.
- `ProjectSeats!FairSpec`: weak fairness of every step of a handler (the event
  loop and SQLite's busy timeout run on), strong fairness of `AcquireSeat`
  because `asyncio.Lock` serves its waiters in order. The busy timeout is what
  ends the embrace of a restore (writer, then seat) and a creation (seat, then
  writer): the mutant that removes it violates `EveryRequestEnds`.

`SaleLedger` and `RevocationOutbox` have no fairness: a service that is down need not
be started, and after a crash between the two halves of a commit no start succeeds
(`IssuanceCheckpoint`).

## 5. What is proved

All theorems hold for every value of the constants under the named `ASSUME`s of
the modules. Most say only that null values are not members of their sets and that
bounds are naturals. The others come from the code:

- `ProjectSeats!ProjectsAssumption`: the set of project ids is finite.
- `LicenseAuthority!AuthorityConstants`: a licence has one or two seats
  (`authority.py`, `create_license`).
- `IssuanceCheckpoint!OneApi`: one process has the webhook route. Its checkpoint lock
  is a lock of the process (`service.py` 17-20), and the server is one process; see
  section 7 for what happens with two.
- `IssuanceCheckpoint!DistinctRows`: the row that notes a failed webhook is not the
  webhook's own, and a missing file is not a snapshot.

Nothing is assumed about the number of orders, workers, nodes, requests, keys,
grants, payments, licences, devices or processes. Where a property counts (early
payments with a row, active devices) that the counted set is finite is part of the
invariant: its members are added one by one.

| Theorem | Statement |
| --- | --- |
| `EntitlementOutboxProofs!TypeCorrect`, `DeliveryInvariant`, `AtMostOneCreate`, `LicenseNeverForgotten`, `RevocationsJustified`, `LedgerAgreesWithAuthority`, `CancelledStaysHome`, `FencingIsSound` | `Spec => []TypeOK`, `[]DeliveryInv` and each safety property of `entitlement_outbox` |
| `ProjectTreeProofs!TreeTypes`, `MainlineUnique`, `ClosedBranches`, `DeletionContained`, `TreeStaysForest`, `GrantsReadable`, `WalksFinite` | the properties of `project_tree`, for any client, agent and imported graph |
| `ProjectSeatsProofs!SeatTypes`, `SeatInvariant`, `SeatLimit`, `ReadsAreCurrent`, `UpdatesSerialised` | the safety properties of `project_seats`, and that a status read before the claim is the one replaced |
| `ArtifactReviewProofs!ReviewTypes`, `ReviewInvariant`, `ArtifactAppliedOnce`, `StatusTellsWrites`, `CanonMatches` | the property of `artifact_review` and its two halves |
| `AgentPortProofs!AgentTypes`, `AgentInvariant`, `BatchesAreIdempotent`, `RevisionsAreWrittenOnce`, `VerdictsAreTrue`, `NodesAdvanceOnce` | the properties of `agent_port` |
| `LedgerProofs!SaleInvariant`, `EarlyPlacesAreSoldOnce`, `SalesArePaid`, `SalesOnlyAdvance`, `SettledAreKept` | `Spec => []SaleInv` and the properties of `sale_ledger` |
| `LedgerProofs!CheckpointInvariant`, `AckedAreCheckpointed`, `BundlesAreOneCommit`, `ChecksFailClosed` | `CheckpointSpec => []CheckpointInv` and the properties of `issuance_checkpoint` |
| `SignerProofs!OutboxInvariant`, `DeliveriesAreProven`, `LostLeasesAreHarmless` | `Spec => []OutboxInv` and the other properties of `revocation_outbox` |
| `SignerProofs!OutboxImplementsDelivery` | `Spec => ImplementsDelivery`: the refinement of `RevocationDelivery` |
| `AuthorityProofs!FulfillmentInvariant`, `GrantsAreBacked`, `EarlyPlacesAreAllocatedOnce`, `ReversalsTakeEffect` | `Spec => []FulfillmentInv` and the properties of `whop_fulfillment` |
| `AuthorityProofs!ServiceInvariant`, `SeatsAreHeld`, `CertificatesAreLive`, `AnswersAreFinal`, `ChallengesAreUsedOnce` | `ServiceSpec => []ServiceInv` and the properties of `authority_service` |
| `SignerProofs!CeremonyInvariant`, `DatabaseFollows`, `SignaturesOnlyAdvance` | `CeremonySpec => []CeremonyInv` and the properties of `signer_ceremony`, for any number of generations and documents |

The arguments:

- **Delivery.** `CreateAtMostOnce` is not inductive: it depends on the phase of the
  row remembering a crossing. `DeliveryInv` says that a row whose create call has
  left is in a crossed phase for ever, that the worker between `Authorize` and
  `Create` is the only one of its order and still the row's holder or already
  overtaken by `readback_only`, and that delivered rows, `license_issued` orders
  and queued revocations are backed by the Authority. The triggers (`Protocol`)
  forbid the phase to go back, which is why the fence alone need not.
- **Tree.** Types, mainlines, closed branches and deletions are inductive with
  `TypeOK`; the structural properties are proved step by step, each under the
  assumption that the step before had the shape. `Subtree` is the least closed set, so
  that reachability is reasoned about without recursion; the key lemma moves a subtree
  below a node outside it. For grants: in a forest every node of a scope other than
  its top has its one parent inside, so the scope validates, and a walk to the
  ancestors cannot come back. The walk along the mainline goes down: `Acyclic` says of
  every set of nodes both that it has a member without a parent in it and that it has
  one without a child in it, because for infinitely many nodes neither implies the
  other, and an induction over a finite set is not available.
- **Seats.** `SeatInv` ties the control point of a request to the locks it holds,
  says that the holder of the writer lock has read the current row, and that who
  has passed `Count` while it holds the seat lock still has room. Cardinalities
  come from `FiniteSetTheorems`.
- **Artifacts.** `ReviewInv`: an approval whose revision is still the current one
  is for an artifact that nobody has written, because every write of the canon
  moves the revision.
- **Agent Port.** `AgentInv`: between `Lookup` and its end a request has its key
  for itself (`KeyIsFree`, from the key's lock); what it validated can be outdated
  only if the project revision it was sent is (`ValidatedIsCurrent`); applied
  receipts carry past revisions (`PastRevisions`); and the batch of an approval is the
  stored proposal's while every other batch comes from a writer (`OwnProposal`), which
  is what keeps verdicts true although keys may collide.
- **Sale ledger.** `EarlyPlaces` and `PaymentBacked` are inductive only together and
  with `SaleOK`, what the state of an order says about its intent, its authorization
  and the purchase request: a reserved ordinal is given up only by an intent whose
  authorization is void (`cancelled_unpaid`), so the free ordinal that the numbering
  finds is free for the payments still on their way too. `ClaimsAreOwn` makes a PayPal
  transaction pay once, `EventsAreOpen` bounds the Whop inbox. `SaleOnlyAdvances` is a
  step property of the invariant: an order with an ordinal is confirmed or reversed,
  and no transition out of those states goes back. `SettledIsKept` needs
  `RecoveryIsComplete`: a start has every settled intent on its list until it is
  finalized or the start ends.
- **Checkpoint.** `CheckpointInv` gives each process what it relies on (`ProcessOK`):
  the lock and an unrecorded transaction inside one, the file equal to the ledger
  after verification, the file one transaction ahead after publication. After a failed
  webhook, outside any lock, the file matches or is `Ahead` by a transaction that did
  not commit, so the note that is committed next leaves the two unequal: until the file
  is published again no other process passes verification, and by `OneApi` none is at
  the same two steps itself. `MigrationOnce` ties the schema to the row that
  the migration leaves, which is how a file of an older release is told from one that
  was adopted. `CopyIsPast` carries a copied database to the bundle.
- **Revocation outbox.** `OutboxInv`: from its first handshake on a call's row is bound
  to the configured identity (`CallIsBound`; a rotation ends the calls), so what the
  Authority recorded for it is what the row needs; and nothing is revoked, or on its
  way to be, that was not asked for (`RevokedWasAsked`). The latter is what the
  refinement needs: a late call is `Revoke` of the abstract delivery, which requires a
  request. Under the mapping `Enqueue` is `Ask`, a recorded revocation is `Revoke`,
  `Finalize` and a quarantining `Fail` are `Settle`, all else stutters.
- **Whop fulfilment.** `FulfillmentInv`: a worker in a transaction has the writer lock
  and its payment's row is as it was read (`WorkerOK`), so the place it counted is
  still free when it commits; the Authority holds what its call asked for, by the
  webhook that called. `InboxInv` is the state form of `ReversalTakesEffect`: a
  processed reversal has revoked, and no operation leaves `revoked`.
- **Licence Authority.** `SeatsHeld` and the first half of `CertificateIsLive`,
  `RequestsAgree`, need each other: an activation is counted by its device, but it is
  ended through the challenge that made it, so every activation must name a challenge
  for its own licence and device (`ChallengeIsGrounded`). Counting devices is
  `Cardinality` of a set that grows by one (`ActiveIsFinite`). That an active device's
  challenge is retrievable follows from `UsedIsConsumed` and the licence being
  unrevoked. `JournalInv` is the other database: only a `COMMITTED` row has a response,
  the request that runs was let in and has its body, and what a client was told is what
  its row says, which makes replays agree although executions need not.
- **Signer.** `CeremonyInv`: a process past the anchor is the one the anchor names, a
  process between its check and its signature has pinned its ceremony (a process that
  only serves need not have: the database may have been put back under it), the table
  and every copy of it follow the anchor, and the last signature is not ahead of it.
  `SignaturesAdvance` is an action property of that invariant: a signature under
  another ceremony than the last needs the anchor to have moved, and it moves upwards
  only.

## 6. What is only model-checked

- Liveness, which is outside what the proof system handles: `RowIsNeverStranded` and
  `EveryRequestEnds`.
- The violation of `MismatchFailsClosed`.

Every invariant and every action property of the runs is also proved. The inductive
invariants of section 5 were checked with TLC on the instances of the runs before
they were proved.

## 7. Disagreements between the code and its documents

The models have the behaviour of the code in each of these places; the properties
are stated so that they hold in spite of it. The first has a run of its own,
`checkpoint_docs`.

| Where | Statement | What happens |
| --- | --- | --- |
| `docs/PAYMENTS-v1.md` 69; `service.py` 165-182 | "Missing/mismatched checkpoint or key fails closed." | a start on a populated ledger of version 6 to 12 looks at no checkpoint, migrates and writes one for whatever the ledger holds; `FailClosed` has this as its exception |
| `docs/PAYMENTS-v1.md` 99, payments `README.md` 98 | "A crash at either side is recovered by replaying pending outbox rows"; workers reclaim quarantined rows after a restart | the repository has no worker that does (section 4) |
| `api.py` 222-223, `service.py` 316 | "settlement ambiguous; manual reconciliation required" | when `finalize_x402_intent` raises after the evidence was recorded, the intent is `settled`: it is not marked ambiguous, `reconcile_intent` refuses it, and only the next start finalizes it (`SaleLedger!FinalizeFails`) |
| payments `README.md`, `service.py` 565 | refunds preserve the phase, `manual_review` is terminal but queryable | a refund of a paid order whose row is in `manual_review` is aborted by the phase trigger (`EntitlementOutbox!Protocol`) |
| `api/routes.py` `move_node` | "with cycle detection" | a node may become its own parent |
| `api/routes.py` `get_mainline_path` | "to deepest leaf" | an edge drawn by a client or an imported file may close a cycle of mainline edges through the root, and the walk does not end; `WalksStayFinite` lists the steps that can |
| white paper; `api/routes.py` 380 | rejection does not apply the artifact | a rejection that read the artifact before an approval committed marks the applied artifact rejected; `review` of the Agent Port has the same race, so `CanonMatchesStatus` and `VerdictTellsWrites` leave rejected ones open |
| smoke test; `api/routes.py` 268 | a completed session refuses `active` | a racing update that read the session earlier reopens it |
| Agent Port document; `agent_port/routes.py` 219 | revoking a grant invalidates every pending proposal; approval reloads the grant in one transaction | an approval that read the grant before its revocation applies the proposal afterwards |
| Agent Port `review` 219-220; `agent_port/schemas.py` 9, `service.py` 194-197 | an approval answers `approved` with the receipt of its proposal | an agent with write permission may have spent the key `proposal:<id>` on a batch: with the same operations the approval answers from that receipt and reports success while the proposal stays pending, with others it is refused for good |
| `service.py` 649 | "Reversals are monotonic and can arrive before paid." | a reversal of an order under review for an ambiguous intent is applied, and the settlement that follows sets the order to `payment_confirmed` (or, unpaid, to `expired`); `SaleOnlyAdvances` speaks of orders that have their ordinal |
| `service.py` 129-131 | the checkpoint is published while the same `BEGIN IMMEDIATE` excludes every writer | after a failed commit `_apply_whop_event` publishes again outside that transaction (670). The model has one process with the webhook route (`OneApi`); with two the republished file can be older than the ledger |
| payments `README.md` 43 | the worker reads `retry_pending` rows and marks other events `ignored` | it reads `verified_pending` only and marks them `processed` |
| `authority_composition.py` 274-275 | the effect "MUST be deterministic/idempotent for the same binding" | `create_gift` and `recover_gift` draw a new gift or secret each time they run; a request executed again after a crash leaves one that nobody was told of |

A PayPal order is confirmed with the audit event `entitlement.not_configured` and
gets no entitlement row (`service.py` 503), so `Deliver` is for x402 orders only.

## 8. Abstractions

- *Transactions.* A SQLite read before the first write of a session sees the rows
  committed at its own moment (the driver opens a transaction at the first write),
  so it is an action of its own; from the first write to the commit the request
  holds the writer lock. Where nothing can be observed between the last write and
  the commit, they are one action.
- *Rollback.* Uncommitted changes are not put into the shared variables before the
  commit; raising an error is `Return`, which gives up the locks.
- *Payloads.* Titles, evidence, signatures and JSON bodies are reduced to whether
  two are equal or whether a check accepts them. A check that depends on nothing
  modelled may go either way (scope, references, rate limit, payload limits).
- *A batch* in `AgentPort` touches one existing node; what batches do to the tree is in
  `ProjectTree`, where the scope of the grant, which only forbids, is left out. Batches
  with several operations are applied in one transaction and bump each touched node
  once, from the same validated rows.
- *Locks of keys.* The code hashes keys to 256 stripes. A collision only makes two
  requests wait that need not; the model has one lock per key.
- *Autoflush.* A reviewer's note that differs from the stored one is written by the
  first query after it, so that the approval holds the writer lock from `Lookup` on
  (`dirty`).
- *Time* is the freedom to expire: leases, retry times, grants, quotes, challenges,
  the 24-hour window of revocations and the permitted age of signed requests.
- *Digests and signatures* are the things they are computed from: the checkpoint is
  the snapshot it authenticates, a ceremony's digest its document, a webhook's
  payload digest its id. A signature verifies or the call is refused.
- *The chain* is four states of one authorization per order: unsent, sent, final,
  void. A finality provider proves what is final and only that; the quorum of RPC
  endpoints is trusted as `service.py` trusts it.
- *The Authority* appears in several models at the detail each needs: as an
  idempotent inbox in `EntitlementOutbox`, with events and freshness in
  `RevocationOutbox` and `WhopFulfillment`, and in full in `LicenseAuthority`. That
  they agree is an argument by the shared lines of `authority.py`, not a checked
  refinement.
- *Schema migrations* are one step from an older schema to the current one. That
  those up to version 6 quarantine the terminal rows they find is not modelled.
- *Imported projects* have a root: a file without `root_node_id` makes a project on
  which the mainline walk and the root checks have nothing to start from. An import
  makes a new project, so it is an initial state of `ProjectTree` and a request of
  `ProjectSeats`.

## 9. Plan

Built, in this order: `EntitlementOutbox`, `ProjectTree`, `ProjectSeats`,
`ArtifactReview`, `AgentPort`; then `SaleLedger`, `IssuanceCheckpoint`,
`RevocationOutbox` with `RevocationDelivery`, `WhopFulfillment`,
`LicenseAuthority` with `AuthorityService`, `SignerCeremony`; then the proofs of all
their safety properties. Next:

1. The Authority of `RevocationOutbox` as an abstraction of `LicenseAuthority`.
2. `ContentBlocks`: block order and maturity as operators against a reference
   definition.
3. Desktop stores: update recovery journal, trial and freshness stores across
   crashes.

## 10. Not modelled

Rendering and view state of the frontend, the website, packaging and release scripts,
prompt building and provider calls (no state), HTTP parsing, token hashing and
signatures (libraries), exports and searches (pure reads), schema verification, key
exchange and rate limits of the services, the gift bridge, content blocks, the desktop's
startup and stores. `PROJECT.json` gives the reason for each component that is left out
or only partly modelled.
