------------------------- MODULE IssuanceCheckpoint -------------------------
(***************************************************************************)
(* The external issuance checkpoint of the payment ledger                  *)
(* (services/payments/growthmap_payments/service.py) and the backup of the *)
(* pair (ops.py).  Every trusted transaction takes SQLite's writer lock,   *)
(* compares the whole database with the checkpoint file, replaces the file *)
(* and only then commits; a service that cannot do so closes itself.       *)
(* Several service processes work on one database, each may fail or crash  *)
(* between any two steps, and an operator backs up the pair meanwhile.     *)
(* The database may be one that an older release left behind, with the     *)
(* checkpoint file it left: none, the matching one, or that of a commit    *)
(* which the release did not finish.                                       *)
(***************************************************************************)
EXTENDS Naturals, FiniteSets

CONSTANTS Services,   \* processes on the same database: the API and its workers
          Apis,       \* those that serve the webhook route
          Txns,       \* the transactions that callers ask for
          Webhooks,   \* those of them that apply a Whop event
          Nobody,     \* the writer lock is free
          Missing,    \* a file or a bundle that does not exist
          Retries,    \* attempts of one backup
          MaxFaults   \* bound on the failures and crashes

ASSUME CheckpointConstants ==
  /\ Webhooks \subseteq Txns /\ Apis \subseteq Services
  /\ Nobody \notin Services
  /\ Retries \in Nat \ {0} /\ MaxFaults \in Nat

\* The webhook route runs in one process, where the checkpoint lock of
\* receive_whop_event lets one event be applied at a time.
ASSUME OneApi == \A p, q \in Apis : p = q

VARIABLES db,       \* the committed database: its sequence and its rows
          doc,      \* the checkpoint file: the snapshot it authenticates
          schema,   \* PRAGMA user_version: 5, another one before SCHEMA_VERSION, or current
          writer,   \* the process in a BEGIN IMMEDIATE transaction
          proc,     \* what each process is doing, and on which transaction
          failed,   \* _checkpoint_failed of each process
          acked,    \* transactions whose caller was told they succeeded
          backup,   \* the running backup_pair
          bundle,   \* the published bundle
          faults

checkpointVars == <<db, doc, schema, writer, proc, failed, acked, backup, bundle, faults>>

-----------------------------------------------------------------------------
\* A row is the effect of a transaction, the note that applying a webhook
\* failed, or the migration ledger.
Failure(t) == <<"apply_failed", t>>
Migration == <<"migration_ledger", Missing>>
Rows == Txns \cup {Failure(t) : t \in Webhooks} \cup {Migration}

Snapshot == [seq : Nat, root : SUBSET Rows]

ASSUME DistinctRows ==
  /\ \A t \in Webhooks : Failure(t) \notin Txns
  /\ Migration \notin Txns
  /\ Missing \notin Snapshot

Stage == {"down", "migrated", "serving", "open", "published", "loose", "republish"}

\* copy and before are the database and the checkpoint that an attempt read;
\* owed are the transactions acknowledged when it copied the database.
NoBackup == [stage |-> "idle", attempt |-> 0, before |-> Missing, copy |-> Missing,
             owed |-> {}]

\* The database after the rows of one more trusted transaction.
With(rows) == [seq |-> db.seq + 1, root |-> db.root \cup rows]

\* The ledger is new, or holds what an older release acknowledged; sequences
\* are counted from there.
CheckpointInit ==
  /\ \E done \in SUBSET Txns : db = [seq |-> 0, root |-> done] /\ acked = done
  /\ doc \in {Missing, db} \cup {With({t}) : t \in Txns \ db.root}
  /\ schema \in {"v5", "old"}
  /\ writer = Nobody
  /\ proc = [p \in Services |-> [stage |-> "down", txn |-> Missing]]
  /\ failed = [p \in Services |-> FALSE]
  /\ backup = NoBackup
  /\ bundle = Missing
  /\ faults = 0

GoTo(p, stage) == proc' = [proc EXCEPT ![p].stage = stage]

-----------------------------------------------------------------------------
(* Start. *)

\* _verify_or_initialize_checkpoint: the file authenticates exactly this
\* database.
Matches == doc = db

\* _verify_legacy_v5_checkpoint, of version 5 alone: its file authenticates its
\* terminal rows, or there is neither.  Nothing is asked of a later version.
LegacyVerified == schema = "v5" => Matches \/ (doc = Missing /\ db.root = {})

\* _init on an older schema applies the migrations ...
Migrate(p) ==
  /\ proc[p].stage = "down" /\ writer = Nobody
  /\ schema # "current" /\ LegacyVerified
  /\ schema' = "current"
  /\ db' = [db EXCEPT !.root = @ \cup {Migration}]
  /\ GoTo(p, "migrated")
  /\ UNCHANGED <<doc, writer, failed, acked, backup, bundle, faults>>

\* ... and adopts the result with _write_checkpoint.
Adopt(p) ==
  /\ proc[p].stage = "migrated" /\ writer = Nobody
  /\ doc' = db
  /\ proc' = [proc EXCEPT ![p].stage = "serving"]
  /\ failed' = [failed EXCEPT ![p] = FALSE]
  /\ UNCHANGED <<db, schema, writer, acked, backup, bundle, faults>>

\* A start on the current schema only verifies; it never repairs a mismatch.
StartVerified(p) ==
  /\ proc[p].stage = "down" /\ writer = Nobody
  /\ schema = "current" /\ Matches
  /\ GoTo(p, "serving")
  /\ failed' = [failed EXCEPT ![p] = FALSE]
  /\ UNCHANGED <<db, doc, schema, writer, acked, backup, bundle, faults>>

-----------------------------------------------------------------------------
(* A trusted transaction. *)

\* Mutant of Begin: the process does not look at the checkpoint file.
BeginUnverified(p, t) ==
  /\ proc[p].stage = "serving" /\ writer = Nobody
  /\ ~failed[p]
  /\ t \notin db.root /\ (t \in Webhooks => p \in Apis)
  /\ writer' = p
  /\ proc' = [proc EXCEPT ![p] = [stage |-> "open", txn |-> t]]
  /\ UNCHANGED <<db, doc, schema, failed, acked, backup, bundle, faults>>

\* BEGIN IMMEDIATE and _assert_terminal_trust.
Begin(p, t) ==
  /\ proc[p].stage = "serving" /\ writer = Nobody
  /\ ~failed[p] /\ Matches
  /\ t \notin db.root /\ (t \in Webhooks => p \in Apis)
  /\ writer' = p
  /\ proc' = [proc EXCEPT ![p] = [stage |-> "open", txn |-> t]]
  /\ UNCHANGED <<db, doc, schema, failed, acked, backup, bundle, faults>>

\* _commit_trusted: the checkpoint of the new database replaces the file ...
Publish(p) ==
  /\ proc[p].stage = "open"
  /\ doc' = With({proc[p].txn})
  /\ GoTo(p, "published")
  /\ UNCHANGED <<db, schema, writer, failed, acked, backup, bundle, faults>>

\* ... before the database commits.
Commit(p) ==
  /\ proc[p].stage = "published"
  /\ db' = With({proc[p].txn})
  /\ acked' = acked \cup {proc[p].txn}
  /\ writer' = Nobody
  /\ GoTo(p, "serving")
  /\ UNCHANGED <<doc, schema, failed, backup, bundle, faults>>

\* Mutant of Rollback: the failed commit is reported as a success.
RollbackReportsSuccess(p) ==
  /\ proc[p].stage \in {"open", "published"} /\ faults < MaxFaults
  /\ writer' = Nobody
  /\ failed' = [failed EXCEPT ![p] = TRUE]
  /\ acked' = acked \cup {proc[p].txn}
  /\ GoTo(p, "serving")
  /\ faults' = faults + 1
  /\ UNCHANGED <<db, doc, schema, backup, bundle>>

\* The file cannot be written or the commit fails: the transaction is rolled
\* back and the process closes itself.  _apply_whop_event catches that error
\* too and goes on to note the failed application.
Rollback(p) ==
  /\ proc[p].stage \in {"open", "published"} /\ faults < MaxFaults
  /\ writer' = Nobody
  /\ failed' = [failed EXCEPT ![p] = TRUE]
  /\ GoTo(p, IF proc[p].txn \in Webhooks THEN "loose" ELSE "serving")
  /\ faults' = faults + 1
  /\ UNCHANGED <<db, doc, schema, acked, backup, bundle>>

\* The note is written outside any transaction, so it is committed at once,
\* and with it the next sequence number.
NoteFailure(p) ==
  /\ proc[p].stage = "loose" /\ writer = Nobody
  /\ db' = With({Failure(proc[p].txn)})
  /\ GoTo(p, "republish")
  /\ UNCHANGED <<doc, schema, writer, failed, acked, backup, bundle, faults>>

\* The second _commit_trusted publishes the database as it now is, or fails.
Republish(p) ==
  /\ proc[p].stage = "republish"
  /\ \/ doc' = db /\ UNCHANGED faults
     \/ UNCHANGED doc /\ faults < MaxFaults /\ faults' = faults + 1
  /\ GoTo(p, "serving")
  /\ UNCHANGED <<db, schema, writer, failed, acked, backup, bundle>>

\* SQLite rolls back what a dead process had not committed.
ProcessDies(p) ==
  /\ proc[p].stage # "down" /\ faults < MaxFaults
  /\ proc' = [proc EXCEPT ![p] = [stage |-> "down", txn |-> Missing]]
  /\ writer' = IF writer = p THEN Nobody ELSE writer
  /\ faults' = faults + 1
  /\ UNCHANGED <<db, doc, schema, failed, acked, backup, bundle>>

\* An operator stops a process that closed itself.
Stop(p) ==
  /\ proc[p].stage = "serving" /\ failed[p]
  /\ proc' = [proc EXCEPT ![p] = [stage |-> "down", txn |-> Missing]]
  /\ UNCHANGED <<db, doc, schema, writer, failed, acked, backup, bundle, faults>>

-----------------------------------------------------------------------------
(* backup_pair and restore_pair. *)

BeginBackup ==
  /\ backup.stage = "idle" /\ bundle = Missing /\ doc # Missing
  /\ backup' = [NoBackup EXCEPT !.stage = "copy", !.attempt = 1, !.before = doc]
  /\ UNCHANGED <<db, doc, schema, writer, proc, failed, acked, bundle, faults>>

\* The online backup sees a committed database, whoever is writing.
CopyDatabase ==
  /\ backup.stage = "copy"
  /\ backup' = [backup EXCEPT !.stage = "verify", !.copy = db, !.owed = acked]
  /\ UNCHANGED <<db, doc, schema, writer, proc, failed, acked, bundle, faults>>

\* Mutant of BackupMatches: the identity of the file is all that is compared.
BackupMatchesFileOnly == doc = backup.before

\* The checkpoint file is still the one that was read (_assert_identity), the
\* copy has the current schema, and the file authenticates it (_validate).
BackupMatches ==
  /\ doc = backup.before
  /\ Migration \in backup.copy.root
  /\ backup.before = backup.copy

PublishBundle ==
  /\ backup.stage = "verify"
  /\ BackupMatches
  /\ bundle' = [db |-> backup.copy, doc |-> backup.before, owed |-> backup.owed]
  /\ backup' = NoBackup
  /\ UNCHANGED <<db, doc, schema, writer, proc, failed, acked, faults>>

RetryBackup ==
  /\ backup.stage = "verify"
  /\ ~BackupMatches
  /\ backup' = IF backup.attempt = Retries THEN NoBackup
               ELSE [NoBackup EXCEPT !.stage = "copy", !.attempt = backup.attempt + 1,
                                     !.before = doc]
  /\ UNCHANGED <<db, doc, schema, writer, proc, failed, acked, bundle, faults>>

\* restore_pair: the bundle is intact, its checkpoint authenticates its
\* database, and a service opens a clone of the two.
Restorable == bundle # Missing /\ bundle.doc = bundle.db

\* The operator has stopped the services and points them at the restored pair,
\* which answers for what was acknowledged when it was copied.
Restore ==
  /\ \A p \in Services : proc[p].stage = "down"
  /\ backup = NoBackup
  /\ Restorable
  /\ db' = bundle.db
  /\ doc' = bundle.doc
  /\ acked' = bundle.owed
  /\ UNCHANGED <<schema, writer, proc, failed, backup, bundle, faults>>

-----------------------------------------------------------------------------
CheckpointNext ==
  \/ \E p \in Services :
       \/ Migrate(p) \/ Adopt(p) \/ StartVerified(p) \/ Stop(p)
       \/ \E t \in Txns : Begin(p, t)
       \/ Publish(p) \/ Commit(p) \/ Rollback(p) \/ NoteFailure(p) \/ Republish(p)
       \/ ProcessDies(p)
  \/ BeginBackup \/ CopyDatabase \/ PublishBundle \/ RetryBackup \/ Restore

CheckpointSpec == CheckpointInit /\ [][CheckpointNext]_checkpointVars

-----------------------------------------------------------------------------
CheckpointTypeOK ==
  /\ db \in Snapshot
  /\ doc \in Snapshot \cup {Missing}
  /\ schema \in {"v5", "old", "current"}
  /\ writer \in Services \cup {Nobody}
  /\ proc \in [Services -> [stage : Stage, txn : Txns \cup {Missing}]]
  /\ failed \in [Services -> BOOLEAN]
  /\ acked \subseteq Txns
  /\ backup \in [stage : {"idle", "copy", "verify"}, attempt : Nat,
                 before : Snapshot \cup {Missing}, copy : Snapshot \cup {Missing},
                 owed : SUBSET Txns]
  /\ bundle \in [db : Snapshot, doc : Snapshot \cup {Missing}, owed : SUBSET Txns]
                 \cup {Missing}
  /\ faults \in 0..MaxFaults

\* Some process is between the two halves of its commit.
Committing == \E p \in Services : proc[p].stage \in {"migrated", "published", "loose", "republish"}

\* No running service repairs a mismatch (service.py _commit_trusted, _init):
\* once the checkpoint and the database are apart and nobody is between the
\* two halves of a commit, no process changes either of them again.  Two
\* things do: the restored pair of a backup replaces both, and a start that
\* migrates an older schema blesses what it finds, except for the rows of a
\* version 5 ledger.
FailClosed ==
  [][~Matches /\ ~Committing =>
       \/ UNCHANGED <<db, doc>>
       \/ Restore
       \/ (schema = "v5" => db.root = {}) /\ \E p \in Services : Migrate(p)]_checkpointVars

\* What docs/PAYMENTS-v1.md says of a ledger that holds anything:
\* "Missing/mismatched checkpoint or key fails closed."
MismatchFailsClosed ==
  [][db.root # {} /\ ~Matches /\ ~Committing => UNCHANGED <<db, doc>> \/ Restore]_checkpointVars

\* What a caller was told is authenticated (_commit_trusted,
\* _apply_whop_event): an acknowledged transaction is in the database and in
\* the checkpoint, through failures, crashes, restarts and restores; while a process
\* holds the lock the database is still the one it verified.
AckedIsCheckpointed ==
  /\ acked \subseteq db.root
  /\ doc # Missing => acked \subseteq doc.root
  /\ \A p \in Services :
       /\ proc[p].stage = "open" => writer = p /\ Matches
       /\ proc[p].stage = "published" => writer = p /\ doc = With({proc[p].txn})

\* A bundle is one commit (ops.py backup_pair): its checkpoint authenticates
\* its database although services go on writing the two files one after the
\* other, it is a past state of the ledger, and it holds everything
\* acknowledged before the copy.
BundleIsOneCommit ==
  bundle # Missing =>
    /\ bundle.doc = bundle.db
    /\ bundle.db.root \subseteq db.root
    /\ bundle.owed \subseteq bundle.db.root

\* The file is that of a transaction which did not commit.
Ahead ==
  /\ doc # Missing /\ doc.seq = db.seq + 1
  /\ \E t \in Txns : t \in doc.root /\ t \notin db.root

\* The file authenticates a database of the current schema.
Adopted == doc # Missing /\ Migration \in doc.root

\* What process p relies on: the lock and an unrecorded transaction while it
\* is in one; a file that knows nothing of the migration while it migrates;
\* and after a failed webhook a file that the note will not, and then does
\* not, match.
ProcessOK(p) ==
  LET stage == proc[p].stage  t == proc[p].txn
  IN  /\ stage \in {"open", "published"} <=> writer = p
      /\ stage = "migrated" <=> stage # "down" /\ ~Adopted
      /\ stage \in {"open", "published"} =>
           t \in Txns /\ t \notin db.root /\ (t \in Webhooks => p \in Apis)
      /\ stage = "open" => Matches
      /\ stage = "published" => doc = With({t})
      /\ stage \in {"loose", "republish"} => t \in Webhooks /\ p \in Apis
      /\ stage = "loose" => Matches \/ Ahead
      /\ stage = "republish" => writer = Nobody /\ ~Matches

\* Nobody serves an older schema and no bundle is made of it, the migration
\* leaves its row, and one process runs it.
MigrationOnce ==
  /\ schema = "current" <=> Migration \in db.root
  /\ schema # "current" => /\ ~Adopted /\ bundle = Missing
                           /\ \A p \in Services : proc[p].stage = "down"
  /\ bundle # Missing => Migration \in bundle.db.root
  /\ \A p, q \in Services : proc[p].stage = "migrated" /\ proc[q].stage = "migrated" => p = q

\* What was copied is a past of the ledger and answers for what was owed.
CopyIsPast ==
  backup.stage = "verify" =>
    /\ backup.copy # Missing
    /\ backup.copy.root \subseteq db.root /\ backup.owed \subseteq backup.copy.root

\* The inductive invariant of the checkpoint.
CheckpointInv ==
  /\ CheckpointTypeOK
  /\ \A p \in Services : ProcessOK(p)
  /\ MigrationOnce
  /\ CopyIsPast
  /\ acked \subseteq db.root
  /\ doc # Missing => acked \subseteq doc.root
  /\ BundleIsOneCommit
=============================================================================
