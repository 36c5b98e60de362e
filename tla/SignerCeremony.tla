--------------------------- MODULE SignerCeremony ---------------------------
(***************************************************************************)
(* The signing identity of the licence Authority and its rotation          *)
(* (authority.py, authority_service.py, signer_ceremony.py,                *)
(* pem_signer.py).                                                         *)
(*                                                                         *)
(* A ceremony is a reviewed document that gives the signing key of one     *)
(* generation.  The Authority pins its ceremonies in its own database; an  *)
(* anchor outside the database holds the one claim, generation and digest  *)
(* of the document, that may sign.  The two cannot be written together:    *)
(* at start the anchor is advanced first and the ceremony pinned second,   *)
(* and the process can die between them.  An older copy of the database    *)
(* can be restored, also under the running process; the anchor cannot.     *)
(*                                                                         *)
(* One process has the custody of the database (an exclusive flock held    *)
(* until it ends), so the states of the process are those of the system.   *)
(***************************************************************************)
EXTENDS Naturals, Sequences

CONSTANTS Documents,      \* the contents a ceremony can have
          MaxGeneration   \* bound: how often the signer is rotated

ASSUME CeremonyConstants == MaxGeneration \in Nat

VARIABLES anchor,     \* the claim in the anchor
          pinned,     \* signer_ceremonies: the document of each generation
          copy,       \* a copy of that table, taken when it was current
          reviewed,   \* the ceremonies whose record the reviewers have signed
          pc,         \* where the process with the custody stands
          ceremony,   \* the ceremony of its fixed configuration
          hot,        \* a transaction's journal was left in the directory
          last        \* history: the claim under which was signed last

ceremonyVars == <<anchor, pinned, copy, reviewed, pc, ceremony, hot, last>>

-----------------------------------------------------------------------------
Ceremony == [generation : 1 .. MaxGeneration, document : Documents]

\* An anchor of generation 0 carries no digest.
Unclaimed == [generation |-> 0, document |-> "none"]
AnchorClaim == Ceremony \cup {Unclaimed}

\* The anchor is provisioned empty or with the first ceremony.
CeremonyInit ==
  /\ pinned = <<>>
  /\ copy = <<>>
  /\ anchor \in {c \in AnchorClaim : c.generation <= 1}
  /\ reviewed = {anchor} \ {Unclaimed}
  /\ pc = "down"
  /\ ceremony = Unclaimed
  /\ hot = FALSE
  /\ last = Unclaimed

-----------------------------------------------------------------------------
(* The ceremony record. *)

\* The roster's reviewers have acknowledged the record, each with a key of its
\* own, and the activation time has come.  Nothing keeps them from two records
\* of one generation.
Review(c) ==
  /\ reviewed' = reviewed \cup {c}
  /\ UNCHANGED <<anchor, pinned, copy, pc, ceremony, hot, last>>

-----------------------------------------------------------------------------
(* LicenseAuthority._construct. *)

\* _check_ceremony_transition: the latest pinned ceremony again, or one of the
\* next generation.
Transition(c) ==
  \/ /\ c.generation = Len(pinned)
     /\ pinned[Len(pinned)] = c.document
  \/ c.generation = Len(pinned) + 1

\* The claim the anchor must hold to be advanced to c.
Expected(c) == IF c.generation = 1 THEN Unclaimed
               ELSE [generation |-> c.generation - 1, document |-> pinned[c.generation - 1]]

\* ProductionSQLiteBroker: the custody of the database is free, and no journal
\* was left in its directory.
CustodyFree == pc = "down" /\ ~hot

\* validate_descriptor: the descriptor is the reviewed record's, and the key
\* that was loaded is the one both of them name.
Validated(c) == c \in reviewed

\* from_hardened_pem: a ceremony gets as far as the anchor only with its record
\* and its key.
Constructible(c) == Validated(c) /\ Transition(c)

\* The process takes the custody, loads its key and checks its ceremony.
Start(c) ==
  /\ CustodyFree
  /\ Constructible(c)
  /\ ceremony' = c
  /\ pc' = "checked"
  /\ UNCHANGED <<anchor, pinned, copy, reviewed, hot, last>>

Down == /\ pc' = "down"
        /\ ceremony' = Unclaimed

\* The predecessor whose digest is expected is pinned (signer_predecessor_invalid).
HasPredecessor(c) == c.generation = 1 \/ c.generation - 1 \in DOMAIN pinned

\* compare_and_advance, under the anchor's own lock: the claim is there already,
\* or it follows the expected one.
MayClaim(c) == anchor \in {c, Expected(c)}

\* The plausible bug: the database is written before the anchor is asked.
AdvanceAfterPin ==
  /\ pc = "checked"
  /\ pinned' = IF ceremony.generation > Len(pinned) THEN Append(pinned, ceremony.document) ELSE pinned
  /\ anchor' = IF MayClaim(ceremony) THEN ceremony ELSE anchor
  /\ pc' = "advanced"
  /\ UNCHANGED <<copy, reviewed, ceremony, hot, last>>

Advance ==
  /\ pc = "checked"
  /\ HasPredecessor(ceremony)
  /\ MayClaim(ceremony)
  /\ anchor' = ceremony
  /\ pc' = "advanced"
  /\ UNCHANGED <<pinned, copy, reviewed, ceremony, hot, last>>

\* The anchor holds another claim, or cannot be read, or the predecessor is
\* gone: the process ends.
Conflict ==
  /\ pc = "checked"
  /\ Down
  /\ UNCHANGED <<anchor, pinned, copy, reviewed, hot, last>>

\* _pin_ceremony, in a transaction that checks the transition again, and
\* _assert_signer_state.
Pin ==
  /\ pc = "advanced"
  /\ Transition(ceremony)
  /\ pinned' = IF ceremony.generation > Len(pinned) THEN Append(pinned, ceremony.document) ELSE pinned
  /\ pc' = "serving"
  /\ UNCHANGED <<anchor, copy, reviewed, ceremony, hot, last>>

-----------------------------------------------------------------------------
(* A signature. *)

\* _assert_signer_state: the anchor and the latest pinned ceremony are the
\* process's own.
IsSigner ==
  /\ anchor = ceremony
  /\ Len(pinned) = ceremony.generation
  /\ pinned[Len(pinned)] = ceremony.document

\* descriptor: no request is let in otherwise ...
Admit ==
  /\ pc = "serving"
  /\ IsSigner
  /\ pc' = "admitted"
  /\ UNCHANGED <<anchor, pinned, copy, reviewed, ceremony, hot, last>>

\* The plausible bug: what was true when the request was let in is trusted.
BeginSignUnasked ==
  /\ pc = "admitted"
  /\ pc' = "signing"
  /\ UNCHANGED <<anchor, pinned, copy, reviewed, ceremony, hot, last>>

\* ... and inside its transaction the operation asks again before it signs.
BeginSign ==
  /\ pc = "admitted"
  /\ IsSigner
  /\ pc' = "signing"
  /\ UNCHANGED <<anchor, pinned, copy, reviewed, ceremony, hot, last>>

\* The provider signs, the signature verifies, the operation commits.
Sign ==
  /\ pc = "signing"
  /\ last' = ceremony
  /\ pc' = "serving"
  /\ UNCHANGED <<anchor, pinned, copy, reviewed, ceremony, hot>>

\* The operation needs no signature or is refused, or the provider fails.
SignFails ==
  /\ pc \in {"admitted", "signing"}
  /\ pc' = "serving"
  /\ UNCHANGED <<anchor, pinned, copy, reviewed, ceremony, hot, last>>

-----------------------------------------------------------------------------
(* The process and the files. *)

\* The process dies or is stopped (a preflight stops once it could serve).  Its
\* flock goes with it; the journal of an open transaction can stay, and the
\* broker never removes one.
End ==
  /\ pc # "down"
  /\ Down
  /\ hot' \in IF pc \in {"advanced", "admitted", "signing"} THEN BOOLEAN ELSE {FALSE}
  /\ UNCHANGED <<anchor, pinned, copy, reviewed, last>>

\* An operator rolls the left transaction back.
ClearJournal ==
  /\ hot
  /\ hot' = FALSE
  /\ UNCHANGED <<anchor, pinned, copy, reviewed, pc, ceremony, last>>

Backup ==
  /\ copy' = pinned
  /\ UNCHANGED <<anchor, pinned, reviewed, pc, ceremony, hot, last>>

\* The copy is restored into the database file, whose identity _validate_custody
\* compares, so a running process does not notice.  SQLite's own lock keeps the
\* restore out of an open transaction.
Rollback ==
  /\ pc # "signing" /\ ~hot
  /\ pinned' = copy
  /\ UNCHANGED <<anchor, copy, reviewed, pc, ceremony, hot, last>>

-----------------------------------------------------------------------------
Construct == (\E c \in Ceremony : Start(c)) \/ Advance \/ Conflict \/ Pin

CeremonyNext ==
  \/ \E c \in Ceremony : Review(c)
  \/ Construct
  \/ Admit \/ BeginSign \/ Sign \/ SignFails
  \/ End \/ ClearJournal \/ Backup \/ Rollback

CeremonySpec == CeremonyInit /\ [][CeremonyNext]_ceremonyVars

-----------------------------------------------------------------------------
Stages == {"down", "checked", "advanced", "serving", "admitted", "signing"}

\* The state of the two stores, the process and the history.
CeremonyTypeOK ==
  /\ anchor \in AnchorClaim
  /\ pinned \in Seq(Documents)
  /\ copy \in Seq(Documents)
  /\ reviewed \subseteq Ceremony
  /\ pc \in Stages
  /\ ceremony \in AnchorClaim
  /\ hot \in BOOLEAN
  /\ last \in AnchorClaim

\* A table of pinned ceremonies is not ahead of the anchor, and has the
\* anchor's document for the anchor's generation.
Follows(table) ==
  /\ Len(table) <= anchor.generation
  /\ (Len(table) = anchor.generation /\ Len(table) > 0) => table[Len(table)] = anchor.document

\* The database never goes ahead of the anchor and never disagrees with it,
\* whatever the process that rotated died of and whatever copy was put back:
\* for the claimed generation no ceremony but the claimed one is ever pinned
\* (_construct advances the anchor before it pins, authority.py 205-216).
DatabaseFollowsAnchor == Follows(pinned)

\* Every signature is made under the ceremony of the signature before it or
\* under one of a higher generation, and goes into a database that names this
\* ceremony as its latest: no rollback of the database, before a start or under
\* the running process, no restart with an old configuration and no second
\* document of a generation brings an earlier key back ("cannot authorize a
\* lower generation while the external anchor remains authoritative",
\* docs/LICENSE-ISSUANCE-v1.md; _sign_verified asks _assert_signer_state).
SignaturesAdvance ==
  [][Sign => /\ last.generation <= ceremony.generation
             /\ last.generation = ceremony.generation => last = ceremony
             /\ IsSigner]_ceremonyVars

\* What the two rest on: a process past the anchor is the one the anchor
\* names, a process that signs has pinned its ceremony, and the last
\* signature is not ahead of the anchor.
CeremonyInv ==
  /\ CeremonyTypeOK
  /\ Follows(pinned)
  /\ Follows(copy)
  /\ pc # "down" => ceremony \in Ceremony
  /\ pc \in {"advanced", "serving", "admitted", "signing"} => anchor = ceremony
  /\ pc = "signing" => IsSigner
  /\ last.generation <= anchor.generation
  /\ last.generation = anchor.generation => last = anchor

=============================================================================
