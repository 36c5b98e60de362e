-------------------------- MODULE AuthorityService --------------------------
(***************************************************************************)
(* The Authority behind its production service (authority_composition.py,  *)
(* authority_api.py): signed requests of the payment service reach the     *)
(* operations of LicenseAuthority through a durable request journal.       *)
(*                                                                         *)
(* One process owns the journal (flock) and executes one request at a time *)
(* (SQLiteRequestJournal._lock).  The journal is a database of its own: a  *)
(* request is recorded as PENDING under a lease, then the operation runs   *)
(* in the Authority's database, then the row becomes COMMITTED with the    *)
(* response.  The three are separate commits, and the process can die      *)
(* between them.  A request can be sent again with the same signature and  *)
(* nonce as long as its timestamp is within the permitted clock skew.      *)
(***************************************************************************)
EXTENDS LicenseAuthority

CONSTANTS Requests,    \* the rows the journal has place for (max_entries)
          MaxSecret    \* bound: how often a gift's secret is drawn

ASSUME ServiceConstants == Nil \notin Requests

VARIABLES journal,     \* the row of each request
          running,     \* the request being executed, or Nil
          response,    \* what its operation returned, not yet committed
          answered     \* what the client of a request was told last, or Nil

serviceVars == <<licence, source, activation, challenge, journal, running, response, answered>>
journalVars == <<journal, running, response, answered>>

-----------------------------------------------------------------------------
\* The body of a request: which operation, on what.  Ids are random, so a
\* client names what the Authority has handed out; sources are its own.
Operation ==
  LET Created == {l \in Licenses : licence[l].state # "none"}
      Gifts   == {l \in Licenses : licence[l].secret # 0}
      Handed == {c \in Challenges : challenge[c].state # "none"}
  IN  [op : {"create_gift"}]
      \cup [op : {"create_external", "revoke_external"}, source : Sources]
      \cup [op : {"recover", "revoke_gift"}, licence : Gifts]
      \cup [op : {"deactivate"}, licence : Gifts, device : Devices]
      \cup [op : {"gift_challenge"}, licence : Gifts, device : Devices, secret : 1 .. MaxSecret]
      \cup [op : {"challenge"}, licence : Created, device : Devices]
      \cup [op : {"complete"}, challenge : Handed, flow : {"payment", "gift"}]

\* leased: lease_until is not over.  timely: the signature's timestamp is
\* within the clock skew, so that the API still lets the request in.
NoRow == [state |-> "none", body |-> Nil, leased |-> FALSE, timely |-> FALSE, response |-> Nil]

ServiceInit ==
  /\ AuthorityInit
  /\ journal = [r \in Requests |-> NoRow]
  /\ running = Nil
  /\ response = Nil
  /\ answered = [r \in Requests |-> Nil]

-----------------------------------------------------------------------------
(* SQLiteRequestJournal.execute. *)

\* service_auth lets a request in while its timestamp is fresh.
LetIn(r) == journal[r].timely

\* A request the journal does not know; refused when there is no free row.
Accept(r, body) ==
  /\ running = Nil
  /\ journal[r].state = "none"
  /\ journal' = [journal EXCEPT ![r] =
       [state |-> "PENDING", body |-> body, leased |-> TRUE, timely |-> TRUE, response |-> Nil]]
  /\ running' = r
  /\ UNCHANGED <<authorityVars, response, answered>>

\* The request again: a PENDING row whose lease is over is executed again.
Reaccept(r) ==
  /\ running = Nil
  /\ journal[r].state = "PENDING" /\ LetIn(r) /\ ~journal[r].leased
  /\ journal' = [journal EXCEPT ![r].leased = TRUE]
  /\ running' = r
  /\ UNCHANGED <<authorityVars, response, answered>>

\* The request again: a COMMITTED row answers with the stored response.
Replay(r) ==
  /\ running = Nil
  /\ journal[r].state = "COMMITTED" /\ LetIn(r)
  /\ answered' = [answered EXCEPT ![r] = journal[r].response]
  /\ UNCHANGED <<authorityVars, journal, running, response>>

\* GiftLicenseService.
PerformGift(b, answer) ==
  \/ b.op = "create_gift" /\ \E l \in Licenses : CreateGift(l, answer)
  \/ b.op = "recover" /\ licence[b.licence].secret < MaxSecret /\ RecoverGift(b.licence, answer)
  \/ b.op = "revoke_gift" /\ RevokeGift(b.licence, answer)
  \/ b.op = "gift_challenge"
     /\ \E c \in Challenges : IssueGiftChallenge(b.licence, b.secret, b.device, c, answer)
  \/ b.op = "deactivate" /\ DeactivateGiftDevice(b.licence, b.device, answer)

\* What the routes of the service let a body do.
Perform(b, answer) ==
  \/ PerformGift(b, answer)
  \/ b.op = "create_external" /\ \E l \in Licenses : CreateExternal(b.source, l, answer)
  \/ b.op = "revoke_external" /\ RevokeExternal(b.source, answer)
  \/ b.op = "challenge"
     /\ \E c \in Challenges : IssueActivationChallenge(b.licence, b.device, c, answer)
  \/ b.op = "complete" /\ Retrieve(b.challenge, b.flow, answer)
  \/ b.op = "complete" /\ Activate(b.challenge, b.flow, answer)

\* The operation commits in the Authority's database.
Effect ==
  /\ running # Nil /\ response = Nil
  /\ Perform(journal[running].body, response')
  /\ UNCHANGED <<journal, running, answered>>

\* The operation raises: refused, or its transaction or a signature failed.
\* The client is told 503, and the row stays PENDING.
Raise ==
  /\ running # Nil /\ response = Nil
  /\ running' = Nil
  /\ UNCHANGED <<authorityVars, journal, response, answered>>

\* Mutant of Commit: the client is answered although the row was not written.
CommitOrAnswer ==
  /\ running # Nil /\ response # Nil
  /\ answered' = [answered EXCEPT ![running] = response]
  /\ running' = Nil
  /\ response' = Nil
  /\ UNCHANGED <<authorityVars, journal>>

\* The row becomes COMMITTED and the client is answered.
Commit ==
  /\ running # Nil /\ response # Nil
  /\ journal' = [journal EXCEPT ![running].state = "COMMITTED", ![running].leased = FALSE,
                                ![running].body = Nil, ![running].response = response]
  /\ answered' = [answered EXCEPT ![running] = response]
  /\ running' = Nil
  /\ response' = Nil
  /\ UNCHANGED authorityVars

\* The process dies after the operation, or the journal cannot be written.
LoseResponse ==
  /\ running # Nil /\ response # Nil
  /\ running' = Nil
  /\ response' = Nil
  /\ UNCHANGED <<authorityVars, journal, answered>>

-----------------------------------------------------------------------------
(* Time. *)

LeaseEnds(r) ==
  /\ running # r
  /\ journal[r].leased
  /\ journal' = [journal EXCEPT ![r].leased = FALSE]
  /\ UNCHANGED <<authorityVars, running, response, answered>>

\* The API lets the request in no more.  A COMMITTED row is deleted some time
\* later, retention_seconds being at least an hour and the skew at most 15
\* minutes; a PENDING row stays, and nothing executes it again.
RequestEnds(r) ==
  /\ running # r
  /\ LetIn(r)
  /\ journal' = [journal EXCEPT ![r] =
       IF @.state = "COMMITTED" THEN NoRow ELSE [NoRow EXCEPT !.state = "PENDING"]]
  /\ answered' = [answered EXCEPT ![r] = Nil]
  /\ UNCHANGED <<authorityVars, running, response>>

ChallengeEnds(c) ==
  /\ ChallengeExpires(c)
  /\ UNCHANGED journalVars

ServiceNext ==
  \/ \E r \in Requests :
       \/ \E b \in Operation : Accept(r, b)
       \/ Reaccept(r) \/ Replay(r) \/ LeaseEnds(r) \/ RequestEnds(r)
  \/ Effect \/ Raise \/ Commit \/ LoseResponse
  \/ \E c \in Challenges : ChallengeEnds(c)

ServiceSpec == ServiceInit /\ [][ServiceNext]_serviceVars

-----------------------------------------------------------------------------
\* What a body may name and an operation answer, in whatever state the
\* Authority is.
Body ==
  [op : {"create_gift"}]
    \cup [op : {"create_external", "revoke_external"}, source : Sources]
    \cup [op : {"recover", "revoke_gift"}, licence : Licenses]
    \cup [op : {"deactivate"}, licence : Licenses, device : Devices]
    \cup [op : {"gift_challenge"}, licence : Licenses, device : Devices, secret : 1 .. MaxSecret]
    \cup [op : {"challenge"}, licence : Licenses, device : Devices]
    \cup [op : {"complete"}, challenge : Challenges, flow : {"payment", "gift"}]

Answer == ({"gift"} \X Licenses \X Nat)
            \cup ({"entitlement", "revoked"} \X Licenses)
            \cup ({"challenge", "certificate"} \X Challenges)
            \cup ({"deactivated"} \X BOOLEAN)

JournalRow == [state : {"none", "PENDING", "COMMITTED"}, body : Body \cup {Nil},
               leased : BOOLEAN, timely : BOOLEAN, response : Answer \cup {Nil}]

ServiceTypeOK ==
  /\ AuthorityTypeOK
  /\ journal \in [Requests -> JournalRow]
  /\ running \in Requests \cup {Nil}
  /\ response \in Answer \cup {Nil}
  /\ answered \in [Requests -> Answer \cup {Nil}]

\* A request has one answer (SQLiteRequestJournal.execute): whatever was lost,
\* re-sent or re-executed, a client that was answered and asks again while
\* its request is let in is told the same.
OneAnswer ==
  [][\A r \in Requests :
       answered[r] # Nil /\ journal'[r].timely => answered'[r] = answered[r]]_serviceVars

\* A challenge activates a device once (activate_challenge's consumed_at):
\* neither a request executed again nor a second request with the same proof
\* makes an activation out of a challenge that was used, superseded, rotated
\* away or revoked, although its certificate can be fetched again.
ChallengeUsedOnce ==
  [][\A c \in Challenges :
       challenge[c].state = "consumed" =>
         /\ challenge'[c].state = "consumed"
         /\ \A l \in Licenses, d \in Devices :
              activation'[l][d].by = c /\ activation'[l][d].active =>
                activation[l][d].by = c /\ activation[l][d].active]_serviceVars

\* A row whose request is let in still has its body, only COMMITTED rows have a
\* response, the request that is executed was let in, and a client was told
\* what its row says.
JournalInv ==
  /\ response # Nil => running # Nil
  /\ \A r \in Requests :
       /\ journal[r].state = "PENDING" /\ journal[r].timely => journal[r].body \in Body
       /\ journal[r].state = "COMMITTED" <=> journal[r].response # Nil
       /\ running = r => /\ journal[r].state = "PENDING"
                         /\ journal[r].leased /\ journal[r].timely
       /\ answered[r] # Nil => answered[r] = journal[r].response

\* The inductive invariant of the service.
ServiceInv == ServiceTypeOK /\ AuthorityInv /\ JournalInv
=============================================================================
