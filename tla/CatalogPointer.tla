--------------------------- MODULE CatalogPointer ---------------------------
(***************************************************************************)
(* PUT /v1/vaults/:vaultId/catalog-pointer of the coordinator: concurrent  *)
(* requests publish the head of a vault's catalog chain.  A handler makes  *)
(* three database round trips and other handlers run between any two:      *)
(*                                                                         *)
(*   SelectPrevious  SELECT the pointer and check that the item follows it *)
(*   PrepareAudit    SELECT the head of the community's audit chain        *)
(*   batch           one D1 transaction: INSERT the pointer, or UPDATE it  *)
(*                   where it is still the one read, and INSERT the audit  *)
(*                   row prepared before                                   *)
(*                                                                         *)
(* Requests that fail authentication or the signature check never touch    *)
(* the database and are left out.  A member belongs to one community, so   *)
(* the community test in the UPDATE follows from the owner test.           *)
(***************************************************************************)
EXTENDS Naturals, Sequences, AuditRows

CONSTANTS Community, Member, Vault, Cid, Request, null,
          CommunityOf,  \* the community of each member
          Version,      \* the version numbers a client may send
          OtherBody     \* audit events of the coordinator's other handlers

\* A publication; also the row it leaves in vault_catalog_pointers.
Item == [vault       : Vault,
         owner       : Member,
         catalogCid  : Cid,
         version     : Version,
         previousCid : Cid \cup {null}]

Body(item) == [actor |-> item.owner, subject |-> item.vault]
Bodies     == {Body(item) : item \in Item}
Row        == Rows(Bodies \cup OtherBody)

ASSUME CommunityAssumption == CommunityOf \in [Member -> Community]
ASSUME VersionAssumption   == Version \subseteq Nat \ {0}
ASSUME NullAssumption      == null \notin Item /\ null \notin Cid
ASSUME OtherAssumption     == OtherBody \cap Bodies = {}

VARIABLES
  pointer,   \* vault_catalog_pointers: the row of each vault, or null
  events,    \* audit_events: the rows of each community, in rowid order
  pc,        \* where each request's handler stands
  put,       \* the item each request asks to publish
  seen,      \* the pointer row its handler read
  prepared   \* the audit row its handler prepared

vars == <<pointer, events, pc, put, seen, prepared>>

Pc == {"waiting", "prepare", "commit", "ok", "conflict", "rejected"}

CommunityFor(r) == CommunityOf[put[r].owner]

Init ==
  /\ pointer  = [v \in Vault |-> null]
  /\ events   = [c \in Community |-> <<>>]
  /\ pc       = [r \in Request |-> "waiting"]
  /\ put      = [r \in Request |-> null]
  /\ seen     = [r \in Request |-> null]
  /\ prepared = [r \in Request |-> null]
-----------------------------------------------------------------------------
\* Mutant: previousCatalogCid is not compared.
ExtendsByVersion(previous, item) ==
  IF previous = null
  THEN item.version = 1
  ELSE previous.owner = item.owner /\ item.version = previous.version + 1

\* The test whose failure answers catalog_rollback_or_fork.
Extends(previous, item) ==
  IF previous = null
  THEN item.version = 1 /\ item.previousCid = null
  ELSE /\ previous.owner = item.owner
       /\ item.version = previous.version + 1
       /\ item.previousCid = previous.catalogCid

SelectPrevious(r) ==
  /\ pc[r] = "waiting"
  /\ \E item \in Item :
       /\ Extends(pointer[item.vault], item)
       /\ put'  = [put EXCEPT ![r] = item]
       /\ seen' = [seen EXCEPT ![r] = pointer[item.vault]]
  /\ pc' = [pc EXCEPT ![r] = "prepare"]
  /\ UNCHANGED <<pointer, events, prepared>>

\* catalog_rollback_or_fork: nothing of the request is kept.
RejectItem(r) ==
  /\ pc[r] = "waiting"
  /\ \E item \in Item : ~Extends(pointer[item.vault], item)
  /\ pc' = [pc EXCEPT ![r] = "rejected"]
  /\ UNCHANGED <<pointer, events, put, seen, prepared>>

\* Mutant: the first event of a community prepares no row.
PrepareNoFirstRow(r) ==
  /\ pc[r] = "prepare"
  /\ prepared' = [prepared EXCEPT ![r] =
        IF events[CommunityFor(r)] = <<>> THEN null
        ELSE PrepareAuditEvent(events[CommunityFor(r)], Body(put[r]))]
  /\ pc' = [pc EXCEPT ![r] = "commit"]
  /\ UNCHANGED <<pointer, events, put, seen>>

PrepareAudit(r) ==
  /\ pc[r] = "prepare"
  /\ prepared' = [prepared EXCEPT ![r] =
                    PrepareAuditEvent(events[CommunityFor(r)], Body(put[r]))]
  /\ pc' = [pc EXCEPT ![r] = "commit"]
  /\ UNCHANGED <<pointer, events, put, seen>>

\* Mutant: INSERT OR REPLACE.
InsertReplaces(r) == FALSE

\* The INSERT finds the vault's primary key taken.
InsertThrows(r) == seen[r] = null /\ pointer[put[r].vault] # null

\* Mutant: the WHERE clause without AND version = ?.
MatchesByCid(r) ==
  LET row == pointer[put[r].vault]
  IN  row # null /\ row.owner = put[r].owner /\ row.catalogCid = seen[r].catalogCid

\* The WHERE clause of the UPDATE still selects the row that was read.
UpdateMatches(r) ==
  LET row == pointer[put[r].vault]
  IN  /\ row # null
      /\ row.owner = put[r].owner
      /\ row.catalogCid = seen[r].catalogCid
      /\ row.version = seen[r].version

Mutates(r) == IF seen[r] = null THEN ~InsertThrows(r) ELSE UpdateMatches(r)

AuditThrows(r) == InsertConflicts(events[CommunityFor(r)], prepared[r])

Throws(r) == InsertThrows(r) \/ AuditThrows(r)

\* Mutant: the batch of an UPDATE lacks the audit row.
InsertAuditOfFirst(r) ==
  events' = IF seen[r] = null
            THEN [events EXCEPT ![CommunityFor(r)] = Append(@, prepared[r])]
            ELSE events

InsertAudit(r) ==
  events' = [events EXCEPT ![CommunityFor(r)] = Append(@, prepared[r])]

\* A constraint fails: the batch is rolled back.
BatchThrows(r) ==
  /\ pc[r] = "commit"
  /\ Throws(r)
  /\ pc' = [pc EXCEPT ![r] = "conflict"]
  /\ UNCHANGED <<pointer, events, put, seen, prepared>>

\* The batch commits with one changed pointer row.
BatchApplies(r) ==
  /\ pc[r] = "commit"
  /\ ~Throws(r)
  /\ Mutates(r)
  /\ pointer' = [pointer EXCEPT ![put[r].vault] = put[r]]
  /\ InsertAudit(r)
  /\ pc' = [pc EXCEPT ![r] = "ok"]
  /\ UNCHANGED <<put, seen, prepared>>

\* The batch commits, but its UPDATE selected no row: the request is answered
\* catalog_update_conflict after its audit row has been stored.
BatchMisses(r) ==
  /\ pc[r] = "commit"
  /\ ~Throws(r)
  /\ ~Mutates(r)
  /\ InsertAudit(r)
  /\ pc' = [pc EXCEPT ![r] = "conflict"]
  /\ UNCHANGED <<pointer, put, seen, prepared>>

\* A batch of another handler commits its event (each body once).
OtherAudit(c) ==
  /\ \E body \in OtherBody :
       /\ \A d \in Community : \A i \in DOMAIN events[d] :
            events[d][i].body # body
       /\ events' = [events EXCEPT ![c] = Append(@, PrepareAuditEvent(@, body))]
  /\ UNCHANGED <<pointer, pc, put, seen, prepared>>

Handle(r) ==
  \/ SelectPrevious(r)
  \/ RejectItem(r)
  \/ PrepareAudit(r)
  \/ BatchThrows(r)
  \/ BatchApplies(r)
  \/ BatchMisses(r)

Next ==
  \/ \E r \in Request : Handle(r)
  \/ \E c \in Community : OtherAudit(c)

Spec == Init /\ [][Next]_vars
-----------------------------------------------------------------------------
Granted == {r \in Request : pc[r] = "ok"}

(***************************************************************************)
(* Every variable keeps the shape of its table or of a handler's local     *)
(* variables; what a handler has read is there from the step that read it. *)
(***************************************************************************)
TypeOK ==
  /\ pointer \in [Vault -> Item \cup {null}]
  /\ events \in [Community -> Seq(Row)]
  /\ pc \in [Request -> Pc]
  /\ put \in [Request -> Item \cup {null}]
  /\ seen \in [Request -> Item \cup {null}]
  /\ prepared \in [Request -> Row \cup {null}]
  /\ \A r \in Request :
       /\ pc[r] \notin {"waiting", "rejected"} => put[r] \in Item
       /\ pc[r] \in {"commit", "ok"} => prepared[r] \in Row

(***************************************************************************)
(* prepareAuditEvent: every community's chain verifies (gap-free numbers,  *)
(* each row hashed over itself and linked to the one before), although a   *)
(* handler inserts a row it built from a head read in an earlier round     *)
(* trip, while other handlers extended the chain.                          *)
(***************************************************************************)
ChainsVerify == \A c \in Community : VerifyChain(events[c])

(***************************************************************************)
(* What a handler read stays usable until its batch: an audit row waiting  *)
(* for insertion links to a row that is still in its community's chain,    *)
(* and the item it would store follows the pointer it read.  Rows are      *)
(* never changed or removed, so only the row's place can be lost.          *)
(***************************************************************************)
ReadsStayLinked ==
  \A r \in Request :
    /\ pc[r] \in {"prepare", "commit", "ok"} => Extends(seen[r], put[r])
    /\ pc[r] = "commit" => LinksTo(prepared[r], events[CommunityFor(r)])

(***************************************************************************)
(* The publications answered 200 for a vault form one chain without        *)
(* forks: two of them never carry the same version, and each follows       *)
(* another granted one by cid, version and owner.                          *)
(***************************************************************************)
GrantsFormOneChain ==
  /\ \A r, s \in Granted :
       r # s /\ put[r].vault = put[s].vault => put[r].version # put[s].version
  /\ \A r \in Granted :
       IF put[r].version = 1
       THEN put[r].previousCid = null
       ELSE \E s \in Granted :
              /\ put[s].vault = put[r].vault
              /\ Extends(put[s], put[r])

(***************************************************************************)
(* The stored pointer is the last granted publication: no 200 answer is    *)
(* lost to a concurrent writer, and nothing unanswered is stored.          *)
(***************************************************************************)
PointerIsLastGrant ==
  \A v \in Vault :
    LET answers == {r \in Granted : put[r].vault = v}
    IN  IF pointer[v] = null
        THEN answers = {}
        ELSE /\ \E r \in answers : put[r] = pointer[v]
             /\ \A r \in answers : put[r].version <= pointer[v].version

(***************************************************************************)
(* Every granted publication has an audit row of its own, in its own       *)
(* community's chain: the row its handler prepared.                        *)
(***************************************************************************)
GrantsAudited ==
  /\ \A r \in Granted : \E i \in DOMAIN events[CommunityFor(r)] :
       events[CommunityFor(r)][i] = prepared[r]
  /\ \A r, s \in Granted :
       r # s /\ CommunityFor(r) = CommunityFor(s) => prepared[r] # prepared[s]

(***************************************************************************)
(* The chain records no publication that did not happen: every             *)
(* catalog_pointer_updated row was stored by a request answered 200.       *)
(***************************************************************************)
EventsWereGranted ==
  \A c \in Community : \A i \in DOMAIN events[c] :
    events[c][i].body \in Bodies => \E r \in Granted : prepared[r] = events[c][i]

(***************************************************************************)
(* With the handlers hidden, the pointer behaves as PublishedPointer says: *)
(* each 200 answer took effect at one instant.                             *)
(***************************************************************************)
Published == INSTANCE PublishedPointer
  WITH granted <- {[request |-> r, item |-> put[r]] : r \in Granted}

PublishesAtomically == Published!PSpec
=============================================================================
