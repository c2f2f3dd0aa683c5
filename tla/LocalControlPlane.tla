-------------------------- MODULE LocalControlPlane --------------------------
(***************************************************************************)
(* The control plane of crates/mesh-control: a community in memory, with   *)
(* its members, nodes, objects, placements, catalog pointers, votes,       *)
(* challenges, credit ledgers and audit trail.  A caller holds it          *)
(* exclusively, so that every call is one step; what a caller passes (the  *)
(* time above all) is its own and follows no clock.  A call that is        *)
(* refused and changes nothing is no step.                                 *)
(*                                                                         *)
(* Signatures are perfect: a member signs what carries its name.  The      *)
(* control plane never changes a member's status, but takes members whose  *)
(* record says "suspended", who may then do nothing.                       *)
(***************************************************************************)
EXTENDS Integers, FiniteSets, SequencesExt, Bags

CONSTANTS Member, Founder, Node, Object, PlacementId, Vault, Cid, Proposal,
          Nonce, Challenge, CreditKey, Amount, null,
          MaxCredit,  \* what i64 holds, in both directions
          Moment,     \* the times callers pass
          Skew,       \* the clock skew a credential's dates allow, 300 s
          Life,       \* of a challenge, 300 s
          MaxEvents   \* bound: nothing is appended to a longer trail

FounderAssumption == Founder \in Member
MomentAssumption  == Moment \subseteq Nat /\ {Skew, Life, MaxCredit} \subseteq Nat
AmountAssumption  == Amount \subseteq Int
EventsAssumption  == MaxEvents \in Nat \ {0}
NullAssumption ==
  /\ null \notin {"active", "suspended", "yes", "no", "abstain"} \cup Member
  /\ null \notin [object : Object, node : Node, status : {"healthy", "failed"}]
  /\ null \notin [version : Nat, cid : Cid]
  /\ null \notin [opens : Moment, closes : Moment]

VARIABLES
  members,    \* the status of each member's record, or null
  nodes,      \* the owner of each registered node, or null
  objects,    \* the registered objects
  placed,     \* the placements, or null
  pointers,   \* each vault's catalog pointer, or null
  proposals,  \* when each proposal opens and closes, or null
  ballots,    \* the vote of each member on each proposal, or null
  voteCount,  \* the length of vote_history
  challenges, \* when each challenge expires, and whether it was consumed, or null
  nonces,     \* replay_nonces
  ledgers,    \* the credit entries of each member
  trail,      \* the bag of audit_events, each with its kind and its subject
  length      \* audit_events.len()

records == <<members, nodes, objects, placed, pointers, proposals, ballots,
             voteCount, ledgers>>
gate    == <<challenges, nonces>>
vars    == <<records, gate, trail, length>>

Event(kind, subject) == [kind |-> kind, subject |-> subject]

Copies(event) == IF event \in DOMAIN trail THEN trail[event] ELSE 0

\* A community begins with its founder, whose credential its root has signed.
Init ==
  /\ members = [m \in Member |-> IF m = Founder THEN "active" ELSE null]
  /\ nodes = [n \in Node |-> null]
  /\ objects = {}
  /\ placed = [p \in PlacementId |-> null]
  /\ pointers = [v \in Vault |-> null]
  /\ proposals = [q \in Proposal |-> null]
  /\ ballots = [q \in Proposal |-> [m \in Member |-> null]]
  /\ voteCount = 0
  /\ challenges = [c \in Challenge |-> null]
  /\ nonces = {}
  /\ ledgers = [m \in Member |-> <<>>]
  /\ trail = [e \in {Event("community_created", null)} |-> 1]
  /\ length = 1

AppendAudit(kind, subject) ==
  /\ length < MaxEvents
  /\ length' = length + 1
  /\ trail' = [e \in DOMAIN trail \cup {Event(kind, subject)} |->
                 IF e = Event(kind, subject) THEN Copies(e) + 1 ELSE trail[e]]
-----------------------------------------------------------------------------
(***************************************************************************)
(* Challenges.                                                             *)
(***************************************************************************)
IssueChallenge(c) ==
  /\ challenges[c] = null
  /\ \E now \in Moment :
       challenges' = [challenges EXCEPT ![c] =
                        [expires |-> now + Life, consumed |-> FALSE]]
  /\ UNCHANGED <<records, trail, length, nonces>>

\* The nonce is used up before the challenge is looked at, whatever follows.
ConsumeChallenge(c, nonce, now) ==
  LET item == challenges[c]
  IN  /\ nonce \notin nonces
      /\ nonces' = nonces \cup {nonce}
      /\ IF item = null \/ item.consumed \/ item.expires < now
         THEN UNCHANGED challenges
         ELSE challenges' = [challenges EXCEPT ![c].consumed = TRUE]
      /\ UNCHANGED <<records, trail, length>>
-----------------------------------------------------------------------------
(***************************************************************************)
(* Members, nodes, objects and placements.                                 *)
(***************************************************************************)
\* MembershipCredential.verify_trusted, of a credential the root has signed.
InForce(credential, now) ==
  /\ now + Skew >= credential.issued
  /\ now - Skew <= credential.expires

IsActive(m) == members[m] = "active"

AddMember(m, status) ==
  /\ \E now, issued, expires \in Moment :
       InForce([issued |-> issued, expires |-> expires], now)
  /\ members[m] = null
  /\ AppendAudit("membership_approved", m)
  /\ members' = [members EXCEPT ![m] = status]
  /\ UNCHANGED <<gate, nodes, objects, placed, pointers, proposals, ballots,
                 voteCount, ledgers>>

RegisterNode(actor, n) ==
  /\ IsActive(actor)
  /\ nodes[n] = null
  /\ AppendAudit("node_registered", n)
  /\ nodes' = [nodes EXCEPT ![n] = actor]
  /\ UNCHANGED <<gate, members, objects, placed, pointers, proposals, ballots,
                 voteCount, ledgers>>

RegisterObject(actor, o) ==
  /\ IsActive(actor)
  /\ o \notin objects
  /\ AppendAudit("object_registered", o)
  /\ objects' = objects \cup {o}
  /\ UNCHANGED <<gate, members, nodes, placed, pointers, proposals, ballots,
                 voteCount, ledgers>>

\* The id is new, and the node has no healthy placement of the object.
PlacementFree(p, o, n) ==
  /\ placed[p] = null
  /\ \A q \in PlacementId : placed[q] # null =>
       ~(placed[q].object = o /\ placed[q].node = n /\ placed[q].status = "healthy")

AddPlacement(actor, p, o, n, status) ==
  /\ IsActive(actor)
  /\ o \in objects /\ nodes[n] # null
  /\ PlacementFree(p, o, n)
  /\ AppendAudit("placement_created", p)
  /\ placed' = [placed EXCEPT ![p] = [object |-> o, node |-> n, status |-> status]]
  /\ UNCHANGED <<gate, members, nodes, objects, pointers, proposals, ballots,
                 voteCount, ledgers>>
-----------------------------------------------------------------------------
(***************************************************************************)
(* Catalog pointers.  Any active member may update any vault.              *)
(***************************************************************************)
Follows(v, version, previous) ==
  IF pointers[v] = null
  THEN version = 1 /\ previous = null
  ELSE version = pointers[v].version + 1 /\ previous = pointers[v].cid

UpdateCatalogPointer(actor, v, version, cid, previous) ==
  /\ IsActive(actor)
  /\ Follows(v, version, previous)
  /\ AppendAudit("catalog_pointer_updated", v)
  /\ pointers' = [pointers EXCEPT ![v] = [version |-> version, cid |-> cid]]
  /\ UNCHANGED <<gate, members, nodes, objects, placed, proposals, ballots,
                 voteCount, ledgers>>
-----------------------------------------------------------------------------
(***************************************************************************)
(* Credit.  An entry counts until it expires, and sums that i64 cannot     *)
(* hold are refused, in whatever order the entries come.                   *)
(***************************************************************************)
Fits(amount) == amount \in -MaxCredit .. MaxCredit

\* The sums the fold of balance_at goes through.
Sums(entries, now) ==
  LET counted == SelectSeq(entries, LAMBDA e : e.expires = null \/ e.expires > now)
      sum[i \in 0 .. Len(counted)] ==
        IF i = 0 THEN 0 ELSE sum[i - 1] + counted[i].amount
  IN  sum

HasBalance(entries, now) ==
  \A i \in DOMAIN Sums(entries, now) : Fits(Sums(entries, now)[i])

BalanceAt(entries, now) ==
  LET sums == Sums(entries, now) IN sums[Cardinality(DOMAIN sums) - 1]

\* The balance is looked at when the entry occurs, and at no other time.
Recordable(entries, entry) ==
  /\ \A i \in DOMAIN entries : entries[i].key # entry.key
  /\ HasBalance(entries, entry.at)
  /\ Fits(BalanceAt(entries, entry.at) + entry.amount)

\* Mutant: the event is written before the ledger has refused the entry.
RecordCreditFirst(m, entry) ==
  /\ IsActive(m)
  /\ AppendAudit("credit_entry_recorded", m)
  /\ ledgers' = IF Recordable(ledgers[m], entry)
                THEN [ledgers EXCEPT ![m] = Append(@, entry)]
                ELSE ledgers
  /\ UNCHANGED <<gate, members, nodes, objects, placed, pointers, proposals,
                 ballots, voteCount>>

RecordCredit(m, entry) ==
  /\ IsActive(m)
  /\ Recordable(ledgers[m], entry)
  /\ AppendAudit("credit_entry_recorded", m)
  /\ ledgers' = [ledgers EXCEPT ![m] = Append(@, entry)]
  /\ UNCHANGED <<gate, members, nodes, objects, placed, pointers, proposals,
                 ballots, voteCount>>
-----------------------------------------------------------------------------
(***************************************************************************)
(* Proposals and votes.  A vote is dated by its voter.                     *)
(***************************************************************************)
CreateProposal(actor, q, opens, closes) ==
  /\ IsActive(actor)
  /\ opens < closes
  /\ proposals[q] = null
  /\ AppendAudit("proposal_created", q)
  /\ proposals' = [proposals EXCEPT ![q] = [opens |-> opens, closes |-> closes]]
  /\ UNCHANGED <<gate, members, nodes, objects, placed, pointers, ballots,
                 voteCount, ledgers>>

CastVote(m, q, choice, at) ==
  /\ IsActive(m)
  /\ proposals[q] # null
  /\ at \in proposals[q].opens .. proposals[q].closes
  /\ ballots[q][m] = null
  /\ AppendAudit("vote_cast", q)
  /\ voteCount' = voteCount + 1
  /\ ballots' = [ballots EXCEPT ![q][m] = choice]
  /\ UNCHANGED <<gate, members, nodes, objects, placed, pointers, proposals,
                 ledgers>>

\* vote_result.
Votes(q, choice) == Cardinality({m \in Member : ballots[q][m] = choice})
-----------------------------------------------------------------------------
Entries ==
  [key : CreditKey, amount : Amount, at : Moment, expires : Moment \cup {null}]

Next ==
  \/ \E c \in Challenge : \/ IssueChallenge(c)
                          \/ \E n \in Nonce, now \in Moment : ConsumeChallenge(c, n, now)
  \/ \E m \in Member : \E status \in {"active", "suspended"} : AddMember(m, status)
  \/ \E m \in Member, n \in Node : RegisterNode(m, n)
  \/ \E m \in Member, o \in Object : RegisterObject(m, o)
  \/ \E m \in Member, p \in PlacementId, o \in Object, n \in Node :
       \E status \in {"healthy", "failed"} : AddPlacement(m, p, o, n, status)
  \/ \E m \in Member, v \in Vault, cid \in Cid :
       \E version \in 1 .. MaxEvents, previous \in Cid \cup {null} :
         UpdateCatalogPointer(m, v, version, cid, previous)
  \/ \E m \in Member, entry \in Entries : RecordCredit(m, entry)
  \/ \E m \in Member, q \in Proposal, opens, closes \in Moment :
       CreateProposal(m, q, opens, closes)
  \/ \E m \in Member, q \in Proposal, choice \in {"yes", "no", "abstain"}, at \in Moment :
       CastVote(m, q, choice, at)

Spec == Init /\ [][Next]_vars
-----------------------------------------------------------------------------
(***************************************************************************)
(* The maps of the control plane keep their shape.                         *)
(***************************************************************************)
TypeOK ==
  /\ members \in [Member -> {"active", "suspended", null}]
  /\ nodes \in [Node -> Member \cup {null}]
  /\ objects \subseteq Object
  /\ placed \in [PlacementId -> [object : objects, node : Node,
                                 status : {"healthy", "failed"}] \cup {null}]
  /\ pointers \in [Vault -> [version : 1 .. MaxEvents, cid : Cid] \cup {null}]
  /\ proposals \in [Proposal -> [opens : Moment, closes : Moment] \cup {null}]
  /\ ballots \in [Proposal -> [Member -> {"yes", "no", "abstain", null}]]
  /\ challenges \in [Challenge -> [expires : Nat, consumed : BOOLEAN] \cup {null}]
  /\ nonces \subseteq Nonce
  /\ ledgers \in [Member -> Seq(Entries)]
  /\ IsABag(trail) /\ length \in 1 .. MaxEvents

EventsOf(kind, subject) == Copies(Event(kind, subject))

Once(kind, subject, stored) == EventsOf(kind, subject) = IF stored THEN 1 ELSE 0

(***************************************************************************)
(* The trail in an exported snapshot tells all that was stored, and        *)
(* nothing that was refused: members, nodes, objects, placements and       *)
(* proposals have one event each, a vault one for every version, a         *)
(* proposal one for every vote that counts, a ledger one for every entry,  *)
(* although credit is refused by an arithmetic check behind the caller's.  *)
(***************************************************************************)
TrailTellsAll ==
  /\ \A m \in Member : Once("membership_approved", m, members[m] # null /\ m # Founder)
  /\ \A n \in Node : Once("node_registered", n, nodes[n] # null)
  /\ \A o \in Object : Once("object_registered", o, o \in objects)
  /\ \A p \in PlacementId : Once("placement_created", p, placed[p] # null)
  /\ \A v \in Vault : EventsOf("catalog_pointer_updated", v)
                      = IF pointers[v] = null THEN 0 ELSE pointers[v].version
  /\ \A q \in Proposal :
       /\ Once("proposal_created", q, proposals[q] # null)
       /\ EventsOf("vote_cast", q) = Votes(q, "yes") + Votes(q, "no") + Votes(q, "abstain")
  /\ voteCount = Cardinality({b \in Proposal \X Member : ballots[b[1]][b[2]] # null})
  /\ \A m \in Member : EventsOf("credit_entry_recorded", m) = Len(ledgers[m])
=============================================================================
