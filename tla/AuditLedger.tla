---------------------------- MODULE AuditLedger ----------------------------
(***************************************************************************)
(* The public record of a community: votes and commons artifacts, each     *)
(* stored in one batch with its audit event, and the daily anchors that    *)
(* maintenance runs take of the events.  Handlers and runs interleave at   *)
(* every database round trip.                                              *)
(*                                                                         *)
(* Time is counted in days.  One community and one proposal: votes of      *)
(* other proposals and events of other handlers only make the chain's      *)
(* head move.  A Merkle root is the sequence of the hashes under it: those *)
(* of events are unique, so that repeating an odd leaf confuses no two.    *)
(***************************************************************************)
EXTENDS Naturals, FiniteSets, Sequences, AuditRows

CONSTANTS Member, Choice, Artifact, Handler, Runner, null,
          ClosesAt, \* the last day on which the proposal accepts votes
          MaxDay    \* bound: the clock stops here

ASSUME DayAssumption  == MaxDay \in Nat /\ ClosesAt \in Nat
ASSUME NullAssumption == null \notin Choice

Day == 0..MaxDay

\* A record is a vote of a member or an artifact; its event carries a day.
Record == [kind : {"vote_cast"}, subject : Member, choice : Choice]
          \cup [kind : {"commons_artifact_published"}, subject : Artifact]

Body(record, day) ==
  [kind |-> record.kind, subject |-> record.subject, occurredAt |-> day]

Bodies == [kind : {"vote_cast"}, subject : Member, occurredAt : Day]
          \cup [kind : {"commons_artifact_published"}, subject : Artifact,
                occurredAt : Day]

VARIABLES
  today,
  votes,     \* the choice of each member's row of votes, or null
  artifacts, \* the artifacts with a row
  events,    \* the rows of audit_events, in insertion order
  anchors,   \* the Merkle root anchored for each day, or null
  request,   \* what each handler wants to store and has prepared, or null
  run        \* the day a maintenance run anchors and the root it made, or null

vars == <<today, votes, artifacts, events, anchors, request, run>>

Init ==
  /\ today = 0
  /\ votes = [m \in Member |-> null]
  /\ artifacts = {}
  /\ events = <<>>
  /\ anchors = [d \in Day |-> null]
  /\ request = [h \in Handler |-> null]
  /\ run = [r \in Runner |-> null]

Tick ==
  /\ today < MaxDay
  /\ today' = today + 1
  /\ UNCHANGED <<votes, artifacts, events, anchors, request, run>>
-----------------------------------------------------------------------------
(***************************************************************************)
(* Handlers.                                                               *)
(***************************************************************************)
Begin(h, record, day) ==
  /\ request[h] = null
  /\ request' = [request EXCEPT ![h] =
       [step |-> "prepare", record |-> record, day |-> day, row |-> null]]
  /\ UNCHANGED <<today, votes, artifacts, events, anchors, run>>

\* The proposal is open; the event is dated when it is prepared.
BeginVote(h) ==
  \E m \in Member, c \in Choice :
    /\ today <= ClosesAt
    /\ Begin(h, [kind |-> "vote_cast", subject |-> m, choice |-> c], null)

\* The member says when the artifact was created, not later than now.
BeginArtifact(h) ==
  \E a \in Artifact, day \in 0..today :
    Begin(h, [kind |-> "commons_artifact_published", subject |-> a], day)

\* Mutant: a vote's event takes its day from the request, which has none.
OccurredAtRequest(h) == request[h].day

OccurredAt(h) == IF request[h].day = null THEN today ELSE request[h].day

PrepareAudit(h) ==
  /\ request[h] # null
  /\ request[h].step = "prepare"
  /\ request' = [request EXCEPT
       ![h].step = "commit",
       ![h].row = PrepareAuditEvent(events, Body(request[h].record, OccurredAt(h)))]
  /\ UNCHANGED <<today, votes, artifacts, events, anchors, run>>

\* The primary keys of votes and of commons_artifacts.
Stored(record) ==
  IF record.kind = "vote_cast"
  THEN votes[record.subject] # null
  ELSE record.subject \in artifacts

InsertRecord(record) ==
  IF record.kind = "vote_cast"
  THEN /\ votes' = [votes EXCEPT ![record.subject] = record.choice]
       /\ UNCHANGED artifacts
  ELSE artifacts' = artifacts \cup {record.subject} /\ UNCHANGED votes

\* Mutant: the event of a record that is there is stored all the same.
ThrowsOnChain(h) == InsertConflicts(events, request[h].row)

Throws(h) == Stored(request[h].record) \/ InsertConflicts(events, request[h].row)

\* One batch: the record and its event.
CommitRecord(h) ==
  /\ request[h] # null
  /\ request[h].step = "commit"
  /\ ~Throws(h)
  /\ InsertRecord(request[h].record)
  /\ events' = Append(events, request[h].row)
  /\ request' = [request EXCEPT ![h] = null]
  /\ UNCHANGED <<today, anchors, run>>

\* A constraint fails and the batch is rolled back.  The answer is
\* duplicate_vote or artifact_conflict, even if only the chain's head moved.
BatchThrows(h) ==
  /\ request[h] # null
  /\ request[h].step = "commit"
  /\ Throws(h)
  /\ request' = [request EXCEPT ![h] = null]
  /\ UNCHANGED <<today, votes, artifacts, events, anchors, run>>
-----------------------------------------------------------------------------
(***************************************************************************)
(* anchorPreviousUtcDay, at the end of a maintenance run.                  *)
(***************************************************************************)
HashesOf(rows) == [i \in DOMAIN rows |-> rows[i].hash]

\* The rows at some places of the table, in their order.
InOrder(rows, places) ==
  LET place(k) == CHOOSE i \in places : Cardinality({j \in places : j <= i}) = k
  IN  [k \in 1..Cardinality(places) |-> rows[place(k)]]

\* SELECT event_hash FROM audit_events WHERE occurred_at of the day, by sequence.
OnDay(rows, day) ==
  InOrder(rows, {i \in DOMAIN rows : rows[i].body.occurredAt = day})

\* Mutant: takes the events since the day began, without its end.
RootSince(rows, day) ==
  HashesOf(InOrder(rows, {i \in DOMAIN rows : rows[i].body.occurredAt >= day}))

\* The root over the events that occurred on a day, in the chain's order.
DayRoot(rows, day) == HashesOf(OnDay(rows, day))

\* A run anchors the day before the one on which it began.
BeginAnchor(r) ==
  /\ run[r] = null
  /\ today > 0
  /\ run' = [run EXCEPT ![r] = [day |-> today - 1, root |-> null]]
  /\ UNCHANGED <<today, votes, artifacts, events, anchors, request>>

SelectEvents(r) ==
  /\ run[r] # null
  /\ run[r].root = null
  /\ run' = [run EXCEPT ![r].root = DayRoot(events, run[r].day)]
  /\ UNCHANGED <<today, votes, artifacts, events, anchors, request>>

\* Mutant: INSERT OR REPLACE.
StoreAnchorAgain(day, root) == anchors' = [anchors EXCEPT ![day] = root]

\* INSERT OR IGNORE.
StoreAnchor(day, root) ==
  anchors' = [anchors EXCEPT ![day] = IF @ = null THEN root ELSE @]

InsertAnchor(r) ==
  /\ run[r] # null
  /\ run[r].root # null
  /\ StoreAnchor(run[r].day, run[r].root)
  /\ run' = [run EXCEPT ![r] = null]
  /\ UNCHANGED <<today, votes, artifacts, events, request>>
-----------------------------------------------------------------------------
Next ==
  \/ Tick
  \/ \E h \in Handler : \/ BeginVote(h) \/ BeginArtifact(h) \/ PrepareAudit(h)
                        \/ CommitRecord(h) \/ BatchThrows(h)
  \/ \E r \in Runner : BeginAnchor(r) \/ SelectEvents(r) \/ InsertAnchor(r)

Spec == Init /\ [][Next]_vars
-----------------------------------------------------------------------------
(***************************************************************************)
(* Tables, and what handlers and runs have read, keep their shape.         *)
(***************************************************************************)
TypeOK ==
  /\ today \in Day
  /\ votes \in [Member -> Choice \cup {null}]
  /\ artifacts \subseteq Artifact
  /\ events \in Seq(Rows(Bodies))
  /\ anchors \in [Day -> Seq(Hashes(Bodies)) \cup {null}]
  /\ request \in [Handler -> [step : {"prepare", "commit"}, record : Record,
                              day : Day \cup {null},
                              row : Rows(Bodies) \cup {null}] \cup {null}]
  /\ run \in [Runner -> [day : Day, root : Seq(Hashes(Bodies)) \cup {null}]
                        \cup {null}]

EventOf(kind, subject) ==
  {i \in DOMAIN events : events[i].body.kind = kind /\ events[i].body.subject = subject}

(***************************************************************************)
(* The trail is the public history of the record: every vote and artifact  *)
(* that is stored has exactly one event, and every event has its record,   *)
(* although the chain's head moves between a handler's read and its batch. *)
(***************************************************************************)
RecordsAudited ==
  /\ VerifyChain(events)
  /\ \A m \in Member : IF votes[m] = null
                       THEN EventOf("vote_cast", m) = {}
                       ELSE \E i \in DOMAIN events : EventOf("vote_cast", m) = {i}
  /\ \A a \in Artifact :
       IF a \in artifacts
       THEN \E i \in DOMAIN events : EventOf("commons_artifact_published", a) = {i}
       ELSE EventOf("commons_artifact_published", a) = {}

(***************************************************************************)
(* An anchor can be checked against the exported chain: it is the root of  *)
(* its day's events in some prefix of the chain, one with every event that *)
(* was stored when the run looked.  Later events of that day are not in it *)
(* (a late batch, or an artifact dated back).                              *)
(***************************************************************************)
AnchorsMatchTheChain ==
  \A d \in Day : anchors[d] # null =>
    \E n \in 0..Len(events) : anchors[d] = HashesOf(OnDay(SubSeq(events, 1, n), d))

(***************************************************************************)
(* What is published stays: an artifact and the anchor of a day are never  *)
(* replaced, whatever requests repeat it and whatever later run computes   *)
(* another root of that day.                                               *)
(***************************************************************************)
PublishedStays ==
  [][/\ artifacts \subseteq artifacts'
     /\ \A d \in Day : anchors[d] # null => anchors'[d] = anchors[d]]_vars

(***************************************************************************)
(* "Casting again replaces the counted choice" (docs/GOVERNANCE.md 4-5):   *)
(* when a cast is answered, and it did not lose its place in the chain,    *)
(* its choice is the one that counts.  FALSE, and checked by no run: the   *)
(* primary key of votes refuses every cast after the first.                *)
(***************************************************************************)
CastingAgainReplaces ==
  [][\A h \in Handler :
       /\ request[h] # null /\ request'[h] = null
       /\ request[h].record.kind = "vote_cast"
       /\ ~InsertConflicts(events, request[h].row)
       => votes'[request[h].record.subject] = request[h].record.choice]_vars
=============================================================================
